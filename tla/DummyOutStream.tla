--------------------------- MODULE DummyOutStream ---------------------------
(***************************************************************************)
(* The output stream of lib/libsoundio/dummy.c: the thread of              *)
(* playback_thread_run, the client's write_callback that it calls, and the *)
(* functions the client calls from its own thread.  They share two atomic  *)
(* flags and an atomic boolean.  The ring buffer is written, read and      *)
(* cleared by the playback thread alone, so that its fill count stands for *)
(* it; RingBuffer models its inside.                                       *)
(*                                                                         *)
(* Time is counted in frames at the stream's rate.  MaxDue bounds how late *)
(* the thread may run.                                                     *)
(***************************************************************************)
EXTENDS Integers

CONSTANTS CapacityBytes, BytesPerFrame, MaxDue

ASSUME DummyAssumption ==
  /\ BytesPerFrame \in Nat \ {0}
  /\ CapacityBytes \in Nat
  /\ MaxDue \in Nat

VARIABLES
  stream,             \* "created", "failed", "opened", "started", "joining"
                      \* or "destroyed"
  abort_flag,         \* clear: the thread shall end
  clear_buffer_flag,  \* clear: the buffer shall be cleared
  pause_requested,
  pc,                 \* where the playback thread is
  fill_bytes,         \* of the ring buffer
  frames_left, write_frame_count,
  begun,              \* between begin_write and end_write
  restarts,           \* start_time is set after this callback
  due,                \* total_frames - frames_consumed
  since               \* frames since the thread last took the time

client_vars == <<stream, abort_flag>>
thread_vars == <<pc, fill_bytes, frames_left, write_frame_count, begun, restarts,
                 due, since>>
vars == <<client_vars, clear_buffer_flag, pause_requested, thread_vars>>

Frames(bytes) == bytes \div BytesPerFrame
free_frames == Frames(CapacityBytes - fill_bytes)

\* calloc leaves the flags clear.
Init ==
  /\ stream = "created" /\ pc = "none"
  /\ abort_flag = FALSE /\ clear_buffer_flag = FALSE
  /\ pause_requested = FALSE
  /\ fill_bytes = 0
  /\ frames_left = 0 /\ write_frame_count = 0 /\ begun = FALSE
  /\ restarts = FALSE
  /\ due = 0 /\ since = 0

-----------------------------------------------------------------------------
(* The client's thread *)

Open ==
  /\ stream = "created"
  /\ stream' \in {"opened", "failed"}
  /\ clear_buffer_flag' = TRUE
  /\ pause_requested' = FALSE
  /\ UNCHANGED <<abort_flag, thread_vars>>

Start ==
  /\ stream = "opened"
  /\ abort_flag' = TRUE
  /\ \/ stream' = "started" /\ pc' = "first"
     \/ UNCHANGED <<stream, pc>>  \* no thread could be created
  /\ UNCHANGED <<clear_buffer_flag, pause_requested, fill_bytes, frames_left,
                 write_frame_count, begun, restarts, due, since>>

InUse == stream \in {"opened", "started"}

\* From any thread, write_callback included.
Pause ==
  /\ InUse \/ pc = "callback"
  /\ pause_requested' \in BOOLEAN
  /\ UNCHANGED <<client_vars, clear_buffer_flag, thread_vars>>

ClearBuffer ==
  /\ InUse
  /\ clear_buffer_flag' = FALSE
  /\ UNCHANGED <<client_vars, pause_requested, thread_vars>>

Destroy ==
  /\ stream \in {"created", "failed"} \/ InUse
  /\ IF stream = "started"
     THEN stream' = "joining" /\ abort_flag' = FALSE
     ELSE stream' = "destroyed" /\ UNCHANGED abort_flag
  /\ UNCHANGED <<clear_buffer_flag, pause_requested, thread_vars>>

Join ==
  /\ stream = "joining" /\ pc = "exited"
  /\ stream' = "destroyed"
  /\ UNCHANGED <<abort_flag, clear_buffer_flag, pause_requested, thread_vars>>

-----------------------------------------------------------------------------
(* The playback thread *)

\* frames_left is set and, unless it is 0, write_callback called.
Ask(frames, restart) ==
  /\ frames_left' = frames
  /\ restarts' = restart
  /\ pc' = IF frames > 0 THEN "call" ELSE "check"
  /\ UNCHANGED <<write_frame_count, begun, since>>

First ==
  /\ pc = "first"
  /\ Ask(free_frames, TRUE)
  /\ due' = 0
  /\ UNCHANGED <<client_vars, clear_buffer_flag, pause_requested, fill_bytes>>

\* The head of the loop: abort_flag is tested and set.
CheckAbort ==
  /\ pc = "check"
  /\ abort_flag' = TRUE
  /\ pc' = IF abort_flag THEN "wait" ELSE "exited"
  /\ since' = 0
  /\ UNCHANGED <<stream, clear_buffer_flag, pause_requested, fill_bytes,
                 frames_left, write_frame_count, begun, restarts, due>>

\* Mutant: pause_requested is looked at before clear_buffer_flag.
TimedWaitPausedFirst ==
  /\ pc = "wait"
  /\ pc' = IF pause_requested THEN "pause?" ELSE "woken"
  /\ UNCHANGED <<client_vars, clear_buffer_flag, pause_requested, fill_bytes,
                 frames_left, write_frame_count, begun, restarts, due, since>>

\* The timed wait ends: signalled, spuriously or at the end of the period.
TimedWait ==
  /\ pc = "wait" /\ pc' = "woken"
  /\ UNCHANGED <<client_vars, clear_buffer_flag, pause_requested, fill_bytes,
                 frames_left, write_frame_count, begun, restarts, due, since>>

\* Mutant: the flag is tested the wrong way round.
CheckClearInverted ==
  /\ pc = "woken"
  /\ clear_buffer_flag' = TRUE
  /\ IF ~clear_buffer_flag
     THEN /\ pc' = "pause?"
          /\ UNCHANGED <<fill_bytes, frames_left, write_frame_count, begun,
                         restarts, due, since>>
     ELSE /\ fill_bytes' = 0
          /\ Ask(Frames(CapacityBytes), TRUE)
          /\ due' = 0
  /\ UNCHANGED <<client_vars, pause_requested>>

CheckClear ==
  /\ pc = "woken"
  /\ clear_buffer_flag' = TRUE
  /\ IF clear_buffer_flag
     THEN /\ pc' = "pause?"
          /\ UNCHANGED <<fill_bytes, frames_left, write_frame_count, begun,
                         restarts, due, since>>
     ELSE /\ fill_bytes' = 0
          /\ Ask(Frames(CapacityBytes), TRUE)
          /\ due' = 0
  /\ UNCHANGED <<client_vars, pause_requested>>

\* Mutant: a paused thread goes on waiting without a look at abort_flag.
CheckPauseWaits ==
  /\ pc = "pause?"
  /\ IF pause_requested THEN pc' = "wait" /\ due' = since
     ELSE pc' = "consume" /\ UNCHANGED due
  /\ UNCHANGED <<client_vars, clear_buffer_flag, pause_requested, fill_bytes,
                 frames_left, write_frame_count, begun, restarts, since>>

\* When paused, start_time is the time taken before the wait.
CheckPause ==
  /\ pc = "pause?"
  /\ IF pause_requested THEN pc' = "check" /\ due' = since
     ELSE pc' = "consume" /\ UNCHANGED due
  /\ UNCHANGED <<client_vars, clear_buffer_flag, pause_requested, fill_bytes,
                 frames_left, write_frame_count, begun, restarts, since>>

\* Mutant: the frames_to_kill are taken from the buffer although it has fewer.
ConsumeAll ==
  /\ pc = "consume"
  /\ fill_bytes' = fill_bytes - due * BytesPerFrame
  /\ due' = 0
  /\ Ask(free_frames, FALSE)
  /\ UNCHANGED <<client_vars, clear_buffer_flag, pause_requested>>

\* free_frames is that of before the frames are taken.
Consume ==
  /\ pc = "consume"
  /\ LET fill_frames == Frames(fill_bytes)
         underflow == due > fill_frames
         read_count == IF underflow THEN fill_frames ELSE due
     IN  /\ fill_bytes' = fill_bytes - read_count * BytesPerFrame
         /\ due' = IF underflow THEN 0 ELSE due - read_count
         /\ Ask(free_frames, underflow)
  /\ UNCHANGED <<client_vars, clear_buffer_flag, pause_requested>>

Call ==
  /\ pc = "call" /\ pc' = "callback"
  /\ UNCHANGED <<client_vars, clear_buffer_flag, pause_requested, fill_bytes,
                 frames_left, write_frame_count, begun, restarts, due, since>>

(* write_callback: any number of writes, each begun and ended.             *)

\* A frame_count below 1 or beyond frames_left is an error and changes nothing.
BeginWrite ==
  /\ pc = "callback" /\ ~begun
  /\ \E frame_count \in 1..frames_left : write_frame_count' = frame_count
  /\ begun' = TRUE
  /\ UNCHANGED <<client_vars, clear_buffer_flag, pause_requested, pc, fill_bytes,
                 frames_left, restarts, due, since>>

\* Mutant: frames_left is not counted down.
EndWriteUncounted ==
  /\ pc = "callback" /\ begun
  /\ fill_bytes' = fill_bytes + write_frame_count * BytesPerFrame
  /\ begun' = FALSE
  /\ UNCHANGED <<client_vars, clear_buffer_flag, pause_requested, pc, frames_left,
                 write_frame_count, restarts, due, since>>

EndWrite ==
  /\ pc = "callback" /\ begun
  /\ fill_bytes' = fill_bytes + write_frame_count * BytesPerFrame
  /\ frames_left' = frames_left - write_frame_count
  /\ begun' = FALSE
  /\ UNCHANGED <<client_vars, clear_buffer_flag, pause_requested, pc,
                 write_frame_count, restarts, due, since>>

Return ==
  /\ pc = "callback" /\ ~begun
  /\ pc' = "check"
  /\ due' = IF restarts THEN 0 ELSE due
  /\ UNCHANGED <<client_vars, clear_buffer_flag, pause_requested, fill_bytes,
                 frames_left, write_frame_count, begun, restarts, since>>

-----------------------------------------------------------------------------
\* A frame's time passes.
Tick ==
  /\ pc \notin {"none", "exited"}
  /\ due < MaxDue
  /\ due' = due + 1
  /\ since' = IF since < MaxDue THEN since + 1 ELSE since
  /\ UNCHANGED <<client_vars, clear_buffer_flag, pause_requested, pc, fill_bytes,
                 frames_left, write_frame_count, begun, restarts>>

Client == Open \/ Start \/ Pause \/ ClearBuffer \/ Destroy \/ Join

Callback == BeginWrite \/ EndWrite \/ Return

Thread ==
  \/ First \/ CheckAbort \/ TimedWait \/ CheckClear \/ CheckPause \/ Consume
  \/ Call \/ Callback

Next == Client \/ Thread \/ Tick

Spec == Init /\ [][Next]_vars

\* The thread is scheduled, its wait is timed, the callback is suitable for
\* real time; a join returns once the thread has ended.
FairSpec == Spec /\ WF_vars(Thread) /\ WF_vars(Join)

-----------------------------------------------------------------------------
(* Properties *)

FlagsOK ==
  /\ stream \in {"created", "failed", "opened", "started", "joining", "destroyed"}
  /\ abort_flag \in BOOLEAN /\ clear_buffer_flag \in BOOLEAN
  /\ pause_requested \in BOOLEAN
  /\ begun \in BOOLEAN /\ restarts \in BOOLEAN
  /\ pc \in {"none", "first", "check", "wait", "woken", "pause?", "consume", "call",
             "callback", "exited"}

CountsOK ==
  /\ fill_bytes \in 0..CapacityBytes
  /\ frames_left \in 0..Frames(CapacityBytes)
  /\ write_frame_count \in 0..Frames(CapacityBytes)
  /\ due \in 0..MaxDue /\ since \in 0..MaxDue

TypeOK == FlagsOK /\ CountsOK

(***************************************************************************)
(* Whatever the callback has been allowed to write fits behind what the    *)
(* buffer holds, and what begin_write granted is within it: so no write    *)
(* overruns the ring buffer (ring_buffer.c:72), although the thread counts *)
(* the free frames before it takes frames out, and in whole frames of a    *)
(* capacity that need not be a multiple of them.                           *)
(***************************************************************************)
GrantFits ==
  pc \in {"call", "callback"} =>
    /\ fill_bytes + frames_left * BytesPerFrame <= CapacityBytes
    /\ begun => write_frame_count <= frames_left

(***************************************************************************)
(* The stream keeps what soundio.h promises (OutStream): in particular no  *)
(* callback runs once soundio_outstream_destroy has returned; and frames   *)
(* that were written stay until their time has come, or are dropped by a   *)
(* clear that was asked for: the device never breaks.                      *)
(***************************************************************************)
Promised == INSTANCE OutStream WITH
  Room <- Frames(CapacityBytes),
  stream <- CASE stream = "failed" -> "created"
              [] stream = "joining" -> "started"
              [] OTHER -> stream,
  clear <- stream \in {"opened", "started", "joining"} /\ ~clear_buffer_flag,
  callback <- pc = "callback",
  allowance <- IF pc = "callback" THEN frames_left ELSE 0,
  granted <- IF begun THEN write_frame_count ELSE 0,
  buffered <- IF stream = "destroyed" THEN 0 ELSE Frames(fill_bytes),
  due <- due,
  broken <- FALSE

KeepsPromises == Promised!Spec

(***************************************************************************)
(* soundio_outstream_clear_buffer works on a paused stream, too, and its   *)
(* request is not lost whatever the thread is doing when it comes.         *)
(***************************************************************************)
ClearIsServed ==
  (stream = "started" /\ ~clear_buffer_flag) ~>
    (clear_buffer_flag \/ stream # "started")

(***************************************************************************)
(* soundio_outstream_destroy returns, although the signal that shall wake  *)
(* the thread may come while it is not waiting.                            *)
(***************************************************************************)
DestroyReturns == (stream = "joining") ~> (stream = "destroyed")
=============================================================================
