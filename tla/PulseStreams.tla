---------------------------- MODULE PulseStreams ----------------------------
(***************************************************************************)
(* The streams of lib/libsoundio/pulseaudio.c.  Callbacks run on the       *)
(* thread of the main loop while it holds its lock; the first write of an  *)
(* output stream is asked for on the client's thread, which then holds it. *)
(* The client waits in open and start until the stream is ready, with the  *)
(* lock released.  What has been recorded arrives in chunks, some of which *)
(* are holes.                                                              *)
(***************************************************************************)
EXTENDS StreamLoop

VARIABLES
  pa_state,     \* of the pa_stream: "NONE", "UNCONNECTED", "CREATING", "READY",
                \* "FAILED" or "TERMINATED"
  stream_ready,
  op,           \* of the timing update: "none", "running", "done" or "cancelled"
  corked,
  lock,         \* "free", or held by the "client" or the "main_loop"; "leaked"
  chunks,       \* recorded and not yet dropped
  peek_buf,     \* whether the first chunk has been peeked at
  peek_buf_index

record_vars == <<chunks, peek_buf, peek_buf_index>>
pulse_vars == <<pa_state, stream_ready, op, corked, lock, record_vars>>
vars == <<loop_vars, pulse_vars>>

Chunk == [frames : 1..PeriodSize, hole : BOOLEAN]

PaInit ==
  /\ pa_state = "NONE" /\ stream_ready = FALSE /\ op = "none"
  /\ corked = FALSE /\ lock = "free"
  /\ chunks = <<>> /\ peek_buf = FALSE /\ peek_buf_index = 0

-----------------------------------------------------------------------------
(* The thread of the main loop *)

StreamVars == <<direction, pc, buffered, callback_vars, clear_buffer_flag>>

\* PA_STREAM_READY, in either state callback
state_callback_ready ==
  /\ lock = "free" /\ pa_state = "CREATING"
  /\ pa_state' = "READY" /\ stream_ready' = TRUE
  /\ UNCHANGED <<stream, StreamVars, op, corked, lock, record_vars>>

\* PA_STREAM_FAILED: error_callback; libpulse cancels the operation.
state_callback_failed ==
  /\ lock = "free" /\ pa_state \in {"CREATING", "READY"}
  /\ pa_state' = "FAILED"
  /\ op' = IF op = "running" THEN "cancelled" ELSE op
  /\ UNCHANGED <<stream, StreamVars, stream_ready, corked, lock, record_vars>>

timing_update_callback ==
  /\ lock = "free" /\ op = "running" /\ op' = "done"
  /\ UNCHANGED <<stream, StreamVars, pa_state, stream_ready, corked, lock, record_vars>>

\* The server plays; an underflow is reported, no more.
Play ==
  /\ direction = "out" /\ pa_state = "READY" /\ ~corked /\ buffered > 0
  /\ buffered' = buffered - 1
  /\ UNCHANGED <<direction, stream, pc, callback_vars, clear_buffer_flag, pulse_vars>>

playback_stream_write_callback ==
  /\ direction = "out" /\ stream \in {"started", "joining"}
  /\ lock = "free" /\ pa_state = "READY"
  /\ buffered < Room
  /\ lock' = "main_loop" /\ CallBack("callback", Room - buffered)
  /\ UNCHANGED <<direction, stream, buffered, clear_buffer_flag, pa_state,
                 stream_ready, op, corked, record_vars>>

\* A chunk arrives,
Capture ==
  /\ direction = "in" /\ lock = "free" /\ pa_state = "READY" /\ ~corked
  /\ \E c \in Chunk :
       /\ buffered + c.frames <= Room
       /\ buffered' = buffered + c.frames
       /\ chunks' = Append(chunks, c)
  /\ lock' = "main_loop" /\ NoCallBack("arrived")
  /\ UNCHANGED <<direction, stream, clear_buffer_flag, pa_state, stream_ready, op,
                 corked, peek_buf, peek_buf_index>>

\* and the client is told how much there is, what it has read of the first
\* chunk included.
recording_stream_read_callback ==
  /\ pc = "arrived" /\ CallBack("callback", buffered)
  /\ UNCHANGED <<direction, stream, buffered, clear_buffer_flag, pulse_vars>>

-----------------------------------------------------------------------------
(* The client's thread *)

Unlocked == lock \in {"free", "leaked"}

outstream_open ==
  /\ direction = "out" /\ stream = "created"
  /\ clear_buffer_flag' = TRUE
  /\ stream_ready' = FALSE /\ corked' = TRUE
  /\ \/ stream' = "failed" /\ UNCHANGED pa_state
     \/ stream' = "opening" /\ pa_state' = "CREATING"
  /\ UNCHANGED <<direction, pc, buffered, callback_vars, op, lock, record_vars>>

instream_open ==
  /\ direction = "in" /\ stream = "created"
  /\ stream_ready' = FALSE
  /\ \/ stream' = "failed" /\ UNCHANGED pa_state
     \/ stream' = "opened" /\ pa_state' = "UNCONNECTED"
  /\ UNCHANGED <<StreamVars, op, corked, lock, record_vars>>

instream_start ==
  /\ direction = "in" /\ stream = "opened" /\ Unlocked
  /\ pa_state = "UNCONNECTED"
  /\ \/ stream' = "starting" /\ pa_state' = "CREATING"
     \/ UNCHANGED <<stream, pa_state>>
  /\ UNCHANGED <<StreamVars, stream_ready, op, corked, lock, record_vars>>

\* The wait ends when stream_ready is seen, not when the stream has failed.
ReadySeen ==
  /\ \/ stream = "opening"
     \/ stream = "starting" /\ direction = "in"
  /\ Unlocked /\ stream_ready
  /\ stream' = "timing"
  /\ op' = IF pa_state = "READY" THEN "running" ELSE "cancelled"
  /\ UNCHANGED <<StreamVars, pa_state, stream_ready, corked, lock, record_vars>>

\* perform_operation returns, in open or in start.
TimingEnds ==
  /\ stream = "timing" /\ Unlocked /\ op \in {"done", "cancelled"}
  /\ stream' = IF direction = "in" THEN "started"
               ELSE IF op = "done" THEN "opened" ELSE "failed"
  /\ op' = "none"
  /\ UNCHANGED <<StreamVars, pa_state, stream_ready, corked, lock, record_vars>>

outstream_start ==
  /\ direction = "out" /\ stream = "opened" /\ Unlocked
  /\ stream' = "starting" /\ lock' = "client"
  /\ UNCHANGED <<StreamVars, pa_state, stream_ready, op, corked, record_vars>>

\* pa_stream_writable_size is not checked: of a stream that has failed it is -1.
Prefill ==
  /\ direction = "out" /\ stream = "starting" /\ pc = "none"
  /\ CallBack("prefill", IF pa_state = "READY" THEN Room - buffered ELSE -1)
  /\ UNCHANGED <<direction, stream, buffered, clear_buffer_flag, pulse_vars>>

\* From any thread.
outstream_pause ==
  /\ direction = "out"
  /\ \/ Opened /\ Unlocked
     \/ pc = "callback"
  /\ pa_state = "READY"
  /\ corked' \in BOOLEAN
  /\ UNCHANGED <<loop_vars, pa_state, stream_ready, op, lock, record_vars>>

\* When the operation fails the lock is not given back.
instream_pause ==
  /\ direction = "in"
  /\ \/ stream = "started" /\ Unlocked
     \/ pc = "callback"
  /\ IF pa_state = "READY" THEN corked' \in BOOLEAN /\ UNCHANGED lock
     ELSE lock' = "leaked" /\ UNCHANGED corked
  /\ UNCHANGED <<loop_vars, pa_state, stream_ready, op, record_vars>>

Destroy ==
  \/ /\ stream = "started" /\ stream' = "joining"
     /\ UNCHANGED <<StreamVars, pulse_vars>>
  \/ /\ stream \in {"created", "failed", "opened"} /\ Unlocked
     /\ stream' = "destroyed" /\ pa_state' = "TERMINATED"
     /\ UNCHANGED <<StreamVars, stream_ready, op, corked, lock, record_vars>>

outstream_destroy == direction = "out" /\ Destroy
instream_destroy == direction = "in" /\ Destroy

\* The lock is free: no callback runs, and none will.
Disconnects ==
  /\ stream = "joining" /\ Unlocked
  /\ stream' = "destroyed" /\ pa_state' = "TERMINATED"
  /\ buffered' = 0
  /\ chunks' = <<>> /\ peek_buf' = FALSE /\ peek_buf_index' = 0
  /\ UNCHANGED <<direction, pc, callback_vars, clear_buffer_flag, stream_ready, op,
                 corked, lock>>

-----------------------------------------------------------------------------
(* The callbacks *)

Writing == direction = "out" /\ pc \in {"prefill", "callback"}
Reading == direction = "in" /\ pc = "callback"

outstream_begin_write ==
  /\ Writing /\ granted = 0
  /\ \E frame_count \in 1..frames_left : Grants(frame_count)
  /\ UNCHANGED <<direction, stream, pc, buffered, clear_buffer_flag, pulse_vars>>

\* If the buffer shall be cleared the write is relative to the read index.
outstream_end_write ==
  /\ Writing /\ granted > 0
  /\ clear_buffer_flag' = TRUE
  /\ buffered' = granted + IF clear_buffer_flag THEN buffered ELSE 0
  /\ Ends
  /\ UNCHANGED <<direction, stream, pc, pulse_vars>>

\* outstream_start goes on to uncork the stream.
PrefillReturns ==
  /\ pc = "prefill" /\ granted = 0
  /\ CallBack("none", 0)
  /\ stream' = "started" /\ lock' = "free"
  /\ corked' = (corked /\ pa_state # "READY")
  /\ UNCHANGED <<direction, buffered, clear_buffer_flag, pa_state, stream_ready, op,
                 record_vars>>

instream_begin_read ==
  /\ Reading /\ granted = 0
  /\ IF chunks # <<>> /\ ~peek_buf /\ Head(chunks).hole
     THEN /\ Grants(Head(chunks).frames)
          /\ UNCHANGED <<peek_buf, peek_buf_index>>
     ELSE /\ chunks # <<>>
          /\ peek_buf' = TRUE
          /\ peek_buf_index' = IF peek_buf THEN peek_buf_index ELSE 0
          /\ \E frame_count \in 1..frames_left :
               Grants(Min2(frame_count, Head(chunks).frames - peek_buf_index'))
  /\ UNCHANGED <<direction, stream, pc, buffered, clear_buffer_flag, pa_state,
                 stream_ready, op, corked, lock, chunks>>

\* Mutant: peek_buf_index is not advanced.
instream_end_read_again ==
  /\ Reading /\ granted > 0
  /\ LET drop == ~peek_buf \/ peek_buf_index + granted >= Head(chunks).frames
     IN  /\ chunks' = IF drop THEN Tail(chunks) ELSE chunks
         /\ buffered' = IF drop THEN buffered - Head(chunks).frames ELSE buffered
         /\ peek_buf' = (peek_buf /\ ~drop)
  /\ peek_buf_index' = 0
  /\ Ends
  /\ UNCHANGED <<direction, stream, pc, clear_buffer_flag, pa_state, stream_ready, op,
                 corked, lock>>

\* A hole, or a chunk that has been read, is dropped.
instream_end_read ==
  /\ Reading /\ granted > 0
  /\ LET drop == ~peek_buf \/ peek_buf_index + granted >= Head(chunks).frames
     IN  /\ chunks' = IF drop THEN Tail(chunks) ELSE chunks
         /\ buffered' = IF drop THEN buffered - Head(chunks).frames ELSE buffered
         /\ peek_buf' = (peek_buf /\ ~drop)
         /\ peek_buf_index' = IF drop THEN 0 ELSE peek_buf_index + granted
  /\ Ends
  /\ UNCHANGED <<direction, stream, pc, clear_buffer_flag, pa_state, stream_ready, op,
                 corked, lock>>

CallbackReturns ==
  /\ pc = "callback" /\ granted = 0
  /\ CallBack("none", 0)
  /\ lock' = "free"
  /\ UNCHANGED <<direction, stream, buffered, clear_buffer_flag, pa_state,
                 stream_ready, op, corked, record_vars>>

-----------------------------------------------------------------------------
Callback ==
  \/ outstream_begin_write \/ outstream_end_write \/ Prefill \/ PrefillReturns
  \/ instream_begin_read \/ instream_end_read \/ CallbackReturns
  \/ recording_stream_read_callback

MainLoop == state_callback_ready \/ timing_update_callback

Proceeds == ReadySeen \/ TimingEnds \/ Disconnects

Client ==
  \/ outstream_open \/ instream_open \/ instream_start \/ outstream_start
  \/ outstream_pause \/ instream_pause \/ outstream_destroy \/ instream_destroy
  \/ Proceeds
  \/ RequestClear /\ UNCHANGED pulse_vars

Next ==
  \/ MainLoop \/ state_callback_failed \/ Play \/ playback_stream_write_callback
  \/ Capture \/ Client \/ Callback
=============================================================================
