----------------------------- MODULE AlsaStreams -----------------------------
(***************************************************************************)
(* The streams of lib/libsoundio/alsa.c: the thread of a stream, which     *)
(* dispatches on the state of the PCM, the callback it calls, the client's *)
(* thread and the device, whose PCM changes state on its own: it starves   *)
(* or overruns, is suspended and resumed, and may be unplugged.            *)
(***************************************************************************)
EXTENDS StreamLoop

CONSTANT MaxInterruptions  \* bounds the suspensions and the overruns

VARIABLES
  pcm,              \* the state of the PCM
  suspended_state,  \* its state when it was suspended
  interruptions,
  access,           \* "rw" or "mmap"
  thread_exit_flag, \* clear: the thread shall end
  poll_exit_pipe,   \* whether the pipe can be read
  is_paused,
  stale             \* the frames granted are none that the device captured

device == <<pcm, suspended_state, interruptions>>
exit_vars == <<thread_exit_flag, poll_exit_pipe>>
alsa_vars == <<device, access, exit_vars, is_paused, stale>>
vars == <<loop_vars, alsa_vars>>

PcmInit ==
  /\ pcm = "OPEN" /\ suspended_state = "OPEN" /\ interruptions = 0
  /\ access = "rw"
  /\ thread_exit_flag = TRUE /\ poll_exit_pipe = FALSE
  /\ is_paused = FALSE /\ stale = FALSE

-----------------------------------------------------------------------------
(* The device *)

Accessible == pcm \in {"PREPARED", "RUNNING", "PAUSED"}

Suspend ==
  /\ Accessible \/ pcm = "XRUN"
  /\ interruptions < MaxInterruptions
  /\ interruptions' = interruptions + 1
  /\ pcm' = "SUSPENDED" /\ suspended_state' = pcm
  /\ UNCHANGED <<loop_vars, access, exit_vars, is_paused, stale>>

Unplug ==
  /\ pcm \notin {"OPEN", "DISCONNECTED"} /\ pcm' = "DISCONNECTED"
  /\ UNCHANGED <<loop_vars, suspended_state, interruptions, access, exit_vars,
                 is_paused, stale>>

\* The last frame played is an underrun.
Play ==
  /\ direction = "out" /\ pcm = "RUNNING" /\ buffered > 0
  /\ buffered' = buffered - 1
  /\ pcm' = IF buffered = 1 THEN "XRUN" ELSE pcm
  /\ UNCHANGED <<direction, stream, pc, callback_vars, clear_buffer_flag,
                 suspended_state, interruptions, access, exit_vars, is_paused, stale>>

\* A full buffer is an overrun.
Capture ==
  /\ direction = "in" /\ pcm = "RUNNING"
  /\ buffered' = buffered + 1
  /\ IF buffered' < Room THEN UNCHANGED <<pcm, interruptions>>
     ELSE /\ interruptions < MaxInterruptions
          /\ interruptions' = interruptions + 1
          /\ pcm' = "XRUN"
  /\ UNCHANGED <<direction, stream, pc, callback_vars, clear_buffer_flag,
                 suspended_state, access, exit_vars, is_paused, stale>>

\* What a thread that polls the PCM waits for: a period, or an error.
PollOut == Room - buffered >= PeriodSize \/ ~Accessible
PollIn == buffered >= PeriodSize \/ ~Accessible

\* snd_pcm_prepare
Prepare ==
  /\ pcm \notin {"RUNNING", "DISCONNECTED"}
  /\ pcm' = "PREPARED" /\ buffered' = 0

\* snd_pcm_resume, or snd_pcm_prepare if that does not work.
Resume ==
  \/ pcm = "SUSPENDED" /\ pcm' = suspended_state /\ UNCHANGED buffered
  \/ Prepare

-----------------------------------------------------------------------------
(* The client's thread *)

OpenFails ==
  /\ stream = "created" /\ stream' = "failed"
  /\ UNCHANGED <<direction, pc, buffered, callback_vars, alsa_vars>>

OpenSucceeds ==
  /\ stream = "created" /\ stream' = "opened"
  /\ access' \in {"rw", "mmap"}
  /\ pcm' = "PREPARED"
  /\ UNCHANGED <<direction, pc, buffered, callback_vars, suspended_state,
                 interruptions, exit_vars, is_paused, stale>>

outstream_open ==
  /\ direction = "out"
  /\ OpenFails \/ OpenSucceeds
  /\ clear_buffer_flag' = TRUE

instream_open ==
  /\ direction = "in"
  /\ OpenFails \/ OpenSucceeds
  /\ UNCHANGED clear_buffer_flag

ThreadCreated == stream' = "started" /\ pc' = "state" /\ UNCHANGED pcm

StartVars == <<direction, buffered, callback_vars, clear_buffer_flag,
               suspended_state, interruptions, access, poll_exit_pipe, is_paused,
               stale>>

outstream_start ==
  /\ direction = "out" /\ stream = "opened"
  /\ thread_exit_flag' = TRUE
  /\ ThreadCreated \/ UNCHANGED <<stream, pc, pcm>>
  /\ UNCHANGED StartVars

\* An input stream that cannot be started is destroyed at once.
instream_start ==
  /\ direction = "in" /\ stream = "opened"
  /\ thread_exit_flag' = TRUE
  /\ \/ ThreadCreated
     \/ stream' = "closed" /\ pcm' = "OPEN" /\ UNCHANGED pc
  /\ UNCHANGED StartVars

\* From any thread.  is_paused follows snd_pcm_pause alone.
Pause(pause) ==
  /\ Opened
  /\ is_paused # pause
  /\ pcm = IF pause THEN "RUNNING" ELSE "PAUSED"
  /\ pcm' = IF pause THEN "PAUSED" ELSE "RUNNING"
  /\ is_paused' = pause
  /\ UNCHANGED <<loop_vars, suspended_state, interruptions, access, exit_vars, stale>>

outstream_pause == direction = "out" /\ \E pause \in BOOLEAN : Pause(pause)
instream_pause == direction = "in" /\ \E pause \in BOOLEAN : Pause(pause)

Close == stream' = "destroyed" /\ pcm' = "OPEN" /\ buffered' = 0

CloseVars == <<direction, pc, callback_vars, clear_buffer_flag, suspended_state,
               interruptions, access, is_paused, stale>>

\* Mutant: the thread is not woken.
outstream_destroy_asleep ==
  /\ direction = "out"
  /\ \/ /\ stream \in {"created", "failed", "opened"} /\ Close
        /\ UNCHANGED exit_vars
     \/ /\ stream = "started" /\ stream' = "joining"
        /\ thread_exit_flag' = FALSE
        /\ UNCHANGED <<pcm, buffered, poll_exit_pipe>>
  /\ UNCHANGED CloseVars

outstream_destroy ==
  /\ direction = "out"
  /\ \/ /\ stream \in {"created", "failed", "opened"} /\ Close
        /\ UNCHANGED exit_vars
     \/ /\ stream = "started" /\ stream' = "joining"
        /\ thread_exit_flag' = FALSE /\ poll_exit_pipe' = TRUE
        /\ UNCHANGED <<pcm, buffered>>
  /\ UNCHANGED CloseVars

instream_destroy ==
  /\ direction = "in"
  /\ \/ /\ stream \in {"created", "failed", "opened", "closed"} /\ Close
        /\ UNCHANGED thread_exit_flag
     \/ /\ stream = "started" /\ stream' = "joining"
        /\ thread_exit_flag' = FALSE
        /\ UNCHANGED <<pcm, buffered>>
  /\ UNCHANGED <<CloseVars, poll_exit_pipe>>

Join ==
  /\ stream = "joining" /\ pc = "ended"
  /\ Close
  /\ UNCHANGED <<CloseVars, exit_vars>>

-----------------------------------------------------------------------------
(* The thread of either stream *)

FlagVars == <<clear_buffer_flag, exit_vars>>
IdleVars == <<direction, stream, access, is_paused, stale>>

ReadState ==
  /\ pc = "state" /\ NoCallBack(pcm)
  /\ UNCHANGED <<IdleVars, buffered, device, FlagVars>>

\* error_callback; the thread returns.
Fails == NoCallBack("ended") /\ UNCHANGED <<buffered, pcm>>

Setup ==
  /\ pc = "SETUP"
  /\ \/ Prepare /\ NoCallBack("state")
     \/ Fails
  /\ UNCHANGED <<IdleVars, suspended_state, interruptions, FlagVars>>

\* outstream_xrun_recovery and instream_xrun_recovery
Recover ==
  /\ \/ pc = "XRUN" /\ Prepare /\ NoCallBack("state")
     \/ pc = "SUSPENDED" /\ Resume /\ NoCallBack("state")
     \/ pc \in {"XRUN", "SUSPENDED"} /\ Fails
  /\ UNCHANGED <<IdleVars, suspended_state, interruptions, FlagVars>>

Disconnected ==
  /\ pc \in {"OPEN", "DISCONNECTED"} /\ Fails
  /\ UNCHANGED <<IdleVars, suspended_state, interruptions, FlagVars>>

\* Tests and sets thread_exit_flag.
TestExit(from, to) ==
  /\ pc = from
  /\ thread_exit_flag' = TRUE
  /\ NoCallBack(IF thread_exit_flag THEN to ELSE "ended")
  /\ UNCHANGED <<IdleVars, buffered, device, clear_buffer_flag, poll_exit_pipe>>

\* poll, or snd_pcm_poll_descriptors_revents after it, returns an error while the
\* thread waits for the device; that of an input stream then sets its flag.
PollFails ==
  /\ pc \in {"RUNNING", "PAUSED"} /\ Fails
  /\ thread_exit_flag' = (thread_exit_flag \/ direction = "in")
  /\ UNCHANGED <<IdleVars, suspended_state, interruptions, clear_buffer_flag,
                 poll_exit_pipe>>

\* snd_pcm_avail_update: the state may have changed since it was read.
Avail(frames) ==
  /\ pc = "avail"
  /\ IF Accessible
     THEN IF frames > 0 THEN CallBack("callback", frames) ELSE NoCallBack("state")
     ELSE NoCallBack(IF pcm \in {"XRUN", "SUSPENDED"} THEN pcm ELSE "ended")
  /\ UNCHANGED <<IdleVars, buffered, device, FlagVars>>

-----------------------------------------------------------------------------
(* outstream_thread_run *)

\* An empty buffer is filled before the device is started.
OutPrepared ==
  /\ direction = "out" /\ pc = "PREPARED"
  /\ \/ /\ pcm = "PREPARED" /\ buffered = 0
        /\ CallBack("prefill", Room) /\ UNCHANGED <<buffered, pcm>>
     \/ /\ pcm = "PREPARED" /\ buffered > 0
        /\ pcm' = "RUNNING" /\ NoCallBack("state") /\ UNCHANGED buffered
     \/ Fails
  /\ UNCHANGED <<IdleVars, suspended_state, interruptions, FlagVars>>

outstream_wait_for_poll ==
  /\ direction = "out" /\ pc \in {"RUNNING", "PAUSED"}
  /\ PollOut \/ poll_exit_pipe
  /\ NoCallBack("polled")
  /\ UNCHANGED <<IdleVars, buffered, device, FlagVars>>

\* Mutant: the flag is tested the wrong way round.
TestClearInverted ==
  /\ pc = "clear?"
  /\ clear_buffer_flag' = TRUE
  /\ \/ ~clear_buffer_flag /\ NoCallBack("avail") /\ UNCHANGED <<buffered, pcm>>
     \/ /\ clear_buffer_flag /\ pcm # "DISCONNECTED"
        /\ pcm' = "SETUP" /\ buffered' = 0 /\ NoCallBack("state")
     \/ clear_buffer_flag /\ Fails
  /\ UNCHANGED <<IdleVars, suspended_state, interruptions, exit_vars>>

\* snd_pcm_drop and snd_pcm_reset, if the buffer shall be cleared.
TestClear ==
  /\ pc = "clear?"
  /\ clear_buffer_flag' = TRUE
  /\ \/ clear_buffer_flag /\ NoCallBack("avail") /\ UNCHANGED <<buffered, pcm>>
     \/ /\ ~clear_buffer_flag /\ pcm # "DISCONNECTED"
        /\ pcm' = "SETUP" /\ buffered' = 0 /\ NoCallBack("state")
     \/ ~clear_buffer_flag /\ Fails
  /\ UNCHANGED <<IdleVars, suspended_state, interruptions, exit_vars>>

OutThread ==
  \/ OutPrepared \/ outstream_wait_for_poll
  \/ TestExit("polled", "clear?") \/ TestExit("filled", "state")
  \/ TestClear
  \/ direction = "out" /\ Avail(Room - buffered)

WriteVars == <<direction, stream, suspended_state, interruptions, access, FlagVars,
               is_paused, stale>>
Writing == direction = "out" /\ pc \in {"prefill", "callback"}

outstream_begin_write ==
  /\ Writing /\ granted = 0
  /\ \E frame_count \in 1..frames_left :
       \/ access = "rw" /\ Grants(Min2(frame_count, PeriodSize))
       \/ access = "mmap" /\ Accessible /\ \E n \in 1..frame_count : Grants(n)
       \/ access = "mmap" /\ ~Accessible /\ ReturnsError
  /\ UNCHANGED <<WriteVars, pc, buffered, pcm>>

\* With a start_threshold of 0 snd_pcm_writei starts the device.
outstream_end_write ==
  /\ Writing /\ granted > 0
  /\ IF Accessible
     THEN /\ buffered' = buffered + granted
          /\ pcm' = IF access = "rw" /\ pcm = "PREPARED" THEN "RUNNING" ELSE pcm
          /\ Ends
     ELSE ReturnsError /\ UNCHANGED <<buffered, pcm>>
  /\ UNCHANGED <<WriteVars, pc>>

WriteReturns ==
  /\ Writing /\ granted = 0
  /\ pc' = IF pc = "prefill" THEN "filled" ELSE "state"
  /\ frames_left' = 0
  /\ UNCHANGED <<WriteVars, granted, buffered, pcm>>

Write == outstream_begin_write \/ outstream_end_write \/ WriteReturns

-----------------------------------------------------------------------------
(* instream_thread_run *)

InPrepared ==
  /\ direction = "in" /\ pc = "PREPARED"
  /\ \/ /\ pcm = "PREPARED" /\ pcm' = "RUNNING"
        /\ NoCallBack("state") /\ UNCHANGED buffered
     \/ Fails
  /\ UNCHANGED <<IdleVars, suspended_state, interruptions, FlagVars>>

\* Nothing but the device, or an error, ends this wait.
instream_wait_for_poll ==
  /\ direction = "in" /\ pc \in {"RUNNING", "PAUSED"}
  /\ PollIn
  /\ NoCallBack("read?")
  /\ UNCHANGED <<IdleVars, buffered, device, FlagVars>>

InThread ==
  \/ InPrepared \/ instream_wait_for_poll
  \/ TestExit("read?", "avail")
  \/ direction = "in" /\ Avail(buffered)

ReadVars == <<direction, stream, suspended_state, interruptions, access, FlagVars,
              is_paused, pc>>
Reading == direction = "in" /\ pc = "callback"

\* snd_pcm_readi starts the device if need be, blocks until it has the frames and
\* takes them from it; snd_pcm_mmap_begin does not.
\* After a recovery the client is granted what it asked for all the same.
instream_begin_read ==
  /\ Reading /\ granted = 0
  /\ \E frame_count \in 1..frames_left :
       \/ /\ Accessible /\ access = "rw"
          /\ LET n == Min2(frame_count, PeriodSize)
             IN  IF pcm = "PREPARED"
                 THEN pcm' = "RUNNING" /\ UNCHANGED <<buffered, callback_vars, stale>>
                 ELSE /\ buffered >= n /\ buffered' = buffered - n
                      /\ Grants(n) /\ stale' = FALSE
                      /\ UNCHANGED pcm
       \/ /\ Accessible /\ access = "mmap" /\ stale' = FALSE
          /\ \E n \in 1..Min2(frame_count, buffered) : Grants(n)
          /\ UNCHANGED <<buffered, pcm>>
       \/ /\ ~Accessible /\ Resume /\ stale' = TRUE
          /\ Grants(IF access = "rw" THEN Min2(frame_count, PeriodSize) ELSE frame_count)
       \/ ~Accessible /\ ReturnsError /\ UNCHANGED <<buffered, pcm, stale>>
  /\ UNCHANGED ReadVars

\* snd_pcm_mmap_commit
instream_end_read ==
  /\ Reading /\ granted > 0
  /\ \/ access = "rw" /\ Ends /\ UNCHANGED <<buffered, pcm>>
     \/ /\ access = "mmap" /\ Accessible /\ ~stale
        /\ buffered' = buffered - granted /\ UNCHANGED pcm
        /\ Ends
     \/ /\ access = "mmap" /\ (~Accessible \/ stale)
        /\ \/ Resume /\ Ends
           \/ ReturnsError /\ UNCHANGED <<buffered, pcm>>
  /\ stale' = FALSE
  /\ UNCHANGED ReadVars

ReadReturns ==
  /\ Reading /\ granted = 0
  /\ CallBack("state", 0)
  /\ UNCHANGED <<IdleVars, buffered, device, FlagVars>>

Read == instream_begin_read \/ instream_end_read \/ ReadReturns

-----------------------------------------------------------------------------
Device == Play \/ Capture
Thread ==
  \/ ReadState \/ Setup \/ Recover \/ Disconnected
  \/ OutThread \/ Write \/ InThread \/ Read

Client ==
  \/ outstream_open \/ instream_open \/ outstream_start \/ instream_start
  \/ outstream_pause \/ instream_pause \/ outstream_destroy \/ instream_destroy
  \/ RequestClear /\ UNCHANGED alsa_vars

Next == Client \/ Join \/ Thread \/ PollFails \/ Device \/ Suspend \/ Unplug
=============================================================================
