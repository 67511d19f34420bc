---------------------------- MODULE WasapiStreams ----------------------------
(***************************************************************************)
(* The streams of lib/libsoundio/wasapi.c.  A thread of its own opens the  *)
(* audio client of a stream, waits for start, runs the stream and calls    *)
(* its callback.  A shared stream waits for half of what is buffered and   *)
(* then for whatever the device needs; a raw one for an event, which the   *)
(* device sets for each period, and so do pause and destroy.               *)
(*                                                                         *)
(* Whatever can fail does so once the device is gone.                      *)
(***************************************************************************)
EXTENDS StreamLoop

VARIABLES
  audio_client,          \* "none", "stopped", "running", or "invalid": gone or released
  is_raw,
  h_event,               \* whether the event is set
  thread_exit_flag,      \* clear: the thread shall end
  is_paused,
  desired_pause_state,
  pause_resume_flag,     \* clear: the desired state shall be looked at
  opened_buf_frames,     \* the packet that the client reads,
  read_buf_frames_left   \* and what is left of it

pause_vars == <<is_paused, desired_pause_state, pause_resume_flag>>
packet == <<opened_buf_frames, read_buf_frames_left>>
wasapi_vars == <<audio_client, is_raw, h_event, thread_exit_flag, pause_vars, packet>>
vars == <<loop_vars, wasapi_vars>>

AudioInit ==
  /\ audio_client = "none" /\ is_raw = FALSE /\ h_event = FALSE
  /\ thread_exit_flag = TRUE
  /\ is_paused = FALSE /\ desired_pause_state = FALSE /\ pause_resume_flag = TRUE
  /\ opened_buf_frames = 0 /\ read_buf_frames_left = 0

-----------------------------------------------------------------------------
(* The device *)

Works == audio_client \in {"stopped", "running"}

DeviceVars == <<direction, stream, pc, callback_vars, clear_buffer_flag, is_raw,
                thread_exit_flag, pause_vars, packet>>

Period ==
  /\ audio_client = "running" /\ is_raw
  /\ h_event' = TRUE
  /\ buffered' = IF direction = "out" THEN buffered - Min2(PeriodSize, buffered)
                 ELSE Min2(Room, buffered + PeriodSize)
  /\ UNCHANGED <<DeviceVars, audio_client>>

\* What does not fit into a full buffer is dropped.
Frame ==
  /\ audio_client = "running" /\ ~is_raw
  /\ IF direction = "out" THEN buffered > 0 /\ buffered' = buffered - 1
     ELSE buffered < Room /\ buffered' = buffered + 1
  /\ UNCHANGED <<DeviceVars, audio_client, h_event>>

Unplug ==
  /\ Works /\ audio_client' = "invalid"
  /\ buffered' = 0
  /\ UNCHANGED <<DeviceVars, h_event>>

-----------------------------------------------------------------------------
(* The client's thread *)

FlowVars == <<buffered, callback_vars, packet>>

Open ==
  /\ stream = "created"
  /\ thread_exit_flag' = TRUE
  /\ is_raw' \in BOOLEAN
  /\ \/ stream' = "opening" /\ pc' = "open"
     \/ stream' = "failed" /\ UNCHANGED pc
  /\ UNCHANGED <<direction, FlowVars, audio_client, h_event, pause_vars>>

outstream_open == direction = "out" /\ Open /\ clear_buffer_flag' = TRUE
instream_open == direction = "in" /\ Open /\ UNCHANGED clear_buffer_flag

\* open_complete; if open_err is set, the thread is joined.
OpenReturns ==
  /\ stream = "opening" /\ pc \in {"waiting", "ended"}
  /\ stream' = IF pc = "waiting" THEN "opened" ELSE "failed"
  /\ UNCHANGED <<direction, pc, FlowVars, clear_buffer_flag, wasapi_vars>>

\* started
Start ==
  /\ stream = "opened" /\ stream' = "started"
  /\ UNCHANGED <<direction, pc, FlowVars, clear_buffer_flag, wasapi_vars>>

outstream_start == direction = "out" /\ Start
instream_start == direction = "in" /\ Start

\* From any thread.
outstream_pause ==
  /\ direction = "out" /\ Opened
  /\ desired_pause_state' \in BOOLEAN
  /\ pause_resume_flag' = FALSE
  /\ h_event' = is_raw
  /\ UNCHANGED <<loop_vars, audio_client, is_raw, thread_exit_flag, is_paused, packet>>

\* Stopping a client that does not run succeeds, starting one that does fails.
instream_pause ==
  /\ direction = "in" /\ stream = "started"
  /\ \/ ~is_paused /\ audio_client' = "stopped"
     \/ is_paused /\ audio_client = "stopped" /\ audio_client' = "running"
  /\ Works /\ is_paused' = ~is_paused
  /\ UNCHANGED <<loop_vars, is_raw, h_event, thread_exit_flag, desired_pause_state,
                 pause_resume_flag, packet>>

\* The signal reaches a thread that waits for start, too.
Destroy ==
  /\ \/ stream \in {"created", "failed"} /\ stream' = "destroyed"
        /\ UNCHANGED <<h_event, thread_exit_flag>>
     \/ /\ \/ stream = "opened" /\ stream' = "closing"
           \/ stream = "started" /\ stream' = "joining"
        /\ thread_exit_flag' = FALSE /\ h_event' = is_raw
  /\ UNCHANGED <<direction, pc, FlowVars, clear_buffer_flag, audio_client, is_raw,
                 pause_vars>>

outstream_destroy == direction = "out" /\ Destroy
instream_destroy == direction = "in" /\ Destroy

Join ==
  /\ stream \in {"closing", "joining"} /\ pc = "ended"
  /\ stream' = "destroyed" /\ buffered' = 0 /\ audio_client' = "none"
  /\ opened_buf_frames' = 0 /\ read_buf_frames_left' = 0
  /\ UNCHANGED <<direction, pc, callback_vars, clear_buffer_flag, is_raw, h_event,
                 thread_exit_flag, pause_vars>>

-----------------------------------------------------------------------------
(* The thread of either stream *)

IdleVars == <<direction, stream, buffered, is_raw, packet>>
FlagVars == <<clear_buffer_flag, pause_vars>>

\* outstream_do_open or instream_do_open
DoOpen ==
  /\ pc = "open"
  /\ \/ audio_client' = "stopped" /\ NoCallBack("waiting")
     \/ UNCHANGED audio_client /\ NoCallBack("ended")
  /\ UNCHANGED <<IdleVars, FlagVars, h_event, thread_exit_flag>>

\* Waits for start_cond.
AwaitStart ==
  /\ pc = "waiting"
  /\ \/ ~thread_exit_flag /\ NoCallBack("ended")
     \/ thread_exit_flag /\ stream = "started" /\ NoCallBack("run")
  /\ thread_exit_flag' = TRUE
  /\ UNCHANGED <<IdleVars, FlagVars, audio_client, h_event>>

\* The thread releases the client and returns.
ThreadEnds == NoCallBack("ended") /\ audio_client' = "invalid"

\* error_callback
Fails == ~Works /\ ThreadEnds

\* IAudioClient_Start, which fails if instream_pause has started the client.
Starts(at) ==
  /\ pc = at
  /\ IF audio_client = "stopped" THEN audio_client' = "running" /\ NoCallBack("loop")
     ELSE ThreadEnds
  /\ UNCHANGED <<IdleVars, FlagVars, h_event, thread_exit_flag>>

\* The event, or the end of a timed wait, after which the flag is tested and set.
TestExit(to) ==
  /\ pc = "loop"
  /\ is_raw => h_event
  /\ h_event' = FALSE
  /\ thread_exit_flag' = TRUE
  /\ IF thread_exit_flag THEN NoCallBack(to) /\ UNCHANGED audio_client ELSE ThreadEnds
  /\ UNCHANGED <<IdleVars, FlagVars>>

-----------------------------------------------------------------------------
(* outstream_shared_run and outstream_raw_run *)

\* The buffer is filled before the device is started.
Prefill ==
  /\ direction = "out" /\ pc = "run"
  /\ \/ (Works \/ is_raw) /\ CallBack("prefill", IF is_raw THEN PeriodSize ELSE Room)
     \/ ~is_raw /\ Fails
  /\ UNCHANGED <<IdleVars, FlagVars, audio_client, h_event, thread_exit_flag>>

\* The client is stopped and reset, and the state of pause looked at again.
TestClear ==
  /\ pc = "clear?"
  /\ clear_buffer_flag' = TRUE
  /\ \/ /\ clear_buffer_flag /\ NoCallBack("pause?")
        /\ UNCHANGED <<buffered, audio_client, pause_vars>>
     \/ /\ ~clear_buffer_flag /\ Works /\ NoCallBack("pause?")
        /\ audio_client' = "stopped" /\ buffered' = 0
        /\ is_paused' = TRUE /\ pause_resume_flag' = FALSE
        /\ UNCHANGED desired_pause_state
     \/ ~clear_buffer_flag /\ Fails /\ UNCHANGED <<buffered, pause_vars>>
  /\ UNCHANGED <<direction, stream, is_raw, packet, h_event, thread_exit_flag>>

TestPause ==
  /\ pc = "pause?"
  /\ pause_resume_flag' = TRUE
  /\ LET change == ~pause_resume_flag /\ desired_pause_state # is_paused
     IN  \/ ~change /\ NoCallBack("ask") /\ UNCHANGED <<audio_client, is_paused>>
         \/ /\ change /\ Works /\ NoCallBack("ask")
            /\ is_paused' = desired_pause_state
            /\ audio_client' = IF is_paused' THEN "stopped" ELSE "running"
         \/ change /\ Fails /\ UNCHANGED is_paused
  /\ UNCHANGED <<IdleVars, clear_buffer_flag, desired_pause_state, h_event,
                 thread_exit_flag>>

\* A raw stream does not ask how much room there is.
Ask(frames) ==
  /\ pc = "ask"
  /\ \/ is_raw /\ CallBack("callback", PeriodSize)
     \/ ~is_raw /\ Works /\ frames > 0 /\ CallBack("callback", frames)
     \/ ~is_raw /\ Works /\ frames = 0 /\ NoCallBack("loop")
     \/ ~is_raw /\ Fails
  /\ UNCHANGED <<IdleVars, FlagVars, audio_client, h_event, thread_exit_flag>>

\* A shared stream asks what is buffered before it waits, too.
PaddingFails ==
  /\ pc = "loop" /\ ~is_raw /\ Fails
  /\ UNCHANGED <<IdleVars, FlagVars, h_event, thread_exit_flag>>

OutThread ==
  /\ direction = "out"
  /\ \/ Prefill \/ Starts("start") \/ PaddingFails
     \/ TestExit(IF is_raw THEN "pause?" ELSE "clear?")
     \/ TestClear \/ TestPause \/ Ask(Room - buffered)

WriteVars == <<direction, stream, clear_buffer_flag, wasapi_vars>>
Writing == direction = "out" /\ pc \in {"prefill", "callback"}

\* IAudioRenderClient_GetBuffer: all of frame_count, or an error.
outstream_begin_write ==
  /\ Writing /\ granted = 0
  /\ \E frame_count \in 1..frames_left :
       IF /\ Works /\ frame_count <= Room - buffered
          /\ is_raw => frame_count = PeriodSize
       THEN Grants(frame_count)
       ELSE ReturnsError
  /\ UNCHANGED <<WriteVars, pc, buffered>>

outstream_end_write ==
  /\ Writing /\ granted > 0
  /\ IF Works THEN buffered' = buffered + granted /\ Ends
     ELSE ReturnsError /\ UNCHANGED buffered
  /\ UNCHANGED <<WriteVars, pc>>

WriteReturns ==
  /\ Writing /\ granted = 0
  /\ pc' = IF pc = "prefill" THEN "start" ELSE "loop"
  /\ frames_left' = 0
  /\ UNCHANGED <<WriteVars, granted, buffered>>

Write == outstream_begin_write \/ outstream_end_write \/ WriteReturns

-----------------------------------------------------------------------------
(* instream_shared_run and instream_raw_run *)

InThread ==
  /\ direction = "in"
  /\ Starts("run") \/ TestExit("ask") \/ Ask(buffered)

ReadVars == <<direction, stream, clear_buffer_flag, audio_client, is_raw, h_event,
              thread_exit_flag, pause_vars, pc>>
Reading == direction = "in" /\ pc = "callback"

\* A packet is had when the last one has been read.  A client that is granted
\* no frame returns.
instream_begin_read ==
  /\ Reading /\ granted = 0 /\ frames_left > 0
  /\ \/ /\ read_buf_frames_left > 0
        /\ \E frame_count \in 1..frames_left :
             Grants(Min2(frame_count, read_buf_frames_left))
        /\ UNCHANGED packet
     \/ /\ read_buf_frames_left = 0 /\ Works /\ buffered > 0
        /\ opened_buf_frames' = Min2(PeriodSize, buffered)
        /\ read_buf_frames_left' = opened_buf_frames'
        /\ \E frame_count \in 1..frames_left :
             Grants(Min2(frame_count, opened_buf_frames'))
     \/ /\ read_buf_frames_left = 0 /\ (Works => buffered = 0)
        /\ ReturnsError /\ UNCHANGED packet
  /\ UNCHANGED <<ReadVars, buffered>>

\* IAudioCaptureClient_ReleaseBuffer, once all of the packet has been read.
instream_end_read ==
  /\ Reading /\ granted > 0
  /\ read_buf_frames_left' = read_buf_frames_left - granted
  /\ LET release == read_buf_frames_left' = 0
     IN  \/ ~release /\ Ends /\ UNCHANGED buffered
         \/ release /\ Works /\ Ends /\ buffered' = buffered - opened_buf_frames
         \/ release /\ ~Works /\ ReturnsError /\ UNCHANGED buffered
  /\ UNCHANGED <<ReadVars, opened_buf_frames>>

ReadReturns ==
  /\ Reading /\ granted = 0
  /\ CallBack("loop", 0)
  /\ UNCHANGED <<IdleVars, FlagVars, audio_client, h_event, thread_exit_flag>>

Read == instream_begin_read \/ instream_end_read \/ ReadReturns

-----------------------------------------------------------------------------
Device == Period \/ Frame
Thread == DoOpen \/ AwaitStart \/ OutThread \/ Write \/ InThread \/ Read

Client ==
  \/ outstream_open \/ instream_open \/ OpenReturns \/ outstream_start \/ instream_start
  \/ outstream_pause \/ instream_pause \/ outstream_destroy \/ instream_destroy
  \/ ~is_raw /\ RequestClear /\ UNCHANGED wasapi_vars

Next == Client \/ Join \/ Thread \/ Device \/ Unplug
=============================================================================
