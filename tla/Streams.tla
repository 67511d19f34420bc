------------------------------- MODULE Streams -------------------------------
(***************************************************************************)
(* The streams of a connection to one of the backends: soundio.c passes    *)
(* every call for a stream to the backend's function.  A stream is opened, *)
(* started and destroyed once.  The output stream of the dummy backend is  *)
(* the subject of DummyOutStream.                                          *)
(***************************************************************************)
EXTENDS StreamLoop

CONSTANT MaxInterruptions

VARIABLES
  current_backend,
  pcm, suspended_state, interruptions, access, thread_exit_flag, poll_exit_pipe,
  is_paused, stale,
  pa_state, stream_ready, op, corked, lock, chunks, peek_buf, peek_buf_index,
  jack_client, nframes, is_shutdown,
  abort_flag, pause_requested,
  instance,
  audio_client, is_raw, h_event, desired_pause_state, pause_resume_flag,
  opened_buf_frames, read_buf_frames_left

Alsa == INSTANCE AlsaStreams
Pulse == INSTANCE PulseStreams
Jack == INSTANCE JackStreams
Dummy == INSTANCE DummyInStream
CoreAudio == INSTANCE CoreAudioStreams
Wasapi == INSTANCE WasapiStreams

\* ALSA's streams and WASAPI's have these.
shared == <<thread_exit_flag, is_paused>>
alsa == <<pcm, suspended_state, interruptions, access, poll_exit_pipe, stale>>
pulse == <<pa_state, stream_ready, op, corked, lock, chunks, peek_buf, peek_buf_index>>
jack == <<jack_client, nframes, is_shutdown>>
dummy == <<abort_flag, pause_requested>>
wasapi == <<audio_client, is_raw, h_event, desired_pause_state, pause_resume_flag,
            opened_buf_frames, read_buf_frames_left>>
vars == <<loop_vars, current_backend, shared, alsa, pulse, jack, dummy, instance, wasapi>>

Init ==
  /\ LoopInit
  /\ Alsa!PcmInit /\ Pulse!PaInit /\ Jack!JackInit /\ Dummy!DummyInit
  /\ CoreAudio!UnitInit /\ Wasapi!AudioInit
  /\ current_backend \in {"alsa", "pulseaudio", "jack", "coreaudio", "wasapi", "dummy"}
  /\ current_backend = "dummy" => direction = "in"

InAlsa ==
  /\ current_backend = "alsa"
  /\ UNCHANGED <<current_backend, pulse, jack, dummy, instance, wasapi>>
InPulse ==
  /\ current_backend = "pulseaudio"
  /\ UNCHANGED <<current_backend, shared, alsa, jack, dummy, instance, wasapi>>
InJack ==
  /\ current_backend = "jack"
  /\ UNCHANGED <<current_backend, shared, alsa, pulse, dummy, instance, wasapi>>
InDummy ==
  /\ current_backend = "dummy"
  /\ UNCHANGED <<current_backend, shared, alsa, pulse, jack, instance, wasapi>>
InCoreAudio ==
  /\ current_backend = "coreaudio"
  /\ UNCHANGED <<current_backend, shared, alsa, pulse, jack, dummy, wasapi>>
InWasapi ==
  /\ current_backend = "wasapi"
  /\ UNCHANGED <<current_backend, alsa, pulse, jack, dummy, instance>>

Next ==
  \/ InAlsa /\ Alsa!Next
  \/ InPulse /\ Pulse!Next
  \/ InJack /\ Jack!Next
  \/ InDummy /\ Dummy!Next
  \/ InCoreAudio /\ CoreAudio!Next
  \/ InWasapi /\ Wasapi!Next

Spec == Init /\ [][Next]_vars

-----------------------------------------------------------------------------
(* Fairness: threads are scheduled and callbacks return; a device that     *)
(* runs goes on, the server answers, and a join or a wait returns when     *)
(* what it waits for has happened.                                         *)

FairSpec ==
  /\ Spec
  /\ WF_vars(InAlsa /\ Alsa!Thread)
  /\ WF_vars(InAlsa /\ Alsa!Device)
  /\ WF_vars(InAlsa /\ Alsa!Join)
  /\ WF_vars(InPulse /\ Pulse!Callback)
  /\ SF_vars(InPulse /\ Pulse!MainLoop)
  /\ SF_vars(InPulse /\ Pulse!Proceeds)
  /\ WF_vars(InJack /\ Jack!Callback)
  /\ SF_vars(InJack /\ Jack!ClientClosed)
  /\ WF_vars(InDummy /\ Dummy!Thread)
  /\ WF_vars(InDummy /\ Dummy!Join)
  /\ WF_vars(InCoreAudio /\ CoreAudio!Callback)
  /\ SF_vars(InCoreAudio /\ CoreAudio!Disposed)
  /\ WF_vars(InWasapi /\ Wasapi!Thread)
  /\ WF_vars(InWasapi /\ (Wasapi!OpenReturns \/ Wasapi!Join))

-----------------------------------------------------------------------------
(* Properties *)

IsOut == direction = "out"
IsIn == direction = "in"

\* In its call of instream_start the client has an input stream, in that of
\* outstream_open it has no output stream yet.
Stream ==
  CASE stream \in {"failed", "opening"} -> "created"
    [] stream = "timing" -> IF IsIn THEN "started" ELSE "created"
    [] stream \in {"starting", "joining"} -> "started"
    [] stream = "closing" -> "opened"
    [] stream = "closed" -> "destroyed"
    [] OTHER -> stream

\* Without the callback of a PulseAudio stream that has failed, which is told of
\* -1 frames.
InCallback == pc \in {"prefill", "callback"} /\ frames_left >= 0

\* JACK, CoreAudio and the raw devices of WASAPI do not support it.
Clears == current_backend \notin {"jack", "coreaudio"} /\ ~is_raw

Allowance == IF InCallback THEN frames_left ELSE 0

Gone == audio_client = "invalid"

\* Until the thread has recovered the device; a thread that cannot has given up,
\* and its client been told of an error.
Broken ==
  \/ Gone \/ pc = "ended"
  \/ current_backend = "alsa" /\ pcm \in {"XRUN", "SUSPENDED", "DISCONNECTED"}

\* A device that runs plays a frame, or a period, at a time; between two callbacks
\* JACK and CoreAudio play what they were given.
Due ==
  CASE current_backend = "alsa" -> IF pcm = "RUNNING" THEN 1 ELSE 0
    [] current_backend = "pulseaudio" -> IF pa_state = "READY" /\ ~corked THEN 1 ELSE 0
    [] current_backend = "wasapi" ->
         IF audio_client # "running" THEN 0 ELSE IF is_raw THEN PeriodSize ELSE 1
    [] OTHER -> IF pc = "none" THEN buffered ELSE 0

Playing == INSTANCE OutStream WITH
  stream <- IF IsOut THEN Stream ELSE "created",
  clear <- IsOut /\ Clears /\ Stream \in {"opened", "started"} /\ ~clear_buffer_flag,
  callback <- IsOut /\ InCallback,
  allowance <- IF IsOut THEN Allowance ELSE 0,
  granted <- IF IsOut THEN granted ELSE 0,
  buffered <- IF IsOut /\ pc # "ended" THEN buffered ELSE 0,
  due <- Due,
  broken <- Broken

\* An event that pause has set makes WASAPI call a raw stream's callback, for a
\* period, whether there is room for it or not.
CallsEarly ==
  /\ current_backend = "wasapi" /\ IsOut /\ buffered > Room - PeriodSize
  /\ is_raw /\ Wasapi!Ask(0)

(***************************************************************************)
(* Every backend's output stream keeps what soundio.h promises: each       *)
(* callback is asked for at least one frame and for no more than fit, no   *)
(* frame is committed twice, overwritten or dropped but by a clear that    *)
(* was asked for or the recovery of a device that had stopped, none is     *)
(* played while the device is paused, and no callback runs once destroy    *)
(* has returned; while the device starves, is suspended or unplugged       *)
(* between any two steps of the thread.  WASAPI fails it in one case,      *)
(* which is left out: CallsEarly.                                          *)
(***************************************************************************)
OutStreamsKeepPromises ==
  Playing!Init /\ [][Playing!Next \/ CallsEarly]_(Playing!vars)

\* snd_pcm_readi has taken what it grants from the device; PulseAudio counts what
\* has been read of a chunk until it drops the chunk, and WASAPI so with a packet.
Captured ==
  CASE current_backend = "alsa" /\ access = "rw" /\ ~stale -> buffered + granted
    [] read_buf_frames_left > 0 -> buffered - (opened_buf_frames - read_buf_frames_left)
    [] OTHER -> buffered - peek_buf_index

\* JACK and CoreAudio take back, before the next cycle, what was not read; the end
\* of a stale grant may recover an ALSA device that runs again.
Overrun == stale \/ (current_backend \in {"jack", "coreaudio"} /\ pc = "none")

Recording == INSTANCE InStream WITH
  stream <- IF IsIn THEN Stream ELSE "created",
  callback <- IsIn /\ InCallback,
  allowance <- IF IsIn THEN Allowance ELSE 0,
  granted <- IF IsIn /\ ~stale /\ ~Gone THEN granted ELSE 0,
  captured <- IF IsIn /\ ~Gone THEN Captured ELSE 0,
  broken <- Broken \/ Overrun

\* A device suspended between snd_pcm_mmap_begin and snd_pcm_mmap_commit is
\* resumed, end_read succeeds, and the frames stay to be read again.
ReadsAgain ==
  /\ current_backend = "alsa" /\ access = "mmap" /\ pcm = "SUSPENDED"
  /\ Alsa!instream_end_read

(***************************************************************************)
(* Every backend's input stream keeps what soundio.h promises: each frame  *)
(* captured is granted at most once, none that was not captured is, and    *)
(* none is lost but by an overrun, a suspension or a device that is gone;  *)
(* through partial reads, holes, overruns within a callback and            *)
(* suspensions.  ALSA fails it in two cases, which are left out:           *)
(* ReadsAgain, and the stale frames after a recovery.                      *)
(***************************************************************************)
InStreamsKeepPromises ==
  Recording!Init /\ [][Recording!Next \/ ReadsAgain]_(Recording!vars)

Calling == stream \in {"opening", "starting", "timing", "closing", "joining"}

(***************************************************************************)
(* Every call for a stream returns; above all destroy, which waits for the *)
(* thread or the callback whatever these are doing.  Two cases are left    *)
(* out because the code fails them: a PulseAudio stream that fails before  *)
(* it is ready, and an ALSA input stream that is destroyed while paused.   *)
(***************************************************************************)
CallsReturn ==
  Calling ~> \/ ~Calling
             \/ current_backend = "pulseaudio" /\ pa_state = "FAILED" /\ ~stream_ready
             \/ current_backend = "alsa" /\ IsIn /\ pcm = "PAUSED"
=============================================================================
