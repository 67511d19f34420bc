--------------------------- MODULE CoreAudioStreams ---------------------------
(***************************************************************************)
(* The streams of lib/libsoundio/coreaudio.c.  Each is an audio unit, and  *)
(* while this runs, CoreAudio calls the unit's callback once for each      *)
(* buffer, on a thread of its own.  write_callback must fill the buffer,   *)
(* read_callback take it, as a whole.                                      *)
(***************************************************************************)
EXTENDS StreamLoop

VARIABLE instance  \* the audio unit: "none", "stopped" or "running"

vars == <<loop_vars, instance>>

UnitInit == instance = "none"

-----------------------------------------------------------------------------
(* CoreAudio *)

\* The buffer is played, or what has not been read of it is gone.
CycleEnds ==
  /\ pc = "none" /\ buffered > 0
  /\ buffered' = 0
  /\ UNCHANGED <<direction, stream, pc, callback_vars, clear_buffer_flag, instance>>

\* in_number_frames varies.
CycleBegins ==
  /\ instance = "running" /\ pc = "none" /\ buffered = 0
  /\ IF direction = "out" THEN UNCHANGED buffered ELSE buffered' \in 1..Room
  /\ NoCallBack("cycle")
  /\ UNCHANGED <<direction, stream, clear_buffer_flag, instance>>

CycleVars == <<direction, stream, buffered, clear_buffer_flag, instance>>

write_callback_ca ==
  /\ direction = "out" /\ pc = "cycle"
  /\ \E in_number_frames \in 1..Room : CallBack("callback", in_number_frames)
  /\ UNCHANGED CycleVars

\* AudioUnitRender may fail; then error_callback is called.
read_callback_ca ==
  /\ direction = "in" /\ pc = "cycle"
  /\ CallBack("callback", buffered) \/ NoCallBack("none")
  /\ UNCHANGED CycleVars

-----------------------------------------------------------------------------
(* The client *)

ClientVars == <<direction, pc, buffered, callback_vars, clear_buffer_flag>>

\* A failure disposes of the unit again.
Open ==
  /\ stream = "created"
  /\ \/ stream' = "failed" /\ UNCHANGED instance
     \/ stream' = "opened" /\ instance' = "stopped"
  /\ UNCHANGED ClientVars

outstream_open_ca == direction = "out" /\ Open
instream_open_ca == direction = "in" /\ Open

\* outstream_pause and instream_pause: AudioOutputUnitStart or Stop, which may fail.
UnitRuns(run) == instance' = IF run THEN "running" ELSE "stopped"

Pause ==
  /\ stream = "started"
  /\ \E pause \in BOOLEAN : UnitRuns(~pause)
  /\ UNCHANGED <<ClientVars, stream>>

outstream_pause_ca == direction = "out" /\ Pause
instream_pause_ca == direction = "in" /\ Pause

Start ==
  /\ stream = "opened" /\ stream' = "started"
  /\ UnitRuns(TRUE)
  /\ UNCHANGED ClientVars

outstream_start_ca == direction = "out" /\ Start
instream_start_ca == direction = "in" /\ Start

Destroy ==
  \/ /\ stream = "started" /\ stream' = "joining"
     /\ instance' = "stopped"
     /\ UNCHANGED ClientVars
  \/ /\ stream \in {"created", "failed", "opened"} /\ stream' = "destroyed"
     /\ instance' = "none"
     /\ UNCHANGED ClientVars

outstream_destroy_ca == direction = "out" /\ Destroy
instream_destroy_ca == direction = "in" /\ Destroy

\* AudioComponentInstanceDispose: no callback runs, and none will.
Disposed ==
  /\ stream = "joining" /\ pc = "none"
  /\ stream' = "destroyed" /\ instance' = "none"
  /\ buffered' = 0
  /\ UNCHANGED <<direction, pc, callback_vars, clear_buffer_flag>>

-----------------------------------------------------------------------------
(* The callback: any other frame_count is an error. *)

BeginAll ==
  /\ pc = "callback" /\ granted = 0 /\ frames_left > 0
  /\ Grants(frames_left)
  /\ UNCHANGED CycleVars /\ UNCHANGED pc

EndAll(new_buffered) ==
  /\ pc = "callback" /\ granted > 0
  /\ buffered' = new_buffered
  /\ Ends
  /\ UNCHANGED <<direction, stream, pc, clear_buffer_flag, instance>>

outstream_begin_write_ca == direction = "out" /\ BeginAll
outstream_end_write_ca == direction = "out" /\ EndAll(buffered + granted)
instream_begin_read_ca == direction = "in" /\ BeginAll
instream_end_read_ca == direction = "in" /\ EndAll(buffered - granted)

CallbackReturns ==
  /\ pc = "callback" /\ granted = 0
  /\ CallBack("none", 0)
  /\ UNCHANGED CycleVars

-----------------------------------------------------------------------------
Callback ==
  \/ write_callback_ca \/ read_callback_ca
  \/ outstream_begin_write_ca \/ outstream_end_write_ca
  \/ instream_begin_read_ca \/ instream_end_read_ca \/ CallbackReturns

Client ==
  \/ outstream_open_ca \/ instream_open_ca \/ outstream_start_ca \/ instream_start_ca
  \/ outstream_pause_ca \/ instream_pause_ca
  \/ outstream_destroy_ca \/ instream_destroy_ca

Next == Callback \/ CycleBegins \/ CycleEnds \/ Client \/ Disposed
=============================================================================
