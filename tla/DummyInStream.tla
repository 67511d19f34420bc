---------------------------- MODULE DummyInStream ----------------------------
(***************************************************************************)
(* The input stream of lib/libsoundio/dummy.c: the thread of               *)
(* capture_thread_run, which pretends to capture as many frames as time    *)
(* has passed, and the client.  The time between two steps of the thread   *)
(* is arbitrary; from more than Room frames on it makes no difference.     *)
(***************************************************************************)
EXTENDS StreamLoop

VARIABLES
  abort_flag,       \* clear: the thread shall end
  pause_requested

dummy_vars == <<abort_flag, pause_requested>>
vars == <<loop_vars, dummy_vars>>

DummyInit == abort_flag = FALSE /\ pause_requested = FALSE

-----------------------------------------------------------------------------
(* The client's thread *)

instream_open ==
  /\ stream = "created" /\ stream' \in {"opened", "failed"}
  /\ pause_requested' = FALSE
  /\ UNCHANGED <<direction, pc, buffered, callback_vars, clear_buffer_flag, abort_flag>>

instream_start ==
  /\ stream = "opened"
  /\ abort_flag' = TRUE
  /\ \/ stream' = "started" /\ NoCallBack("check")
     \/ UNCHANGED <<stream, pc, callback_vars>>
  /\ UNCHANGED <<direction, buffered, clear_buffer_flag, pause_requested>>

instream_pause ==
  /\ Opened /\ pause_requested' \in BOOLEAN
  /\ UNCHANGED <<loop_vars, abort_flag>>

instream_destroy ==
  /\ \/ /\ stream = "started" /\ stream' = "joining"
        /\ abort_flag' = FALSE
     \/ /\ stream \in {"created", "failed", "opened"} /\ stream' = "destroyed"
        /\ UNCHANGED abort_flag
  /\ UNCHANGED <<direction, pc, buffered, callback_vars, clear_buffer_flag,
                 pause_requested>>

Join ==
  /\ stream = "joining" /\ pc = "ended"
  /\ stream' = "destroyed" /\ buffered' = 0
  /\ UNCHANGED <<direction, pc, callback_vars, clear_buffer_flag, dummy_vars>>

-----------------------------------------------------------------------------
(* The capture thread *)

CheckAbort ==
  /\ pc = "check"
  /\ abort_flag' = TRUE
  /\ NoCallBack(IF abort_flag THEN "woken" ELSE "ended")
  /\ UNCHANGED <<direction, stream, buffered, clear_buffer_flag, pause_requested>>

\* The client is told of what there was before this period.
Capture ==
  /\ pc = "woken"
  /\ IF pause_requested THEN NoCallBack("check") /\ UNCHANGED buffered
     ELSE \E frames_to_kill \in 0..(Room + 1) :
            /\ buffered' = buffered + Min2(frames_to_kill, Room - buffered)
            /\ IF buffered > 0 THEN CallBack("deliver", buffered)
               ELSE NoCallBack("check")
  /\ UNCHANGED <<direction, stream, clear_buffer_flag, dummy_vars>>

Deliver ==
  /\ pc = "deliver" /\ NoCallBack("callback")
  /\ UNCHANGED <<direction, stream, buffered, clear_buffer_flag, dummy_vars>>

instream_begin_read ==
  /\ pc = "callback" /\ granted = 0
  /\ \E frame_count \in 1..frames_left : Grants(frame_count)
  /\ UNCHANGED <<direction, stream, pc, buffered, clear_buffer_flag, dummy_vars>>

instream_end_read ==
  /\ pc = "callback" /\ granted > 0
  /\ buffered' = buffered - granted
  /\ Ends
  /\ UNCHANGED <<direction, stream, pc, clear_buffer_flag, dummy_vars>>

CallbackReturns ==
  /\ pc = "callback" /\ granted = 0
  /\ CallBack("check", 0)
  /\ UNCHANGED <<direction, stream, buffered, clear_buffer_flag, dummy_vars>>

-----------------------------------------------------------------------------
Thread ==
  \/ CheckAbort \/ Capture \/ Deliver
  \/ instream_begin_read \/ instream_end_read \/ CallbackReturns

Client == instream_open \/ instream_start \/ instream_pause \/ instream_destroy

Next == Thread \/ Client \/ Join
=============================================================================
