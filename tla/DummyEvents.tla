----------------------------- MODULE DummyEvents -----------------------------
(***************************************************************************)
(* lib/libsoundio/dummy.c: the events of a backend whose devices never     *)
(* change.  wait_events waits on a condition variable that only            *)
(* soundio_wakeup signals, and does not flush afterwards.                  *)
(***************************************************************************)
EXTENDS EventLoop

VARIABLE devices_emitted

vars == <<loop_vars, devices_emitted>>

Connected == devices = Devices /\ safe = {devices}

Init == LoopInit /\ Connected /\ devices_emitted = FALSE

\* flush_events_dummy
FlushEmits ==
  /\ client = "enter" /\ ~Head(waits)
  /\ devices_emitted' = TRUE
  /\ IF devices_emitted THEN NextCall
     ELSE client' = "callback" /\ callback' = "devices" /\ UNCHANGED waits
  /\ UNCHANGED <<world, lists, errors>>

WaitReturns ==
  /\ client = "awake" /\ NextCall
  /\ UNCHANGED <<world, lists, errors, devices_emitted>>

Client ==
  \/ (Call \/ Sleep \/ CallbackReturns)
     /\ UNCHANGED <<world, lists, errors, devices_emitted>>
  \/ FlushEmits \/ WaitReturns

Wakeup ==
  /\ client = "asleep" /\ Signal
  /\ UNCHANGED <<world, lists, errors, devices_emitted>>

Destroy ==
  /\ client = "idle" /\ client' = "gone"
  /\ safe' = {}
  /\ UNCHANGED <<world, waits, callback, found, ready, errors, devices_emitted>>

Next == Client \/ Wakeup \/ Destroy
=============================================================================
