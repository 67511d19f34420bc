---------------------------- MODULE DeviceEvents ----------------------------
(***************************************************************************)
(* What soundio.h promises of the events of a backend: both callbacks run  *)
(* only during a call of flush_events or wait_events, the list of devices  *)
(* that the client sees changes only there and right before                *)
(* on_devices_change, on_backend_disconnect runs at most once, and after   *)
(* the first flush there is a list or the client knows that there is none. *)
(***************************************************************************)
CONSTANT DeviceLists

VARIABLES
  calling,       \* whether the client is in one of the calls
  callback,      \* the callback that runs: "none", "devices" or "disconnect"
  list,          \* the lists that the client sees, at most one
  disconnected   \* whether on_backend_disconnect has been called

vars == <<calling, callback, list, disconnected>>

Init ==
  /\ calling = FALSE /\ callback = "none" /\ disconnected = FALSE
  /\ list = {} \/ \E l \in DeviceLists : list = {l}

Call ==
  /\ ~calling /\ calling' = TRUE
  /\ UNCHANGED <<callback, list, disconnected>>

ChangeDevices ==
  /\ calling /\ callback = "none"
  /\ callback' = "devices"
  /\ \E l \in DeviceLists : list' = {l}
  /\ UNCHANGED <<calling, disconnected>>

Disconnect ==
  /\ calling /\ callback = "none" /\ ~disconnected
  /\ callback' = "disconnect"
  /\ disconnected' = TRUE
  /\ UNCHANGED <<calling, list>>

CallbackReturns ==
  /\ callback # "none" /\ callback' = "none"
  /\ calling' \in BOOLEAN
  /\ UNCHANGED <<list, disconnected>>

Return ==
  /\ calling /\ callback = "none"
  /\ list # {} \/ disconnected
  /\ calling' = FALSE
  /\ UNCHANGED <<callback, list, disconnected>>

\* soundio_disconnect or soundio_destroy
Destroy ==
  /\ ~calling /\ list' = {}
  /\ UNCHANGED <<calling, callback, disconnected>>

Next ==
  Call \/ ChangeDevices \/ Disconnect \/ CallbackReturns \/ Return \/ Destroy
Spec == Init /\ [][Next]_vars
=============================================================================
