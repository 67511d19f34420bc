----------------------------- MODULE JackEvents -----------------------------
(***************************************************************************)
(* lib/libsoundio/jack.c: the callbacks of JACK's notification thread and  *)
(* the client's thread in my_flush_events, which makes the list of devices *)
(* itself, port by port, after it has released the mutex.                  *)
(***************************************************************************)
EXTENDS EventLoop

VARIABLES
  event,                 \* whether JACK will call one of its callbacks
  notify,                \* "idle", or "cleared" in notify_devices_change
  refresh_devices_flag,  \* clear: the devices shall be refreshed
  port_names             \* those that remain to be looked up

jack_vars == <<event, notify, refresh_devices_flag, port_names>>
vars == <<loop_vars, jack_vars>>

\* soundio_jack_init has made the first list.
Connected == devices # {} /\ safe = {devices}

NotifyInit ==
  /\ event = FALSE /\ notify = "idle" /\ refresh_devices_flag = FALSE
  /\ port_names = {}

Init == LoopInit /\ Connected /\ NotifyInit

-----------------------------------------------------------------------------
(* JACK *)

Runs == client # "gone"

\* A port comes, goes or is renamed; the buffer size or the rate changes.
Change ==
  /\ Runs /\ DevicesChange
  /\ \E S \in (SUBSET Devices) \ {devices} : devices' = S
  /\ event' = TRUE
  /\ UNCHANGED <<calling, lists, errors, notify, refresh_devices_flag, port_names>>

\* notify_devices_change clears the flag,
NotifyClears ==
  /\ Runs /\ event /\ notify = "idle"
  /\ event' = FALSE /\ notify' = "cleared"
  /\ refresh_devices_flag' = FALSE
  /\ UNCHANGED <<loop_vars, port_names>>

\* then signals with the mutex held.
NotifySignals ==
  /\ notify = "cleared" /\ notify' = "idle"
  /\ Signal
  /\ UNCHANGED <<world, lists, errors, event, refresh_devices_flag, port_names>>

shutdown_callback ==
  /\ Runs /\ ~failed
  /\ failed' = TRUE /\ err' = TRUE
  /\ event' = FALSE
  /\ Signal
  /\ UNCHANGED <<devices, changes, lists, emitted, notify, refresh_devices_flag,
                 port_names>>

-----------------------------------------------------------------------------
(* The client's thread *)

\* my_flush_events until it unlocks the mutex.
FlushLocked ==
  /\ Resumes
  /\ emitted' = (emitted \/ err)
  /\ IF err /\ ~emitted
     THEN client' = "callback" /\ callback' = "disconnect"
     ELSE client' = "unlocked" /\ UNCHANGED callback
  /\ UNCHANGED <<waits, world, lists, err, jack_vars>>

TestFlag ==
  /\ client = "unlocked"
  /\ refresh_devices_flag' = TRUE
  /\ IF refresh_devices_flag THEN NextCall
     ELSE client' = "refresh" /\ UNCHANGED <<waits, callback>>
  /\ UNCHANGED <<world, lists, errors, event, notify, port_names>>

\* refresh_devices_bare: jack_get_ports has nothing to return without a port.
RefreshBegins ==
  /\ client = "refresh" /\ found = {}
  /\ ~err /\ devices # {}
  /\ found' = {{}} /\ port_names' = devices
  /\ UNCHANGED <<world, calling, ready, safe, errors, event, notify,
                 refresh_devices_flag>>

\* The flag is cleared again, for the next call to try.
GivesUp ==
  /\ found' = {} /\ port_names' = {}
  /\ refresh_devices_flag' = FALSE
  /\ NextCall
  /\ UNCHANGED <<devices, failed, ready, safe, errors, event, notify>>

\* jack_get_ports returns NULL also when there is no port.
RefreshFails ==
  /\ client = "refresh" /\ found = {}
  /\ err \/ devices = {}
  /\ GivesUp
  /\ UNCHANGED changes

\* MaxChanges bounds the failures too.
RefreshNoMem ==
  /\ client = "refresh" /\ ~err
  /\ changes < MaxChanges /\ changes' = changes + 1
  /\ GivesUp

\* A port that has gone makes the scan begin again.
RefreshPort ==
  /\ client = "refresh"
  /\ \E p \in port_names :
       IF p \in devices
       THEN found' = {(UNION found) \cup {p}} /\ port_names' = port_names \ {p}
       ELSE found' = {} /\ port_names' = {}
  /\ UNCHANGED <<world, calling, ready, safe, errors, event, notify,
                 refresh_devices_flag>>

\* Mutant: the flag is set when the list is complete.
RefreshEndsSet ==
  /\ client = "refresh" /\ found # {} /\ port_names = {}
  /\ safe' = found /\ found' = {}
  /\ client' = "callback" /\ callback' = "devices"
  /\ refresh_devices_flag' = TRUE
  /\ UNCHANGED <<waits, world, ready, errors, event, notify, port_names>>

RefreshEnds ==
  /\ client = "refresh" /\ found # {} /\ port_names = {}
  /\ safe' = found /\ found' = {}
  /\ client' = "callback" /\ callback' = "devices"
  /\ UNCHANGED <<waits, world, ready, errors, jack_vars>>

Client ==
  \/ (Call \/ Sleep \/ CallbackReturns)
     /\ UNCHANGED <<world, lists, errors, jack_vars>>
  \/ FlushLocked \/ TestFlag \/ RefreshBegins \/ RefreshFails \/ RefreshNoMem
  \/ RefreshPort \/ RefreshEnds

Wakeup ==
  /\ client = "asleep" /\ Signal
  /\ UNCHANGED <<world, lists, errors, jack_vars>>

force_device_scan ==
  /\ client = "idle" /\ changes < MaxChanges
  /\ changes' = changes + 1
  /\ refresh_devices_flag' = FALSE
  /\ UNCHANGED <<devices, failed, calling, lists, errors, event, notify, port_names>>

Destroy ==
  /\ client = "idle" /\ notify = "idle" /\ client' = "gone"
  /\ safe' = {}
  /\ UNCHANGED <<world, waits, callback, found, ready, errors, jack_vars>>

-----------------------------------------------------------------------------
Next ==
  \/ Change \/ NotifyClears \/ NotifySignals \/ shutdown_callback \/ Client
  \/ Wakeup \/ force_device_scan \/ Destroy
=============================================================================
