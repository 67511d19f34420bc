--------------------------- MODULE CoreAudioEvents ---------------------------
(***************************************************************************)
(* lib/libsoundio/coreaudio.c: the thread of device_thread_run, the        *)
(* listeners that CoreAudio calls on a thread of its own, and the client's *)
(* thread in flush_events_ca and wait_events_ca.                           *)
(*                                                                         *)
(* The conditions of os.c are kqueues there.  A signal that comes before   *)
(* the first wait has added the condition's event is dropped; a later one  *)
(* is kept for the next wait, unless that, which adds the event anew,      *)
(* clears it: the kernels differ in this.                                  *)
(***************************************************************************)
EXTENDS EventLoop

VARIABLES
  registered,          \* the conditions whose event has been added
  triggered,           \* those signalled since, for the next wait
  dropped,             \* history: those with a lost signal, "cond" left out
  abort_flag,          \* clear: the thread shall end
  have_devices_flag,
  device_scan_queued,
  service_restarted,
  event,               \* the listeners that CoreAudio will call
  notify,              \* "idle", or "stored" in a listener
  thread,              \* "abort?", "restarted?", "queued?", "list", "scan", "published",
                       \* "first", "rest", "wait", "asleep", "shutdown", "give up", "ended"
  to_scan              \* the devices of the list that remain to be looked up

conds == <<registered, triggered, dropped>>
flags == <<abort_flag, have_devices_flag, device_scan_queued, service_restarted>>
listening == <<event, notify>>
thread_vars == <<thread, to_scan>>
ca_vars == <<conds, flags, listening, thread_vars>>
vars == <<loop_vars, ca_vars>>

Connected == safe = {}

ThreadInit ==
  /\ registered = {} /\ triggered = {} /\ dropped = {}
  /\ abort_flag = TRUE /\ have_devices_flag = FALSE
  /\ device_scan_queued = TRUE /\ service_restarted = FALSE
  /\ event = {} /\ notify = "idle"
  /\ thread = "abort?" /\ to_scan = {}

-----------------------------------------------------------------------------
(* Conditions: "cond", "have_devices" and "scan_devices" *)

Lost(cs) == dropped' = dropped \cup (cs \ {"cond"})

cond_signal(c) ==
  /\ triggered' = triggered \cup ({c} \cap registered)
  /\ Lost({c} \ registered)
  /\ UNCHANGED registered

WaitBegins(c) ==
  /\ registered' = registered \cup {c}
  /\ \/ UNCHANGED <<triggered, dropped>>
     \/ triggered' = triggered \ {c} /\ Lost({c} \cap triggered)

WaitEnds(c) ==
  /\ c \in triggered /\ triggered' = triggered \ {c}
  /\ UNCHANGED <<registered, dropped>>

-----------------------------------------------------------------------------
(* CoreAudio *)

Listens == client \notin {"joining", "gone"}

Change ==
  /\ Listens /\ DevicesChange
  /\ \E S \in (SUBSET Devices) \ {devices} : devices' = S
  /\ event' = event \cup {"devices"}
  /\ UNCHANGED <<calling, lists, errors, conds, flags, notify, thread_vars>>

ServiceRestarts ==
  /\ Listens /\ changes < MaxChanges
  /\ ~failed /\ failed' = TRUE
  /\ event' = event \cup {"service"}
  /\ UNCHANGED <<devices, changes, calling, lists, errors, conds, flags, notify,
                 thread_vars>>

ListenerStores(e) ==
  /\ Listens /\ notify = "idle" /\ e \in event
  /\ event' = event \ {e} /\ notify' = "stored"
  /\ UNCHANGED <<loop_vars, conds, abort_flag, have_devices_flag, thread_vars>>

on_devices_changed ==
  /\ ListenerStores("devices")
  /\ device_scan_queued' = TRUE /\ UNCHANGED service_restarted

on_service_restarted ==
  /\ ListenerStores("service")
  /\ service_restarted' = TRUE /\ UNCHANGED device_scan_queued

ListenerSignals ==
  /\ notify = "stored" /\ notify' = "idle"
  /\ cond_signal("scan_devices")
  /\ UNCHANGED <<loop_vars, flags, event, thread_vars>>

Listener == on_devices_changed \/ on_service_restarted \/ ListenerSignals

-----------------------------------------------------------------------------
(* The device thread *)

FlagVars == <<device_scan_queued, service_restarted>>

TestAbort ==
  /\ thread = "abort?"
  /\ abort_flag' = TRUE
  /\ thread' = IF abort_flag THEN "restarted?" ELSE "ended"
  /\ UNCHANGED <<loop_vars, conds, have_devices_flag, FlagVars, listening, to_scan>>

\* shutdown_backend, up to the signals, after which the thread returns.
Shutdown ==
  /\ err' = TRUE /\ failed' = TRUE
  /\ have_devices_flag' = TRUE
  /\ found' = {} /\ to_scan' = {}
  /\ thread' = "shutdown"
  /\ UNCHANGED <<devices, changes, calling, ready, safe, emitted, conds, abort_flag,
                 FlagVars, listening>>

TestRestarted ==
  /\ thread = "restarted?"
  /\ IF service_restarted THEN Shutdown
     ELSE thread' = "queued?" /\ UNCHANGED <<loop_vars, conds, flags, listening, to_scan>>

TestQueued ==
  /\ thread = "queued?"
  /\ device_scan_queued' = FALSE
  /\ thread' = IF device_scan_queued THEN "list" ELSE "wait"
  /\ UNCHANGED <<loop_vars, conds, abort_flag, have_devices_flag, service_restarted,
                 listening, to_scan>>

\* The size of the list and the list; one that grew in between is cut.
RefreshLists ==
  /\ thread = "list" /\ thread' = "scan"
  /\ to_scan' = devices /\ found' = {{}}
  /\ UNCHANGED <<world, calling, ready, safe, errors, conds, flags, listening>>

\* Its listeners are added, then its properties read.
RefreshDevice ==
  /\ thread = "scan"
  /\ \E d \in to_scan \cap devices :
       found' = {(UNION found) \cup {d}} /\ to_scan' = to_scan \ {d}
  /\ UNCHANGED <<world, calling, ready, safe, errors, conds, flags, listening, thread>>

\* Any call of CoreAudio, any allocation, and each device that has gone.
RefreshFails == thread \in {"list", "scan"} /\ Shutdown

RefreshPublishes ==
  /\ thread = "scan" /\ to_scan = {}
  /\ ready' = found /\ found' = {}
  /\ thread' = "published"
  /\ UNCHANGED <<world, calling, safe, errors, conds, flags, listening, to_scan>>

SetHaveDevices ==
  /\ thread = "published"
  /\ have_devices_flag' = TRUE
  /\ thread' = IF have_devices_flag THEN "rest" ELSE "first"
  /\ UNCHANGED <<loop_vars, conds, abort_flag, FlagVars, listening, to_scan>>

ThreadSignals(from, c, to) ==
  /\ thread = from /\ thread' = to
  /\ cond_signal(c)
  /\ UNCHANGED <<loop_vars, flags, listening, to_scan>>

ThreadWaits ==
  /\ \/ thread = "wait" /\ thread' = "asleep" /\ WaitBegins("scan_devices")
     \/ thread = "asleep" /\ thread' = "abort?" /\ WaitEnds("scan_devices")
  /\ UNCHANGED <<loop_vars, flags, listening, to_scan>>

Thread ==
  \/ TestAbort \/ TestRestarted \/ TestQueued
  \/ RefreshLists \/ RefreshDevice \/ RefreshFails \/ RefreshPublishes
  \/ SetHaveDevices
  \/ ThreadSignals("first", "have_devices", "rest")
  \/ ThreadSignals("rest", "cond", "wait")
  \/ ThreadSignals("shutdown", "cond", "give up")
  \/ ThreadSignals("give up", "have_devices", "ended")
  \/ ThreadWaits

-----------------------------------------------------------------------------
(* The client's thread *)

\* flush_events_ca tests the flag and waits for the first list,
LoadHaveDevices ==
  /\ client = "enter" /\ ~Head(waits) /\ ~have_devices_flag
  /\ client' = "unready"
  /\ UNCHANGED <<waits, callback, world, lists, errors, ca_vars>>

\* and wait_events_ca waits after it has flushed.
Waits ==
  /\ \/ client = "unready" /\ WaitBegins("have_devices")
     \/ client = "enter" /\ Head(waits) /\ WaitBegins("cond")
  /\ client' = "asleep"
  /\ UNCHANGED <<waits, callback, world, lists, errors, flags, listening, thread_vars>>

Awakes ==
  /\ client = "asleep"
  /\ IF Head(waits) THEN WaitEnds("cond") /\ NextCall
     ELSE WaitEnds("have_devices") /\ client' = "enter" /\ UNCHANGED <<waits, callback>>
  /\ UNCHANGED <<world, lists, errors, flags, listening, thread_vars>>

Flush ==
  /\ client = "enter" /\ ~Head(waits) /\ have_devices_flag
  /\ Emit(err, ready)
  /\ UNCHANGED <<world, found, err, ca_vars>>

Client ==
  \/ (Call \/ CallbackReturns) /\ UNCHANGED <<world, lists, errors, ca_vars>>
  \/ LoadHaveDevices \/ Waits \/ Awakes \/ Flush

\* soundio_wakeup, from another thread of the client.
Wakeup ==
  /\ Listens /\ "cond" \in registered
  /\ cond_signal("cond")
  /\ UNCHANGED <<loop_vars, flags, listening, thread_vars>>

force_device_scan ==
  /\ client = "idle" /\ changes < MaxChanges
  /\ changes' = changes + 1
  /\ device_scan_queued' = TRUE
  /\ cond_signal("scan_devices")
  /\ UNCHANGED <<devices, failed, calling, lists, errors, abort_flag,
                 have_devices_flag, service_restarted, listening, thread_vars>>

\* The listeners are removed, once the one that runs has returned.
Destroy ==
  /\ client = "idle" /\ notify = "idle" /\ client' = "joining"
  /\ abort_flag' = FALSE
  /\ cond_signal("scan_devices")
  /\ UNCHANGED <<world, waits, callback, lists, errors, have_devices_flag, FlagVars,
                 listening, thread_vars>>

Join ==
  /\ client = "joining" /\ thread = "ended"
  /\ client' = "gone"
  /\ ready' = {} /\ safe' = {}
  /\ UNCHANGED <<world, waits, callback, found, errors, ca_vars>>

-----------------------------------------------------------------------------
Next ==
  \/ Change \/ ServiceRestarts \/ Listener \/ Thread \/ Client \/ Wakeup
  \/ force_device_scan \/ Destroy \/ Join
=============================================================================
