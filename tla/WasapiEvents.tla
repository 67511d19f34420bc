---------------------------- MODULE WasapiEvents ----------------------------
(***************************************************************************)
(* lib/libsoundio/wasapi.c: the thread of device_thread_run, the client of *)
(* the device enumerator's notifications, which queues a scan, and the     *)
(* client's thread in my_flush_events.  abort_flag and device_scan_queued  *)
(* are protected by scan_devices_mutex, the lists and errors by mutex.     *)
(***************************************************************************)
EXTENDS EventLoop

VARIABLES
  event,               \* whether a notification will come
  device_scan_queued,
  abort_flag,          \* the thread shall end
  thread,              \* "register", "test", "asleep", "list", "scan" or "ended"
  to_scan              \* the devices of the collection that remain

thread_vars == <<thread, to_scan>>
wasapi_vars == <<event, device_scan_queued, abort_flag, thread_vars>>
vars == <<loop_vars, wasapi_vars>>

Connected == safe = {}

ThreadInit ==
  /\ event = FALSE /\ device_scan_queued = TRUE /\ abort_flag = FALSE
  /\ thread = "register" /\ to_scan = {}

-----------------------------------------------------------------------------
(* Windows *)

Runs == client # "gone"

\* A thread that gives up leaves its notifications registered.
Change ==
  /\ Runs /\ DevicesChange
  /\ \E S \in (SUBSET Devices) \ {devices} : devices' = S
  /\ event' = (thread # "register")
  /\ UNCHANGED <<calling, lists, errors, device_scan_queued, abort_flag, thread_vars>>

\* A signal of scan_devices_cond.
ThreadSignalled == IF thread = "asleep" THEN "test" ELSE thread

queue_device_scan ==
  /\ Runs /\ event /\ event' = FALSE
  /\ device_scan_queued' = TRUE
  /\ thread' = ThreadSignalled
  /\ UNCHANGED <<loop_vars, abort_flag, to_scan>>

-----------------------------------------------------------------------------
(* The device thread *)

\* shutdown_backend, after which the thread returns.
Shutdown ==
  /\ err' = TRUE /\ failed' = TRUE
  /\ Signal
  /\ thread' = "ended" /\ to_scan' = {} /\ found' = {}
  /\ UNCHANGED <<devices, changes, emitted, ready, safe, event, device_scan_queued,
                 abort_flag>>

\* The enumerator is created and the notifications registered.
Register ==
  /\ thread = "register"
  /\ \/ thread' = "test" /\ UNCHANGED <<loop_vars, event, device_scan_queued,
                                        abort_flag, to_scan>>
     \/ Shutdown

\* With scan_devices_mutex held; at the end the notifications are unregistered.
Test ==
  /\ thread = "test"
  /\ \/ /\ abort_flag
        /\ thread' = "ended" /\ event' = FALSE /\ UNCHANGED device_scan_queued
     \/ /\ ~abort_flag /\ device_scan_queued
        /\ thread' = "list" /\ device_scan_queued' = FALSE /\ UNCHANGED event
     \/ /\ ~abort_flag /\ ~device_scan_queued
        /\ thread' = "asleep" /\ UNCHANGED <<device_scan_queued, event>>
  /\ UNCHANGED <<loop_vars, abort_flag, to_scan>>

\* The defaults and the collection of active endpoints.
RefreshLists ==
  /\ thread = "list" /\ thread' = "scan"
  /\ to_scan' = devices /\ found' = {{}}
  /\ UNCHANGED <<world, calling, ready, safe, errors, event, device_scan_queued,
                 abort_flag>>

\* A device that has gone is left out, or has a probe_error.
RefreshDevice ==
  /\ thread = "scan"
  /\ \E d \in to_scan :
       /\ to_scan' = to_scan \ {d}
       /\ \/ found' = {(UNION found) \cup {d}}
          \/ d \notin devices /\ UNCHANGED found
  /\ UNCHANGED <<world, calling, ready, safe, errors, event, device_scan_queued,
                 abort_flag, thread>>

\* A default or the collection cannot be had, or an allocation fails.
RefreshFails == thread \in {"list", "scan"} /\ Shutdown

RefreshPublishes ==
  /\ thread = "scan" /\ to_scan = {}
  /\ ready' = found /\ found' = {}
  /\ Signal
  /\ thread' = "test"
  /\ UNCHANGED <<world, safe, errors, event, device_scan_queued, abort_flag, to_scan>>

Thread ==
  \/ Register \/ Test
  \/ RefreshLists \/ RefreshDevice \/ RefreshFails \/ RefreshPublishes

-----------------------------------------------------------------------------
(* The client's thread.  have_devices_flag is set with the first list.     *)

have_devices_flag == ready # {} \/ safe # {}

MustWait ==
  \/ client = "enter" /\ Head(waits)
  \/ ~have_devices_flag /\ ~err

FlushWaits ==
  /\ client \in {"enter", "awake"} /\ MustWait
  /\ client' = "asleep"
  /\ UNCHANGED <<waits, callback, world, lists, errors, wasapi_vars>>

Flush ==
  /\ client \in {"enter", "awake"} /\ ~MustWait
  /\ Emit(err, ready)
  /\ UNCHANGED <<world, found, err, wasapi_vars>>

Client ==
  \/ (Call \/ CallbackReturns) /\ UNCHANGED <<world, lists, errors, wasapi_vars>>
  \/ FlushWaits \/ Flush

\* soundio_wakeup, from another thread of the client; a spurious wakeup.
Wakeup ==
  /\ client = "asleep" /\ Signal
  /\ UNCHANGED <<world, lists, errors, wasapi_vars>>

force_device_scan ==
  /\ client = "idle" /\ changes < MaxChanges
  /\ changes' = changes + 1
  /\ device_scan_queued' = TRUE
  /\ thread' = ThreadSignalled
  /\ UNCHANGED <<devices, failed, calling, lists, errors, event, abort_flag, to_scan>>

Destroy ==
  /\ client = "idle" /\ client' = "joining"
  /\ abort_flag' = TRUE
  /\ thread' = ThreadSignalled
  /\ UNCHANGED <<world, waits, callback, lists, errors, event, device_scan_queued,
                 to_scan>>

Join ==
  /\ client = "joining" /\ thread = "ended"
  /\ client' = "gone"
  /\ ready' = {} /\ safe' = {}
  /\ UNCHANGED <<world, waits, callback, found, errors, wasapi_vars>>

-----------------------------------------------------------------------------
Next ==
  \/ Change \/ queue_device_scan \/ Thread \/ Client \/ Wakeup
  \/ force_device_scan \/ Destroy \/ Join
=============================================================================
