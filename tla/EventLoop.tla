------------------------------ MODULE EventLoop ------------------------------
(***************************************************************************)
(* What the event handling of all backends of libsoundio has in common:    *)
(* the thread of the client, which calls soundio_flush_events and          *)
(* soundio_wait_events, and what it shares with the backend.  A backend's  *)
(* wait_events calls my_flush_events with wait FALSE and then with wait    *)
(* TRUE.                                                                   *)
(*                                                                         *)
(* What is done while the mutex is held, from lock or the end of a wait to *)
(* unlock or the next wait, is one step.  A pointer to a list is the set   *)
(* of at most one list, a list the set of its devices.  MaxChanges bounds  *)
(* the changes of the devices.                                             *)
(***************************************************************************)
EXTENDS Integers, Sequences

CONSTANTS NDevices, MaxChanges

Devices == 1..NDevices

VARIABLES
  \* outside
  devices,   \* the devices that there are
  changes,   \* how often they changed
  failed,    \* whether the server is gone or the backend's thread gave up
  \* the client's thread
  client,    \* "idle", in a call: "enter", "unready", "asleep", "awake", "unlocked",
             \* "refresh", "callback"; at the end "joining" and "gone"
  waits,     \* the wait argument of this and the next call of my_flush_events
  callback,  \* the callback that runs: "none", "devices" or "disconnect"
  safe,      \* safe_devices_info
  \* shared
  found,     \* the list under construction
  ready,     \* ready_devices_info
  err,       \* whether shutdown_err, connection_err or is_shutdown is set
  emitted    \* emitted_shutdown_cb

world == <<devices, changes, failed>>
calling == <<client, waits, callback>>
lists == <<found, ready, safe>>
errors == <<err, emitted>>
loop_vars == <<world, calling, lists, errors>>

LoopInit ==
  /\ devices \in SUBSET Devices /\ changes = 0 /\ failed = FALSE
  /\ client = "idle" /\ waits = <<>> /\ callback = "none"
  /\ found = {} /\ ready = {}
  /\ err = FALSE /\ emitted = FALSE

DevicesChange ==
  /\ changes < MaxChanges /\ ~failed
  /\ changes' = changes + 1
  /\ UNCHANGED failed

\* soundio_flush_events and soundio_wait_events
Call ==
  /\ client = "idle" /\ client' = "enter"
  /\ waits' \in {<<FALSE>>, <<FALSE, TRUE>>}
  /\ UNCHANGED callback

Signalled == IF client = "asleep" THEN "awake" ELSE client

\* cond_signal, from a thread other than the client's.
Signal ==
  /\ client' = Signalled
  /\ UNCHANGED <<waits, callback>>

\* wait is TRUE: the client waits whatever has happened since the last call.
Sleep ==
  /\ client = "enter" /\ Head(waits)
  /\ client' = "asleep"
  /\ UNCHANGED <<waits, callback>>

\* The lock is taken or a wait ends, and the wait argument is used up.
Resumes ==
  \/ client = "enter" /\ ~Head(waits)
  \/ client = "awake"

\* my_flush_events returns.
NextCall ==
  /\ waits' = Tail(waits)
  /\ client' = IF Tail(waits) = <<>> THEN "idle" ELSE "enter"
  /\ callback' = "none"

\* Mutant: emitted_shutdown_cb is not set.
EmitAgain(new_err, new_ready) ==
  LET cb_shutdown == new_err /\ ~emitted
      change == ~cb_shutdown /\ new_ready # {}
  IN  /\ emitted' = emitted
      /\ safe' = IF change THEN new_ready ELSE safe
      /\ ready' = IF change THEN {} ELSE new_ready
      /\ callback' = IF cb_shutdown THEN "disconnect"
                     ELSE IF change THEN "devices" ELSE "none"
      /\ client' = "callback"
      /\ UNCHANGED waits

\* The end of the locked part: which callback is due, given the new err and
\* the new list of ready devices.
Emit(new_err, new_ready) ==
  LET cb_shutdown == new_err /\ ~emitted
      change == ~cb_shutdown /\ new_ready # {}
  IN  /\ emitted' = (emitted \/ cb_shutdown)
      /\ safe' = IF change THEN new_ready ELSE safe
      /\ ready' = IF change THEN {} ELSE new_ready
      /\ callback' = IF cb_shutdown THEN "disconnect"
                     ELSE IF change THEN "devices" ELSE "none"
      /\ client' = "callback"
      /\ UNCHANGED waits

CallbackReturns == client = "callback" /\ NextCall
=============================================================================
