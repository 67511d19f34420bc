----------------------------- MODULE PulseEvents -----------------------------
(***************************************************************************)
(* lib/libsoundio/pulseaudio.c: the callbacks of the context, which run on *)
(* the thread of the main loop while it holds its lock, and the client's   *)
(* thread in my_flush_events, which asks the server for its sinks, its     *)
(* sources and its defaults and waits for each answer.  The client has the *)
(* lock but while it waits.                                                *)
(***************************************************************************)
EXTENDS EventLoop

CONSTANT Sinks  \* of the devices; the others are sources

VARIABLES
  event,  \* whether the server will send an event
  queued, \* device_scan_queued
  ops     \* the states of the operations of refresh_devices, in order

pulse_vars == <<event, queued, ops>>
vars == <<loop_vars, pulse_vars>>

Connected == safe = {}

MainLoopInit ==
  /\ event = FALSE /\ queued = TRUE /\ ops = <<>>

Init == LoopInit /\ Connected /\ MainLoopInit

-----------------------------------------------------------------------------
(* The server and the thread of the main loop *)

Runs == client # "gone"

Change ==
  /\ Runs /\ DevicesChange
  /\ \E S \in (SUBSET Devices) \ {devices} : devices' = S
  /\ event' = TRUE
  /\ UNCHANGED <<calling, lists, errors, queued, ops>>

subscribe_callback ==
  /\ Runs /\ event
  /\ event' = FALSE /\ queued' = TRUE
  /\ Signal
  /\ UNCHANGED <<world, lists, errors, ops>>

\* PA_CONTEXT_FAILED; libpulse cancels what is running.
context_state_callback ==
  /\ Runs /\ ~failed
  /\ failed' = TRUE
  /\ err' = TRUE
  /\ event' = FALSE
  /\ ops' = [i \in DOMAIN ops |-> IF ops[i] = "running" THEN "cancelled" ELSE ops[i]]
  /\ Signal
  /\ UNCHANGED <<devices, changes, lists, emitted, queued>>

\* What the server's answers add to the list.
sink_info_callback == devices \cap Sinks
source_info_callback == devices \ Sinks
server_info_callback == {}

Answer(i) ==
  /\ ~failed
  /\ ops[i] = "running" /\ \A j \in 1..(i - 1) : ops[j] = "done"
  /\ ops' = [ops EXCEPT ![i] = "done"]
  /\ found' = {(UNION found) \cup CASE i = 1 -> sink_info_callback
                                    [] i = 2 -> source_info_callback
                                    [] i = 3 -> server_info_callback}
  /\ UNCHANGED <<world, calling, ready, safe, errors, event, queued>>

-----------------------------------------------------------------------------
(* The client's thread *)

RefreshBegins ==
  /\ Resumes /\ queued /\ ~err /\ ~failed
  /\ queued' = FALSE
  /\ client' = "refresh"
  /\ ops' = <<"running", "running", "running">>
  /\ found' = {{}}
  /\ UNCHANGED <<world, waits, callback, ready, safe, errors, event>>

\* No memory, or no operation because the context has failed.
RefreshCannotBegin ==
  /\ Resumes /\ queued /\ ~err
  /\ queued' = FALSE
  /\ err' = TRUE /\ Emit(TRUE, ready)
  /\ UNCHANGED <<world, found, event, ops>>

\* perform_operation of the first that is not done returns an error, or one of
\* the callbacks had no memory; cleanup_refresh_devices frees the list.
RefreshFails ==
  /\ client = "refresh"
  /\ \A i \in DOMAIN ops : ops[i] # "running"
  /\ found' = {} /\ ops' = <<>>
  /\ err' = TRUE /\ Emit(TRUE, ready)
  /\ UNCHANGED <<world, event, queued>>

\* connection_err becomes 0, also if the context has failed in the meantime.
RefreshSucceeds ==
  /\ client = "refresh"
  /\ \A i \in DOMAIN ops : ops[i] = "done"
  /\ found' = {} /\ ops' = <<>>
  /\ err' = FALSE /\ Emit(FALSE, found)
  /\ UNCHANGED <<world, event, queued>>

FlushEmits ==
  /\ Resumes /\ (~queued \/ err)
  /\ Emit(err, ready)
  /\ UNCHANGED <<world, found, err, pulse_vars>>

Client ==
  \/ (Call \/ Sleep \/ CallbackReturns)
     /\ UNCHANGED <<world, lists, errors, pulse_vars>>
  \/ RefreshBegins \/ RefreshCannotBegin \/ RefreshFails \/ RefreshSucceeds
  \/ FlushEmits

\* From another thread of the client; pa_threaded_mainloop_signal.
Wakeup ==
  /\ client = "asleep" /\ Signal
  /\ UNCHANGED <<world, lists, errors, pulse_vars>>

force_device_scan ==
  /\ client = "idle" /\ changes < MaxChanges
  /\ changes' = changes + 1
  /\ queued' = TRUE
  /\ UNCHANGED <<devices, failed, calling, lists, errors, event, ops>>

Destroy ==
  /\ client = "idle" /\ client' = "gone"
  /\ ready' = {} /\ safe' = {}
  /\ UNCHANGED <<world, waits, callback, found, errors, pulse_vars>>

-----------------------------------------------------------------------------
MainLoop ==
  \/ subscribe_callback
  \/ \E i \in DOMAIN ops : Answer(i)

Next ==
  \/ Change \/ context_state_callback \/ MainLoop \/ Client \/ Wakeup
  \/ force_device_scan \/ Destroy
=============================================================================
