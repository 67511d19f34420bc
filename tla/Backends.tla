------------------------------ MODULE Backends ------------------------------
(***************************************************************************)
(* The events of a connection to one of the backends: soundio.c sets the   *)
(* pointers to a backend's functions once, and every call of the client    *)
(* goes to that backend until it disconnects.                              *)
(***************************************************************************)
EXTENDS EventLoop

\* Sinks are PulseAudio's cards; CoreAudioChanges is MaxChanges for CoreAudio.
CONSTANTS Sinks, CoreAudioChanges

VARIABLES
  current_backend,
  inotify, closing, pipe, abort_flag, thread, revents, rescan, pending_files,
  card_index,
  event, queued, ops, notify, refresh_devices_flag, port_names, devices_emitted,
  registered, triggered, dropped, have_devices_flag, service_restarted,
  ca_abort_flag, ca_event, ca_notify, ca_thread,
  device_scan_queued, to_scan,
  wasapi_abort_flag, wasapi_thread

Alsa == INSTANCE AlsaEvents
Pulse == INSTANCE PulseEvents
Jack == INSTANCE JackEvents
Dummy == INSTANCE DummyEvents
CoreAudio == INSTANCE CoreAudioEvents WITH
  MaxChanges <- CoreAudioChanges,
  abort_flag <- ca_abort_flag, event <- ca_event, notify <- ca_notify,
  thread <- ca_thread
Wasapi == INSTANCE WasapiEvents WITH
  abort_flag <- wasapi_abort_flag, thread <- wasapi_thread

alsa == <<inotify, closing, pipe, abort_flag, thread, revents, rescan,
          pending_files, card_index>>
pulse == <<queued, ops>>
jack == <<notify, refresh_devices_flag, port_names>>
core_audio == <<registered, triggered, dropped, have_devices_flag, service_restarted,
                ca_abort_flag, ca_event, ca_notify, ca_thread>>
refresh == <<device_scan_queued, to_scan>>
wasapi == <<wasapi_abort_flag, wasapi_thread>>
vars == <<loop_vars, current_backend, alsa, pulse, jack, event, devices_emitted,
          core_audio, refresh, wasapi>>

Init ==
  /\ LoopInit
  /\ Alsa!ThreadInit /\ Pulse!MainLoopInit /\ Jack!NotifyInit
  /\ CoreAudio!ThreadInit /\ Wasapi!ThreadInit
  /\ devices_emitted = FALSE
  /\ current_backend = "alsa" \/ \A c \in Devices : closing[c] = 0
  /\ \/ current_backend = "alsa" /\ Alsa!Connected
     \/ current_backend = "pulseaudio" /\ Pulse!Connected
     \/ current_backend = "jack" /\ Jack!Connected
     \/ current_backend = "dummy" /\ Dummy!Connected
     \/ current_backend = "coreaudio" /\ CoreAudio!Connected
     \/ current_backend = "wasapi" /\ Wasapi!Connected

InAlsa ==
  /\ current_backend = "alsa"
  /\ UNCHANGED <<current_backend, pulse, jack, event, devices_emitted, core_audio,
                 refresh, wasapi>>
InPulse ==
  /\ current_backend = "pulseaudio"
  /\ UNCHANGED <<current_backend, alsa, jack, devices_emitted, core_audio, refresh,
                 wasapi>>
InJack ==
  /\ current_backend = "jack"
  /\ UNCHANGED <<current_backend, alsa, pulse, devices_emitted, core_audio, refresh,
                 wasapi>>
InDummy ==
  /\ current_backend = "dummy"
  /\ UNCHANGED <<current_backend, alsa, pulse, jack, event, core_audio, refresh, wasapi>>
InCoreAudio ==
  /\ current_backend = "coreaudio"
  /\ UNCHANGED <<current_backend, alsa, pulse, jack, event, devices_emitted, wasapi>>
InWasapi ==
  /\ current_backend = "wasapi"
  /\ UNCHANGED <<current_backend, alsa, pulse, jack, devices_emitted, core_audio>>

Next ==
  \/ InAlsa /\ Alsa!Next
  \/ InPulse /\ Pulse!Next
  \/ InJack /\ Jack!Next
  \/ InDummy /\ Dummy!Next
  \/ InCoreAudio /\ CoreAudio!Next
  \/ InWasapi /\ Wasapi!Next

Spec == Init /\ [][Next]_vars

-----------------------------------------------------------------------------
(* Fairness: threads are scheduled, udev closes every file it opens, the   *)
(* servers answer and send their events, and the client flushes or waits   *)
(* again and again until it disconnects.  The backend does not change, so  *)
(* one condition says it for the same role in all of them.                 *)

Client ==
  \/ InAlsa /\ Alsa!Client
  \/ InPulse /\ Pulse!Client
  \/ InJack /\ Jack!Client
  \/ InDummy /\ Dummy!Client
  \/ InCoreAudio /\ CoreAudio!Client
  \/ InWasapi /\ Wasapi!Client

DeviceThread ==
  \/ InAlsa /\ Alsa!Thread
  \/ InPulse /\ Pulse!MainLoop
  \/ InJack /\ Jack!NotifySignals
  \/ InCoreAudio /\ CoreAudio!Thread
  \/ InWasapi /\ Wasapi!Thread

Notification ==
  \/ InAlsa /\ Alsa!CloseFile
  \/ InJack /\ Jack!NotifyClears
  \/ InCoreAudio /\ CoreAudio!Listener
  \/ InWasapi /\ Wasapi!queue_device_scan

Join ==
  \/ InAlsa /\ Alsa!Join
  \/ InCoreAudio /\ CoreAudio!Join
  \/ InWasapi /\ Wasapi!Join

Wakeup ==
  \/ InAlsa /\ Alsa!Wakeup
  \/ InPulse /\ Pulse!Wakeup
  \/ InJack /\ Jack!Wakeup
  \/ InDummy /\ Dummy!Wakeup
  \/ InCoreAudio /\ CoreAudio!Wakeup
  \/ InWasapi /\ Wasapi!Wakeup

Scheduling ==
  WF_vars(Client) /\ WF_vars(DeviceThread) /\ WF_vars(Notification) /\ WF_vars(Join)

\* Some thread of the client calls soundio_wakeup again and again.
Wakeups == WF_vars(Wakeup)

FairSpec == Spec /\ Scheduling /\ Wakeups

\* No thread does.
QuietSpec == Spec /\ Scheduling

-----------------------------------------------------------------------------
(* Properties *)

Promise ==
  INSTANCE DeviceEvents WITH
    DeviceLists <- SUBSET Devices, list <- safe, disconnected <- emitted,
    calling <- client \notin {"idle", "joining", "gone"}

(***************************************************************************)
(* Every backend implements what soundio.h says of the callbacks and of    *)
(* the list of devices, whatever happens on the other threads between two  *)
(* steps of the client.                                                    *)
(***************************************************************************)
KeepsPromises == Promise!Spec

Left == client \in {"joining", "gone"}

\* CoreAudio's first list was published between the client's test of the flag
\* and its first wait for it.
Unheard ==
  /\ current_backend = "coreaudio" /\ client = "asleep" /\ ~Head(waits)
  /\ "have_devices" \in dropped

(***************************************************************************)
(* When the devices have ceased to change, a client that goes on flushing  *)
(* or waiting comes to see exactly those that there are, however scans,    *)
(* events and changes overlapped, or has been told that the backend is     *)
(* disconnected.  Three cases are left out because the code fails them:    *)
(* PulseAudio forgets a connection that is lost right at the end of a      *)
(* refresh, JACK cannot tell a server without ports from a lack of memory  *)
(* and keeps the old list, and a signal of CoreAudio's conditions is lost  *)
(* that comes before the first wait, or between two.                       *)
(***************************************************************************)
ClientIsUpToDate ==
  <>[](\/ Left
       \/ err /\ emitted
       \/ ~err /\ safe = {devices}
       \/ ~err /\ current_backend = "pulseaudio" /\ failed
       \/ ~err /\ current_backend = "jack" /\ devices = {}
       \/ Unheard
       \/ "scan_devices" \in dropped /\ (device_scan_queued \/ service_restarted))

\* ALSA's thread tests abort_flag, and then reads away the wakeup of destroy;
\* CoreAudio's does not hear the signal of destroy.
Overlooked ==
  /\ client = "joining"
  /\ (~abort_flag /\ ~pipe) \/ "scan_devices" \in dropped

(***************************************************************************)
(* A call of flush_events or wait_events returns, given the wakeups: also  *)
(* when the first scan fails, when ports vanish under a refresh of JACK    *)
(* and when the server goes while PulseAudio's answers are awaited.  So    *)
(* does soundio_disconnect, which joins the backend's thread wherever it   *)
(* is.  Left out, because the code fails them: ALSA's destroy between the  *)
(* thread's test of abort_flag and its reading of the pipe, and the lost   *)
(* signals of CoreAudio's conditions.                                      *)
(***************************************************************************)
CallsReturn ==
  (client \notin {"idle", "gone"}) ~> (client \in {"idle", "gone"} \/ Overlooked \/ Unheard)

(***************************************************************************)
(* soundio.h of soundio_wait_events: it blocks until another event is      *)
(* ready.  A list that is ready ends the wait.                             *)
(***************************************************************************)
EventsEndTheWait == (client = "asleep" /\ ready # {}) ~> (client # "asleep")
=============================================================================
