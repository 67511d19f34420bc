--------------------------- MODULE BackendsProofs ---------------------------
(***************************************************************************)
(* The device events of all six backends implement DeviceEvents, for any   *)
(* number of devices and of changes.                                       *)
(***************************************************************************)
EXTENDS Backends, TLAPS

\* A pointer to a list is NULL or points to one.
Pointers == {{}} \cup {{l} : l \in SUBSET Devices}

Calling == client \notin {"idle", "joining", "gone"}

Clients ==
  {"idle", "enter", "unready", "asleep", "awake", "unlocked", "refresh",
   "callback", "joining", "gone"}

Typed ==
  /\ devices \in SUBSET Devices
  /\ found \in Pointers /\ ready \in Pointers /\ safe \in Pointers
  /\ err \in BOOLEAN /\ emitted \in BOOLEAN
  /\ client \in Clients
  /\ waits \in {<<>>, <<FALSE>>, <<TRUE>>, <<FALSE, TRUE>>}
  /\ callback \in {"none", "devices", "disconnect"}

\* The client has a list, or knows that there will be none.
Told == safe # {} \/ emitted

\* From the end of the first my_flush_events of a call on the client is told.
CallOrder ==
  /\ Calling => waits # <<>>
  /\ callback # "none" => client = "callback"
  /\ client = "callback" => Told
  /\ Calling /\ waits = <<TRUE>> => Told

LoopInv == Typed /\ CallOrder

\* What a scan has still to look up are devices.
Scanning == to_scan \in SUBSET Devices /\ port_names \in SUBSET Devices

\* JACK's first list and the dummy's are made by their init functions.
HasList ==
  current_backend \in {"jack", "dummy"} /\ client # "gone" => safe # {}

\* Without a scan in the queue PulseAudio's is under way or has had its result.
PulseReady ==
  /\ DOMAIN ops \subseteq 1..3
  /\ client = "refresh" => found # {}
  /\ ~queued /\ ~err /\ client \notin {"refresh", "gone"} => Told \/ ready # {}

\* CoreAudio's have_devices_flag is set behind the list and the error.
CoreAudioReady ==
  /\ ca_thread = "scan" => found # {}
  /\ (have_devices_flag \/ ca_thread = "published") /\ client # "gone" =>
       safe # {} \/ ready # {} \/ err

PulseInv == current_backend = "pulseaudio" => PulseReady
CoreAudioInv == current_backend = "coreaudio" => CoreAudioReady

IInv == LoopInv /\ Scanning /\ HasList /\ PulseInv /\ CoreAudioInv

Promised == [Promise!Next]_(Promise!vars)

-----------------------------------------------------------------------------
(* What a step does to the client's calls, in all backends                 *)

LEMMA ListIsPointer ==
  /\ {} \in Pointers /\ {{}} \in Pointers
  /\ \A l \in SUBSET Devices : {l} \in Pointers
  /\ \A p \in Pointers : p # {} => \E l \in SUBSET Devices : p = {l}
  /\ \A p \in Pointers : UNION p \in SUBSET Devices
BY DEF Pointers

LEMMA Tails ==
  ASSUME NEW a, NEW b
  PROVE  /\ Head(<<a>>) = a /\ Tail(<<a>>) = <<>>
         /\ Head(<<a, b>>) = a /\ Tail(<<a, b>>) = <<b>>
OBVIOUS

LEMMA Tuples ==
  /\ <<TRUE>> # <<>> /\ <<FALSE>> # <<>> /\ <<FALSE, TRUE>> # <<>>
  /\ <<FALSE, TRUE>> # <<TRUE>> /\ <<FALSE>> # <<TRUE>>
  /\ Tail(<<FALSE, TRUE>>) = <<TRUE>> /\ Tail(<<TRUE>>) = <<>> /\ Tail(<<FALSE>>) = <<>>
  /\ Head(<<FALSE, TRUE>>) = FALSE /\ Head(<<TRUE>>) = TRUE /\ Head(<<FALSE>>) = FALSE
<1>1. /\ <<TRUE>> # <<>> /\ <<FALSE>> # <<>> /\ <<FALSE, TRUE>> # <<>>
      /\ <<FALSE, TRUE>> # <<TRUE>> /\ <<FALSE>> # <<TRUE>>
  OBVIOUS
<1> QED
  BY <1>1, Tails, Zenon

\* A thread does something while the client is where it is, or goes on.
LEMMA WithinCall ==
  ASSUME LoopInv, Typed', Calling' = Calling,
         UNCHANGED <<waits, callback, safe, emitted>>,
         client = "callback" <=> client' = "callback"
  PROVE  LoopInv' /\ Promised
BY DEF LoopInv, CallOrder, Told, Promised, Promise!vars, Calling

LEMMA CallBegins ==
  ASSUME LoopInv, Call, UNCHANGED <<world, lists, errors>>
  PROVE  LoopInv' /\ Promised
<1>1. Typed'
  BY DEF LoopInv, Typed, Call, Clients, world, lists, errors
<1>2. CallOrder'
  BY Tuples DEF LoopInv, CallOrder, Call, Calling, errors, lists
<1>3. Promise!Call
  BY DEF Promise!Call, Call, Calling, errors, lists
<1> QED
  BY <1>1, <1>2, <1>3 DEF LoopInv, Promised, Promise!Next

LEMMA EmitTells ==
  ASSUME LoopInv, NEW e \in BOOLEAN, NEW r \in Pointers, Emit(e, r),
         Calling, client # "callback", e \/ r # {} \/ Told,
         devices' \in SUBSET Devices, found' \in Pointers, err' \in BOOLEAN
  PROVE  LoopInv' /\ Promised
<1>1. Typed'
  BY ListIsPointer DEF LoopInv, Typed, Emit, Clients
<1>2. CallOrder'
  BY DEF LoopInv, CallOrder, Emit, Calling, Told
<1>3. callback = "none" /\ Calling'
  BY DEF LoopInv, CallOrder, Emit, Calling
<1>4. Promised
  <2>1. CASE e /\ ~emitted
    <3> Promise!Disconnect
      BY <1>3, <2>1 DEF Promise!Disconnect, Emit, Calling
    <3> QED
      BY DEF Promised, Promise!Next
  <2>2. CASE ~(e /\ ~emitted) /\ r # {}
    <3>1. \E l \in SUBSET Devices : safe' = {l}
      BY <2>2, ListIsPointer DEF Emit
    <3>2. Promise!ChangeDevices
      BY <1>3, <2>2, <3>1 DEF Promise!ChangeDevices, Emit, Calling, LoopInv, Typed
    <3> QED
      BY <3>2 DEF Promised, Promise!Next
  <2>3. CASE ~(e /\ ~emitted) /\ r = {}
    BY <1>3, <2>3 DEF Promised, Promise!vars, Emit, Calling, LoopInv, Typed
  <2> QED
    BY <2>1, <2>2, <2>3
<1> QED
  BY <1>1, <1>2, <1>4 DEF LoopInv

LEMMA FlushReturns ==
  ASSUME LoopInv, NextCall, Calling, Told, UNCHANGED <<safe, emitted>>,
         devices' \in SUBSET Devices, found' \in Pointers, ready' \in Pointers,
         err' \in BOOLEAN
  PROVE  LoopInv' /\ Promised
<1>1. waits \in {<<FALSE>>, <<TRUE>>, <<FALSE, TRUE>>}
  BY DEF LoopInv, Typed, CallOrder
<1>2. waits' = IF waits = <<FALSE, TRUE>> THEN <<TRUE>> ELSE <<>>
  BY <1>1, Tuples DEF NextCall
<1>3. client' = IF waits = <<FALSE, TRUE>> THEN "enter" ELSE "idle"
  BY <1>1, Tuples DEF NextCall
<1>4. Typed'
  BY <1>1, <1>2, <1>3 DEF LoopInv, Typed, NextCall, Clients
<1>5. CallOrder'
  BY <1>1, <1>2, <1>3, Tuples DEF CallOrder, Calling, NextCall, Told
<1>6. Promised
  <2>1. CASE callback # "none"
    <3> Promise!CallbackReturns
      BY <2>1, <1>3 DEF Promise!CallbackReturns, NextCall
    <3> QED
      BY DEF Promised, Promise!Next
  <2>2. CASE callback = "none" /\ Calling'
    BY <2>2 DEF Promised, Promise!vars, NextCall, Calling
  <2>3. CASE callback = "none" /\ ~Calling'
    <3> Promise!Return
      BY <2>3 DEF Promise!Return, NextCall, Calling, Told
    <3> QED
      BY DEF Promised, Promise!Next
  <2> QED
    BY <2>1, <2>2, <2>3
<1> QED
  BY <1>4, <1>5, <1>6 DEF LoopInv

LEMMA CallbackEnds ==
  ASSUME LoopInv, CallbackReturns, UNCHANGED <<world, lists, errors>>
  PROVE  LoopInv' /\ Promised
BY FlushReturns DEF CallbackReturns, LoopInv, CallOrder, Typed, Calling, world, lists,
                    errors

LEMMA ClientIsGone ==
  ASSUME LoopInv, client \in {"idle", "joining"}, client' = "gone", safe' = {},
         UNCHANGED <<devices, found, err, emitted, waits, callback>>,
         ready' \in Pointers
  PROVE  LoopInv' /\ Promised
<1>1. LoopInv'
  BY ListIsPointer DEF LoopInv, Typed, CallOrder, Calling, Clients
<1>2. Promise!Destroy
  BY DEF Promise!Destroy
<1> QED
  BY <1>1, <1>2 DEF Promised, Promise!Next

\* What the kernel, a server, or another thread does; it may signal the client.
LEMMA OthersStep ==
  ASSUME LoopInv, UNCHANGED <<waits, callback, safe, emitted>>,
         client' \in {client, Signalled},
         devices' \in SUBSET Devices, found' \in Pointers, ready' \in Pointers,
         err' \in BOOLEAN
  PROVE  LoopInv' /\ Promised
<1>1. Typed'
  BY DEF LoopInv, Typed, Signalled, Clients
<1>2. Calling' = Calling /\ (client = "callback" <=> client' = "callback")
  BY DEF Signalled, Calling
<1> QED
  BY <1>1, <1>2, WithinCall

\* What the steps before leave as it was.
LEMMA Types ==
  ASSUME LoopInv
  PROVE  /\ devices \in SUBSET Devices /\ found \in Pointers /\ ready \in Pointers
         /\ safe \in Pointers /\ err \in BOOLEAN /\ emitted \in BOOLEAN
         /\ client \in Clients
BY DEF LoopInv, Typed

Underway == {"enter", "unready", "asleep", "awake", "unlocked", "refresh"}

\* The client goes on within its call, or begins to join the backend's thread.
LEMMA ClientMoves ==
  ASSUME LoopInv, UNCHANGED <<devices, waits, callback, safe, err, emitted>>,
         found' \in Pointers, ready' \in Pointers,
         \/ client \in Underway /\ client' \in Underway
         \/ client = "idle" /\ client' = "joining"
  PROVE  LoopInv' /\ Promised
<1>1. Typed'
  BY DEF LoopInv, Typed, Clients, Underway
<1>2. Calling' = Calling /\ client # "callback" /\ client' # "callback"
  BY DEF Calling, Underway
<1> QED
  BY <1>1, <1>2, WithinCall

-----------------------------------------------------------------------------
(* ALSA *)

LEMMA AlsaThread ==
  ASSUME LoopInv, Alsa!Thread
  PROVE  LoopInv' /\ Promised
<1> USE DEF Alsa!world, Alsa!calling, Alsa!lists, Alsa!errors, Alsa!loop_vars
<1> USE DEF Alsa!Shutdown, Alsa!Signal, Alsa!Signalled, Signalled
<1>1. UNCHANGED <<waits, callback, safe, emitted>> /\ client' \in {client, Signalled}
  <2>1. CASE Alsa!Poll
    BY <2>1 DEF Alsa!Poll
  <2>2. CASE Alsa!ReadEvent
    BY <2>2 DEF Alsa!ReadEvent, Alsa!Create
  <2>3. CASE Alsa!EventsRead
    BY <2>3 DEF Alsa!EventsRead
  <2>4. CASE Alsa!ScanNext \/ Alsa!ScanOpen
    BY <2>4 DEF Alsa!ScanNext, Alsa!ScanOpen
  <2>5. CASE Alsa!ScanFails \/ Alsa!ScanPublishes
    BY <2>5 DEF Alsa!ScanFails, Alsa!ScanPublishes
  <2> QED
    BY <2>1, <2>2, <2>3, <2>4, <2>5 DEF Alsa!Thread
<1>2. /\ devices' = devices
      /\ found' \in Pointers /\ ready' \in Pointers /\ err' \in BOOLEAN
  <2>1. CASE Alsa!Poll
    BY <2>1, Types DEF Alsa!Poll
  <2>2. CASE Alsa!ReadEvent
    BY <2>2, Types DEF Alsa!ReadEvent, Alsa!Create
  <2>3. CASE Alsa!EventsRead
    BY <2>3, Types, ListIsPointer DEF Alsa!EventsRead
  <2>4. CASE Alsa!ScanNext
    BY <2>4, Types DEF Alsa!ScanNext
  <2>5. CASE Alsa!ScanOpen
    <3>1. card_index \in devices => (UNION found) \cup {card_index} \in SUBSET Devices
      BY Types, ListIsPointer
    <3> QED
      BY <2>5, <3>1, Types, ListIsPointer DEF Alsa!ScanOpen
  <2>6. CASE Alsa!ScanFails
    BY <2>6, Types, ListIsPointer DEF Alsa!ScanFails
  <2>7. CASE Alsa!ScanPublishes
    BY <2>7, Types, ListIsPointer DEF Alsa!ScanPublishes
  <2> QED
    BY <2>1, <2>2, <2>3, <2>4, <2>5, <2>6, <2>7 DEF Alsa!Thread
<1> QED
  BY <1>1, <1>2, OthersStep, Types

LEMMA AlsaClient ==
  ASSUME LoopInv, Alsa!Client
  PROVE  LoopInv' /\ Promised
<1>1. CASE Alsa!Call /\ UNCHANGED <<Alsa!world, Alsa!lists, Alsa!errors>>
  <2> Call /\ UNCHANGED <<world, lists, errors>>
    BY <1>1 DEF Alsa!Call, Call, Alsa!world, Alsa!lists, Alsa!errors, world, lists, errors
  <2> QED
    BY CallBegins
<1>2. CASE Alsa!FlushWaits
  BY <1>2, ClientMoves, Types
     DEF Alsa!FlushWaits, Alsa!world, Alsa!lists, Alsa!errors, Underway
<1>3. CASE Alsa!Flush
  <2>1. Emit(err, ready) /\ Calling /\ client # "callback"
    BY <1>3 DEF Alsa!Flush, Alsa!Emit, Emit, Calling
  <2>2. err \/ ready # {} \/ Told
    BY <1>3 DEF Alsa!Flush, Alsa!MustWait, Alsa!have_devices_flag, Told
  <2>3. UNCHANGED <<devices, found, err>>
    BY <1>3 DEF Alsa!Flush, Alsa!world
  <2> QED
    BY <2>1, <2>2, <2>3, Types, EmitTells
<1>4. CASE Alsa!CallbackReturns /\ UNCHANGED <<Alsa!world, Alsa!lists, Alsa!errors>>
  <2> CallbackReturns /\ UNCHANGED <<world, lists, errors>>
    BY <1>4 DEF Alsa!CallbackReturns, CallbackReturns, Alsa!NextCall, NextCall,
                Alsa!world, Alsa!lists, Alsa!errors, world, lists, errors
  <2> QED
    BY CallbackEnds
<1> QED
  BY <1>1, <1>2, <1>3, <1>4 DEF Alsa!Client

LEMMA AlsaKeeps ==
  ASSUME LoopInv, Alsa!Next
  PROVE  LoopInv' /\ Promised
<1> USE DEF Alsa!world, Alsa!calling, Alsa!lists, Alsa!errors, Alsa!loop_vars
<1>1. CASE Alsa!Plug
  <2> USE <1>1 DEF Alsa!Plug, Alsa!Devices, Devices
  <2>1. devices' \in SUBSET Devices
    BY Types
  <2> QED
    BY <2>1, OthersStep, Types
<1>2. CASE Alsa!Unplug
  <2> USE <1>2 DEF Alsa!Unplug
  <2>1. devices' \in SUBSET Devices
    BY Types
  <2> QED
    BY <2>1, OthersStep, Types
<1>3. CASE Alsa!CloseFile
  BY <1>3, OthersStep, Types DEF Alsa!CloseFile
<1>4. CASE Alsa!Wakeup \/ Alsa!force_device_scan
  BY <1>4, OthersStep, Types DEF Alsa!Wakeup, Alsa!force_device_scan, Alsa!Signal,
                                 Alsa!Signalled, Signalled
<1>5. CASE Alsa!Destroy
  BY <1>5, ClientMoves, Types DEF Alsa!Destroy
<1>6. CASE Alsa!Join
  BY <1>6, ClientIsGone, Types, ListIsPointer DEF Alsa!Join
<1> QED
  BY <1>1, <1>2, <1>3, <1>4, <1>5, <1>6, AlsaThread, AlsaClient DEF Alsa!Next

-----------------------------------------------------------------------------
(* WASAPI *)

LEMMA WasapiThread ==
  ASSUME LoopInv, Scanning, Wasapi!Thread
  PROVE  LoopInv' /\ Promised /\ to_scan' \in SUBSET Devices
<1> USE DEF Wasapi!world, Wasapi!calling, Wasapi!lists, Wasapi!errors, Wasapi!loop_vars
<1> DEFINE Goal == LoopInv' /\ Promised
<1>1. CASE Wasapi!Shutdown
  <2> Goal
    BY <1>1, OthersStep, Types, ListIsPointer
       DEF Wasapi!Shutdown, Wasapi!Signal, Wasapi!Signalled, Signalled
  <2> QED
    BY <1>1 DEF Wasapi!Shutdown
<1>2. CASE UNCHANGED Wasapi!loop_vars /\ UNCHANGED to_scan
  <2> Goal
    BY <1>2, OthersStep, Types
  <2> QED
    BY <1>2 DEF Scanning
<1>3. CASE Wasapi!RefreshLists
  <2> Goal
    BY <1>3, OthersStep, Types, ListIsPointer DEF Wasapi!RefreshLists
  <2> QED
    BY <1>3, Types DEF Wasapi!RefreshLists
<1>4. CASE Wasapi!RefreshPublishes
  <2> Goal
    BY <1>4, OthersStep, Types, ListIsPointer
       DEF Wasapi!RefreshPublishes, Wasapi!Signal, Wasapi!Signalled, Signalled
  <2> QED
    BY <1>4 DEF Wasapi!RefreshPublishes, Scanning
<1>5. CASE Wasapi!RefreshDevice
  <2>1. PICK d \in to_scan : found' = {(UNION found) \cup {d}} \/ found' = found
    BY <1>5 DEF Wasapi!RefreshDevice
  <2>2. (UNION found) \cup {d} \in SUBSET Devices
    BY <2>1, Types, ListIsPointer DEF Scanning
  <2>3. found' \in Pointers
    BY <2>1, <2>2, Types, ListIsPointer
  <2> Goal
    BY <1>5, <2>3, OthersStep, Types DEF Wasapi!RefreshDevice
  <2> QED
    BY <1>5 DEF Wasapi!RefreshDevice, Scanning
<1> QED
  BY <1>1, <1>2, <1>3, <1>4, <1>5
     DEF Wasapi!Thread, Wasapi!Register, Wasapi!Test, Wasapi!RefreshFails

LEMMA WasapiClient ==
  ASSUME LoopInv, Wasapi!Client
  PROVE  LoopInv' /\ Promised /\ UNCHANGED to_scan
<1> USE DEF Wasapi!world, Wasapi!lists, Wasapi!errors, Wasapi!wasapi_vars, Wasapi!thread_vars
<1>1. UNCHANGED to_scan
  BY DEF Wasapi!Client, Wasapi!FlushWaits, Wasapi!Flush
<1>2. CASE Wasapi!Call /\ UNCHANGED <<Wasapi!world, Wasapi!lists, Wasapi!errors>>
  <2> Call /\ UNCHANGED <<world, lists, errors>>
    BY <1>2 DEF Wasapi!Call, Call, world, lists, errors
  <2> QED
    BY <1>1, CallBegins
<1>3. CASE Wasapi!FlushWaits
  BY <1>1, <1>3, ClientMoves, Types DEF Wasapi!FlushWaits, Underway
<1>4. CASE Wasapi!Flush
  <2>1. Emit(err, ready) /\ Calling /\ client # "callback"
    BY <1>4 DEF Wasapi!Flush, Wasapi!Emit, Emit, Calling
  <2>2. err \/ ready # {} \/ Told
    BY <1>4 DEF Wasapi!Flush, Wasapi!MustWait, Wasapi!have_devices_flag, Told
  <2>3. UNCHANGED <<devices, found, err>>
    BY <1>4 DEF Wasapi!Flush
  <2> QED
    BY <1>1, <2>1, <2>2, <2>3, Types, EmitTells
<1>5. CASE Wasapi!CallbackReturns /\ UNCHANGED <<Wasapi!world, Wasapi!lists, Wasapi!errors>>
  <2> CallbackReturns /\ UNCHANGED <<world, lists, errors>>
    BY <1>5 DEF Wasapi!CallbackReturns, CallbackReturns, Wasapi!NextCall, NextCall,
                world, lists, errors
  <2> QED
    BY <1>1, CallbackEnds
<1> QED
  BY <1>2, <1>3, <1>4, <1>5 DEF Wasapi!Client

LEMMA WasapiKeeps ==
  ASSUME LoopInv, Scanning, Wasapi!Next
  PROVE  LoopInv' /\ Promised /\ to_scan' \in SUBSET Devices
<1> USE DEF Wasapi!world, Wasapi!calling, Wasapi!lists, Wasapi!errors, Wasapi!loop_vars,
            Wasapi!thread_vars, Wasapi!wasapi_vars
<1> DEFINE Goal == LoopInv' /\ Promised
<1>1. CASE Wasapi!Change
  <2>1. devices' \in SUBSET Devices
    BY <1>1 DEF Wasapi!Change, Wasapi!Devices, Devices
  <2> Goal
    BY <1>1, <2>1, OthersStep, Types DEF Wasapi!Change
  <2> QED
    BY <1>1 DEF Wasapi!Change, Scanning
<1>2. CASE Wasapi!queue_device_scan \/ Wasapi!Wakeup \/ Wasapi!force_device_scan
  <2> USE <1>2 DEF Wasapi!queue_device_scan, Wasapi!Wakeup, Wasapi!force_device_scan
  <2> Goal
    BY OthersStep, Types DEF Wasapi!Signal, Wasapi!Signalled, Signalled
  <2> QED
    BY DEF Scanning
<1>3. CASE Wasapi!Destroy
  <2> Goal
    BY <1>3, ClientMoves, Types DEF Wasapi!Destroy
  <2> QED
    BY <1>3 DEF Wasapi!Destroy, Scanning
<1>4. CASE Wasapi!Join
  <2> Goal
    BY <1>4, ClientIsGone, Types, ListIsPointer DEF Wasapi!Join
  <2> QED
    BY <1>4 DEF Wasapi!Join, Scanning
<1> QED
  BY <1>1, <1>2, <1>3, <1>4, WasapiThread, WasapiClient DEF Wasapi!Next, Scanning

-----------------------------------------------------------------------------
(* CoreAudio *)

CoreAudioKept == LoopInv' /\ Promised /\ to_scan' \in SUBSET Devices /\ CoreAudioReady'

LEMMA CoreAudioThread ==
  ASSUME LoopInv, Scanning, CoreAudioReady, CoreAudio!Thread
  PROVE  CoreAudioKept
<1> USE DEF CoreAudio!world, CoreAudio!calling, CoreAudio!lists, CoreAudio!errors,
            CoreAudio!loop_vars, CoreAudio!flags
<1> USE DEF CoreAudioReady, CoreAudioKept
<1> DEFINE Goal == LoopInv' /\ Promised
<1>1. CASE CoreAudio!Shutdown
  <2> Goal
    BY <1>1, OthersStep, Types, ListIsPointer DEF CoreAudio!Shutdown
  <2> QED
    BY <1>1 DEF CoreAudio!Shutdown
<1>2. CASE /\ UNCHANGED <<CoreAudio!loop_vars, have_devices_flag, to_scan>>
           /\ ca_thread' \notin {"scan", "published"}
  <2> Goal
    BY <1>2, OthersStep, Types
  <2> QED
    BY <1>2 DEF Scanning
<1>3. CASE CoreAudio!RefreshLists
  <2> Goal
    BY <1>3, OthersStep, Types, ListIsPointer DEF CoreAudio!RefreshLists
  <2> QED
    BY <1>3, Types DEF CoreAudio!RefreshLists
<1>4. CASE CoreAudio!RefreshPublishes
  <2> Goal
    BY <1>4, OthersStep, Types, ListIsPointer DEF CoreAudio!RefreshPublishes
  <2> QED
    BY <1>4 DEF CoreAudio!RefreshPublishes, Scanning
<1>5. CASE CoreAudio!RefreshDevice
  <2>1. PICK d \in to_scan : found' = {(UNION found) \cup {d}}
    BY <1>5 DEF CoreAudio!RefreshDevice
  <2>2. (UNION found) \cup {d} \in SUBSET Devices
    BY <2>1, Types, ListIsPointer DEF Scanning
  <2>3. found' \in Pointers /\ found' # {}
    BY <2>1, <2>2, ListIsPointer
  <2> Goal
    BY <1>5, <2>3, OthersStep, Types DEF CoreAudio!RefreshDevice
  <2> QED
    BY <1>5, <2>3 DEF CoreAudio!RefreshDevice, Scanning
<1>6. CASE CoreAudio!SetHaveDevices
  <2> Goal
    BY <1>6, OthersStep, Types DEF CoreAudio!SetHaveDevices
  <2> QED
    BY <1>6 DEF CoreAudio!SetHaveDevices, Scanning
<1> QED
  BY <1>1, <1>2, <1>3, <1>4, <1>5, <1>6
     DEF CoreAudio!Thread, CoreAudio!TestAbort, CoreAudio!TestRestarted,
         CoreAudio!TestQueued, CoreAudio!RefreshFails, CoreAudio!ThreadSignals,
         CoreAudio!ThreadWaits

LEMMA CoreAudioClient ==
  ASSUME LoopInv, Scanning, CoreAudioReady, CoreAudio!Client
  PROVE  CoreAudioKept
<1> USE DEF CoreAudio!world, CoreAudio!lists, CoreAudio!errors, CoreAudio!ca_vars,
            CoreAudio!flags, CoreAudio!thread_vars
<1> DEFINE Goal == LoopInv' /\ Promised
<1>1. UNCHANGED <<have_devices_flag, ca_thread, to_scan, found, err>> /\ client' # "gone"
  BY DEF CoreAudio!Client, CoreAudio!Call, CoreAudio!CallbackReturns, CoreAudio!NextCall,
         CoreAudio!LoadHaveDevices, CoreAudio!Waits, CoreAudio!Awakes, CoreAudio!Flush,
         CoreAudio!Emit
<1>2. client # "gone"
  BY DEF CoreAudio!Client, CoreAudio!Call, CoreAudio!CallbackReturns,
         CoreAudio!LoadHaveDevices, CoreAudio!Waits, CoreAudio!Awakes, CoreAudio!Flush
<1>3. safe # {} \/ ready # {} => safe' # {} \/ ready' # {}
  BY DEF CoreAudio!Client, CoreAudio!LoadHaveDevices, CoreAudio!Waits, CoreAudio!Awakes,
         CoreAudio!Flush, CoreAudio!Emit
<1>4. Goal
  <2>1. CASE CoreAudio!Call /\ UNCHANGED <<CoreAudio!world, CoreAudio!lists, CoreAudio!errors>>
    <3> Call /\ UNCHANGED <<world, lists, errors>>
      BY <2>1 DEF CoreAudio!Call, Call, world, lists, errors
    <3> QED
      BY CallBegins
  <2>2. CASE CoreAudio!CallbackReturns
             /\ UNCHANGED <<CoreAudio!world, CoreAudio!lists, CoreAudio!errors>>
    <3> CallbackReturns /\ UNCHANGED <<world, lists, errors>>
      BY <2>2 DEF CoreAudio!CallbackReturns, CallbackReturns, CoreAudio!NextCall, NextCall,
                  world, lists, errors
    <3> QED
      BY CallbackEnds
  <2>3. CASE CoreAudio!LoadHaveDevices \/ CoreAudio!Waits
    BY <2>3, ClientMoves, Types DEF CoreAudio!LoadHaveDevices, CoreAudio!Waits, Underway
  <2>4. CASE CoreAudio!Awakes /\ Head(waits)
    <3>1. NextCall /\ Calling
      BY <2>4 DEF CoreAudio!Awakes, CoreAudio!NextCall, NextCall, Calling
    <3>2. Told
      BY <2>4, <3>1, Tuples DEF LoopInv, CallOrder, Typed
    <3> QED
      BY <2>4, <3>1, <3>2, FlushReturns, Types DEF CoreAudio!Awakes
  <2>5. CASE CoreAudio!Awakes /\ ~Head(waits)
    BY <2>5, ClientMoves, Types DEF CoreAudio!Awakes, Underway
  <2>6. CASE CoreAudio!Flush
    <3>1. Emit(err, ready) /\ Calling /\ client # "callback"
      BY <2>6 DEF CoreAudio!Flush, CoreAudio!Emit, Emit, Calling
    <3>2. err \/ ready # {} \/ Told
      BY <2>6 DEF CoreAudio!Flush, CoreAudioReady, Told
    <3>3. UNCHANGED <<devices, found, err>>
      BY <2>6 DEF CoreAudio!Flush
    <3> QED
      BY <3>1, <3>2, <3>3, Types, EmitTells
  <2> QED
    BY <2>1, <2>2, <2>3, <2>4, <2>5, <2>6 DEF CoreAudio!Client
<1> QED
  BY <1>1, <1>2, <1>3, <1>4 DEF CoreAudioKept, CoreAudioReady, Scanning

LEMMA CoreAudioKeeps ==
  ASSUME LoopInv, Scanning, CoreAudioReady, CoreAudio!Next
  PROVE  CoreAudioKept
<1> USE DEF CoreAudio!world, CoreAudio!calling, CoreAudio!lists, CoreAudio!errors,
            CoreAudio!loop_vars, CoreAudio!thread_vars, CoreAudio!flags, CoreAudio!ca_vars
<1> DEFINE Goal == LoopInv' /\ Promised
<1>1. CASE CoreAudio!Change
  <2>1. devices' \in SUBSET Devices
    BY <1>1 DEF CoreAudio!Change, CoreAudio!Devices, Devices
  <2> Goal
    BY <1>1, <2>1, OthersStep, Types DEF CoreAudio!Change
  <2> QED
    BY <1>1 DEF CoreAudio!Change, Scanning, CoreAudioKept, CoreAudioReady
<1>2. CASE \/ CoreAudio!ServiceRestarts \/ CoreAudio!Listener \/ CoreAudio!Wakeup
           \/ CoreAudio!force_device_scan
  <2> USE <1>2 DEF CoreAudio!ServiceRestarts, CoreAudio!Listener, CoreAudio!Wakeup,
         CoreAudio!force_device_scan, CoreAudio!on_devices_changed,
         CoreAudio!on_service_restarted, CoreAudio!ListenerStores, CoreAudio!ListenerSignals
  <2> Goal
    BY OthersStep, Types
  <2> QED
    BY DEF Scanning, CoreAudioKept, CoreAudioReady
<1>3. CASE CoreAudio!Destroy
  <2> Goal
    BY <1>3, ClientMoves, Types DEF CoreAudio!Destroy
  <2> QED
    BY <1>3 DEF CoreAudio!Destroy, Scanning, CoreAudioKept, CoreAudioReady
<1>4. CASE CoreAudio!Join
  <2> Goal
    BY <1>4, ClientIsGone, Types, ListIsPointer DEF CoreAudio!Join
  <2> QED
    BY <1>4 DEF CoreAudio!Join, Scanning, CoreAudioKept, CoreAudioReady
<1> QED
  BY <1>1, <1>2, <1>3, <1>4, CoreAudioThread, CoreAudioClient DEF CoreAudio!Next

-----------------------------------------------------------------------------
(* PulseAudio *)

PulseKept == LoopInv' /\ Promised /\ PulseReady'

\* FlushEmits sees to it that there is a list, or the error.
LEMMA PulseClient ==
  ASSUME LoopInv, PulseReady, Pulse!Client
  PROVE  PulseKept
<1> USE DEF Pulse!world, Pulse!lists, Pulse!errors, Pulse!pulse_vars
<1>1. CASE Pulse!Call /\ UNCHANGED <<Pulse!world, Pulse!lists, Pulse!errors, Pulse!pulse_vars>>
  <2> Call /\ UNCHANGED <<world, lists, errors>>
    BY <1>1 DEF Pulse!Call, Call, world, lists, errors
  <2>1. LoopInv' /\ Promised
    BY CallBegins
  <2> QED
    BY <1>1, <2>1 DEF Pulse!Call, PulseKept, PulseReady, Told
<1>2. CASE Pulse!Sleep /\ UNCHANGED <<Pulse!world, Pulse!lists, Pulse!errors, Pulse!pulse_vars>>
  <2>1. LoopInv' /\ Promised
    BY <1>2, ClientMoves, Types DEF Pulse!Sleep, Underway
  <2> QED
    BY <1>2, <2>1 DEF Pulse!Sleep, PulseKept, PulseReady, Told
<1>3. CASE Pulse!CallbackReturns
           /\ UNCHANGED <<Pulse!world, Pulse!lists, Pulse!errors, Pulse!pulse_vars>>
  <2> CallbackReturns /\ UNCHANGED <<world, lists, errors>>
    BY <1>3 DEF Pulse!CallbackReturns, CallbackReturns, Pulse!NextCall, NextCall,
                world, lists, errors
  <2>1. LoopInv' /\ Promised
    BY CallbackEnds
  <2>2. client = "callback" /\ client' \in {"idle", "enter"}
    BY DEF CallbackReturns, NextCall
  <2> QED
    BY <1>3, <2>1, <2>2 DEF PulseKept, PulseReady, Told
<1>4. CASE Pulse!RefreshBegins
  <2>1. LoopInv' /\ Promised
    BY <1>4, ClientMoves, Types, ListIsPointer
       DEF Pulse!RefreshBegins, Pulse!Resumes, Underway
  <2> QED
    BY <1>4, <2>1 DEF Pulse!RefreshBegins, PulseKept, PulseReady
<1>5. CASE Pulse!RefreshCannotBegin \/ Pulse!RefreshFails
  <2> USE <1>5 DEF Pulse!RefreshCannotBegin, Pulse!RefreshFails, Pulse!Resumes
  <2>1. Emit(TRUE, ready) /\ Calling /\ client # "callback"
    BY DEF Pulse!Emit, Emit, Calling
  <2>2. devices' = devices /\ found' \in Pointers /\ err' = TRUE
    BY Types, ListIsPointer
  <2>3. LoopInv' /\ Promised
    BY <2>1, <2>2, Types, EmitTells
  <2>4. client' = "callback"
    BY <2>1 DEF Emit
  <2>5. DOMAIN ops' \subseteq 1..3
    <3>1. ops' = ops \/ ops' = <<>>
      OBVIOUS
    <3> QED
      BY ONLY <3>1, PulseReady DEF PulseReady
  <2> QED
    BY <2>2, <2>3, <2>4, <2>5 DEF PulseKept, PulseReady
<1>6. CASE Pulse!RefreshSucceeds
  <2>1. Emit(FALSE, found) /\ Calling /\ client # "callback" /\ found # {}
    BY <1>6 DEF Pulse!RefreshSucceeds, Pulse!Emit, Emit, Calling, PulseReady
  <2>2. devices' = devices /\ found' \in Pointers /\ err' = FALSE
    BY <1>6, Types, ListIsPointer DEF Pulse!RefreshSucceeds
  <2>3. LoopInv' /\ Promised
    BY <2>1, <2>2, Types, EmitTells
  <2>4. client' = "callback" /\ Told'
    BY <2>1 DEF Emit, Told
  <2> QED
    BY <1>6, <2>3, <2>4 DEF Pulse!RefreshSucceeds, PulseKept, PulseReady
<1>7. CASE Pulse!FlushEmits
  <2>1. Emit(err, ready) /\ Calling /\ client \in {"enter", "awake"}
    BY <1>7 DEF Pulse!FlushEmits, Pulse!Resumes, Pulse!Emit, Emit, Calling
  <2>2. err \/ ready # {} \/ Told
    BY <1>7, <2>1 DEF Pulse!FlushEmits, PulseReady
  <2>3. UNCHANGED <<devices, found, err>>
    BY <1>7 DEF Pulse!FlushEmits
  <2>4. LoopInv' /\ Promised
    BY <2>1, <2>2, <2>3, Types, EmitTells
  <2>5. client' = "callback" /\ (Told' \/ ready' # {})
    BY <2>1, <2>2 DEF Emit, Told
  <2> QED
    BY <1>7, <2>4, <2>5 DEF Pulse!FlushEmits, PulseKept, PulseReady
<1> QED
  BY <1>1, <1>2, <1>3, <1>4, <1>5, <1>6, <1>7 DEF Pulse!Client

LEMMA PulseKeeps ==
  ASSUME LoopInv, PulseReady, Pulse!Next
  PROVE  PulseKept
<1> USE DEF Pulse!world, Pulse!calling, Pulse!lists, Pulse!errors, Pulse!pulse_vars,
            Pulse!Signal, Pulse!Signalled, Signalled
<1>1. CASE Pulse!Change
  <2>1. devices' \in SUBSET Devices
    BY <1>1 DEF Pulse!Change, Pulse!Devices, Devices
  <2>2. LoopInv' /\ Promised
    BY <1>1, <2>1, OthersStep, Types DEF Pulse!Change
  <2> QED
    BY <1>1, <2>2 DEF Pulse!Change, PulseKept, PulseReady, Told
<1>2. CASE Pulse!context_state_callback \/ Pulse!subscribe_callback \/ Pulse!Wakeup
  <2> USE <1>2 DEF Pulse!context_state_callback, Pulse!subscribe_callback, Pulse!Wakeup
  <2>1. LoopInv' /\ Promised
    BY OthersStep, Types
  <2> QED
    BY <2>1 DEF PulseKept, PulseReady, Told
<1>3. CASE Pulse!force_device_scan
  <2>1. LoopInv' /\ Promised
    BY <1>3, OthersStep, Types DEF Pulse!force_device_scan
  <2> QED
    BY <1>3, <2>1 DEF Pulse!force_device_scan, PulseKept, PulseReady
<1>4. ASSUME NEW i \in DOMAIN ops, Pulse!Answer(i)
      PROVE  PulseKept
  <2>1. PICK l \in SUBSET Devices : found' = {l}
    <3> DEFINE answer == CASE i = 1 -> Pulse!sink_info_callback
                           [] i = 2 -> Pulse!source_info_callback
                           [] i = 3 -> Pulse!server_info_callback
    <3>1. i = 1 \/ i = 2 \/ i = 3
      BY <1>4 DEF PulseReady
    <3>2. answer \in SUBSET Devices
      BY <3>1, Types DEF Pulse!sink_info_callback, Pulse!source_info_callback,
                         Pulse!server_info_callback
    <3>3. (UNION found) \cup answer \in SUBSET Devices
      BY <3>2, Types, ListIsPointer
    <3>4. found' = {(UNION found) \cup answer}
      BY <1>4 DEF Pulse!Answer
    <3> QED
      BY <3>3, <3>4
  <2>2. found' \in Pointers /\ found' # {}
    BY <2>1, ListIsPointer
  <2>3. LoopInv' /\ Promised
    BY <1>4, <2>2, OthersStep, Types DEF Pulse!Answer
  <2> QED
    BY <1>4, <2>2, <2>3 DEF Pulse!Answer, PulseKept, PulseReady, Told
<1>5. CASE Pulse!Destroy
  <2>1. LoopInv' /\ Promised
    BY <1>5, ClientIsGone, Types, ListIsPointer DEF Pulse!Destroy
  <2> QED
    BY <1>5, <2>1 DEF Pulse!Destroy, PulseKept, PulseReady
<1> QED
  BY <1>1, <1>2, <1>3, <1>4, <1>5, PulseClient DEF Pulse!Next, Pulse!MainLoop

-----------------------------------------------------------------------------
(* JACK and the dummy backend *)

JackKept ==
  /\ LoopInv' /\ Promised
  /\ port_names' \in SUBSET Devices
  /\ client' # "gone" => safe' # {}

\* The list of devices is there from the beginning; a refresh replaces it.
LEMMA JackClient ==
  ASSUME LoopInv, Scanning, client # "gone" => safe # {}, Jack!Client
  PROVE  JackKept
<1> USE DEF Jack!world, Jack!calling, Jack!lists, Jack!errors, Jack!jack_vars
<1> DEFINE Goal == LoopInv' /\ Promised
<1>1. client # "gone" /\ safe # {} /\ Told
  BY DEF Jack!Client, Jack!Call, Jack!Sleep, Jack!CallbackReturns, Jack!FlushLocked,
         Jack!Resumes, Jack!TestFlag, Jack!RefreshBegins, Jack!RefreshFails,
         Jack!RefreshNoMem, Jack!RefreshPort, Jack!RefreshEnds, Told
<1>2. safe' # {}
  BY <1>1 DEF Jack!Client, Jack!FlushLocked, Jack!TestFlag, Jack!RefreshBegins,
              Jack!RefreshFails, Jack!RefreshNoMem, Jack!GivesUp, Jack!RefreshPort,
              Jack!RefreshEnds
<1>3. CASE (Jack!Call \/ Jack!Sleep \/ Jack!CallbackReturns)
           /\ UNCHANGED <<Jack!world, Jack!lists, Jack!errors, Jack!jack_vars>>
  <2>1. CASE Jack!Call
    <3> Call /\ UNCHANGED <<world, lists, errors>>
      BY <1>3, <2>1 DEF Jack!Call, Call, world, lists, errors
    <3> Goal
      BY CallBegins
    <3> QED
      BY <1>2, <1>3 DEF JackKept, Scanning
  <2>2. CASE Jack!Sleep
    <3> Goal
      BY <1>3, <2>2, ClientMoves, Types DEF Jack!Sleep, Underway
    <3> QED
      BY <1>2, <1>3 DEF JackKept, Scanning
  <2>3. CASE Jack!CallbackReturns
    <3> CallbackReturns /\ UNCHANGED <<world, lists, errors>>
      BY <1>3, <2>3 DEF Jack!CallbackReturns, CallbackReturns, Jack!NextCall, NextCall,
                        world, lists, errors
    <3> Goal
      BY CallbackEnds
    <3> QED
      BY <1>2, <1>3 DEF JackKept, Scanning
  <2> QED
    BY <1>3, <2>1, <2>2, <2>3
<1>4. CASE Jack!FlushLocked /\ err /\ ~emitted
  <2> USE <1>4 DEF Jack!FlushLocked, Jack!Resumes
  <2>1. Typed'
    BY DEF LoopInv, Typed, Clients
  <2>2. Promise!Disconnect
    BY DEF Promise!Disconnect, LoopInv, CallOrder
  <2>3. CallOrder'
    BY <1>1 DEF LoopInv, CallOrder, Calling, Told
  <2> Goal
    BY <2>1, <2>2, <2>3 DEF LoopInv, Promised, Promise!Next
  <2> QED
    BY <1>2 DEF JackKept, Scanning
<1>5. CASE Jack!FlushLocked /\ ~(err /\ ~emitted)
  <2>1. emitted' = emitted
    BY <1>5, Types DEF Jack!FlushLocked
  <2> Goal
    BY <1>5, <2>1, ClientMoves, Types DEF Jack!FlushLocked, Jack!Resumes, Underway
  <2> QED
    BY <1>2, <1>5 DEF Jack!FlushLocked, JackKept, Scanning
<1>6. CASE Jack!TestFlag
  <2>1. CASE refresh_devices_flag
    <3>1. NextCall /\ Calling
      BY <1>6, <2>1 DEF Jack!TestFlag, Jack!NextCall, NextCall, Calling
    <3> Goal
      BY <1>1, <1>6, <3>1, FlushReturns, Types DEF Jack!TestFlag
    <3> QED
      BY <1>2, <1>6 DEF Jack!TestFlag, JackKept, Scanning
  <2>2. CASE ~refresh_devices_flag
    <3> Goal
      BY <1>6, <2>2, ClientMoves, Types DEF Jack!TestFlag, Underway
    <3> QED
      BY <1>2, <1>6 DEF Jack!TestFlag, JackKept, Scanning
  <2> QED
    BY <2>1, <2>2
<1>7. CASE Jack!RefreshBegins
  <2> Goal
    BY <1>7, ClientMoves, Types, ListIsPointer DEF Jack!RefreshBegins, Underway
  <2> QED
    BY <1>2, <1>7, Types DEF Jack!RefreshBegins, JackKept
<1>8. CASE Jack!RefreshFails \/ Jack!RefreshNoMem
  <2> USE <1>8 DEF Jack!RefreshFails, Jack!RefreshNoMem, Jack!GivesUp
  <2>1. NextCall /\ Calling
    BY DEF Jack!NextCall, NextCall, Calling
  <2> Goal
    BY <1>1, <2>1, FlushReturns, Types, ListIsPointer
  <2> QED
    BY <1>2 DEF JackKept
<1>9. CASE Jack!RefreshPort
  <2>1. PICK p \in port_names :
          IF p \in devices
          THEN found' = {(UNION found) \cup {p}} /\ port_names' = port_names \ {p}
          ELSE found' = {} /\ port_names' = {}
    BY <1>9 DEF Jack!RefreshPort
  <2>2. (UNION found) \cup {p} \in SUBSET Devices
    BY <2>1, Types, ListIsPointer DEF Scanning
  <2>3. found' \in Pointers
    BY <2>1, <2>2, ListIsPointer
  <2> Goal
    BY <1>9, <2>3, ClientMoves, Types DEF Jack!RefreshPort, Underway
  <2> QED
    BY <1>2, <2>1 DEF JackKept, Scanning
<1>10. CASE Jack!RefreshEnds
  <2> USE <1>10 DEF Jack!RefreshEnds
  <2>1. Typed'
    BY ListIsPointer DEF LoopInv, Typed, Clients
  <2>2. \E l \in SUBSET Devices : safe' = {l}
    BY Types, ListIsPointer
  <2>3. Promise!ChangeDevices
    BY <2>2 DEF Promise!ChangeDevices, LoopInv, CallOrder
  <2>4. CallOrder'
    BY <1>2 DEF LoopInv, CallOrder, Calling, Told
  <2> Goal
    BY <2>1, <2>3, <2>4 DEF LoopInv, Promised, Promise!Next
  <2> QED
    BY <1>2 DEF JackKept, Scanning
<1> QED
  BY <1>3, <1>4, <1>5, <1>6, <1>7, <1>8, <1>9, <1>10 DEF Jack!Client

LEMMA JackKeeps ==
  ASSUME LoopInv, Scanning, client # "gone" => safe # {}, Jack!Next
  PROVE  JackKept
<1> USE DEF Jack!world, Jack!calling, Jack!lists, Jack!errors, Jack!loop_vars, Jack!jack_vars,
            Jack!Signal, Jack!Signalled, Signalled
<1> DEFINE Goal == LoopInv' /\ Promised
<1>1. CASE Jack!Change
  <2>1. devices' \in SUBSET Devices
    BY <1>1 DEF Jack!Change, Jack!Devices, Devices
  <2> Goal
    BY <1>1, <2>1, OthersStep, Types DEF Jack!Change
  <2> QED
    BY <1>1 DEF Jack!Change, Scanning, JackKept
<1>2. CASE \/ Jack!NotifyClears \/ Jack!NotifySignals \/ Jack!shutdown_callback
           \/ Jack!Wakeup \/ Jack!force_device_scan
  <2> USE <1>2 DEF Jack!NotifyClears, Jack!NotifySignals, Jack!shutdown_callback,
                   Jack!Wakeup, Jack!force_device_scan
  <2> Goal
    BY OthersStep, Types
  <2> QED
    BY DEF Scanning, JackKept
<1>3. CASE Jack!Destroy
  <2> Goal
    BY <1>3, ClientIsGone, Types DEF Jack!Destroy
  <2> QED
    BY <1>3 DEF Jack!Destroy, Scanning, JackKept
<1> QED
  BY <1>1, <1>2, <1>3, JackClient DEF Jack!Next

LEMMA DummyKeeps ==
  ASSUME LoopInv, client # "gone" => safe # {}, Dummy!Next
  PROVE  LoopInv' /\ Promised /\ (client' # "gone" => safe' # {})
<1> USE DEF Dummy!world, Dummy!calling, Dummy!lists, Dummy!errors
<1> DEFINE Goal == LoopInv' /\ Promised
<1>1. CASE Dummy!Call /\ UNCHANGED <<Dummy!world, Dummy!lists, Dummy!errors>>
  <2> Call /\ UNCHANGED <<world, lists, errors>>
    BY <1>1 DEF Dummy!Call, Call, world, lists, errors
  <2> Goal
    BY CallBegins
  <2> QED
    BY <1>1 DEF Dummy!Call
<1>2. CASE Dummy!Sleep /\ UNCHANGED <<Dummy!world, Dummy!lists, Dummy!errors>>
  <2> Goal
    BY <1>2, ClientMoves, Types DEF Dummy!Sleep, Underway
  <2> QED
    BY <1>2 DEF Dummy!Sleep
<1>3. CASE Dummy!CallbackReturns /\ UNCHANGED <<Dummy!world, Dummy!lists, Dummy!errors>>
  <2> CallbackReturns /\ UNCHANGED <<world, lists, errors>>
    BY <1>3 DEF Dummy!CallbackReturns, CallbackReturns, Dummy!NextCall, NextCall,
                world, lists, errors
  <2> Goal
    BY CallbackEnds
  <2> QED
    BY <1>3 DEF Dummy!CallbackReturns
<1>4. CASE Dummy!FlushEmits /\ ~devices_emitted
  <2> USE <1>4 DEF Dummy!FlushEmits
  <2>1. Typed'
    BY DEF LoopInv, Typed, Clients
  <2>2. Promise!ChangeDevices
    <3>1. \E l \in SUBSET Devices : safe' = {l}
      BY Types, ListIsPointer
    <3> QED
      BY <3>1 DEF Promise!ChangeDevices, LoopInv, CallOrder
  <2>3. CallOrder'
    BY DEF LoopInv, CallOrder, Calling, Told
  <2> QED
    BY <2>1, <2>2, <2>3 DEF LoopInv, Promised, Promise!Next
<1>5. CASE (Dummy!FlushEmits /\ devices_emitted) \/ Dummy!WaitReturns
  <2> USE <1>5 DEF Dummy!FlushEmits, Dummy!WaitReturns
  <2>1. NextCall /\ Calling /\ Told
    BY DEF Dummy!NextCall, NextCall, Calling, Told
  <2> Goal
    BY <2>1, FlushReturns, Types
  <2> QED
    OBVIOUS
<1>6. CASE Dummy!Wakeup
  <2> USE <1>6 DEF Dummy!Wakeup
  <2> Goal
    BY OthersStep, Types DEF Dummy!Signal, Dummy!Signalled, Signalled
  <2> QED
    OBVIOUS
<1>7. CASE Dummy!Destroy
  BY <1>7, ClientIsGone, Types DEF Dummy!Destroy
<1> QED
  BY <1>1, <1>2, <1>3, <1>4, <1>5, <1>6, <1>7 DEF Dummy!Next, Dummy!Client

-----------------------------------------------------------------------------
(* All backends *)

LEMMA InitPromises ==
  ASSUME Init
  PROVE  IInv /\ Promise!Init
<1> USE DEF Init, LoopInit, Alsa!Connected, Pulse!Connected, Jack!Connected,
            Dummy!Connected, CoreAudio!Connected, Wasapi!Connected, Dummy!Devices, Devices
<1>1. devices \in SUBSET Devices /\ (safe = {} \/ safe = {devices})
  OBVIOUS
<1>2. Typed
  BY <1>1, ListIsPointer DEF Typed, Clients
<1>3. CallOrder
  BY DEF CallOrder, Calling
<1>4. Scanning
  BY DEF Scanning, Jack!NotifyInit, CoreAudio!ThreadInit
<1>5. HasList
  BY DEF HasList
<1>6. PulseInv
  BY DEF PulseInv, PulseReady, Pulse!MainLoopInit
<1>7. CoreAudioInv
  BY DEF CoreAudioInv, CoreAudioReady, CoreAudio!ThreadInit
<1>8. Promise!Init
  BY <1>1 DEF Promise!Init
<1> QED
  BY <1>2, <1>3, <1>4, <1>5, <1>6, <1>7, <1>8 DEF IInv, LoopInv

LEMMA StepPromises ==
  ASSUME IInv, [Next]_vars
  PROVE  IInv' /\ Promised
<1> USE DEF IInv
<1> USE DEF HasList, PulseInv, CoreAudioInv
<1>1. CASE InAlsa /\ Alsa!Next
  <2>1. LoopInv' /\ Promised
    BY <1>1, AlsaKeeps
  <2> QED
    BY <1>1, <2>1 DEF InAlsa, Scanning, refresh, jack
<1>2. CASE InPulse /\ Pulse!Next
  <2>1. PulseKept
    BY <1>2, PulseKeeps DEF InPulse
  <2> QED
    BY <1>2, <2>1 DEF InPulse, PulseKept, Scanning, refresh, jack
<1>3. CASE InJack /\ Jack!Next
  <2>1. JackKept
    BY <1>3, JackKeeps DEF InJack
  <2> QED
    BY <1>3, <2>1 DEF InJack, JackKept, Scanning, refresh
<1>4. CASE InDummy /\ Dummy!Next
  <2>1. LoopInv' /\ Promised /\ (client' # "gone" => safe' # {})
    BY <1>4, DummyKeeps DEF InDummy
  <2> QED
    BY <1>4, <2>1 DEF InDummy, Scanning, refresh, jack
<1>5. CASE InCoreAudio /\ CoreAudio!Next
  <2>1. CoreAudioKept
    BY <1>5, CoreAudioKeeps DEF InCoreAudio
  <2> QED
    BY <1>5, <2>1 DEF InCoreAudio, CoreAudioKept, Scanning, jack
<1>6. CASE InWasapi /\ Wasapi!Next
  <2>1. LoopInv' /\ Promised /\ to_scan' \in SUBSET Devices
    BY <1>6, WasapiKeeps
  <2> QED
    BY <1>6, <2>1 DEF InWasapi, Scanning, jack
<1>7. CASE UNCHANGED vars
  <2> USE <1>7 DEF vars, loop_vars, world, calling, lists, errors, pulse, jack,
                   core_audio, refresh
  <2>1. LoopInv' /\ Promised
    BY OthersStep, Types
  <2> QED
    BY <2>1 DEF Scanning, PulseReady, CoreAudioReady, Told
<1> QED
  BY <1>1, <1>2, <1>3, <1>4, <1>5, <1>6, <1>7 DEF Next

\* The events of every backend implement DeviceEvents: the callbacks of
\* soundio.h run only in soundio_flush_events and soundio_wait_events, the
\* client's list changes only with on_devices_change, on_backend_disconnect
\* runs at most once, and no call returns before there is a list or the error
\* has been told, for every number of devices and of changes.
THEOREM BackendsKeepPromises == Spec => KeepsPromises
<1>1. Init => IInv /\ Promise!Init
  BY InitPromises
<1>2. IInv /\ [Next]_vars => IInv' /\ [Promise!Next]_(Promise!vars)
  BY StepPromises DEF Promised
<1> QED
  BY <1>1, <1>2, PTL DEF Spec, KeepsPromises, Promise!Spec
=============================================================================
