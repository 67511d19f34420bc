------------------------------- MODULE SoundIo -------------------------------
(***************************************************************************)
(* lib/libsoundio/soundio.c: connecting to the first backend that can be   *)
(* initialized, the lists of devices that a backend publishes, and the     *)
(* references that lists, the client and streams hold to a device.  The    *)
(* backends stand here by the steps of their init functions and by the way *)
(* their lists reach the client; modules of their own model the rest, the  *)
(* functions that soundio.c only passes on included.                       *)
(*                                                                         *)
(* A pointer to a list is the set of at most one list; a list is the set   *)
(* of its devices.  A device is a block of memory: it is free while its    *)
(* ref_count is 0 and may then be allocated for another device.            *)
(***************************************************************************)
EXTENDS Integers, Sequences, SequencesExt, FiniteSets

-----------------------------------------------------------------------------
(***************************************************************************)
(* What a device supports, and what is chosen from it: the channel layouts *)
(* of lib/libsoundio/channel_layout.c and the functions of soundio.c that  *)
(* look for a format, a layout or a sample rate.  A layout is the sequence *)
(* of its channels, a range of sample rates the pair of its ends.          *)
(***************************************************************************)

(* Channel layouts                                                         *)

Stereo == <<"FrontLeft", "FrontRight">>
Fronts == Stereo \o <<"FrontCenter">>
Backs == <<"BackLeft", "BackRight">>
Sides == <<"SideLeft", "SideRight">>
Wides == <<"FrontLeftCenter", "FrontRightCenter">>
BackCenter == <<"BackCenter">>
Lfe == <<"Lfe">>

\* The first entries of the table, with up to five speakers and Lfe,
small_layouts ==
  << <<"FrontCenter">>, Stereo, Stereo \o Lfe, Fronts, Stereo \o BackCenter,
     Fronts \o Lfe, Fronts \o BackCenter, Stereo \o Backs, Stereo \o Sides,
     Fronts \o BackCenter \o Lfe, Fronts \o Backs, Fronts \o Sides,
     Fronts \o Sides \o Lfe, Fronts \o Backs \o Lfe >>

\* and the others.
large_layouts ==
  << Fronts \o Sides \o BackCenter,
     Stereo \o Sides \o Wides, Fronts \o Backs \o BackCenter,
     Fronts \o Sides \o BackCenter \o Lfe, Fronts \o Backs \o BackCenter \o Lfe,
     Stereo \o Sides \o Wides \o Lfe, Fronts \o Sides \o Backs, Fronts \o Sides \o Wides,
     Fronts \o Sides \o Backs \o Lfe, Fronts \o Sides \o Wides \o Lfe,
     Fronts \o Backs \o Wides \o Lfe, Fronts \o Sides \o Backs \o BackCenter >>

builtin_channel_layouts == small_layouts \o large_layouts

\* enum SoundIoChannelLayoutId: the position of a name is an index.
SoundIoChannelLayoutId ==
  << "Mono", "Stereo", "2Point1", "3Point0", "3Point0Back", "3Point1", "4Point0",
     "Quad", "QuadSide", "4Point1", "5Point0Back", "5Point0Side", "5Point1",
     "5Point1Back", "6Point0Side", "6Point0Front", "Hexagonal", "6Point1",
     "6Point1Back", "6Point1Front", "7Point0", "7Point0Front", "7Point1",
     "7Point1Wide", "7Point1WideBack", "Octagonal" >>

\* soundio_channel_layout_get_builtin, of an identifier.
Builtin(id) ==
  builtin_channel_layouts[CHOOSE i \in DOMAIN SoundIoChannelLayoutId :
                            SoundIoChannelLayoutId[i] = id]

-----------------------------------------------------------------------------
(* Devices: records with formats, layouts and sample_rates                 *)

soundio_device_supports_format(d, format) == Contains(d.formats, format)

soundio_device_supports_layout(d, layout) == Contains(d.layouts, layout)

soundio_device_supports_sample_rate(d, rate) ==
  \E i \in DOMAIN d.sample_rates :
    rate \in d.sample_rates[i][1]..d.sample_rates[i][2]

soundio_int_clamp(low, value, high) ==
  LET least == IF value <= high THEN value ELSE high
  IN  IF least >= low THEN least ELSE low

abs_diff_int(a, b) == IF a >= b THEN a - b ELSE b - a

\* Mutant: the nearest candidate, above or below.
NearerWhatever(rate, best, candidate) ==
  best = -1 \/ abs_diff_int(candidate, rate) < abs_diff_int(best, rate)

\* Whether a candidate replaces the best rate so far, -1 when there is none.
IsBetter(rate, best, candidate) ==
  \/ best = -1
  \/ best < rate /\ candidate >= rate
  \/ /\ best < rate \/ candidate >= rate
     /\ abs_diff_int(candidate, rate) < abs_diff_int(best, rate)

soundio_device_nearest_sample_rate(d, rate) ==
  LET candidate(i) ==
        soundio_int_clamp(d.sample_rates[i][1], rate, d.sample_rates[i][2])
      best[i \in 0..Len(d.sample_rates)] ==
        IF i = 0 THEN -1
        ELSE IF IsBetter(rate, best[i - 1], candidate(i)) THEN candidate(i)
        ELSE best[i - 1]
  IN  best[Len(d.sample_rates)]

-----------------------------------------------------------------------------
CONSTANTS
  available_backends,  \* in the order of soundio_connect
  Devices, NoDevice,
  capability,          \* what the device of a block of memory supports
  Handles, OutStreams, InStreams,
  Asked                \* what a client sets before it opens a stream

Streams == OutStreams \cup InStreams

SOUNDIO_MAX_CHANNELS == 24

Lists == {"building", "ready", "safe", "old", "lost"}

ASSUME SoundIoAssumption ==
  /\ available_backends \in Seq({"jack", "pulseaudio", "alsa", "dummy"})
  /\ available_backends # <<>>
  /\ IsFiniteSet(Handles) /\ IsFiniteSet(Streams)
  /\ Handles \cap Streams = {} /\ OutStreams \cap InStreams = {}
  /\ (Handles \cup Streams) \cap Lists = {}
  /\ NoDevice \notin Devices

\* What probing has found of a device, if there was no error.
ASSUME DevicesAssumption ==
  \A id \in Devices :
    LET d == capability[id]
    IN  ~d.probe_error =>
          /\ d.formats \in Seq(STRING) /\ d.formats # <<>>
          /\ d.layouts \in Seq(Seq(STRING)) /\ d.layouts # <<>>
          /\ d.sample_rates \in Seq(Nat \X Nat) /\ d.sample_rates # <<>>
          /\ \A range \in Range(d.sample_rates) : range[1] <= range[2]

VARIABLES
  pc,          \* "none", "idle", "init", "refresh", "flush", "callback", "gone",
               \* "aborted"
  tries, step, \* the backends still to be tried, the step of init
  backend_data,     \* what the backend has acquired
  leaked,           \* what nothing points to any more
  methods,          \* whether the pointers to the backend's functions are set
  current_backend,
  ref_count,
  list,        \* current_devices_info or devices_info, ready_devices_info,
               \* safe_devices_info, old_devices_info, and what is lost
  device,      \* of a handle of the client and of a stream
  stream,      \* "none", "created", "failed" or "opened"
  settings     \* its format, layout and sample rate

streams == <<stream, settings>>

connection == <<tries, step, backend_data, leaked, methods, current_backend>>
references == <<ref_count, list, device>>
vars == <<pc, connection, references, streams>>

None == "none"
Unset == [format |-> "Invalid", layout |-> <<>>, sample_rate |-> 0]
Holders == Handles \cup Streams
DevicesOf(l) == UNION list[l]

-----------------------------------------------------------------------------
(* The init functions: what each step acquires and the errors it returns.  *)
(* On an error they destroy what they have; in one place they do not, and  *)
(* in three that aborts the program.                                       *)

Step(get, errors) == [gets |-> get, errs |-> errors, undo |-> "destroy"]

jack_init == <<
  Step("mutex", {"NoMem"}), Step("cond", {"NoMem"}),
  Step("client", {"SystemResources", "NoSuchClient", "InitAudioBackend"}),
  Step("callbacks", {"InitAudioBackend"}), Step("active", {"InitAudioBackend"}),
  Step("devices", {"NoMem", "BackendDisconnected"}) >>

\* destroy_pa hands a context that is NULL to pa_context_disconnect, which
\* asserts that it has one.
Contextless(get) == [Step(get, {"NoMem"}) EXCEPT !.undo = "abort"]

\* The server may be ready and gone before the client's thread looks.
pulseaudio_init == <<
  Contextless("main_loop"), Contextless("props"), Contextless("context"),
  Step("connection", {"InitAudioBackend"}), Step("thread", {"NoMem"}),
  Step("ready", {"InitAudioBackend", "BackendDisconnected"}),
  Step("subscription", {"NoMem"}) >>

\* No pipe: the only return without destroy_alsa.
alsa_init == <<
  Step("mutex", {"NoMem"}), Step("cond", {"NoMem"}),
  Step("notify_fd", {"SystemResources", "NoMem"}),
  Step("notify_wd", {"SystemResources", "NoMem", "InitAudioBackend"}),
  [Step("pipe", {"SystemResources"}) EXCEPT !.undo = "nothing"],
  Step("thread", {"NoMem", "SystemResources"}) >>

dummy_init == <<
  Step("mutex", {"NoMem"}), Step("cond", {"NoMem"}), Step("info", {"NoMem"}),
  Step("output_device", {"NoMem"}), Step("input_device", {"NoMem"}) >>

backend_init_fns ==
  [jack |-> jack_init, pulseaudio |-> pulseaudio_init, alsa |-> alsa_init,
   dummy |-> dummy_init]

backend == Head(tries)
TheStep == backend_init_fns[backend][step]

-----------------------------------------------------------------------------
(* References *)

\* soundio_device_unref of each device of S, and of the lists that L names.
Unreferenced(S) == [d \in Devices |-> ref_count[d] - IF d \in S THEN 1 ELSE 0]

\* soundio_device_ref, or ref_count = 1 of a new device.
Referenced(d) == [ref_count EXCEPT ![d] = @ + 1]

IsFree(d) == ref_count[d] = 0

Init ==
  /\ pc = "none"
  /\ tries = <<>> /\ step = 1
  /\ backend_data = {} /\ leaked = {} /\ methods = FALSE
  /\ current_backend = None
  /\ ref_count = [d \in Devices |-> 0]
  /\ list = [l \in Lists |-> {}]
  /\ device = [h \in Holders |-> NoDevice]
  /\ stream = [s \in Streams |-> "none"]
  /\ settings = [s \in Streams |-> Unset]

-----------------------------------------------------------------------------
(* Connecting *)

soundio_create ==
  /\ pc = "none" /\ pc' = "idle"
  /\ UNCHANGED <<connection, references, streams>>

Try(backends) ==
  /\ pc = "idle" /\ current_backend = None
  /\ pc' = "init" /\ tries' = backends /\ step' = 1
  /\ UNCHANGED <<backend_data, leaked, methods, current_backend, references, streams>>

soundio_connect == Try(available_backends)

soundio_connect_backend ==
  \E i \in 1..Len(available_backends) : Try(<<available_backends[i]>>)

Initializing == pc = "init" /\ step <= Len(backend_init_fns[backend])

\* The dummy backend's list grows device by device, JACK's comes at once.
InitStep ==
  /\ Initializing
  /\ step' = step + 1
  /\ backend_data' = backend_data \cup {TheStep.gets}
  /\ \/ /\ TheStep.gets = "info"
        /\ list' = [list EXCEPT !["safe"] = {{}}]
        /\ UNCHANGED ref_count
     \/ /\ TheStep.gets \in {"output_device", "input_device"}
        /\ \E d \in Devices :
             /\ IsFree(d)
             /\ ref_count' = Referenced(d)
             /\ list' = [list EXCEPT !["safe"] = {DevicesOf("safe") \cup {d}}]
     \/ /\ TheStep.gets = "devices"
        /\ \E S \in SUBSET {d \in Devices : IsFree(d)} :
             /\ ref_count' = [d \in Devices |-> IF d \in S THEN 1 ELSE ref_count[d]]
             /\ list' = [list EXCEPT !["safe"] = {S}]
     \/ /\ TheStep.gets \notin {"info", "output_device", "input_device", "devices"}
        /\ UNCHANGED <<ref_count, list>>
  /\ UNCHANGED <<pc, tries, leaked, methods, current_backend, device, streams>>

\* Mutant: the list that was not fetched stays.
DisconnectKeepingReady ==
  /\ ref_count' = Unreferenced(DevicesOf("safe"))
  /\ list' = [list EXCEPT !["safe"] = {}]
  /\ backend_data' = {}
  /\ methods' = FALSE
  /\ current_backend' = None

\* soundio_disconnect; the backend's destroy frees the list not yet flushed.
Disconnect ==
  /\ ref_count' =
       [d \in Devices |-> ref_count[d] - (IF d \in DevicesOf("ready") THEN 1 ELSE 0)
                                       - (IF d \in DevicesOf("safe") THEN 1 ELSE 0)]
  /\ list' = [list EXCEPT !["ready"] = {}, !["safe"] = {}]
  /\ backend_data' = {}
  /\ methods' = FALSE
  /\ current_backend' = None

GivesUp(err) == err # "InitAudioBackend" \/ Len(tries) = 1

\* destroy is not set yet: soundio_disconnect calls no function of the backend.
InitFails ==
  /\ Initializing /\ TheStep.undo # "abort"
  /\ leaked' = leaked \cup
       IF TheStep.undo = "nothing" THEN {<<backend, r>> : r \in backend_data} ELSE {}
  /\ \E err \in TheStep.errs :
       IF GivesUp(err) THEN pc' = "idle" /\ tries' = <<>>
       ELSE pc' = "init" /\ tries' = Tail(tries)
  /\ step' = 1
  /\ Disconnect
  /\ UNCHANGED <<device, streams>>

InitAborts ==
  /\ Initializing /\ TheStep.undo = "abort"
  /\ pc' = "aborted"
  /\ UNCHANGED <<connection, references, streams>>

InitEnds ==
  /\ pc = "init" /\ ~Initializing
  /\ pc' = "idle"
  /\ methods' = TRUE
  /\ current_backend' = backend
  /\ tries' = <<>> /\ step' = 1
  /\ UNCHANGED <<backend_data, leaked, references, streams>>

\* destroy_alsa joins the thread, which first ends the scan it is in.  Clients
\* destroy the streams they opened before.
soundio_disconnect ==
  /\ pc = "idle" /\ current_backend # None
  /\ list["building"] = {}
  /\ \A s \in Streams : stream[s] \in {"none", "created", "failed"}
  /\ Disconnect
  /\ UNCHANGED <<pc, tries, step, leaked, device, streams>>

\* Streams point to their device and through it to soundio.
soundio_destroy ==
  /\ pc = "idle" /\ list["building"] = {}
  /\ \A s \in Streams : stream[s] = "none"
  /\ Disconnect
  /\ pc' = "gone"
  /\ UNCHANGED <<tries, step, leaked, device, streams>>

-----------------------------------------------------------------------------
(* Refreshing the list of devices *)

\* ALSA's thread may start at any time, the others when the client flushes.
ScanBegins ==
  /\ list["building"] = {}
  /\ \/ current_backend = "alsa" /\ pc \in {"idle", "callback"} /\ UNCHANGED pc
     \/ pc = "idle" /\ current_backend \in {"jack", "pulseaudio"} /\ pc' = "refresh"
  /\ list' = [list EXCEPT !["building"] = {{}}]
  /\ UNCHANGED <<connection, ref_count, device, streams>>

ScanAppends ==
  /\ list["building"] # {}
  /\ \E d \in Devices :
       /\ IsFree(d)
       /\ ref_count' = Referenced(d)
       /\ list' = [list EXCEPT !["building"] = {DevicesOf("building") \cup {d}}]
  /\ UNCHANGED <<pc, connection, device, streams>>

\* A device that cannot be appended is freed, then the list.
ScanFails ==
  /\ list["building"] # {}
  /\ ref_count' = Unreferenced(DevicesOf("building"))
  /\ list' = [list EXCEPT !["building"] = {}]
  /\ pc' = IF pc = "refresh" THEN "flush" ELSE pc
  /\ UNCHANGED <<connection, device, streams>>

\* snd_card_next fails after the devices with a hint: the list, one only of
\* each such failure, is neither freed nor published.
ScanLoses ==
  /\ list["building"] # {} /\ current_backend = "alsa"
  /\ leaked' = leaked \cup {<<"alsa", "devices_info">>}
  /\ list' = [list EXCEPT !["lost"] = {DevicesOf("lost") \cup DevicesOf("building")},
                          !["building"] = {}]
  /\ UNCHANGED <<pc, tries, step, backend_data, methods, current_backend>>
  /\ UNCHANGED <<ref_count, device, streams>>

ScanPublishes ==
  /\ list["building"] # {} /\ current_backend \in {"alsa", "pulseaudio"}
  /\ ref_count' = Unreferenced(DevicesOf("ready"))
  /\ list' = [list EXCEPT !["ready"] = list["building"], !["building"] = {}]
  /\ pc' = IF pc = "refresh" THEN "flush" ELSE pc
  /\ UNCHANGED <<connection, device, streams>>

\* JACK's list becomes the client's at once.
ScanReplaces ==
  /\ list["building"] # {} /\ current_backend = "jack"
  /\ ref_count' = Unreferenced(DevicesOf("safe"))
  /\ list' = [list EXCEPT !["safe"] = list["building"], !["building"] = {}]
  /\ pc' = "callback"
  /\ UNCHANGED <<connection, device, streams>>

FlushBegins ==
  /\ pc = "idle" /\ current_backend # None
  /\ pc' = "flush"
  /\ UNCHANGED <<connection, references, streams>>

\* Mutant: ready_devices_info still points to the list that was fetched.
FlushFetchesKeeping ==
  /\ pc = "flush"
  /\ IF list["ready"] = {} THEN pc' = "idle" /\ UNCHANGED list
     ELSE /\ pc' = "callback"
          /\ list' = [list EXCEPT !["old"] = list["safe"], !["safe"] = list["ready"]]
  /\ UNCHANGED <<connection, ref_count, device, streams>>

FlushFetches ==
  /\ pc = "flush"
  /\ IF list["ready"] = {} THEN pc' = "idle" /\ UNCHANGED list
     ELSE /\ pc' = "callback"
          /\ list' = [list EXCEPT !["old"] = list["safe"],
                                  !["safe"] = list["ready"], !["ready"] = {}]
  /\ UNCHANGED <<connection, ref_count, device, streams>>

\* on_devices_change returns.
FlushEnds ==
  /\ pc = "callback" /\ pc' = "idle"
  /\ ref_count' = Unreferenced(DevicesOf("old"))
  /\ list' = [list EXCEPT !["old"] = {}]
  /\ UNCHANGED <<connection, device, streams>>

-----------------------------------------------------------------------------
(* The client, on the thread that flushes *)

Running == pc \in {"idle", "callback"}

Hold(h, d) ==
  /\ device[h] = NoDevice
  /\ device' = [device EXCEPT ![h] = d]
  /\ ref_count' = Referenced(d)
  /\ UNCHANGED <<pc, connection, list>>

Release(h) ==
  /\ device[h] # NoDevice
  /\ ref_count' = Unreferenced({device[h]})
  /\ device' = [device EXCEPT ![h] = NoDevice]
  /\ UNCHANGED <<pc, connection, list>>

\* soundio_get_input_device and soundio_get_output_device
GetDevice ==
  /\ Running /\ current_backend # None
  /\ \E h \in Handles, d \in DevicesOf("safe") : Hold(h, d)
  /\ UNCHANGED streams

soundio_device_ref ==
  /\ Running
  /\ \E h \in Handles, h0 \in Handles : device[h0] # NoDevice /\ Hold(h, device[h0])
  /\ UNCHANGED streams

\* Devices outlive their backend and soundio.
soundio_device_unref ==
  /\ Running \/ pc = "gone"
  /\ \E h \in Handles : Release(h)
  /\ UNCHANGED streams

\* Mutant: the stream does not take a reference.
StreamCreateUnreferenced ==
  /\ Running
  /\ \E s \in Streams, h \in Handles :
       /\ device[h] # NoDevice /\ device[s] = NoDevice
       /\ device' = [device EXCEPT ![s] = device[h]]
       /\ stream' = [stream EXCEPT ![s] = "created"]
  /\ UNCHANGED <<pc, connection, list, ref_count, settings>>

\* soundio_outstream_create and soundio_instream_create, of a device held.
StreamCreate ==
  /\ Running
  /\ \E s \in Streams, h \in Handles :
       /\ device[h] # NoDevice
       /\ Hold(s, device[h])
       /\ stream' = [stream EXCEPT ![s] = "created"]
  /\ UNCHANGED settings

\* What open puts where the client asked for nothing.
DefaultFormat(d) ==
  IF soundio_device_supports_format(d, "Float32NE") THEN "Float32NE"
  ELSE Head(d.formats)

DefaultLayout(d) ==
  IF soundio_device_supports_layout(d, Builtin("Stereo")) THEN Builtin("Stereo")
  ELSE Head(d.layouts)

Resolved(d, asked) ==
  [format |-> IF asked.format = "Invalid" THEN DefaultFormat(d) ELSE asked.format,
   layout |-> IF asked.layout = <<>> THEN DefaultLayout(d) ELSE asked.layout,
   sample_rate |-> IF asked.sample_rate = 0
                   THEN soundio_device_nearest_sample_rate(d, 48000)
                   ELSE asked.sample_rate]

CanOpen(d, aim, asked) ==
  /\ d.aim = aim /\ ~d.probe_error
  /\ Len(asked.layout) <= SOUNDIO_MAX_CHANNELS

\* The backend opens the stream or fails; a stream that failed is destroyed.
Opened(s) == \E result \in {"opened", "failed"} : stream' = [stream EXCEPT ![s] = result]

soundio_outstream_open ==
  /\ Running /\ methods
  /\ \E s \in OutStreams, asked \in Asked :
       /\ stream[s] = "created"
       /\ LET d == capability[device[s]]
          IN  IF CanOpen(d, "output", asked)
              THEN Opened(s) /\ settings' = [settings EXCEPT ![s] = Resolved(d, asked)]
              ELSE stream' = [stream EXCEPT ![s] = "failed"] /\ UNCHANGED settings
  /\ UNCHANGED <<pc, connection, references>>

\* A format not set is refused before the default could be chosen.
soundio_instream_open ==
  /\ Running /\ methods
  /\ \E s \in InStreams, asked \in Asked :
       /\ stream[s] = "created"
       /\ LET d == capability[device[s]]
          IN  IF CanOpen(d, "input", asked) /\ asked.format # "Invalid"
              THEN Opened(s) /\ settings' = [settings EXCEPT ![s] = Resolved(d, asked)]
              ELSE stream' = [stream EXCEPT ![s] = "failed"] /\ UNCHANGED settings
  /\ UNCHANGED <<pc, connection, references>>

StreamDestroy ==
  /\ Running
  /\ \E s \in Streams :
       /\ stream[s] # "none"
       /\ Release(s)
       /\ stream' = [stream EXCEPT ![s] = "none"]
       /\ settings' = [settings EXCEPT ![s] = Unset]

-----------------------------------------------------------------------------
Connecting ==
  \/ soundio_create \/ soundio_connect \/ soundio_connect_backend
  \/ InitStep \/ InitFails \/ InitAborts \/ InitEnds
  \/ soundio_disconnect \/ soundio_destroy

Scan ==
  \/ ScanBegins \/ ScanAppends \/ ScanFails \/ ScanLoses
  \/ ScanPublishes \/ ScanReplaces

Flush == FlushBegins \/ FlushFetches \/ FlushEnds

Client ==
  \/ GetDevice \/ soundio_device_ref \/ soundio_device_unref
  \/ StreamCreate \/ soundio_outstream_open \/ soundio_instream_open
  \/ StreamDestroy

Next == Connecting \/ Scan \/ Flush \/ Client

Spec == Init /\ [][Next]_vars

-----------------------------------------------------------------------------
(* Properties *)

HoldersOf(d) ==
  {h \in Holders : device[h] = d} \cup {l \in Lists : d \in DevicesOf(l)}

(***************************************************************************)
(* ref_count is the number of lists, client handles and streams that point *)
(* to the device, after any mixture of scans, flushes, failures and        *)
(* disconnections: nobody points to a device that was freed, and a device  *)
(* that nobody points to is freed, but for those of the lists that ALSA's  *)
(* scans lose.                                                             *)
(***************************************************************************)
RefsAreHeld ==
  /\ device \in [Holders -> Devices \cup {NoDevice}]
  /\ \A l \in Lists : list[l] \subseteq SUBSET Devices
  /\ \A d \in Devices : ref_count[d] = Cardinality(HoldersOf(d))

(***************************************************************************)
(* ref_count is a plain int.  The devices that ALSA's thread counts, those *)
(* of the list it builds and of the list it has published, are none that   *)
(* the client's thread counts: those of the lists it has fetched, of its   *)
(* handles and of its streams.                                             *)
(***************************************************************************)
CountsAreUnshared ==
  LET theirs == DevicesOf("building") \cup DevicesOf("ready")
      ours == DevicesOf("safe") \cup DevicesOf("old") \cup {device[h] : h \in Holders}
  IN  theirs \cap ours = {}

(***************************************************************************)
(* A connection that ended or was refused with an error, at any step of    *)
(* any init function, leaves no list and no pointer to a function behind.  *)
(* Lost is only what ALSA had acquired before the pipe that it could not   *)
(* have, and the lists of its scans that found no next card.               *)
(***************************************************************************)
NothingLeftBehind ==
  pc \in {"idle", "gone"} /\ current_backend = None =>
    /\ backend_data = {} /\ ~methods
    /\ \A l \in Lists \ {"lost"} : list[l] = {}
    /\ leaked \subseteq
         {"alsa"} \X {"mutex", "cond", "notify_fd", "notify_wd", "devices_info"}
    /\ list["lost"] # {} => <<"alsa", "devices_info">> \in leaked

\* The rate next to the asked one that a device has, the next above it if any.
IsNearestAbove(d, rate, nearest) ==
  LET rates == Range(d.sample_rates)
      above == {r \in rates : r[2] >= rate}
      High(r) == soundio_int_clamp(r[1], rate, r[2])
  IN  /\ soundio_device_supports_sample_rate(d, nearest)
      /\ IF above = {} THEN \A r \in rates : r[2] <= nearest
         ELSE nearest >= rate /\ \A r \in above : nearest <= High(r)

AsPromised(d, given) ==
  /\ \/ given.format \in {a.format : a \in Asked} \ {"Invalid"}
     \/ /\ given.format \in Range(d.formats)
        /\ "Float32NE" \in Range(d.formats) => given.format = "Float32NE"
  /\ \/ given.layout \in {a.layout : a \in Asked} \ {<<>>}
     \/ /\ given.layout \in Range(d.layouts)
        /\ Builtin("Stereo") \in Range(d.layouts) => given.layout = Builtin("Stereo")
  /\ \/ given.sample_rate \in {a.sample_rate : a \in Asked} \ {0}
     \/ IsNearestAbove(d, 48000, given.sample_rate)

(***************************************************************************)
(* soundio.h of the fields of a stream: what the client does not set is    *)
(* float and stereo where the device has them, else what the device has,   *)
(* and the rate nearest to 48000, rounded up.  A stream opens on a device  *)
(* of its own direction.                                                   *)
(***************************************************************************)
OpensAsPromised ==
  \A s \in Streams : stream[s] = "opened" =>
    LET d == capability[device[s]]
    IN  /\ d.aim = IF s \in OutStreams THEN "output" ELSE "input"
        /\ AsPromised(d, settings[s])
=============================================================================
