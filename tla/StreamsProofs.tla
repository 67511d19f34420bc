---------------------------- MODULE StreamsProofs ----------------------------
(***************************************************************************)
(* The streams of all backends implement OutStream and InStream, for every *)
(* size of the buffer and of a period and for every number of              *)
(* interruptions, but for the two steps that Streams leaves out.           *)
(***************************************************************************)
EXTENDS Streams, TLAPS

Stages ==
  {"created", "failed", "opening", "timing", "opened", "starting", "started",
   "closing", "joining", "closed", "destroyed"}

Callbacks == {"prefill", "callback"}

Typed ==
  /\ direction \in {"out", "in"} /\ stream \in Stages
  /\ buffered \in Nat /\ granted \in Nat /\ frames_left \in Int
  /\ clear_buffer_flag \in BOOLEAN

\* The client has a stream that was started and is not destroyed.
Begun ==
  \/ stream \in {"starting", "started", "joining"}
  \/ stream = "timing" /\ IsIn

\* Frames are granted only in a callback, and no more than it has left; a
\* callback runs and a device holds frames only between start and destroy.
CallOrder ==
  /\ pc \in Callbacks => Begun
  /\ pc \notin Callbacks => granted = 0
  /\ granted > 0 => granted <= frames_left
  /\ IsIn /\ pc \in Callbacks => frames_left >= 0
  /\ buffered > 0 => Begun

\* A stream that a client is given has no clear pending.
Fresh == IsOut /\ stream \in {"opening", "timing"} => clear_buffer_flag

\* What belongs to other backends is as it was.
AtRest ==
  /\ current_backend # "alsa" => ~stale
  /\ current_backend # "pulseaudio" => peek_buf_index = 0
  /\ current_backend # "wasapi" =>
       ~is_raw /\ audio_client = "none" /\ read_buf_frames_left = 0
  /\ current_backend = "dummy" => IsIn

LoopInv == Typed /\ CallOrder /\ Fresh

PcmStates ==
  {"OPEN", "SETUP", "PREPARED", "RUNNING", "PAUSED", "XRUN", "SUSPENDED",
   "DISCONNECTED"}

AlsaInv ==
  /\ pcm \in PcmStates /\ suspended_state \in PcmStates
  /\ access \in {"rw", "mmap"}
  /\ stale \in BOOLEAN
  /\ pc \notin {"none", "ended"} => Begun
  /\ pc \in {"polled", "clear?"} => IsOut
  /\ pcm \in {"RUNNING", "PAUSED"} => Begun
  /\ stale => granted > 0 /\ IsIn
  /\ IsIn /\ access = "mmap" /\ ~stale => granted <= buffered
  /\ stream = "opened" \/ Begun => pcm # "OPEN"
  /\ pcm = "SETUP" => buffered = 0 /\ IsOut
  /\ pcm = "SUSPENDED" => suspended_state \in {"PREPARED", "RUNNING", "PAUSED", "XRUN"}
  /\ pc = "SETUP" => pcm \in {"SETUP", "DISCONNECTED"}
  /\ pc \in {"XRUN", "SUSPENDED"} => pcm \in {"XRUN", "SUSPENDED", "DISCONNECTED"}

\* The chunks cs hold n frames: rest[i] are those of the chunks from i on.
Holds(cs, n) ==
  \E rest \in [1..(Len(cs) + 1) -> Nat] :
    /\ rest[1] = n /\ rest[Len(cs) + 1] = 0
    /\ \A i \in 1..Len(cs) : rest[i] = cs[i].frames + rest[i + 1]

\* A chunk that has been peeked at is read in part, and no callback runs after
\* the connection is lost.
Peeked ==
  /\ IsOut => peek_buf_index = 0
  /\ peek_buf => chunks # <<>> /\ peek_buf_index < Head(chunks).frames
  /\ ~peek_buf => peek_buf_index = 0
  /\ IsIn /\ granted > 0 =>
       /\ chunks # <<>>
       /\ peek_buf => granted <= Head(chunks).frames - peek_buf_index
       /\ ~peek_buf => granted = Head(chunks).frames
  /\ IsIn /\ pc = "callback" => frames_left >= buffered - peek_buf_index

Locks ==
  /\ pc \in {"none", "prefill", "arrived", "callback"}
  /\ pc \in {"arrived", "callback"} => lock = "main_loop" /\ Begun
  /\ pc = "prefill" => lock = "client"
  /\ pc = "arrived" => IsIn /\ buffered > 0
  /\ IsIn /\ pc \in {"arrived", "callback"} => pa_state = "READY"
  /\ lock = "client" <=> IsOut /\ stream = "starting"
  /\ IsOut /\ stream = "starting" /\ pc = "none" => buffered = 0
  /\ IsIn /\ pa_state \in {"CREATING", "READY"} => Begun
  /\ stream = "opening" => IsOut

PulseInv ==
  /\ chunks \in Seq(Pulse!Chunk) /\ peek_buf \in BOOLEAN /\ peek_buf_index \in Nat
  /\ IsIn => Holds(chunks, buffered)
  /\ Peeked /\ Locks

JackInv ==
  /\ nframes \in 1..Room
  /\ pc \in {"none", "process", "callback"}
  /\ jack_client = "active" \/ pc # "none" => Begun
  /\ pc = "process" => buffered = IF IsIn THEN nframes ELSE 0
  /\ IsIn /\ pc = "callback" => frames_left <= buffered

CoreAudioInv ==
  /\ pc \in {"none", "cycle", "callback"}
  /\ instance = "running" \/ pc # "none" => Begun
  /\ pc = "cycle" => (buffered > 0 <=> IsIn)
  /\ IsIn /\ pc = "callback" => frames_left <= buffered

DummyInv ==
  /\ pc \in {"none", "check", "woken", "deliver", "callback", "ended"}
  /\ pc \notin {"none", "ended"} => Begun
  /\ buffered <= Room
  /\ pc = "deliver" => frames_left > 0
  /\ pc \in {"deliver", "callback"} => frames_left <= buffered

WasapiInv ==
  /\ is_raw \in BOOLEAN
  /\ audio_client \in {"none", "stopped", "running", "invalid"}
  /\ opened_buf_frames \in Nat /\ read_buf_frames_left \in Nat
  /\ pc \in {"none", "open", "waiting", "run", "prefill", "start", "loop", "clear?",
             "pause?", "ask", "callback", "ended"}
  /\ pc \notin {"none", "open", "waiting", "ended"} => Begun
  /\ pc = "open" => stream = "opening"
  /\ pc = "waiting" => stream \notin {"created", "failed", "destroyed"}
  /\ pc = "clear?" => IsOut /\ ~is_raw
  /\ audio_client = "none" => pc \in {"none", "open", "ended"}
  /\ stream = "created" \/ pc = "open" => audio_client = "none"
  /\ audio_client = "running" => Begun
  /\ IsOut /\ pc \in {"waiting", "run"} => buffered = 0
  /\ IsIn => buffered <= Room
  /\ read_buf_frames_left > 0 =>
       /\ read_buf_frames_left <= opened_buf_frames
       /\ ~Gone => opened_buf_frames <= buffered
  /\ IsIn /\ granted > 0 => granted <= read_buf_frames_left
  /\ IsOut => read_buf_frames_left = 0

IInv ==
  /\ LoopInv /\ AtRest
  /\ current_backend = "alsa" => AlsaInv
  /\ current_backend = "pulseaudio" => PulseInv
  /\ current_backend = "jack" => JackInv
  /\ current_backend = "coreaudio" => CoreAudioInv
  /\ current_backend = "dummy" => DummyInv
  /\ current_backend = "wasapi" => WasapiInv

Kept ==
  /\ [Playing!Next \/ CallsEarly]_(Playing!vars)
  /\ [Recording!Next \/ ReadsAgain]_(Recording!vars)

-----------------------------------------------------------------------------
(* What a step does to the two abstract streams, in all backends           *)

Same == UNCHANGED <<direction, current_backend, is_raw>>

LEMMA Directions ==
  ASSUME Typed
  PROVE  IsIn <=> ~IsOut
BY DEF Typed, IsIn, IsOut

LEMMA StartedIsBegun ==
  ASSUME Typed
  PROVE  Stream = "started" <=> Begun
BY DEF Typed, Stages, Stream, Begun, IsIn

LEMMA OutOnly ==
  ASSUME Typed, IsOut, UNCHANGED direction
  PROVE  UNCHANGED Recording!vars
BY DEF Typed, IsOut, IsIn, Recording!vars

LEMMA InOnly ==
  ASSUME Typed, IsIn, UNCHANGED direction
  PROVE  UNCHANGED Playing!vars
BY DEF Typed, IsOut, IsIn, Playing!vars

LEMMA OutKept ==
  ASSUME Typed, IsOut, UNCHANGED direction,
         Playing!Next \/ CallsEarly \/ UNCHANGED Playing!vars
  PROVE  Kept
BY OutOnly DEF Kept

LEMMA InKept ==
  ASSUME Typed, IsIn, UNCHANGED direction,
         Recording!Next \/ ReadsAgain \/ UNCHANGED Recording!vars
  PROVE  Kept
BY InOnly DEF Kept

-----------------------------------------------------------------------------
(* Output streams *)

LEMMA PartOf ==
  ASSUME NEW all \in Nat, NEW rest \in Nat, NEW due \in Nat, rest < all, all - rest <= due
  PROVE  all - rest \in 1..due /\ all - rest <= all /\ rest = all - (all - rest)
OBVIOUS

LEMMA DueIsNat ==
  ASSUME Typed
  PROVE  Due \in Nat
BY StreamLoopAssumption DEF Typed, Due

\* The thread goes on outside of a callback, or the device plays or stops.
LEMMA OutGoesOn ==
  ASSUME LoopInv, IsOut, Same, UNCHANGED <<stream, callback_vars, clear_buffer_flag>>,
         pc' = pc \/ (pc \notin Callbacks /\ pc' \notin Callbacks /\ pc # "ended"),
         \/ buffered' = buffered
         \/ buffered' \in 0..buffered /\ buffered - buffered' <= Due
         \/ buffered' = 0 /\ (Broken \/ Broken')
  PROVE  LoopInv' /\ Kept
<1> USE DEF Same, callback_vars
<1>1. LoopInv'
  BY DEF LoopInv, Typed, CallOrder, Fresh, Begun, IsIn, IsOut
<1>2. Stream' = Stream /\ (Begun <=> Stream = "started")
  BY StartedIsBegun DEF LoopInv, Stream, IsIn
<1>3. UNCHANGED <<direction, Allowance, granted>> /\ (InCallback' <=> InCallback)
      /\ (Clears' <=> Clears) /\ IsOut'
  BY DEF InCallback, Allowance, Clears, Callbacks, IsOut
<1>4. CASE pc # "ended" /\ IF pc' = "ended" THEN buffered > 0 ELSE buffered' < buffered
  <2>1. Stream = "started"
    BY <1>2, <1>4 DEF LoopInv, Typed, CallOrder
  <2>2. CASE pc' = "ended" \/ (buffered' = 0 /\ (Broken \/ Broken'))
    <3>1. Broken \/ Broken'
      BY <2>2 DEF Broken
    <3>2. Playing!Lose
      BY <1>2, <1>3, <1>4, <2>1, <2>2, <3>1 DEF Playing!Lose
    <3> QED
      BY <1>1, <3>2, OutKept DEF LoopInv, Playing!Next
  <2>3. CASE /\ pc' # "ended"
             /\ buffered' \in 0..buffered /\ buffered - buffered' <= Due
    <3> DEFINE n == buffered - buffered'
    <3>0. Due \in Nat /\ buffered \in Nat
      BY DueIsNat DEF LoopInv, Typed
    <3>1. buffered' < buffered /\ buffered' \in Nat
      BY <1>4, <2>3, <3>0
    <3>2. n \in 1..Due /\ n <= buffered /\ buffered' = buffered - n
      BY <2>3, <3>0, <3>1, PartOf
    <3> HIDE DEF n
    <3>3. Playing!Play
      BY <1>2, <1>3, <1>4, <2>1, <2>3, <3>2 DEF Playing!Play
    <3> QED
      BY <1>1, <3>3, OutKept DEF LoopInv, Playing!Next
  <2> QED
    BY <1>4, <2>2, <2>3 DEF LoopInv, Typed
<1>5. CASE ~(pc # "ended" /\ IF pc' = "ended" THEN buffered > 0 ELSE buffered' < buffered)
  <2>1. UNCHANGED Playing!vars
    BY <1>2, <1>3, <1>5 DEF Playing!vars, LoopInv, Typed
  <2> QED
    BY <1>1, <2>1, OutKept DEF LoopInv
<1> QED
  BY <1>4, <1>5

LEMMA OutCalls ==
  ASSUME LoopInv, IsOut, Same, UNCHANGED <<stream, buffered, granted, clear_buffer_flag>>,
         Begun, pc \notin Callbacks \cup {"ended"}, pc' \in Callbacks,
         frames_left' \in 1..(Room - buffered)
  PROVE  LoopInv' /\ Kept
<1> USE DEF Same, Callbacks
<1>1. LoopInv'
  BY DEF LoopInv, Typed, CallOrder, Fresh, Begun, IsIn, IsOut
<1>2. Stream' = Stream /\ Stream = "started"
  BY StartedIsBegun DEF LoopInv, Stream, IsIn
<1>3. ~InCallback /\ InCallback' /\ Allowance' = frames_left' /\ (Clears' <=> Clears)
      /\ IsOut'
  BY StreamLoopAssumption DEF InCallback, Allowance, Clears, IsOut, LoopInv, Typed
<1>4. Playing!Call
  BY <1>2, <1>3 DEF Playing!Call
<1> QED
  BY <1>1, <1>4, OutKept DEF LoopInv, Playing!Next

LEMMA OutBegins ==
  ASSUME LoopInv, IsOut, Same,
         UNCHANGED <<stream, pc, buffered, frames_left, clear_buffer_flag>>,
         pc \in Callbacks, granted = 0, granted' \in 1..frames_left
  PROVE  LoopInv' /\ Kept
<1> USE DEF Same, Callbacks
<1>1. LoopInv'
  BY DEF LoopInv, Typed, CallOrder, Fresh, Begun, IsIn, IsOut
<1>2. Stream' = Stream
  BY DEF Stream, IsIn
<1>3. InCallback /\ InCallback' /\ Allowance' = frames_left /\ Allowance = frames_left
      /\ (Clears' <=> Clears) /\ IsOut'
  BY DEF InCallback, Allowance, Clears, IsOut, LoopInv, Typed
<1>4. Playing!Begin
  BY <1>2, <1>3 DEF Playing!Begin
<1> QED
  BY <1>1, <1>4, OutKept DEF LoopInv, Playing!Next

\* With a clear pending, the frames may take the place of those before them.
LEMMA OutEnds ==
  ASSUME LoopInv, IsOut, Same, UNCHANGED <<stream, pc>>,
         pc \in Callbacks, granted > 0, Ends,
         \/ buffered' = buffered + granted /\ UNCHANGED clear_buffer_flag
         \/ /\ Clears /\ ~clear_buffer_flag
            /\ buffered' = granted /\ clear_buffer_flag' = TRUE
  PROVE  LoopInv' /\ Kept
<1> USE DEF Same, Callbacks, Ends
<1>1. LoopInv'
  <2>1. Begun' /\ granted' = 0
    BY DEF LoopInv, CallOrder, Begun, IsIn
  <2>2. buffered' \in Nat /\ frames_left' \in Int
    BY DEF LoopInv, Typed
  <2>3. clear_buffer_flag' \in BOOLEAN
    BY DEF LoopInv, Typed
  <2>4. Typed'
    BY <2>1, <2>2, <2>3 DEF LoopInv, Typed
  <2> QED
    BY <2>1, <2>4 DEF LoopInv, CallOrder, Fresh, IsOut, IsIn
<1>2. Stream' = Stream /\ Stream = "started"
  BY StartedIsBegun DEF LoopInv, CallOrder, Stream, IsIn
<1>3. /\ InCallback /\ InCallback' /\ Allowance = frames_left
      /\ Allowance' = frames_left - granted /\ (Clears' <=> Clears) /\ IsOut'
  BY DEF InCallback, Allowance, Clears, IsOut, LoopInv, Typed, CallOrder
<1>4. Playing!End \/ Playing!EndCleared
  BY <1>2, <1>3 DEF Playing!End, Playing!EndCleared, LoopInv, Typed
<1> QED
  BY <1>1, <1>4, OutKept DEF LoopInv, Playing!Next

LEMMA OutFails ==
  ASSUME LoopInv, IsOut, Same,
         UNCHANGED <<stream, pc, buffered, clear_buffer_flag>>,
         pc \in Callbacks, frames_left > 0, ReturnsError
  PROVE  LoopInv' /\ Kept
<1> USE DEF Same, Callbacks, ReturnsError
<1>1. LoopInv'
  BY DEF LoopInv, Typed, CallOrder, Fresh, Begun, IsIn, IsOut
<1>2. Stream' = Stream
  BY DEF Stream, IsIn
<1>3. InCallback /\ InCallback' /\ Allowance' = 0 /\ (Clears' <=> Clears) /\ IsOut'
  BY DEF InCallback, Allowance, Clears, IsOut, LoopInv, Typed
<1>4. Playing!Fail
  BY <1>2, <1>3 DEF Playing!Fail
<1> QED
  BY <1>1, <1>4, OutKept DEF LoopInv, Playing!Next

\* A callback that was told of -1 frames is none to the abstract stream.
LEMMA OutReturns ==
  ASSUME LoopInv, IsOut, Same, UNCHANGED <<granted, buffered, clear_buffer_flag>>,
         stream' = stream \/ (stream = "starting" /\ stream' = "started"),
         pc \in Callbacks, granted = 0, pc' \notin Callbacks \cup {"ended"},
         frames_left' \in Int
  PROVE  LoopInv' /\ Kept
<1> USE DEF Same, Callbacks
<1>1. LoopInv'
  BY DEF LoopInv, Typed, CallOrder, Fresh, Begun, IsIn, IsOut, Stages
<1>2. Stream' = Stream
  BY DEF Stream, IsIn
<1>3. /\ ~InCallback' /\ Allowance' = 0 /\ (Clears' <=> Clears) /\ IsOut'
      /\ ~InCallback => Allowance = 0
  BY DEF InCallback, Allowance, Clears, IsOut, LoopInv, Typed
<1>4. CASE InCallback
  <2>1. Playing!Return
    BY <1>2, <1>3, <1>4 DEF Playing!Return
  <2> QED
    BY <1>1, <2>1, OutKept DEF LoopInv, Playing!Next
<1>5. CASE ~InCallback
  <2>1. UNCHANGED Playing!vars
    BY <1>2, <1>3, <1>5 DEF Playing!vars
  <2> QED
    BY <1>1, <2>1, OutKept DEF LoopInv
<1> QED
  BY <1>4, <1>5

\* A clear that was asked for is done, or fails and the thread ends.
LEMMA OutClears ==
  ASSUME LoopInv, IsOut, Same, UNCHANGED <<stream, callback_vars>>,
         Begun, ~is_raw, current_backend \notin {"jack", "coreaudio"},
         ~clear_buffer_flag, clear_buffer_flag' = TRUE,
         pc \notin Callbacks \cup {"ended"}, pc' \notin Callbacks,
         buffered' \in {0, buffered}, pc' = "ended" \/ buffered' = 0
  PROVE  LoopInv' /\ Kept
<1> USE DEF Same, Callbacks, callback_vars
<1>1. LoopInv'
  BY DEF LoopInv, Typed, CallOrder, Fresh, Begun, IsIn, IsOut
<1>2. Stream' = Stream /\ Stream = "started"
  BY StartedIsBegun DEF LoopInv, Stream, IsIn
<1>3. /\ ~InCallback /\ ~InCallback' /\ Allowance = 0 /\ Allowance' = 0
      /\ Clears /\ Clears' /\ IsOut'
  BY DEF InCallback, Allowance, Clears, IsOut, LoopInv, Typed
<1>4. Playing!Clear
  BY <1>2, <1>3 DEF Playing!Clear
<1> QED
  BY <1>1, <1>4, OutKept DEF LoopInv, Playing!Next

LEMMA OutAsksToClear ==
  ASSUME LoopInv, RequestClear, UNCHANGED <<current_backend, is_raw>>
  PROVE  LoopInv' /\ Kept
<1> USE DEF RequestClear, callback_vars
<1>1. LoopInv' /\ IsOut
  BY DEF LoopInv, Typed, CallOrder, Fresh, Begun, IsIn, IsOut, Opened
<1>2. Stream' = Stream /\ Stream \in {"opened", "started"}
  BY DEF Stream, IsIn, Opened
<1>3. /\ InCallback' <=> InCallback
      /\ Clears' <=> Clears
      /\ Allowance' = Allowance /\ IsOut'
  BY <1>1 DEF InCallback, Allowance, Clears, IsOut
<1>4. Playing!RequestClear \/ UNCHANGED Playing!vars
  BY <1>1, <1>2, <1>3 DEF Playing!RequestClear, Playing!vars
<1> QED
  BY <1>1, <1>4, OutKept DEF LoopInv, Playing!Next

-----------------------------------------------------------------------------
(* Input streams                                                           *)

\* What the client has been granted of what was captured, and what is left.
Taken == IF stale \/ Gone THEN 0 ELSE granted
Held == IF Gone THEN 0 ELSE Captured

\* The device has stopped, or stops.
Stops == Broken \/ Overrun \/ Broken' \/ Overrun'

\* The thread goes on outside of a callback, the device captures or loses.
LEMMA InGoesOn ==
  ASSUME LoopInv, IsIn, Same, UNCHANGED <<stream, callback_vars, clear_buffer_flag>>,
         pc' = pc \/ (pc \notin Callbacks /\ pc' \notin Callbacks),
         buffered' \in Nat, buffered' > 0 => Begun,
         \/ UNCHANGED <<Taken, Held>>
         \/ Begun /\ Taken' = Taken /\ Held' > Held
         \/ Begun /\ Taken' = 0 /\ Held' = 0 /\ Stops
  PROVE  LoopInv' /\ Kept
<1> USE DEF Same, callback_vars, Callbacks
<1>1. LoopInv'
  BY DEF LoopInv, Typed, CallOrder, Fresh, Begun, IsIn, IsOut
<1>2. Stream' = Stream /\ (Begun <=> Stream = "started")
  BY StartedIsBegun DEF LoopInv, Stream, IsIn
<1>3. /\ Allowance' = Allowance /\ Allowance \in Nat
      /\ InCallback' <=> InCallback
      /\ IsIn'
  BY DEF InCallback, Allowance, IsIn, LoopInv, Typed
<1>4. CASE UNCHANGED <<Taken, Held>>
  <2>1. UNCHANGED Recording!vars
    BY <1>2, <1>3, <1>4 DEF Recording!vars, Taken, Held
  <2> QED
    BY <1>1, <2>1, InKept DEF LoopInv
<1>5. CASE Begun /\ Taken' = Taken /\ Held' > Held
  <2>1. Recording!Capture
    BY <1>2, <1>3, <1>5 DEF Recording!Capture, Taken, Held
  <2> QED
    BY <1>1, <2>1, InKept DEF LoopInv, Recording!Next
<1>6. CASE Begun /\ Taken' = 0 /\ Held' = 0 /\ Stops
  <2>1. Recording!Lose
    BY <1>2, <1>3, <1>6 DEF Stops, Recording!Lose, Taken, Held
  <2> QED
    BY <1>1, <2>1, InKept DEF LoopInv, Recording!Next
<1> QED
  BY <1>4, <1>5, <1>6

LEMMA InCalls ==
  ASSUME LoopInv, IsIn, Same, UNCHANGED <<stream, buffered, granted, clear_buffer_flag>>,
         Begun, pc \notin Callbacks, pc' \in Callbacks, frames_left' \in Nat \ {0},
         UNCHANGED <<Taken, Held>>
  PROVE  LoopInv' /\ Kept
<1> USE DEF Same, Callbacks
<1>1. LoopInv'
  BY DEF LoopInv, Typed, CallOrder, Fresh, Begun, IsIn, IsOut
<1>2. Stream' = Stream /\ Stream = "started"
  BY StartedIsBegun DEF LoopInv, Stream, IsIn
<1>3. ~InCallback /\ InCallback' /\ Allowance' = frames_left' /\ IsIn'
  BY DEF InCallback, Allowance, IsIn, LoopInv, Typed
<1>4. Recording!Call
  BY <1>2, <1>3 DEF Recording!Call, Taken, Held
<1> QED
  BY <1>1, <1>4, InKept DEF LoopInv, Recording!Next

\* Frames are granted that the device holds, or some that do not count.
LEMMA InBegins ==
  ASSUME LoopInv, IsIn, Same, UNCHANGED <<stream, pc, frames_left, clear_buffer_flag>>,
         pc \in Callbacks, granted = 0, granted' \in 1..frames_left, buffered' \in Nat,
         Taken = 0,
         \/ Held' = Held /\ Taken' = 0
         \/ Held' = Held /\ Taken' = granted' /\ Taken' <= Held
         \/ Held' = 0 /\ Taken' = 0 /\ Stops
  PROVE  LoopInv' /\ Kept
<1> USE DEF Same, Callbacks
<1>1. LoopInv'
  BY DEF LoopInv, Typed, CallOrder, Fresh, Begun, IsIn, IsOut
<1>2. Stream' = Stream /\ Stream = "started"
  BY StartedIsBegun DEF LoopInv, Stream, IsIn, CallOrder
<1>3. InCallback /\ InCallback' /\ Allowance' = frames_left /\ Allowance = frames_left
      /\ IsIn'
  BY DEF InCallback, Allowance, IsIn, LoopInv, Typed
<1>4. CASE Held' = Held /\ Taken' = 0
  <2>1. UNCHANGED Recording!vars
    BY <1>2, <1>3, <1>4 DEF Recording!vars, Taken, Held
  <2> QED
    BY <1>1, <2>1, InKept DEF LoopInv
<1>5. CASE Held' = Held /\ Taken' = granted' /\ Taken' <= Held
  <2> DEFINE taken == IF IsIn /\ ~stale /\ ~Gone THEN granted ELSE 0
             held == IF IsIn /\ ~Gone THEN Captured ELSE 0
  <2>1. taken = Taken /\ taken' = Taken' /\ held = Held /\ held' = Held'
    BY <1>3 DEF Taken, Held
  <2>2. taken = 0 /\ taken' > 0 /\ taken' <= Allowance /\ taken' <= held /\ held' = held
    BY <1>3, <1>5, <2>1 DEF LoopInv, Typed
  <2>3. Recording!Begin
    BY <1>2, <1>3, <2>2 DEF Recording!Begin
  <2> QED
    BY <1>1, <2>3, InKept DEF LoopInv, Recording!Next
<1>6. CASE Held' = 0 /\ Taken' = 0 /\ Stops
  <2>1. Recording!Lose
    BY <1>2, <1>3, <1>6 DEF Stops, Recording!Lose, Taken, Held, LoopInv, Typed
  <2> QED
    BY <1>1, <2>1, InKept DEF LoopInv, Recording!Next
<1> QED
  BY <1>4, <1>5, <1>6

LEMMA InEnds ==
  ASSUME LoopInv, IsIn, Same, UNCHANGED <<stream, pc, clear_buffer_flag>>,
         pc \in Callbacks, granted > 0, Ends, buffered' \in Nat, Taken' = 0,
         \/ Taken = granted /\ Held' = Held - granted
         \/ Taken = 0 /\ Held' = Held
         \/ Held' = 0 /\ Stops
         \/ ReadsAgain
  PROVE  LoopInv' /\ Kept
<1> USE DEF Same, Callbacks, Ends
<1>1. LoopInv'
  BY DEF LoopInv, Typed, CallOrder, Fresh, Begun, IsIn, IsOut
<1>2. Stream' = Stream /\ Stream = "started"
  BY StartedIsBegun DEF LoopInv, Stream, IsIn, CallOrder
<1>3. /\ InCallback /\ InCallback' /\ Allowance = frames_left
      /\ Allowance' = frames_left - granted /\ IsIn'
  BY DEF InCallback, Allowance, IsIn, LoopInv, Typed, CallOrder
<1>4. Recording!End \/ Recording!Fail \/ Recording!Lose \/ ReadsAgain
  BY <1>2, <1>3 DEF Recording!End, Recording!Lose, Recording!Fail, Stops, Taken, Held,
                    LoopInv, Typed, CallOrder
<1> QED
  BY <1>1, <1>4, InKept DEF LoopInv, Recording!Next

LEMMA InFails ==
  ASSUME LoopInv, IsIn, Same, UNCHANGED <<stream, pc, buffered, clear_buffer_flag>>,
         pc \in Callbacks, frames_left > 0, ReturnsError,
         Taken' = 0, Held' = Held
  PROVE  LoopInv' /\ Kept
<1> USE DEF Same, Callbacks, ReturnsError
<1>1. LoopInv'
  BY DEF LoopInv, Typed, CallOrder, Fresh, Begun, IsIn, IsOut
<1>2. Stream' = Stream
  BY DEF Stream, IsIn
<1>3. InCallback /\ InCallback' /\ Allowance' = 0 /\ Allowance \in Nat /\ IsIn'
  BY DEF InCallback, Allowance, IsIn, LoopInv, Typed
<1>4. Recording!Fail
  BY <1>2, <1>3 DEF Recording!Fail, Taken, Held
<1> QED
  BY <1>1, <1>4, InKept DEF LoopInv, Recording!Next

LEMMA InReturns ==
  ASSUME LoopInv, IsIn, Same,
         UNCHANGED <<stream, granted, buffered, clear_buffer_flag>>,
         pc \in Callbacks, granted = 0, pc' \notin Callbacks, frames_left' \in Int,
         UNCHANGED <<Taken, Held>>
  PROVE  LoopInv' /\ Kept
<1> USE DEF Same, Callbacks
<1>1. LoopInv'
  BY DEF LoopInv, Typed, CallOrder, Fresh, Begun, IsIn, IsOut
<1>2. Stream' = Stream
  BY DEF Stream, IsIn
<1>3. InCallback /\ ~InCallback' /\ Allowance' = 0 /\ IsIn'
  BY DEF InCallback, Allowance, IsIn, LoopInv, Typed, CallOrder
<1>4. Recording!Return
  BY <1>2, <1>3 DEF Recording!Return, Taken, Held
<1> QED
  BY <1>1, <1>4, InKept DEF LoopInv, Recording!Next

-----------------------------------------------------------------------------
(* The client's calls, for streams of both directions                      *)

Quiet ==
  /\ pc' \notin Callbacks
  /\ UNCHANGED <<direction, current_backend, callback_vars>>
  /\ IsIn => UNCHANGED Held

\* While the stream has not begun there is nothing in it.
LEMMA NothingYet ==
  ASSUME LoopInv, ~Begun
  PROVE  buffered = 0 /\ granted = 0 /\ pc \notin Callbacks
BY DEF LoopInv, Typed, CallOrder

\* Open waits for a thread or a server, or fails.
LEMMA Tries ==
  ASSUME LoopInv, Quiet, ~Begun, stream \in {"created", "opening", "timing"},
         stream' \in {"opening", "failed"} \/ (IsOut /\ stream' = "timing"),
         UNCHANGED buffered, clear_buffer_flag' \in BOOLEAN,
         IsOut /\ stream' # "failed" => clear_buffer_flag' = TRUE
  PROVE  LoopInv' /\ Kept
<1> USE DEF Quiet, callback_vars
<1>1. LoopInv'
  BY NothingYet DEF LoopInv, Typed, CallOrder, Fresh, Begun, IsIn, IsOut, Stages
<1>2. Stream = "created" /\ Stream' = "created"
  BY DEF Stream, Begun, IsIn, IsOut, LoopInv, Typed
<1>3. ~InCallback /\ ~InCallback' /\ Allowance = 0 /\ Allowance' = 0
  BY NothingYet DEF InCallback, Allowance, Callbacks
<1>4. CASE IsOut
  <2>1. UNCHANGED Playing!vars
    BY <1>2, <1>3, <1>4, NothingYet DEF Playing!vars, IsOut
  <2> QED
    BY <1>1, <1>4, <2>1, OutKept DEF LoopInv
<1>5. CASE IsIn
  <2>1. UNCHANGED Recording!vars
    BY <1>2, <1>3, <1>5, NothingYet DEF Recording!vars, IsIn, Held
  <2> QED
    BY <1>1, <1>5, <2>1, InKept DEF LoopInv
<1> QED
  BY <1>4, <1>5, Directions DEF LoopInv

LEMMA Opens ==
  ASSUME LoopInv, Quiet, ~Begun, stream \in {"created", "opening", "timing"},
         stream' = "opened", UNCHANGED buffered, clear_buffer_flag' \in BOOLEAN,
         IsOut => clear_buffer_flag' = TRUE \/ current_backend \in {"jack", "coreaudio"}
  PROVE  LoopInv' /\ Kept
<1> USE DEF Quiet, callback_vars
<1>1. LoopInv'
  BY NothingYet DEF LoopInv, Typed, CallOrder, Fresh, Begun, IsIn, IsOut, Stages
<1>2. Stream = "created" /\ Stream' = "opened"
  BY DEF Stream, Begun, IsIn, IsOut, LoopInv, Typed
<1>3. ~InCallback /\ ~InCallback' /\ Allowance = 0 /\ Allowance' = 0
  BY NothingYet DEF InCallback, Allowance, Callbacks
<1>4. CASE IsOut
  <2>1. Clears' /\ ~clear_buffer_flag' => FALSE
    BY <1>4 DEF Clears
  <2>2. Playing!Open
    BY <1>2, <1>3, <1>4, <2>1, NothingYet DEF Playing!Open, IsOut
  <2> QED
    BY <1>1, <1>4, <2>2, OutKept DEF LoopInv, Playing!Next
<1>5. CASE IsIn
  <2>1. Recording!Open
    BY <1>2, <1>3, <1>5, NothingYet DEF Recording!Open, IsIn, Held
  <2> QED
    BY <1>1, <1>5, <2>1, InKept DEF LoopInv, Recording!Next
<1> QED
  BY <1>4, <1>5, Directions DEF LoopInv

LEMMA Starts ==
  ASSUME LoopInv, Quiet, stream = "opened", stream' \in {"starting", "started"},
         UNCHANGED <<buffered, clear_buffer_flag, is_raw>>
  PROVE  LoopInv' /\ Kept
<1> USE DEF Quiet, callback_vars
<1>1. ~Begun
  BY DEF Begun
<1>2. LoopInv'
  BY <1>1, NothingYet DEF LoopInv, Typed, CallOrder, Fresh, Begun, IsIn, IsOut, Stages
<1>3. Stream = "opened" /\ Stream' = "started"
  BY DEF Stream
<1>4. ~InCallback /\ ~InCallback' /\ Allowance = 0 /\ Allowance' = 0
      /\ (Clears' <=> Clears)
  BY <1>1, NothingYet DEF InCallback, Allowance, Callbacks, Clears
<1>5. CASE IsOut
  <2>1. Playing!Start
    BY <1>1, <1>3, <1>4, <1>5, NothingYet DEF Playing!Start, IsOut
  <2> QED
    BY <1>2, <1>5, <2>1, OutKept DEF LoopInv, Playing!Next
<1>6. CASE IsIn
  <2>1. Recording!Start
    BY <1>1, <1>3, <1>4, <1>6, NothingYet DEF Recording!Start, IsIn, Held
  <2> QED
    BY <1>2, <1>6, <2>1, InKept DEF LoopInv, Recording!Next
<1> QED
  BY <1>5, <1>6, Directions DEF LoopInv

\* A call goes on in its wait, or destroy begins to join.
LEMMA Waits ==
  ASSUME LoopInv, Same, UNCHANGED <<pc, buffered, callback_vars, clear_buffer_flag>>,
         \/ stream = "started" /\ stream' = "joining"
         \/ stream = "opened" /\ stream' = "closing"
         \/ IsIn /\ stream = "starting" /\ stream' = "timing"
         \/ IsIn /\ stream = "timing" /\ stream' = "started",
         IsIn => UNCHANGED <<Taken, Held>>
  PROVE  LoopInv' /\ Kept
<1> USE DEF Same, callback_vars
<1>1. LoopInv' /\ Stream' = Stream
  BY DEF LoopInv, Typed, CallOrder, Fresh, Begun, IsIn, IsOut, Stages, Stream
<1>2. /\ InCallback' <=> InCallback
      /\ Clears' <=> Clears
      /\ Allowance' = Allowance
  BY DEF InCallback, Allowance, Clears
<1>3. CASE IsOut
  <2>1. UNCHANGED Playing!vars
    BY <1>1, <1>2, <1>3 DEF Playing!vars, IsOut
  <2> QED
    BY <1>1, <1>3, <2>1, OutKept DEF LoopInv
<1>4. CASE IsIn
  <2>1. UNCHANGED Recording!vars
    BY <1>1, <1>2, <1>4 DEF Recording!vars, IsIn, Taken, Held
  <2> QED
    BY <1>1, <1>4, <2>1, InKept DEF LoopInv
<1> QED
  BY <1>3, <1>4, Directions DEF LoopInv

\* Destroy returns, or a stream that cannot be started is given up.
LEMMA Destroys ==
  ASSUME LoopInv, stream # "destroyed", stream' \in {"closed", "destroyed"},
         UNCHANGED <<direction, callback_vars, clear_buffer_flag>>,
         pc \notin Callbacks, pc' \notin Callbacks, buffered' = 0,
         IsIn => Held' = 0 /\ (stream = "closed" => Held = 0)
  PROVE  LoopInv' /\ Kept
<1> USE DEF callback_vars
<1>1. LoopInv'
  BY DEF LoopInv, Typed, CallOrder, Fresh, Begun, IsIn, IsOut, Stages
<1>2. /\ Stream' = "destroyed"
      /\ Stream = "destroyed" <=> stream = "closed"
  BY DEF Stream, IsIn, LoopInv, Typed, Stages
<1>3. ~InCallback /\ ~InCallback' /\ Allowance = 0 /\ Allowance' = 0 /\ granted = 0
  BY DEF InCallback, Allowance, Callbacks, LoopInv, CallOrder
<1>4. stream = "closed" => buffered = 0
  BY NothingYet DEF Begun
<1>5. CASE IsOut /\ stream # "closed"
  <2>1. Playing!Destroy
    BY <1>2, <1>3, <1>5 DEF Playing!Destroy, IsOut
  <2> QED
    BY <1>1, <1>5, <2>1, OutKept DEF LoopInv, Playing!Next
<1>6. CASE IsOut /\ stream = "closed"
  <2>1. UNCHANGED Playing!vars
    BY <1>2, <1>3, <1>4, <1>6 DEF Playing!vars, IsOut
  <2> QED
    BY <1>1, <1>6, <2>1, OutKept DEF LoopInv
<1>7. CASE IsIn /\ stream # "closed"
  <2>1. Recording!Destroy
    BY <1>2, <1>3, <1>7 DEF Recording!Destroy, IsIn, Held
  <2> QED
    BY <1>1, <1>7, <2>1, InKept DEF LoopInv, Recording!Next
<1>8. CASE IsIn /\ stream = "closed"
  <2>1. UNCHANGED Recording!vars
    BY <1>2, <1>3, <1>8 DEF Recording!vars, IsIn, Held
  <2> QED
    BY <1>1, <1>8, <2>1, InKept DEF LoopInv
<1> QED
  BY <1>5, <1>6, <1>7, <1>8, Directions DEF LoopInv

-----------------------------------------------------------------------------
(* CoreAudio *)

\* Where everything is granted at once, all that is buffered is still to be read.
LEMMA AllIsHeld ==
  ASSUME LoopInv, AtRest, current_backend \in {"jack", "coreaudio", "dummy"},
         UNCHANGED <<current_backend, is_raw, stale, audio_client, peek_buf_index,
                     read_buf_frames_left>>
  PROVE  /\ Held = buffered /\ (buffered' \in Nat => Held' = buffered')
         /\ Taken = granted /\ Taken' = granted'
         /\ AtRest' <=> (current_backend = "dummy" => IsIn')
BY DEF LoopInv, Typed, AtRest, Held, Taken, Captured, Gone

LEMMA CoreAudioKeeps ==
  ASSUME LoopInv, AtRest, CoreAudioInv, InCoreAudio, CoreAudio!Next
  PROVE  LoopInv' /\ Kept /\ CoreAudioInv'
<1> USE DEF CoreAudio!callback_vars, callback_vars, InCoreAudio
<1> DEFINE Goal == LoopInv' /\ Kept
<1>1. /\ Held = buffered /\ (buffered' \in Nat => Held' = buffered')
      /\ Taken = granted /\ Taken' = granted'
      /\ UNCHANGED <<current_backend, is_raw>> /\ current_backend = "coreaudio"
  BY AllIsHeld DEF shared, alsa, pulse, jack, dummy, wasapi
<1>2. /\ buffered \in Nat /\ granted \in Nat /\ frames_left \in Int
      /\ IsIn <=> ~IsOut
  BY Directions DEF LoopInv, Typed
<1> HIDE DEF InCoreAudio
<1>3. CASE CoreAudio!CycleEnds
  <2> USE <1>3 DEF CoreAudio!CycleEnds
  <2>1. buffered' \in 0..buffered /\ buffered' \in Nat /\ Begun /\ granted = 0
    BY <1>2 DEF LoopInv, CallOrder, Callbacks
  <2>0. Due = buffered /\ Overrun
    BY <1>1 DEF Due, Overrun
  <2>2. Goal
    BY <1>1, <1>2, <2>0, <2>1, OutGoesOn, InGoesOn DEF Same, Stops
  <2> QED
    BY <2>2 DEF CoreAudioInv, Begun, IsIn
<1>4. CASE CoreAudio!CycleBegins
  <2> USE <1>4 DEF CoreAudio!CycleBegins, CoreAudio!NoCallBack
  <2>1. /\ IsOut => buffered' = 0
        /\ IsIn => buffered' \in 1..Room
        /\ Begun
    BY <1>2 DEF IsIn, IsOut, CoreAudioInv
  <2>2. Goal
    BY <1>1, <1>2, <2>1, OutGoesOn, InGoesOn, StreamLoopAssumption DEF Same, Callbacks
  <2> QED
    BY <1>2, <2>1, <2>2, StreamLoopAssumption DEF CoreAudioInv, Begun, IsIn, IsOut
<1>5. CASE CoreAudio!write_callback_ca
  <2> USE <1>5 DEF CoreAudio!write_callback_ca, CoreAudio!CallBack, CoreAudio!CycleVars
  <2>1. IsOut /\ Begun /\ buffered = 0 /\ frames_left' \in 1..(Room - buffered)
    BY <1>2, StreamLoopAssumption DEF IsIn, IsOut, CoreAudioInv
  <2>2. Goal
    BY <1>1, <2>1, OutCalls DEF Same, Callbacks
  <2> QED
    BY <2>1, <2>2 DEF CoreAudioInv, Begun, IsIn, IsOut
<1>6. CASE CoreAudio!read_callback_ca
  <2> USE <1>6 DEF CoreAudio!read_callback_ca, CoreAudio!CallBack, CoreAudio!NoCallBack,
                   CoreAudio!CycleVars
  <2>1. IsIn /\ Begun /\ buffered > 0
    BY <1>2 DEF IsIn, IsOut, CoreAudioInv
  <2>2. Goal
    <3>1. CASE CoreAudio!CallBack("callback", buffered)
      BY <1>1, <1>2, <2>1, <3>1, InCalls DEF Same, Callbacks
    <3>2. CASE CoreAudio!NoCallBack("none")
      BY <1>1, <1>2, <2>1, <3>2, InGoesOn DEF Same, Callbacks
    <3> QED
      BY <3>1, <3>2
  <2> QED
    BY <1>2, <2>1, <2>2 DEF CoreAudioInv, Begun, IsIn, IsOut
<1>7. CASE CoreAudio!BeginAll
  <2> USE <1>7 DEF CoreAudio!BeginAll, CoreAudio!Grants, CoreAudio!CycleVars
  <2>1. Goal
    BY <1>1, <1>2, OutBegins, InBegins DEF Same, Callbacks, CoreAudioInv
  <2> QED
    BY <2>1 DEF CoreAudioInv, Begun, IsIn
<1>8. CASE \/ CoreAudio!outstream_end_write_ca \/ CoreAudio!instream_end_read_ca
  <2> USE <1>8 DEF CoreAudio!outstream_end_write_ca, CoreAudio!instream_end_read_ca,
                   CoreAudio!EndAll, CoreAudio!Ends, Ends
  <2>1. granted <= frames_left /\ (IsIn => frames_left <= buffered)
    BY DEF LoopInv, CallOrder, CoreAudioInv
  <2>2. buffered' = IF IsOut THEN buffered + granted ELSE buffered - granted
    BY <1>2 DEF IsOut, IsIn
  <2>3. ASSUME IsOut PROVE Goal
    BY <1>1, <2>2, <2>3, OutEnds DEF Same, Callbacks
  <2>4. ASSUME IsIn PROVE Goal
    <3>1. buffered' = buffered - granted /\ buffered' \in Nat /\ granted' = 0
      BY <1>2, <2>1, <2>2, <2>4
    <3> QED
      BY <1>1, <2>4, <3>1, InEnds DEF Same, Callbacks
  <2>5. Goal
    BY <1>2, <2>3, <2>4
  <2> QED
    BY <1>2, <2>1, <2>2, <2>5 DEF CoreAudioInv, Begun, IsIn
<1>9. CASE CoreAudio!CallbackReturns
  <2> USE <1>9 DEF CoreAudio!CallbackReturns, CoreAudio!CallBack, CoreAudio!CycleVars
  <2>1. Goal
    BY <1>1, <1>2, OutReturns, InReturns DEF Same, Callbacks
  <2> QED
    BY <2>1 DEF CoreAudioInv, Begun, IsIn
<1>10. CASE CoreAudio!Open \/ CoreAudio!Start
  <2> USE <1>10 DEF CoreAudio!Open, CoreAudio!Start, CoreAudio!ClientVars, CoreAudio!UnitRuns
  <2>1. ~Begun /\ pc = "none"
    BY DEF Begun, CoreAudioInv
  <2>2. Quiet /\ clear_buffer_flag' \in BOOLEAN
    BY <1>1, <1>2, <2>1 DEF Quiet, Callbacks, LoopInv, Typed
  <2>3. ASSUME CoreAudio!Open PROVE Goal
    BY <1>1, <2>1, <2>2, <2>3, Tries, Opens
  <2>4. ASSUME CoreAudio!Start PROVE Goal
    BY <1>1, <2>1, <2>2, <2>4, Starts
  <2>5. Goal
    BY <1>10, <2>3, <2>4
  <2> QED
    BY <2>1, <2>5 DEF CoreAudioInv, Begun, IsIn
<1>11. CASE CoreAudio!Pause
  <2> USE <1>11 DEF CoreAudio!Pause, CoreAudio!ClientVars, CoreAudio!UnitRuns
  <2>1. Goal
    BY <1>1, <1>2, OutGoesOn, InGoesOn DEF Same, Begun
  <2> QED
    BY <2>1 DEF CoreAudioInv, Begun, IsIn
<1>12. CASE CoreAudio!Destroy
  <2> USE <1>12 DEF CoreAudio!Destroy, CoreAudio!ClientVars
  <2>1. CASE stream = "started"
    <3> Goal
      BY <1>1, <1>2, <2>1, Waits DEF Same
    <3> QED
      BY <2>1 DEF CoreAudioInv, Begun, IsIn
  <2>2. CASE stream # "started"
    <3>1. ~Begun
      BY <2>2 DEF Begun
    <3> Goal
      BY <1>1, <1>2, <2>2, <3>1, NothingYet, Destroys
    <3> QED
      BY <2>2, <3>1 DEF CoreAudioInv, Begun, IsIn
  <2> QED
    BY <2>1, <2>2
<1>13. CASE CoreAudio!Disposed
  <2> USE <1>13 DEF CoreAudio!Disposed
  <2> Goal
    BY <1>1, <1>2, Destroys DEF Callbacks
  <2> QED
    BY DEF CoreAudioInv, Begun, IsIn
<1> QED
  BY <1>3, <1>4, <1>5, <1>6, <1>7, <1>8, <1>9, <1>10, <1>11, <1>12, <1>13
     DEF CoreAudio!Next, CoreAudio!Callback, CoreAudio!Client,
         CoreAudio!outstream_begin_write_ca, CoreAudio!instream_begin_read_ca,
         CoreAudio!outstream_open_ca, CoreAudio!instream_open_ca,
         CoreAudio!outstream_start_ca, CoreAudio!instream_start_ca,
         CoreAudio!outstream_pause_ca, CoreAudio!instream_pause_ca,
         CoreAudio!outstream_destroy_ca, CoreAudio!instream_destroy_ca

-----------------------------------------------------------------------------
(* JACK *)

LEMMA JackKeeps ==
  ASSUME LoopInv, AtRest, JackInv, InJack, Jack!Next
  PROVE  LoopInv' /\ Kept /\ JackInv'
<1> USE DEF Jack!callback_vars, callback_vars, Jack!FlowVars, Jack!loop_vars
<1> DEFINE Goal == LoopInv' /\ Kept
<1>1. /\ Held = buffered /\ (buffered' \in Nat => Held' = buffered')
      /\ Taken = granted /\ Taken' = granted'
      /\ UNCHANGED <<current_backend, is_raw>> /\ current_backend = "jack"
  BY AllIsHeld DEF InJack, shared, alsa, pulse, dummy, wasapi
<1>2. /\ buffered \in Nat /\ granted \in Nat /\ frames_left \in Int
      /\ IsIn <=> ~IsOut
      /\ nframes \in 1..Room
  BY Directions DEF LoopInv, Typed, JackInv
<1>3. CASE Jack!CycleEnds
  <2> USE <1>3 DEF Jack!CycleEnds, Jack!jack_vars
  <2>1. buffered' \in 0..buffered /\ buffered' \in Nat /\ Begun /\ granted = 0
    BY <1>2 DEF LoopInv, CallOrder, Callbacks
  <2>0. Due = buffered /\ Overrun
    BY <1>1 DEF Due, Overrun
  <2>2. Goal
    BY <1>1, <1>2, <2>0, <2>1, OutGoesOn, InGoesOn DEF Same, Stops
  <2> QED
    BY <2>2 DEF JackInv, Begun, IsIn
<1>4. CASE Jack!CycleBegins
  <2> USE <1>4 DEF Jack!CycleBegins, Jack!NoCallBack, Jack!jack_vars
  <2>1. buffered' = (IF IsIn THEN nframes ELSE 0) /\ Begun
    BY <1>2 DEF IsIn, IsOut, JackInv
  <2>2. buffered' \in Nat /\ (IsOut => buffered' = 0) /\ (IsIn => buffered' > buffered)
    BY <1>2, <2>1, StreamLoopAssumption
  <2>3. Goal
    BY <1>1, <1>2, <2>1, <2>2, OutGoesOn, InGoesOn DEF Same, Callbacks
  <2> QED
    BY <1>2, <2>1, <2>3 DEF JackInv, Begun, IsIn
<1>5. CASE Jack!Process
  <2> USE <1>5 DEF Jack!Process, Jack!CallBack, Jack!jack_vars
  <2>1. /\ Begun /\ frames_left' = nframes /\ nframes > 0
        /\ IsOut => frames_left' \in 1..(Room - buffered)
        /\ IsIn => frames_left' = buffered
    BY <1>2, StreamLoopAssumption DEF JackInv
  <2>2. ASSUME IsOut PROVE Goal
    BY <1>1, <2>1, <2>2, OutCalls DEF Same, Callbacks
  <2>3. ASSUME IsIn PROVE Goal
    <3>1. frames_left' \in Nat \ {0}
      BY <1>2, <2>1, StreamLoopAssumption
    <3> QED
      BY <1>1, <2>1, <2>3, <3>1, InCalls DEF Same, Callbacks
  <2> QED
    BY <1>2, <2>1, <2>2, <2>3 DEF JackInv, Begun, IsIn
<1>6. CASE Jack!BeginAll
  <2> USE <1>6 DEF Jack!BeginAll, Jack!Grants, Jack!jack_vars
  <2>1. Goal
    BY <1>1, <1>2, OutBegins, InBegins DEF Same, Callbacks, JackInv
  <2> QED
    BY <2>1 DEF JackInv, Begun, IsIn
<1>7. CASE Jack!outstream_end_write \/ Jack!instream_end_read
  <2> USE <1>7 DEF Jack!outstream_end_write, Jack!instream_end_read, Jack!EndAll,
                   Jack!Ends, Ends, Jack!jack_vars
  <2>1. granted <= frames_left /\ (IsIn => frames_left <= buffered)
    BY DEF LoopInv, CallOrder, JackInv
  <2>2. buffered' = IF IsOut THEN buffered + granted ELSE buffered - granted
    BY <1>2 DEF IsOut, IsIn
  <2>3. ASSUME IsOut PROVE Goal
    BY <1>1, <2>2, <2>3, OutEnds DEF Same, Callbacks
  <2>4. ASSUME IsIn PROVE Goal
    <3>1. buffered' = buffered - granted /\ buffered' \in Nat /\ granted' = 0
      BY <1>2, <2>1, <2>2, <2>4
    <3> QED
      BY <1>1, <2>4, <3>1, InEnds DEF Same, Callbacks
  <2> QED
    BY <1>2, <2>1, <2>2, <2>3, <2>4 DEF JackInv, Begun, IsIn
<1>8. CASE Jack!CallbackReturns
  <2> USE <1>8 DEF Jack!CallbackReturns, Jack!CallBack, Jack!jack_vars
  <2>1. Goal
    BY <1>1, <1>2, OutReturns, InReturns DEF Same, Callbacks
  <2> QED
    BY <2>1 DEF JackInv, Begun, IsIn
<1>9. CASE Jack!BufferSize \/ Jack!BackendShutdown \/ Jack!StreamShutdown
  <2> USE <1>9 DEF Jack!BufferSize, Jack!BackendShutdown, Jack!StreamShutdown
  <2>1. UNCHANGED loop_vars
    BY DEF loop_vars
  <2>2. buffered' = buffered /\ (buffered > 0 => Begun)
    BY <2>1 DEF loop_vars, LoopInv, CallOrder
  <2>3. buffered' \in 0..buffered /\ buffered' \in Nat /\ (buffered' > 0 => Begun)
    BY ONLY <1>2, <2>2
  <2>4. Goal
    BY <1>1, <1>2, <2>1, <2>3, OutGoesOn, InGoesOn DEF Same, loop_vars
  <2> QED
    BY <2>1, <2>4 DEF JackInv, Begun, IsIn, loop_vars
<1>10. CASE Jack!Open \/ Jack!Start
  <2> USE DEF Jack!Open, Jack!Start, Jack!ClientVars
  <2>1. ~Begun /\ pc = "none"
    BY <1>10 DEF Begun, JackInv
  <2>2. Quiet /\ clear_buffer_flag' \in BOOLEAN
    BY <1>1, <1>2, <1>10, <2>1 DEF Quiet, Callbacks, LoopInv, Typed
  <2>3. ASSUME Jack!Open PROVE Goal
    BY <1>1, <2>1, <2>2, <2>3, Tries, Opens
  <2>4. ASSUME Jack!Start, stream' = "started" PROVE Goal
    BY <1>1, <2>1, <2>2, <2>4, Starts
  <2>5. ASSUME Jack!Start, stream' # "started" PROVE Goal
    <3>1. UNCHANGED loop_vars
      BY <2>5 DEF loop_vars
    <3>2. buffered' \in 0..buffered /\ buffered' \in Nat /\ (buffered' > 0 => Begun)
      BY <1>2, <3>1 DEF loop_vars, LoopInv, CallOrder
    <3> QED
      BY <1>1, <1>2, <3>1, <3>2, OutGoesOn, InGoesOn DEF Same, loop_vars
  <2> QED
    BY <1>10, <2>1, <2>3, <2>4, <2>5 DEF JackInv, Begun, IsIn
<1>11. CASE Jack!Destroy
  <2> USE <1>11 DEF Jack!Destroy, Jack!ClientVars
  <2>1. CASE stream = "started"
    <3> Goal
      BY <1>1, <1>2, <2>1, Waits DEF Same
    <3> QED
      BY <2>1 DEF JackInv, Begun, IsIn
  <2>2. CASE stream # "started"
    <3>1. ~Begun
      BY <2>2 DEF Begun
    <3> Goal
      BY <1>1, <1>2, <2>2, <3>1, NothingYet, Destroys
    <3> QED
      BY <2>2, <3>1 DEF JackInv, Begun, IsIn
  <2> QED
    BY <2>1, <2>2
<1>12. CASE Jack!ClientClosed
  <2> USE <1>12 DEF Jack!ClientClosed
  <2> Goal
    BY <1>1, <1>2, Destroys DEF Callbacks
  <2> QED
    BY DEF JackInv, Begun, IsIn
<1> QED
  BY <1>3, <1>4, <1>5, <1>6, <1>7, <1>8, <1>9, <1>10, <1>11, <1>12
     DEF Jack!Next, Jack!Callback, Jack!Server, Jack!Client,
         Jack!outstream_process_callback, Jack!instream_process_callback,
         Jack!outstream_begin_write, Jack!instream_begin_read,
         Jack!outstream_open, Jack!instream_open, Jack!outstream_start,
         Jack!instream_start, Jack!outstream_destroy, Jack!instream_destroy

-----------------------------------------------------------------------------
(* The dummy backend, whose streams of this module are input streams *)

LEMMA DummyKeeps ==
  ASSUME LoopInv, AtRest, DummyInv, InDummy, Dummy!Next
  PROVE  LoopInv' /\ Kept /\ DummyInv'
<1> USE DEF Dummy!callback_vars, callback_vars, Dummy!loop_vars, Dummy!dummy_vars
<1> DEFINE Goal == LoopInv' /\ Kept
<1>1. /\ Held = buffered /\ (buffered' \in Nat => Held' = buffered')
      /\ Taken = granted /\ Taken' = granted'
      /\ UNCHANGED <<current_backend, is_raw>> /\ IsIn /\ current_backend = "dummy"
  BY AllIsHeld DEF InDummy, shared, alsa, pulse, jack, wasapi, AtRest
<1>2. /\ buffered \in Nat /\ granted \in Nat /\ frames_left \in Int
      /\ (buffered > 0 => Begun) /\ (pc \notin Callbacks => granted = 0)
  BY DEF LoopInv, Typed, CallOrder
<1>3. CASE Dummy!CheckAbort
  <2> USE <1>3 DEF Dummy!CheckAbort, Dummy!NoCallBack
  <2>1. Goal
    BY <1>1, <1>2, InGoesOn DEF Same, Callbacks
  <2> QED
    BY <2>1 DEF DummyInv, Begun, IsIn
<1>4. CASE Dummy!Capture
  <2> USE <1>4 DEF Dummy!Capture, Dummy!CallBack, Dummy!NoCallBack, Dummy!Min2
  <2>1. buffered' \in buffered..Room /\ Begun /\ pc' \in {"deliver", "check"}
    BY <1>2, StreamLoopAssumption DEF DummyInv
  <2>2. LoopInv'
    BY <1>1, <1>2, <2>1, StreamLoopAssumption
       DEF LoopInv, Typed, CallOrder, Fresh, Begun, IsIn, IsOut, Callbacks
  <2>3. Kept
    <3>1. Stream' = Stream /\ Stream = "started"
      BY <2>1, StartedIsBegun DEF LoopInv, Stream, IsIn
    <3>2. ~InCallback /\ ~InCallback' /\ Allowance = 0 /\ Allowance' = 0 /\ IsIn'
      BY <1>1, <2>1 DEF InCallback, Allowance, IsIn
    <3>3. (Held' > Held \/ Held' = Held) /\ Taken = 0 /\ Taken' = 0
      BY <1>1, <1>2, <2>1, StreamLoopAssumption DEF Callbacks
    <3>4. Held' > Held => Recording!Capture
      BY <1>1, <3>1, <3>2, <3>3 DEF Recording!Capture, Taken, Held
    <3>5. Recording!Capture \/ UNCHANGED Recording!vars
      BY <1>1, <3>1, <3>2, <3>3, <3>4 DEF Recording!vars, Taken, Held
    <3> QED
      BY <1>1, <3>5, InKept DEF LoopInv, Recording!Next
  <2>4. pc' = "deliver" => frames_left' > 0 /\ frames_left' <= buffered'
    BY <1>2, <2>1, StreamLoopAssumption
  <2> QED
    BY <2>1, <2>2, <2>3, <2>4, StreamLoopAssumption DEF DummyInv, Begun, IsIn
<1>5. CASE Dummy!Deliver
  <2> USE <1>5 DEF Dummy!Deliver, Dummy!NoCallBack
  <2>1. frames_left' \in Nat \ {0} /\ Begun
    BY <1>2 DEF DummyInv
  <2>2. Goal
    BY <1>1, <1>2, <2>1, InCalls DEF Same, Callbacks
  <2> QED
    BY <2>2 DEF DummyInv, Begun, IsIn
<1>6. CASE Dummy!instream_begin_read
  <2> USE <1>6 DEF Dummy!instream_begin_read, Dummy!Grants
  <2>1. Goal
    BY <1>1, <1>2, InBegins DEF Same, Callbacks, DummyInv
  <2> QED
    BY <2>1 DEF DummyInv, Begun, IsIn
<1>7. CASE Dummy!instream_end_read
  <2> USE <1>7 DEF Dummy!instream_end_read, Dummy!Ends, Ends
  <2>1. granted <= frames_left /\ frames_left <= buffered
    BY DEF LoopInv, CallOrder, DummyInv
  <2>2. buffered' \in Nat /\ granted' = 0
    BY <1>2, <2>1
  <2>3. Goal
    BY <1>1, <2>2, InEnds DEF Same, Callbacks
  <2> QED
    BY <1>2, <2>1, <2>3, StreamLoopAssumption DEF DummyInv, Begun, IsIn
<1>8. CASE Dummy!CallbackReturns
  <2> USE <1>8 DEF Dummy!CallbackReturns, Dummy!CallBack
  <2>1. Goal
    BY <1>1, <1>2, InReturns DEF Same, Callbacks
  <2> QED
    BY <2>1 DEF DummyInv, Begun, IsIn
<1>9. CASE Dummy!instream_open \/ Dummy!instream_start
  <2> USE DEF Dummy!instream_open, Dummy!instream_start, Dummy!NoCallBack
  <2>1. ~Begun /\ pc \in {"none", "ended"} /\ buffered = 0
    BY <1>9, NothingYet DEF Begun, DummyInv
  <2>2. Quiet /\ clear_buffer_flag' \in BOOLEAN /\ ~IsOut
    BY <1>1, <1>2, <1>9, <2>1, Directions DEF Quiet, Callbacks, LoopInv, Typed
  <2>3. ASSUME Dummy!instream_open PROVE Goal
    BY <1>1, <2>1, <2>2, <2>3, Tries, Opens
  <2>4. ASSUME Dummy!instream_start, stream' = "started" PROVE Goal
    BY <1>1, <2>1, <2>2, <2>4, Starts
  <2>5. ASSUME Dummy!instream_start, stream' # "started" PROVE Goal
    BY <1>1, <1>2, <2>5, InGoesOn DEF Same
  <2> QED
    BY <1>9, <2>1, <2>3, <2>4, <2>5, StreamLoopAssumption DEF DummyInv, Begun, IsIn
<1>10. CASE Dummy!instream_pause
  <2> USE <1>10 DEF Dummy!instream_pause
  <2>1. Goal
    BY <1>1, <1>2, InGoesOn DEF Same
  <2> QED
    BY <2>1 DEF DummyInv, Begun, IsIn
<1>11. CASE Dummy!instream_destroy
  <2> USE <1>11 DEF Dummy!instream_destroy
  <2>1. CASE stream = "started"
    <3> Goal
      BY <1>1, <1>2, <2>1, Waits DEF Same
    <3> QED
      BY <2>1 DEF DummyInv, Begun, IsIn
  <2>2. CASE stream # "started"
    <3>1. ~Begun
      BY <2>2 DEF Begun
    <3> Goal
      BY <1>1, <1>2, <2>2, <3>1, NothingYet, Destroys
    <3> QED
      BY <2>2, <3>1 DEF DummyInv, Begun, IsIn
  <2> QED
    BY <2>1, <2>2
<1>12. CASE Dummy!Join
  <2> USE <1>12 DEF Dummy!Join
  <2> Goal
    BY <1>1, <1>2, Destroys DEF Callbacks
  <2> QED
    BY StreamLoopAssumption DEF DummyInv, Begun, IsIn
<1> QED
  BY <1>3, <1>4, <1>5, <1>6, <1>7, <1>8, <1>9, <1>10, <1>11, <1>12
     DEF Dummy!Next, Dummy!Thread, Dummy!Client

-----------------------------------------------------------------------------
(* ALSA *)

\* snd_pcm_readi has taken the frames it grants; of stale ones none count.
LEMMA AlsaHolds ==
  ASSUME LoopInv, AtRest, InAlsa
  PROVE  /\ UNCHANGED <<current_backend, is_raw>> /\ current_backend = "alsa" /\ ~is_raw
         /\ Taken = (IF stale THEN 0 ELSE granted)
         /\ Taken' = (IF stale' THEN 0 ELSE granted')
         /\ Held = IF access = "rw" /\ ~stale THEN buffered + granted ELSE buffered
         /\ buffered' \in Nat =>
              Held' = IF access' = "rw" /\ ~stale' THEN buffered' + granted' ELSE buffered'
         /\ AtRest'
<1> USE DEF InAlsa, pulse, jack, dummy, wasapi, AtRest, Gone
<1>1. /\ ~Gone /\ ~Gone' /\ read_buf_frames_left = 0 /\ read_buf_frames_left' = 0
      /\ peek_buf_index = 0 /\ peek_buf_index' = 0 /\ current_backend' = "alsa"
      /\ buffered \in Nat
  BY DEF LoopInv, Typed
<1>2. Captured = IF access = "rw" /\ ~stale THEN buffered + granted ELSE buffered
  BY <1>1 DEF Captured
<1>3. buffered' \in Nat =>
        Captured' = IF access' = "rw" /\ ~stale' THEN buffered' + granted' ELSE buffered'
  BY <1>1 DEF Captured
<1> HIDE DEF Gone
<1> QED
  BY <1>1, <1>2, <1>3 DEF Taken, Held

\* The thread goes on outside of a callback, or nothing of the stream changes; a
\* recovery may have emptied the buffer.
LEMMA AlsaGoesOn ==
  ASSUME LoopInv, AtRest, InAlsa,
         UNCHANGED <<direction, stream, callback_vars, clear_buffer_flag, access, stale>>,
         \/ pc' = pc
         \/ pc \notin Callbacks \cup {"ended"} /\ pc' \notin Callbacks,
         buffered' = buffered \/ (pc \notin Callbacks /\ buffered' = 0 /\ Broken)
  PROVE  LoopInv' /\ Kept
<1> USE DEF callback_vars
<1>1. /\ buffered \in Nat /\ granted \in Nat /\ (buffered > 0 => Begun)
      /\ pc \notin Callbacks => granted = 0
      /\ IsIn <=> ~IsOut
  BY Directions DEF LoopInv, Typed, CallOrder
<1>2. buffered' \in 0..buffered /\ buffered' \in Nat /\ (buffered' > 0 => Begun)
  BY <1>1
<1>3. CASE IsOut
  BY <1>2, <1>3, AlsaHolds, OutGoesOn DEF Same
<1>4. CASE IsIn
  <2>1. \/ UNCHANGED <<Taken, Held>>
        \/ Begun /\ Taken' = 0 /\ Held' = 0 /\ Stops
    BY <1>1, <1>2, AlsaHolds DEF Stops
  <2> QED
    BY <1>2, <1>4, <2>1, AlsaHolds, InGoesOn DEF Same
<1> QED
  BY <1>1, <1>3, <1>4

\* What a device does to a stream, and a thread that polls it.
LEMMA AlsaDevice ==
  ASSUME LoopInv, AtRest, AlsaInv, InAlsa, Alsa!Device \/ Alsa!Suspend \/ Alsa!Unplug
  PROVE  LoopInv' /\ Kept /\ AlsaInv'
<1> USE DEF Alsa!loop_vars, Alsa!callback_vars, callback_vars, Alsa!exit_vars
<1> DEFINE Goal == LoopInv' /\ Kept
<1>1. /\ buffered \in Nat /\ granted \in Nat /\ frames_left \in Int
      /\ IsIn <=> ~IsOut
      /\ stale \in BOOLEAN
  BY Directions DEF LoopInv, Typed, AlsaInv
<1>2. CASE Alsa!Suspend \/ Alsa!Unplug
  <2> USE <1>2 DEF Alsa!Suspend, Alsa!Unplug
  <2>1. Goal
    BY AlsaGoesOn
  <2> QED
    BY <2>1 DEF AlsaInv, Begun, IsIn, IsOut, PcmStates, Alsa!Accessible
<1>3. CASE Alsa!Play
  <2> USE <1>3 DEF Alsa!Play
  <2>1. IsOut /\ buffered' \in 0..buffered /\ buffered - buffered' = 1
    BY <1>1 DEF IsOut
  <2>2. Due = 1
    BY AlsaHolds DEF Due
  <2>3. Goal
    BY <1>1, <2>1, <2>2, AlsaHolds, OutGoesOn DEF Same
  <2> QED
    BY <1>1, <2>1, <2>3 DEF AlsaInv, Begun, IsIn, IsOut, PcmStates
<1>4. CASE Alsa!Capture
  <2> USE <1>4 DEF Alsa!Capture
  <2>1. IsIn /\ buffered' \in Nat /\ buffered' = buffered + 1 /\ Begun
    BY <1>1 DEF IsIn, AlsaInv
  <2>2. Taken' = Taken /\ Held' > Held
    BY <1>1, <2>1, AlsaHolds
  <2>3. Goal
    BY <2>1, <2>2, AlsaHolds, InGoesOn DEF Same
  <2> QED
    BY <1>1, <2>1, <2>3 DEF AlsaInv, Begun, IsIn, IsOut, PcmStates
<1> QED
  BY <1>2, <1>3, <1>4 DEF Alsa!Device

\* The steps of the thread that are no callbacks.
LEMMA AlsaThread ==
  ASSUME LoopInv, AtRest, AlsaInv, InAlsa,
         \/ Alsa!ReadState \/ Alsa!Setup \/ Alsa!Recover \/ Alsa!Disconnected
         \/ Alsa!OutThread \/ Alsa!InThread \/ Alsa!PollFails
  PROVE  LoopInv' /\ Kept /\ AlsaInv'
<1> USE DEF Alsa!loop_vars, Alsa!callback_vars, callback_vars, Alsa!exit_vars,
            Alsa!IdleVars, Alsa!FlagVars, Alsa!device, Alsa!NoCallBack, Alsa!Fails
<1> DEFINE Goal == LoopInv' /\ Kept
<1>1. /\ buffered \in Nat /\ granted \in Nat /\ frames_left \in Int
      /\ IsIn <=> ~IsOut
      /\ pc \notin Callbacks => granted = 0
      /\ pcm \in PcmStates
  BY Directions DEF LoopInv, Typed, CallOrder, AlsaInv
<1>2. CASE Alsa!ReadState
  <2> USE <1>2 DEF Alsa!ReadState
  <2>1. Goal
    BY <1>1, AlsaGoesOn DEF Callbacks, PcmStates
  <2> QED
    BY <2>1 DEF AlsaInv, Begun, IsIn, IsOut, PcmStates
<1>3. CASE Alsa!Setup \/ Alsa!Recover \/ Alsa!Disconnected
  <2> USE <1>3 DEF Alsa!Setup, Alsa!Recover, Alsa!Disconnected, Alsa!Prepare, Alsa!Resume
  <2>1. /\ pc \notin Callbacks \cup {"ended", "none"} /\ pc' \in {"state", "ended"}
        /\ buffered' \in {0, buffered}
        /\ pcm' \in {pcm, suspended_state, "PREPARED"}
    BY DEF Callbacks
  <2>2. buffered' = buffered \/ (buffered' = 0 /\ Broken)
    BY AlsaHolds DEF AlsaInv, Broken
  <2>3. Goal
    BY <1>1, <2>1, <2>2, AlsaGoesOn DEF Callbacks
  <2>4. pcm' \in {pcm, "PREPARED", "RUNNING", "PAUSED", "XRUN"}
    BY DEF AlsaInv
  <2> QED
    BY <1>1, <2>1, <2>2, <2>3, <2>4 DEF AlsaInv, Begun, IsIn, IsOut, PcmStates
<1>4. CASE \/ Alsa!outstream_wait_for_poll \/ Alsa!TestExit("polled", "clear?")
           \/ Alsa!TestExit("filled", "state") \/ Alsa!TestExit("read?", "avail")
           \/ Alsa!instream_wait_for_poll \/ Alsa!InPrepared \/ Alsa!PollFails
  <2> USE <1>4 DEF Alsa!outstream_wait_for_poll, Alsa!instream_wait_for_poll,
                   Alsa!TestExit, Alsa!InPrepared, Alsa!PollFails
  <2>1. /\ pc \notin Callbacks \cup {"ended", "none"} /\ buffered' = buffered
        /\ pc' \notin Callbacks \cup {"none"}
        /\ pcm' \in {pcm, "RUNNING"}
    BY DEF Callbacks
  <2>2. Goal
    BY <1>1, <2>1, AlsaGoesOn DEF Callbacks
  <2> QED
    BY <1>1, <2>1, <2>2 DEF AlsaInv, Begun, IsIn, IsOut, PcmStates
<1>5. CASE Alsa!TestClear
  <2> USE <1>5 DEF Alsa!TestClear
  <2>1. pc \notin Callbacks \cup {"ended", "none"} /\ pc' \notin Callbacks
        /\ buffered' \in {0, buffered} /\ pcm' \in {pcm, "SETUP"} /\ Begun
    BY DEF Callbacks, AlsaInv
  <2>2. CASE clear_buffer_flag
    <3>1. UNCHANGED clear_buffer_flag
      BY <2>2 DEF LoopInv, Typed
    <3> Goal
      BY <1>1, <2>1, <3>1, AlsaGoesOn
    <3> QED
      BY <1>1, <2>1 DEF AlsaInv, Begun, IsIn, IsOut, PcmStates
  <2>3. CASE ~clear_buffer_flag
    <3>1. IsOut /\ clear_buffer_flag' = TRUE /\ (pc' = "ended" \/ buffered' = 0)
      BY <2>3 DEF AlsaInv
    <3> Goal
      BY <1>1, <2>1, <2>3, <3>1, AlsaHolds, OutClears DEF Same
    <3> QED
      BY <1>1, <2>1 DEF AlsaInv, Begun, IsIn, IsOut, PcmStates
  <2> QED
    BY <2>2, <2>3
<1>6. CASE /\ Alsa!Avail(Room - buffered) \/ Alsa!Avail(buffered)
           /\ pc' # "callback"
  <2> USE <1>6 DEF Alsa!Avail, Alsa!CallBack
  <2>1. /\ pc = "avail" /\ buffered' = buffered
        /\ pc' \in {"state", "XRUN", "SUSPENDED", "ended"}
    OBVIOUS
  <2>2. Goal
    BY <2>1, AlsaGoesOn DEF Callbacks
  <2> QED
    BY <2>1, <2>2 DEF AlsaInv, Begun, IsIn, IsOut, PcmStates
<1>7. CASE /\ \/ direction = "out" /\ Alsa!Avail(Room - buffered)
              \/ direction = "in" /\ Alsa!Avail(buffered)
           /\ pc' = "callback"
  <2> USE <1>7 DEF Alsa!Avail, Alsa!CallBack
  <2>1. Begun /\ pc = "avail" /\ UNCHANGED <<Taken, Held>>
    BY <1>1, AlsaHolds DEF AlsaInv
  <2>2. ASSUME IsOut PROVE Goal
    <3>1. frames_left' \in 1..(Room - buffered)
      BY <1>1, <2>2, StreamLoopAssumption DEF IsOut
    <3> QED
      BY <2>1, <2>2, <3>1, AlsaHolds, OutCalls DEF Same, Callbacks
  <2>3. ASSUME IsIn PROVE Goal
    <3>1. frames_left' \in Nat \ {0}
      BY <1>1, <2>3 DEF IsIn
    <3> QED
      BY <2>1, <2>3, <3>1, AlsaHolds, InCalls DEF Same, Callbacks
  <2> QED
    BY <1>1, <2>1, <2>2, <2>3 DEF AlsaInv, Begun, IsIn, IsOut, PcmStates
<1>8. CASE Alsa!OutPrepared
  <2> USE <1>8 DEF Alsa!OutPrepared, Alsa!CallBack
  <2>1. Begun /\ pc = "PREPARED" /\ IsOut /\ buffered' = buffered
    BY DEF AlsaInv, IsOut
  <2>2. CASE pc' = "prefill"
    <3>1. frames_left' \in 1..(Room - buffered) /\ UNCHANGED granted
      BY <2>2, StreamLoopAssumption
    <3> Goal
      BY <2>1, <2>2, <3>1, AlsaHolds, OutCalls DEF Same, Callbacks
    <3> QED
      BY <1>1, <2>1, <2>2 DEF AlsaInv, Begun, IsIn, IsOut
  <2>3. CASE pc' # "prefill"
    <3>1. pc' \in {"state", "ended"} /\ UNCHANGED callback_vars
      BY <2>3
    <3> Goal
      BY <2>1, <3>1, AlsaGoesOn DEF Callbacks
    <3> QED
      BY <1>1, <2>1, <3>1 DEF AlsaInv, Begun, IsIn, IsOut, PcmStates
  <2> QED
    BY <2>2, <2>3
<1> QED
  BY <1>2, <1>3, <1>4, <1>5, <1>6, <1>7, <1>8 DEF Alsa!OutThread, Alsa!InThread

\* The callbacks.
LEMMA AlsaCallback ==
  ASSUME LoopInv, AtRest, AlsaInv, InAlsa, Alsa!Write \/ Alsa!Read
  PROVE  LoopInv' /\ Kept /\ AlsaInv'
<1> USE DEF Alsa!callback_vars, callback_vars, Alsa!exit_vars,
            Alsa!WriteVars, Alsa!ReadVars, Alsa!FlagVars, Alsa!Grants, Alsa!ReturnsError,
            ReturnsError, Alsa!Ends, Ends, Alsa!Min2
<1> DEFINE Goal == LoopInv' /\ Kept
<1>1. /\ buffered \in Nat /\ granted \in Nat /\ frames_left \in Int
      /\ IsIn <=> ~IsOut
      /\ granted > 0 => granted <= frames_left
      /\ stale \in BOOLEAN /\ (stale => granted > 0)
      /\ PeriodSize \in Nat /\ PeriodSize > 0
  BY Directions, StreamLoopAssumption DEF LoopInv, Typed, CallOrder, AlsaInv
<1>2. pc \in Callbacks => Begun
  BY DEF LoopInv, CallOrder
<1>3. CASE Alsa!outstream_begin_write
  <2> USE <1>3 DEF Alsa!outstream_begin_write, Alsa!Writing
  <2>1. IsOut /\ pc \in Callbacks /\ Begun
    BY <1>2 DEF IsOut, Callbacks
  <2>2. CASE granted' > 0
    <3>1. granted' \in 1..frames_left /\ UNCHANGED frames_left
      BY <1>1, <2>2
    <3> Goal
      BY <2>1, <3>1, AlsaHolds, OutBegins DEF Same
    <3> QED
      BY <1>1, <2>1, <3>1 DEF AlsaInv, Begun, IsIn, IsOut
  <2>3. CASE ~(granted' > 0)
    <3>1. Alsa!ReturnsError /\ frames_left > 0
      BY <1>1, <2>3
    <3> Goal
      BY <2>1, <3>1, AlsaHolds, OutFails DEF Same
    <3> QED
      BY <1>1, <2>1, <3>1 DEF AlsaInv, Begun, IsIn, IsOut
  <2> QED
    BY <2>2, <2>3
<1>4. CASE Alsa!outstream_end_write
  <2> USE <1>4 DEF Alsa!outstream_end_write, Alsa!Writing
  <2>1. IsOut /\ pc \in Callbacks /\ Begun /\ frames_left > 0
    BY <1>1, <1>2 DEF IsOut, Callbacks
  <2>2. /\ ~stale /\ ~stale' /\ granted' = 0
        /\ pcm' = pcm \/ (pcm = "PREPARED" /\ pcm' = "RUNNING")
    BY <1>1, <2>1 DEF AlsaInv
  <2>3. CASE Alsa!Accessible
    <3> HIDE DEF Alsa!ReturnsError
    <3>1. /\ UNCHANGED <<direction, stream, pc, clear_buffer_flag>> /\ Ends
          /\ buffered' = buffered + granted
      BY <2>3
    <3> Goal
      BY <2>1, <3>1, AlsaHolds, OutEnds DEF Same
    <3>2. pcm' # "SETUP"
      BY <2>2, <2>3 DEF Alsa!Accessible
    <3> QED
      BY <1>1, <2>1, <2>2, <3>1, <3>2 DEF AlsaInv, Begun, IsIn, IsOut, PcmStates
  <2>4. CASE ~Alsa!Accessible
    <3>1. /\ UNCHANGED <<direction, stream, pc, buffered, pcm, clear_buffer_flag>>
          /\ ReturnsError
      BY <2>4
    <3> Goal
      BY <2>1, <3>1, AlsaHolds, OutFails DEF Same
    <3> QED
      BY <1>1, <2>1, <2>2, <3>1 DEF AlsaInv, Begun, IsIn, IsOut, PcmStates
  <2> QED
    BY <2>3, <2>4
<1>5. CASE Alsa!WriteReturns
  <2> USE <1>5 DEF Alsa!WriteReturns, Alsa!Writing
  <2>1. IsOut /\ pc \in Callbacks /\ Begun /\ pc' \in {"filled", "state"}
    BY <1>2 DEF IsOut, Callbacks
  <2>2. Goal
    BY <2>1, AlsaHolds, OutReturns DEF Same, Callbacks
  <2> QED
    BY <1>1, <2>1, <2>2 DEF AlsaInv, Begun, IsIn, IsOut
<1>6. CASE Alsa!instream_begin_read
  <2> USE <1>6 DEF Alsa!Reading
  <2>1. IsIn /\ pc \in Callbacks /\ Begun /\ granted = 0 /\ ~stale
        /\ UNCHANGED <<direction, stream, pc, access, clear_buffer_flag,
                        suspended_state>>
    BY <1>1, <1>2 DEF IsIn, Callbacks, Alsa!instream_begin_read
  <2>2. PICK frame_count \in 1..frames_left :
          \/ /\ Alsa!Accessible /\ access = "rw"
             /\ LET n == Min2(frame_count, PeriodSize)
                IN  IF pcm = "PREPARED"
                    THEN pcm' = "RUNNING" /\ UNCHANGED <<buffered, callback_vars, stale>>
                    ELSE /\ buffered >= n /\ buffered' = buffered - n
                         /\ Grants(n) /\ stale' = FALSE
                         /\ UNCHANGED pcm
          \/ /\ Alsa!Accessible /\ access = "mmap" /\ stale' = FALSE
             /\ \E n \in 1..Min2(frame_count, buffered) : Grants(n)
             /\ UNCHANGED <<buffered, pcm>>
          \/ /\ ~Alsa!Accessible /\ Alsa!Resume /\ stale' = TRUE
             /\ Grants(IF access = "rw" THEN Min2(frame_count, PeriodSize)
                       ELSE frame_count)
          \/ ~Alsa!Accessible /\ ReturnsError /\ UNCHANGED <<buffered, pcm, stale>>
    BY DEF Alsa!instream_begin_read, Grants, Min2
  <2> HIDE <1>6
  <2>3. CASE UNCHANGED <<buffered, callback_vars, stale>> /\ pcm = "PREPARED"
             /\ pcm' = "RUNNING"
    <3> Goal
      BY <2>1, <2>3, AlsaGoesOn
    <3> QED
      BY <1>1, <2>1, <2>3 DEF AlsaInv, Begun, IsIn, IsOut, PcmStates
  <2>4. CASE /\ stale' = FALSE /\ granted' \in 1..frames_left /\ UNCHANGED <<frames_left, pcm>>
             /\ \/ access = "rw" /\ buffered' = buffered - granted' /\ buffered' >= 0
                \/ access = "mmap" /\ buffered' = buffered /\ granted' <= buffered
    <3>1. buffered' \in Nat /\ Taken = 0 /\ Held' = Held /\ Taken' = granted'
          /\ Taken' <= Held
      BY <1>1, <2>1, <2>4, AlsaHolds
    <3> Goal
      BY <2>1, <2>4, <3>1, AlsaHolds, InBegins DEF Same
    <3> QED
      BY <1>1, <2>1, <2>4 DEF AlsaInv, Begun, IsIn, IsOut, PcmStates
  <2>5. CASE /\ stale' = TRUE /\ granted' \in 1..frames_left /\ UNCHANGED frames_left
             /\ buffered' \in {0, buffered} /\ pcm' \in {suspended_state, "PREPARED"}
             /\ pcm' = "PREPARED" \/ pcm = "SUSPENDED"
             /\ Broken
    <3>1. buffered' \in Nat /\ Taken = 0 /\ Taken' = 0 /\ (Held' = Held \/ Held' = 0)
      BY <1>1, <2>1, <2>5, AlsaHolds
    <3> Goal
      BY <2>1, <2>5, <3>1, AlsaHolds, InBegins DEF Same, Stops
    <3>2. pcm' \in {"PREPARED", "RUNNING", "PAUSED", "XRUN"}
      BY <2>5 DEF AlsaInv
    <3> QED
      BY <1>1, <2>1, <2>5, <3>2 DEF Callbacks, AlsaInv, Begun, IsIn, IsOut, PcmStates
  <2>6. CASE ReturnsError /\ UNCHANGED <<buffered, pcm, stale>>
    <3>1. frames_left > 0 /\ Taken' = 0 /\ Held' = Held
      BY <1>1, <2>1, <2>2, <2>6, AlsaHolds
    <3> Goal
      BY <2>1, <2>6, <3>1, AlsaHolds, InFails DEF Same
    <3> QED
      BY <1>1, <2>1, <2>6 DEF AlsaInv, Begun, IsIn, IsOut, PcmStates
  <2>7. CASE Alsa!Accessible /\ access = "rw"
    <3>1. CASE pcm = "PREPARED"
      <4>1. UNCHANGED <<buffered, callback_vars, stale>> /\ pcm' = "RUNNING"
        BY <2>2, <2>7, <3>1
      <4> QED
        BY ONLY <2>3, <3>1, <4>1
    <3>2. CASE pcm # "PREPARED"
      <4>1. /\ buffered >= granted' /\ buffered' = buffered - granted' /\ stale' = FALSE
            /\ granted' = Min2(frame_count, PeriodSize) /\ UNCHANGED <<frames_left, pcm>>
        BY <2>2, <2>7, <3>2 DEF Grants
      <4>2. granted' \in 1..frames_left /\ buffered' >= 0
        BY <1>1, <2>2, <4>1 DEF Min2
      <4> QED
        BY ONLY <2>4, <2>7, <4>1, <4>2
    <3> QED
      BY <3>1, <3>2
  <2>8. CASE Alsa!Accessible /\ access = "mmap"
    <3>1. /\ stale' = FALSE /\ UNCHANGED <<buffered, frames_left, pcm>>
          /\ granted' \in 1..Min2(frame_count, buffered)
      BY <2>2, <2>8 DEF Grants
    <3>2. granted' \in 1..frames_left /\ granted' <= buffered
      BY <1>1, <2>2, <3>1 DEF Min2
    <3> QED
      BY ONLY <2>4, <2>8, <3>1, <3>2
  <2>9. CASE ~Alsa!Accessible
    <3>1. CASE stale' = TRUE /\ Alsa!Resume /\ UNCHANGED frames_left
               /\ granted' = IF access = "rw" THEN Min2(frame_count, PeriodSize)
                             ELSE frame_count
      <4>1. granted' \in 1..frames_left
        BY <1>1, <2>2, <3>1 DEF Min2
      <4>2. /\ buffered' \in {0, buffered} /\ pcm' \in {suspended_state, "PREPARED"}
            /\ pcm' = "PREPARED" \/ pcm = "SUSPENDED"
        BY <3>1 DEF Alsa!Resume, Alsa!Prepare
      <4>3. Broken
        BY <2>1, <2>9, AlsaHolds DEF Broken, AlsaInv, PcmStates, Alsa!Accessible, IsIn, IsOut
      <4> QED
        BY ONLY <2>5, <3>1, <4>1, <4>2, <4>3
    <3>2. CASE ReturnsError /\ UNCHANGED <<buffered, pcm, stale>>
      BY ONLY <2>6, <3>2
    <3> QED
      BY <2>2, <2>9, <3>1, <3>2 DEF Grants
  <2> QED
    BY <2>2, <2>7, <2>8, <2>9
<1>7. CASE Alsa!instream_end_read
  <2> USE DEF Alsa!Reading
  <2>1. /\ IsIn /\ pc \in Callbacks /\ Begun /\ granted > 0 /\ frames_left > 0
        /\ stale' = FALSE
        /\ UNCHANGED <<direction, stream, pc, access, clear_buffer_flag, suspended_state>>
        /\ access \in {"rw", "mmap"}
    BY <1>1, <1>2, <1>7 DEF IsIn, Callbacks, Alsa!instream_end_read, AlsaInv
  <2>2. CASE access = "rw" /\ Ends /\ UNCHANGED <<buffered, pcm>>
    <3>1. /\ buffered' \in Nat /\ Taken' = 0
          /\ \/ Taken = granted /\ Held' = Held - granted
             \/ Taken = 0 /\ Held' = Held
      BY <1>1, <2>1, <2>2, AlsaHolds
    <3> Goal
      BY <2>1, <2>2, <3>1, AlsaHolds, InEnds DEF Same
    <3> QED
      BY <1>1, <2>1, <2>2 DEF AlsaInv, Begun, IsIn, IsOut, PcmStates
  <2>3. CASE access = "mmap" /\ ~stale /\ Ends /\ buffered' = buffered - granted
             /\ UNCHANGED pcm
    <3>1. buffered' \in Nat /\ Taken' = 0 /\ Taken = granted /\ Held' = Held - granted
      BY <1>1, <2>1, <2>3, AlsaHolds DEF AlsaInv
    <3> Goal
      BY <2>1, <2>3, <3>1, AlsaHolds, InEnds DEF Same
    <3>9. granted' = 0 /\ buffered' \in Nat /\ granted' <= buffered'
      BY <1>1, <2>1, <2>3, <3>1
    <3> QED
      BY <1>1, <2>1, <2>3, <3>9 DEF AlsaInv, Begun, IsIn, IsOut, PcmStates
  <2>4. CASE access = "mmap" /\ Alsa!Resume /\ Ends /\ (~Alsa!Accessible \/ stale)
    <3>1. /\ buffered' \in {0, buffered} /\ pcm' \in {suspended_state, "PREPARED"}
          /\ pcm = "SUSPENDED" \/ (buffered' = 0 /\ pcm' = "PREPARED")
      BY <2>4 DEF Alsa!Resume, Alsa!Prepare
    <3>2. /\ buffered' \in Nat /\ Taken' = 0
          /\ Taken = granted \/ Taken = 0
          /\ Held = buffered /\ Held' = buffered'
      BY <1>1, <2>1, <2>4, <3>1, AlsaHolds
    <3>3. pcm = "SUSPENDED" => ReadsAgain
      BY <1>7, <2>4, AlsaHolds DEF ReadsAgain
    <3>4. Broken \/ Overrun
      BY <2>1, <2>4, AlsaHolds
         DEF Broken, Overrun, AlsaInv, PcmStates, Alsa!Accessible, IsIn, IsOut
    <3> HIDE DEF Alsa!Resume
    <3> Goal
      BY <2>1, <2>4, <3>1, <3>2, <3>3, <3>4, AlsaHolds, InEnds DEF Same, Stops
    <3>8. pcm' \in {"PREPARED", "RUNNING", "PAUSED", "XRUN"}
      BY <3>1 DEF AlsaInv
    <3>9. granted' = 0 /\ buffered' \in Nat /\ granted' <= buffered'
      BY <1>1, <2>1, <2>4, <3>1
    <3> QED
      BY <1>1, <2>1, <2>4, <3>9, <3>8 DEF Callbacks, AlsaInv, Begun, IsIn, IsOut, PcmStates
  <2>5. CASE access = "mmap" /\ ReturnsError /\ UNCHANGED <<buffered, pcm>>
    <3>1. Taken' = 0 /\ Held' = Held
      BY <1>1, <2>1, <2>5, AlsaHolds
    <3> Goal
      BY <2>1, <2>5, <3>1, AlsaHolds, InFails DEF Same
    <3>9. granted' = 0 /\ buffered' \in Nat /\ granted' <= buffered'
      BY <1>1, <2>1, <2>5
    <3> QED
      BY <1>1, <2>1, <2>5, <3>9 DEF AlsaInv, Begun, IsIn, IsOut, PcmStates
  <2> QED
    BY <1>7, <2>2, <2>3, <2>4, <2>5 DEF Alsa!instream_end_read
<1>8. CASE Alsa!ReadReturns
  <2> USE <1>8 DEF Alsa!ReadReturns, Alsa!Reading, Alsa!CallBack, Alsa!IdleVars, Alsa!device
  <2>1. IsIn /\ pc \in Callbacks /\ Begun
    BY <1>2 DEF IsIn, Callbacks
  <2>2. UNCHANGED <<Taken, Held>>
    BY <1>1, <2>1, AlsaHolds
  <2>3. Goal
    BY <2>1, <2>2, AlsaHolds, InReturns DEF Same, Callbacks
  <2> QED
    BY <1>1, <2>1, <2>3 DEF AlsaInv, Begun, IsIn, IsOut
<1> QED
  BY <1>3, <1>4, <1>5, <1>6, <1>7, <1>8 DEF Alsa!Write, Alsa!Read

LEMMA AlsaClient ==
  ASSUME LoopInv, AtRest, AlsaInv, InAlsa, Alsa!Client \/ Alsa!Join
  PROVE  LoopInv' /\ Kept /\ AlsaInv'
<1> USE DEF Alsa!callback_vars, callback_vars, Alsa!exit_vars, Alsa!alsa_vars,
            Alsa!device, Alsa!loop_vars
<1> DEFINE Goal == LoopInv' /\ Kept
<1>1. /\ buffered \in Nat /\ granted \in Nat /\ frames_left \in Int
      /\ IsIn <=> ~IsOut
      /\ pc \notin Callbacks => granted = 0
      /\ stale \in BOOLEAN /\ (stale => granted > 0)
  BY Directions DEF LoopInv, Typed, CallOrder, AlsaInv
<1>2. CASE Alsa!outstream_open \/ Alsa!instream_open
  <2> USE <1>2 DEF Alsa!outstream_open, Alsa!instream_open, Alsa!OpenFails,
                   Alsa!OpenSucceeds
  <2>1. ~Begun /\ stream = "created" /\ UNCHANGED <<buffered, pc, stale>>
        /\ stream' \in {"failed", "opened"} /\ pcm' \in {pcm, "PREPARED"}
        /\ access' \in {"rw", "mmap"}
    BY DEF Begun, AlsaInv
  <2>2. granted = 0 /\ pc \notin Callbacks /\ pc \in {"none", "ended"}
    BY <2>1, NothingYet DEF AlsaInv
  <2>3. Quiet
    <3>1. /\ UNCHANGED <<direction, pc, callback_vars>> /\ pc' \notin Callbacks
      BY <2>2
    <3>2. UNCHANGED Held
      BY <1>1, <2>1, <2>2, AlsaHolds
    <3> QED
      BY <3>1, <3>2, AlsaHolds DEF Quiet
  <2>7. clear_buffer_flag' \in BOOLEAN
    BY DEF LoopInv, Typed
  <2>4. IsOut => clear_buffer_flag' = TRUE
    BY <1>1 DEF IsIn
  <2>5. Goal
    BY <2>1, <2>3, <2>4, <2>7, Tries, Opens
  <2> QED
    BY <1>1, <2>1, <2>2, <2>5 DEF AlsaInv, Begun, IsIn, IsOut, PcmStates
<1>3. CASE Alsa!outstream_start \/ Alsa!instream_start
  <2> USE <1>3 DEF Alsa!outstream_start, Alsa!instream_start, Alsa!StartVars,
                   Alsa!ThreadCreated
  <2>1. ~Begun /\ stream = "opened" /\ UNCHANGED <<direction, buffered, stale, access>>
        /\ UNCHANGED <<callback_vars, clear_buffer_flag, suspended_state>>
    BY DEF Begun
  <2>2. granted = 0 /\ pc \notin Callbacks /\ pc \in {"none", "ended"} /\ buffered = 0
    BY <2>1, NothingYet DEF AlsaInv
  <2>3. UNCHANGED Held
    BY <1>1, <2>1, <2>2, AlsaHolds
  <2>4. CASE stream' = "started" /\ pc' = "state" /\ UNCHANGED pcm
    <3>1. Quiet
      BY <2>1, <2>3, <2>4, AlsaHolds DEF Quiet, Callbacks
    <3> Goal
      BY <2>1, <2>4, <3>1, AlsaHolds, Starts
    <3> QED
      BY <1>1, <2>1, <2>2, <2>4 DEF AlsaInv, Begun, IsIn, IsOut, PcmStates
  <2>5. CASE UNCHANGED <<stream, pc, pcm>>
    <3> Goal
      BY <2>1, <2>5, AlsaGoesOn
    <3> QED
      BY <1>1, <2>1, <2>2, <2>5 DEF AlsaInv, Begun, IsIn, IsOut, PcmStates
  <2>6. CASE stream' = "closed" /\ pcm' = "OPEN" /\ UNCHANGED pc
    <3>1. Held' = 0
      BY <1>1, <2>1, <2>2, AlsaHolds
    <3> Goal
      BY <2>1, <2>2, <2>6, <3>1, Destroys
    <3> QED
      BY <1>1, <2>1, <2>2, <2>6 DEF AlsaInv, Begun, IsIn, IsOut, PcmStates
  <2> QED
    BY <2>4, <2>5, <2>6
<1>4. CASE \E pause \in BOOLEAN : Alsa!Pause(pause)
  <2> USE <1>4 DEF Alsa!Pause
  <2>1. Goal
    BY AlsaGoesOn
  <2>2. pcm \in {"RUNNING", "PAUSED"} /\ pcm' \in {"RUNNING", "PAUSED"}
    OBVIOUS
  <2> QED
    BY <1>1, <2>1, <2>2 DEF AlsaInv, Begun, IsIn, IsOut, PcmStates
<1>5. CASE Alsa!outstream_destroy \/ Alsa!instream_destroy
  <2> USE <1>5 DEF Alsa!outstream_destroy, Alsa!instream_destroy, Alsa!Close,
                   Alsa!CloseVars
  <2>1. UNCHANGED <<direction, pc, callback_vars, clear_buffer_flag, stale, access,
                    suspended_state>>
    OBVIOUS
  <2>2. CASE stream = "started" /\ stream' = "joining" /\ UNCHANGED <<pcm, buffered>>
    <3>1. UNCHANGED <<Taken, Held>>
      BY <1>1, <2>1, <2>2, AlsaHolds
    <3> Goal
      BY <2>1, <2>2, <3>1, AlsaHolds, Waits DEF Same
    <3> QED
      BY <1>1, <2>1, <2>2 DEF AlsaInv, Begun, IsIn, IsOut, PcmStates
  <2>3. CASE /\ stream \in {"created", "failed", "opened", "closed"}
             /\ stream' = "destroyed" /\ pcm' = "OPEN" /\ buffered' = 0
    <3>1. ~Begun
      BY <2>3 DEF Begun
    <3>2. granted = 0 /\ pc \notin Callbacks /\ pc \in {"none", "ended"} /\ buffered = 0
      BY <3>1, NothingYet DEF AlsaInv
    <3>3. Held = 0 /\ Held' = 0
      BY <1>1, <2>1, <2>3, <3>2, AlsaHolds
    <3> Goal
      BY <2>1, <2>3, <3>2, <3>3, Destroys
    <3> QED
      BY <1>1, <2>1, <2>3, <3>2 DEF AlsaInv, Begun, IsIn, IsOut, PcmStates
  <2> QED
    BY <2>2, <2>3
<1>6. CASE Alsa!Join
  <2> USE <1>6 DEF Alsa!Join, Alsa!Close, Alsa!CloseVars
  <2>1. pc = "ended" /\ pc \notin Callbacks /\ granted = 0 /\ buffered' = 0
    BY <1>1 DEF Callbacks
  <2>2. Held' = 0
    BY <1>1, <2>1, AlsaHolds
  <2> Goal
    BY <2>1, <2>2, Destroys
  <2> QED
    BY <1>1, <2>1 DEF AlsaInv, Begun, IsIn, IsOut, PcmStates
<1>7. CASE Alsa!RequestClear /\ UNCHANGED Alsa!alsa_vars
  <2>1. RequestClear
    BY <1>7 DEF Alsa!RequestClear, RequestClear, Alsa!Opened, Opened
  <2>2. Goal
    BY <2>1, AlsaHolds, OutAsksToClear
  <2> QED
    BY <1>1, <1>7, <2>1, <2>2 DEF RequestClear, AlsaInv, Begun, IsIn, IsOut, PcmStates
<1> QED
  BY <1>2, <1>3, <1>4, <1>5, <1>6, <1>7
     DEF Alsa!Client, Alsa!outstream_pause, Alsa!instream_pause

LEMMA AlsaKeeps ==
  ASSUME LoopInv, AtRest, AlsaInv, InAlsa, Alsa!Next
  PROVE  LoopInv' /\ Kept /\ AlsaInv'
BY AlsaDevice, AlsaThread, AlsaCallback, AlsaClient
   DEF Alsa!Next, Alsa!Device, Alsa!Thread

-----------------------------------------------------------------------------
(* PulseAudio *)

LEMMA NoChunks ==
  /\ Holds(<<>>, 0)
  /\ \A n : Holds(<<>>, n) => n = 0
<1>1. Holds(<<>>, 0)
  <2> DEFINE rest == [i \in 1..1 |-> 0]
  <2>1. rest \in [1..(Len(<<>>) + 1) -> Nat] /\ rest[1] = 0 /\ rest[Len(<<>>) + 1] = 0
    OBVIOUS
  <2>2. \A i \in 1..Len(<<>>) : rest[i] = <<>>[i].frames + rest[i + 1]
    OBVIOUS
  <2> HIDE DEF rest
  <2> QED
    BY <2>1, <2>2 DEF Holds
<1>2. \A n : Holds(<<>>, n) => n = 0
  BY DEF Holds
<1> QED
  BY <1>1, <1>2

LEMMA FirstChunk ==
  ASSUME NEW cs \in Seq(Pulse!Chunk), cs # <<>>, NEW n \in Nat, Holds(cs, n)
  PROVE  /\ Head(cs) \in Pulse!Chunk /\ Head(cs).frames \in Nat \ {0}
         /\ n >= Head(cs).frames
         /\ Tail(cs) \in Seq(Pulse!Chunk) /\ Holds(Tail(cs), n - Head(cs).frames)
<1>1. PICK rest \in [1..(Len(cs) + 1) -> Nat] :
        /\ rest[1] = n /\ rest[Len(cs) + 1] = 0
        /\ \A i \in 1..Len(cs) : rest[i] = cs[i].frames + rest[i + 1]
  BY DEF Holds
<1>2. /\ Len(cs) \in Nat \ {0} /\ Head(cs) = cs[1] /\ cs[1] \in Pulse!Chunk
      /\ Tail(cs) \in Seq(Pulse!Chunk) /\ Len(Tail(cs)) = Len(cs) - 1
      /\ \A i \in 1..(Len(cs) - 1) : Tail(cs)[i] = cs[i + 1]
  OBVIOUS
<1>3. Head(cs).frames \in 1..PeriodSize /\ PeriodSize \in Nat
  BY <1>2, StreamLoopAssumption DEF Pulse!Chunk
<1>4. n = Head(cs).frames + rest[2] /\ rest[2] \in Nat
  BY <1>1, <1>2
<1> DEFINE next == [i \in 1..(Len(Tail(cs)) + 1) |-> rest[i + 1]]
<1>5. next \in [1..(Len(Tail(cs)) + 1) -> Nat]
  BY <1>1, <1>2
<1>6. next[1] = n - Head(cs).frames
  BY <1>2, <1>3, <1>4
<1>7. next[Len(Tail(cs)) + 1] = 0
  BY <1>1, <1>2
<1>8. ASSUME NEW i \in 1..Len(Tail(cs))
      PROVE  next[i] = Tail(cs)[i].frames + next[i + 1]
  <2>1. i + 1 \in 1..Len(cs) /\ i \in 1..(Len(cs) - 1)
    BY <1>2
  <2>2. next[i] = rest[i + 1] /\ next[i + 1] = rest[(i + 1) + 1]
    BY <1>2
  <2> QED
    BY <1>1, <1>2, <2>1, <2>2
<1> HIDE DEF next
<1>9. Holds(Tail(cs), n - Head(cs).frames)
  BY <1>5, <1>6, <1>7, <1>8 DEF Holds
<1> QED
  BY <1>2, <1>3, <1>4, <1>9

LEMMA LastChunk ==
  ASSUME NEW cs \in Seq(Pulse!Chunk), NEW n \in Nat, Holds(cs, n), NEW c \in Pulse!Chunk
  PROVE  /\ Append(cs, c) \in Seq(Pulse!Chunk)
         /\ Holds(Append(cs, c), n + c.frames)
<1>1. PICK rest \in [1..(Len(cs) + 1) -> Nat] :
        /\ rest[1] = n /\ rest[Len(cs) + 1] = 0
        /\ \A i \in 1..Len(cs) : rest[i] = cs[i].frames + rest[i + 1]
  BY DEF Holds
<1>2. /\ Len(cs) \in Nat /\ Len(Append(cs, c)) = Len(cs) + 1
      /\ Append(cs, c) \in Seq(Pulse!Chunk) /\ Append(cs, c)[Len(cs) + 1] = c
      /\ \A i \in 1..Len(cs) : Append(cs, c)[i] = cs[i] /\ cs[i] \in Pulse!Chunk
  OBVIOUS
<1>3. c.frames \in Nat /\ \A i \in 1..Len(cs) : cs[i].frames \in Nat
  BY <1>2, StreamLoopAssumption DEF Pulse!Chunk
<1> DEFINE more == [i \in 1..(Len(cs) + 2) |->
                      IF i = Len(cs) + 2 THEN 0 ELSE rest[i] + c.frames]
<1>4. more \in [1..(Len(Append(cs, c)) + 1) -> Nat]
  BY <1>1, <1>2, <1>3
<1>5. more[1] = n + c.frames /\ more[Len(Append(cs, c)) + 1] = 0
  BY <1>1, <1>2
<1>6. ASSUME NEW i \in 1..Len(Append(cs, c))
      PROVE  more[i] = Append(cs, c)[i].frames + more[i + 1]
  <2>1. CASE i = Len(cs) + 1
    <3>1. more[i] = rest[i] + c.frames /\ more[i + 1] = 0
      BY <1>2, <2>1
    <3> QED
      BY <1>1, <1>2, <1>3, <2>1, <3>1
  <2>2. CASE i # Len(cs) + 1
    <3>1. i \in 1..Len(cs)
      BY <1>2, <2>2
    <3>2. more[i] = rest[i] + c.frames /\ more[i + 1] = rest[i + 1] + c.frames
      BY <1>2, <3>1
    <3>3. rest[i] = cs[i].frames + rest[i + 1] /\ rest[i] \in Nat /\ rest[i + 1] \in Nat
      BY <1>1, <1>2, <3>1
    <3> QED
      BY <1>2, <1>3, <3>1, <3>2, <3>3
  <2> QED
    BY <2>1, <2>2
<1> HIDE DEF more
<1> QED
  BY <1>2, <1>4, <1>5, <1>6 DEF Holds

LEMMA MoreIsLeft ==
  \A m, n, k \in Nat : m > n => m - k > n - k
OBVIOUS

\* What has been read of the first chunk is no longer held.
LEMMA PulseHolds ==
  ASSUME LoopInv, AtRest, InPulse
  PROVE  /\ UNCHANGED <<current_backend, is_raw>> /\ current_backend = "pulseaudio"
         /\ ~is_raw
         /\ Taken = granted /\ Taken' = granted'
         /\ Held = buffered - peek_buf_index /\ Held' = buffered' - peek_buf_index'
         /\ AtRest'
<1> USE DEF InPulse, shared, alsa, jack, dummy, wasapi, AtRest
<1>1. /\ ~Gone /\ ~Gone' /\ read_buf_frames_left = 0 /\ read_buf_frames_left' = 0
      /\ ~stale /\ ~stale' /\ current_backend' = "pulseaudio"
      /\ current_backend = "pulseaudio"
  BY DEF Gone
<1> HIDE DEF InPulse, AtRest
<1>2. Captured = buffered - peek_buf_index /\ Captured' = buffered' - peek_buf_index'
  BY <1>1 DEF Captured
<1>3. AtRest' /\ UNCHANGED <<current_backend, is_raw>> /\ ~is_raw
  BY DEF InPulse, AtRest
<1> QED
  BY <1>1, <1>2, <1>3 DEF Taken, Held

LEMMA PulseFacts ==
  ASSUME LoopInv, PulseInv
  PROVE  /\ buffered \in Nat /\ granted \in Nat /\ frames_left \in Int
         /\ IsIn <=> ~IsOut
         /\ pc \notin Callbacks => granted = 0
         /\ buffered > 0 => Begun
         /\ IsIn /\ buffered = 0 => chunks = <<>> /\ ~peek_buf /\ peek_buf_index = 0
         /\ IsIn /\ chunks = <<>> => buffered = 0
         /\ IsIn => peek_buf_index <= buffered
<1>1. /\ buffered \in Nat /\ granted \in Nat /\ frames_left \in Int
      /\ IsIn <=> ~IsOut
      /\ pc \notin Callbacks => granted = 0
      /\ buffered > 0 => Begun
  BY Directions DEF LoopInv, Typed, CallOrder
<1>2. IsIn /\ chunks # <<>> => Head(chunks).frames \in Nat \ {0}
                               /\ buffered >= Head(chunks).frames
  BY <1>1, FirstChunk DEF PulseInv
<1>3. IsIn /\ chunks = <<>> => buffered = 0
  BY NoChunks DEF PulseInv
<1>4. peek_buf_index \in Nat /\ peek_buf \in BOOLEAN
  BY DEF PulseInv
<1> QED
  BY <1>1, <1>2, <1>3, <1>4 DEF PulseInv, Peeked

\* Nothing of the stream changes.
LEMMA PulseStays ==
  ASSUME LoopInv, AtRest, PulseInv, InPulse, UNCHANGED <<loop_vars, peek_buf_index>>
  PROVE  LoopInv' /\ Kept
<1> USE DEF loop_vars, callback_vars
<1>1. buffered' \in 0..buffered /\ buffered' \in Nat /\ (buffered' > 0 => Begun)
  BY PulseFacts
<1>2. UNCHANGED <<Taken, Held>>
  BY PulseHolds
<1> QED
  BY <1>1, <1>2, PulseHolds, PulseFacts, OutGoesOn, InGoesOn DEF Same

\* The main loop, and the device behind the server.
LEMMA PulseMainLoop ==
  ASSUME LoopInv, AtRest, PulseInv, InPulse,
         \/ Pulse!MainLoop \/ Pulse!state_callback_failed \/ Pulse!Play \/ Pulse!Capture
         \/ Pulse!playback_stream_write_callback \/ Pulse!recording_stream_read_callback
  PROVE  LoopInv' /\ Kept /\ PulseInv'
<1> USE DEF Pulse!callback_vars, callback_vars, Pulse!StreamVars, Pulse!record_vars,
            Pulse!pulse_vars
<1> DEFINE Goal == LoopInv' /\ Kept
<1>1. /\ buffered \in Nat /\ granted \in Nat /\ frames_left \in Int
      /\ IsIn <=> ~IsOut
      /\ pc \notin Callbacks => granted = 0
  BY PulseFacts
<1>2. CASE Pulse!MainLoop \/ Pulse!state_callback_failed
  <2> USE <1>2 DEF Pulse!MainLoop, Pulse!state_callback_failed,
                   Pulse!state_callback_ready, Pulse!timing_update_callback
  <2>1. UNCHANGED <<loop_vars, Pulse!record_vars>> /\ lock = "free" /\ UNCHANGED lock
        /\ UNCHANGED peek_buf_index
        /\ \/ pa_state = "CREATING" /\ pa_state' = "READY"
           \/ pa_state' = "FAILED" \/ UNCHANGED pa_state
    BY DEF loop_vars, Pulse!record_vars
  <2>2. Goal
    BY <2>1, PulseStays
  <2> QED
    BY <2>1, <2>2
       DEF PulseInv, Peeked, Locks, Begun, IsIn, IsOut, Holds, loop_vars, Pulse!record_vars
<1>3. CASE Pulse!Play
  <2> USE <1>3 DEF Pulse!Play
  <2>1. IsOut /\ buffered' \in 0..buffered /\ buffered - buffered' = 1 /\ ~IsIn
    BY <1>1 DEF IsOut
  <2>2. Due = 1
    BY PulseHolds DEF Due
  <2>3. Goal
    BY <2>1, <2>2, PulseHolds, OutGoesOn DEF Same
  <2> QED
    BY <1>1, <2>1, <2>3 DEF PulseInv, Peeked, Locks, Begun, IsIn, IsOut
<1>4. CASE Pulse!playback_stream_write_callback
  <2> USE <1>4 DEF Pulse!playback_stream_write_callback, Pulse!CallBack
  <2>1. IsOut /\ ~IsIn /\ Begun /\ pc = "none" /\ frames_left' \in 1..(Room - buffered)
    BY <1>1, StreamLoopAssumption DEF IsOut, IsIn, Begun, PulseInv, Locks
  <2>2. Goal
    BY <2>1, PulseHolds, OutCalls DEF Same, Callbacks
  <2> QED
    BY <1>1, <2>1, <2>2 DEF PulseInv, Peeked, Locks, Begun, IsIn, IsOut
<1>5. CASE Pulse!Capture
  <2> USE <1>5 DEF Pulse!Capture, Pulse!NoCallBack
  <2>1. IsIn /\ ~IsOut /\ Begun /\ pc = "none" /\ granted = 0
    BY <1>1 DEF IsIn, PulseInv, Locks, Callbacks
  <2>2. PICK c \in Pulse!Chunk :
          /\ buffered' = buffered + c.frames
          /\ chunks' = Append(chunks, c)
    OBVIOUS
  <2>3. c.frames \in Nat \ {0}
    BY StreamLoopAssumption DEF Pulse!Chunk
  <2>4. chunks' \in Seq(Pulse!Chunk) /\ Holds(chunks', buffered')
    BY <1>1, <2>1, <2>2, LastChunk DEF PulseInv
  <2>5. chunks' # <<>> /\ (chunks # <<>> => Head(chunks') = Head(chunks))
    BY <2>2 DEF PulseInv
  <2>6. Taken' = Taken /\ Held' > Held /\ buffered' \in Nat /\ peek_buf_index \in Nat
    <3>1. /\ Taken = granted /\ Taken' = granted' /\ Held = buffered - peek_buf_index
          /\ Held' = buffered' - peek_buf_index' /\ peek_buf_index \in Nat
          /\ UNCHANGED <<granted, peek_buf_index>>
      BY PulseHolds DEF PulseInv
    <3>2. buffered' \in Nat /\ buffered' > buffered
      BY <1>1, <2>2, <2>3
    <3>3. peek_buf_index' = peek_buf_index /\ Taken' = Taken
      BY ONLY <3>1
    <3>4. buffered \in Nat /\ peek_buf_index \in Nat
      BY ONLY <1>1, <3>1
    <3>5. buffered' - peek_buf_index > buffered - peek_buf_index
      BY ONLY <3>2, <3>4, MoreIsLeft, Zenon
    <3> QED
      BY ONLY <3>1, <3>2, <3>3, <3>5
  <2>7. Goal
    BY <2>1, <2>6, PulseHolds, InGoesOn DEF Same, Callbacks
  <2> QED
    BY <1>1, <2>1, <2>2, <2>3, <2>4, <2>5, <2>7
       DEF PulseInv, Peeked, Locks, Begun, IsIn, IsOut
<1>6. CASE Pulse!recording_stream_read_callback
  <2> USE <1>6 DEF Pulse!recording_stream_read_callback, Pulse!CallBack
  <2>1. IsIn /\ ~IsOut /\ Begun /\ frames_left' = buffered /\ frames_left' \in Nat \ {0}
    BY <1>1 DEF PulseInv, Locks
  <2>2. UNCHANGED <<Taken, Held>>
    BY PulseHolds
  <2>3. Goal
    BY <2>1, <2>2, PulseHolds, InCalls DEF Same, Callbacks
  <2> QED
    BY <1>1, <2>1, <2>3 DEF PulseInv, Peeked, Locks, Begun, IsIn, IsOut
<1> QED
  BY <1>2, <1>3, <1>4, <1>5, <1>6

\* What the callbacks of an output stream do, above all the first on the
\* client's thread.
LEMMA PulseWrites ==
  ASSUME LoopInv, AtRest, PulseInv, InPulse,
         \/ Pulse!outstream_begin_write \/ Pulse!outstream_end_write
         \/ Pulse!Prefill \/ Pulse!PrefillReturns
  PROVE  LoopInv' /\ Kept /\ PulseInv'
<1> USE DEF Pulse!callback_vars, callback_vars, Pulse!pulse_vars, Pulse!record_vars
<1> DEFINE Goal == LoopInv' /\ Kept
<1>1. /\ buffered \in Nat /\ granted \in Nat /\ frames_left \in Int
      /\ IsIn <=> ~IsOut
      /\ granted > 0 => granted <= frames_left
      /\ clear_buffer_flag \in BOOLEAN
  BY PulseFacts DEF LoopInv, CallOrder, Typed
<1>2. CASE Pulse!outstream_begin_write
  <2> USE <1>2 DEF Pulse!outstream_begin_write, Pulse!Writing, Pulse!Grants
  <2>1. IsOut /\ ~IsIn /\ pc \in Callbacks /\ granted' \in 1..frames_left
    BY <1>1 DEF IsOut, Callbacks
  <2>2. Goal
    BY <2>1, PulseHolds, OutBegins DEF Same
  <2> QED
    BY <1>1, <2>1, <2>2 DEF PulseInv, Peeked, Locks, Begun, IsIn, IsOut
<1>3. CASE Pulse!outstream_end_write
  <2> USE <1>3 DEF Pulse!outstream_end_write, Pulse!Writing, Pulse!Ends, Ends
  <2>1. IsOut /\ ~IsIn /\ pc \in Callbacks /\ Clears
    BY <1>1, PulseHolds DEF IsOut, Callbacks, Clears
  <2>2. \/ buffered' = buffered + granted /\ UNCHANGED clear_buffer_flag
        \/ /\ ~clear_buffer_flag
           /\ buffered' = granted /\ clear_buffer_flag' = TRUE
    <3>1. CASE clear_buffer_flag = TRUE
      BY <1>1, <3>1
    <3>2. CASE ~clear_buffer_flag
      <4>1. buffered' = granted + 0
        BY <3>2
      <4>2. buffered' = granted /\ clear_buffer_flag' = TRUE
        BY <1>1, <4>1
      <4> QED
        BY ONLY <3>2, <4>2
    <3> QED
      BY <1>1, <3>1, <3>2
  <2>3. Goal
    BY <2>1, <2>2, PulseHolds, OutEnds DEF Same
  <2> QED
    BY <1>1, <2>1, <2>3 DEF PulseInv, Peeked, Locks, Begun, IsIn, IsOut, Callbacks
<1>4. CASE Pulse!Prefill
  <2> USE <1>4 DEF Pulse!Prefill, Pulse!CallBack
  <2>1. IsOut /\ ~IsIn /\ Begun /\ buffered = 0 /\ pc \notin Callbacks
    BY <1>1 DEF IsOut, Begun, PulseInv, Locks, Callbacks
  <2>2. ASSUME pa_state = "READY" PROVE Goal
    <3>1. frames_left' \in 1..(Room - buffered)
      BY <2>1, <2>2, StreamLoopAssumption
    <3> QED
      BY <2>1, <3>1, PulseHolds, OutCalls DEF Same, Callbacks
  <2>3. ASSUME pa_state # "READY" PROVE Goal
    <3>1. LoopInv' /\ IsOut'
      BY <2>1, <2>3 DEF LoopInv, Typed, CallOrder, Fresh, Begun, IsIn, IsOut, Callbacks
    <3>2. /\ Stream' = Stream
          /\ ~InCallback /\ ~InCallback' /\ Allowance = 0 /\ Allowance' = 0
          /\ Clears' <=> Clears
      BY <2>1, <2>3, PulseHolds DEF Stream, IsIn, InCallback, Allowance, Clears, Callbacks
    <3>3. UNCHANGED Playing!vars
      BY <2>1, <3>1, <3>2 DEF Playing!vars
    <3> QED
      BY <2>1, <3>1, <3>3, OutKept DEF LoopInv
  <2>4. Goal
    BY <2>2, <2>3
  <2> QED
    BY <2>1, <2>4 DEF PulseInv, Peeked, Locks, Begun, IsIn, IsOut
<1>5. CASE Pulse!PrefillReturns
  <2> USE <1>5 DEF Pulse!PrefillReturns, Pulse!CallBack
  <2>1. IsOut /\ ~IsIn /\ stream = "starting" /\ pc \in Callbacks
    BY <1>1 DEF PulseInv, Locks, Callbacks
  <2>2. Goal
    BY <2>1, PulseHolds, OutReturns DEF Same, Callbacks
  <2> QED
    BY <1>1, <2>1, <2>2 DEF PulseInv, Peeked, Locks, Begun, IsIn, IsOut
<1> QED
  BY <1>2, <1>3, <1>4, <1>5

\* The callback of an input stream reads the first chunk, or skips a hole.
LEMMA PulseReads ==
  ASSUME LoopInv, AtRest, PulseInv, InPulse,
         Pulse!instream_begin_read \/ Pulse!instream_end_read \/ Pulse!CallbackReturns
  PROVE  LoopInv' /\ Kept /\ PulseInv'
<1> USE DEF Pulse!callback_vars, callback_vars, Pulse!record_vars
<1> DEFINE Goal == LoopInv' /\ Kept
           first == Head(chunks).frames
<1>1. /\ buffered \in Nat /\ granted \in Nat /\ frames_left \in Int
      /\ IsIn <=> ~IsOut
      /\ granted > 0 => granted <= frames_left
      /\ peek_buf \in BOOLEAN /\ peek_buf_index \in Nat
  BY PulseFacts DEF LoopInv, CallOrder, PulseInv
<1>2. IsIn /\ chunks # <<>> =>
        /\ first \in Nat \ {0} /\ buffered >= first
        /\ Tail(chunks) \in Seq(Pulse!Chunk) /\ Holds(Tail(chunks), buffered - first)
  BY <1>1, FirstChunk DEF PulseInv
<1>3. IsIn /\ chunks # <<>> =>
        /\ peek_buf_index < first
        /\ granted > 0 => granted <= first - peek_buf_index
        /\ ~peek_buf => peek_buf_index = 0 /\ (granted > 0 => granted = first)
  BY <1>1, <1>2 DEF PulseInv, Peeked
<1> HIDE DEF first
<1>4. CASE Pulse!instream_begin_read
  <2> USE <1>4 DEF Pulse!instream_begin_read, Pulse!Reading, Pulse!Grants, Pulse!Min2
  <2>1. IsIn /\ ~IsOut /\ pc \in Callbacks /\ chunks # <<>> /\ UNCHANGED <<chunks, buffered>>
        /\ frames_left >= buffered - peek_buf_index
        /\ UNCHANGED <<stream, pc, direction, frames_left, lock, pa_state>> /\ granted = 0
        /\ UNCHANGED clear_buffer_flag
    BY <1>1 DEF IsIn, Callbacks, PulseInv, Peeked
  <2>2. /\ UNCHANGED peek_buf_index /\ peek_buf' \in BOOLEAN
        /\ granted' \in 1..(first - peek_buf_index)
        /\ ~peek_buf' => ~peek_buf /\ granted' = first
        /\ granted' <= frames_left
    <3>1. CASE ~peek_buf /\ Head(chunks).hole
      <4>1. granted' = first /\ UNCHANGED <<peek_buf, peek_buf_index>> /\ peek_buf_index = 0
        BY <1>3, <2>1, <3>1 DEF first
      <4> QED
        BY <1>1, <1>2, <2>1, <3>1, <4>1
    <3>2. CASE ~(~peek_buf /\ Head(chunks).hole)
      <4>1. /\ peek_buf' = TRUE
            /\ peek_buf_index' = IF peek_buf THEN peek_buf_index ELSE 0
            /\ \E frame_count \in 1..frames_left :
                 granted' = Pulse!Min2(frame_count, first - peek_buf_index')
        BY <2>1, <3>2 DEF first
      <4>2. peek_buf_index' = peek_buf_index
        BY <1>3, <2>1, <4>1
      <4> QED
        BY <1>1, <1>2, <1>3, <2>1, <4>1, <4>2
    <3> QED
      BY <3>1, <3>2
  <2> HIDE <1>4
  <2>3. /\ Taken = 0 /\ Held' = Held /\ Taken' = granted' /\ Taken' <= Held
        /\ granted' \in 1..frames_left /\ buffered' \in Nat
    BY <1>1, <1>2, <1>3, <2>1, <2>2, PulseHolds
  <2>4. Goal
    BY <2>1, <2>3, PulseHolds, InBegins DEF Same
  <2>5. Peeked'
    BY <1>1, <1>2, <1>3, <2>1, <2>2 DEF PulseInv, Peeked, IsIn, IsOut, first
  <2>6. Locks'
    BY <2>1 DEF PulseInv, Locks, Begun, IsIn, IsOut
  <2>7. Holds(chunks, buffered)' /\ chunks' \in Seq(Pulse!Chunk)
    BY <2>1 DEF PulseInv, Holds
  <2> QED
    BY <1>1, <2>1, <2>2, <2>4, <2>5, <2>6, <2>7 DEF PulseInv
<1>5. CASE Pulse!instream_end_read
  <2> DEFINE drop == ~peek_buf \/ peek_buf_index + granted >= first
  <2> USE <1>5 DEF Pulse!instream_end_read, Pulse!Reading, Pulse!Ends, Ends
  <2>1. IsIn /\ ~IsOut /\ pc \in Callbacks /\ chunks # <<>>
        /\ frames_left >= buffered - peek_buf_index
        /\ UNCHANGED <<stream, pc, direction, lock, pa_state, clear_buffer_flag>>
        /\ Ends /\ granted > 0
    BY <1>1 DEF IsIn, Callbacks, PulseInv, Peeked
  <2>2. CASE drop
    <3>1. /\ chunks' = Tail(chunks) /\ buffered' = buffered - first
          /\ peek_buf' = FALSE /\ peek_buf_index' = 0
      BY <2>2 DEF first
    <3>2. first = peek_buf_index + granted
      BY <1>1, <1>2, <1>3, <2>1, <2>2
    <3>3. /\ Taken' = 0 /\ Taken = granted /\ Held' = Held - granted /\ buffered' \in Nat
          /\ granted' = 0
      BY <1>1, <1>2, <2>1, <3>1, <3>2, PulseHolds
    <3>4. Goal
      BY <2>1, <3>3, PulseHolds, InEnds DEF Same
    <3>5. Peeked' /\ Locks'
      BY <1>1, <1>2, <1>3, <2>1, <3>1, <3>2
         DEF PulseInv, Peeked, Locks, Begun, IsIn, IsOut, Callbacks
    <3> QED
      BY <1>2, <2>1, <3>1, <3>4, <3>5 DEF PulseInv
  <2>3. CASE ~drop
    <3>1. /\ UNCHANGED <<chunks, buffered>> /\ peek_buf = TRUE /\ peek_buf' = TRUE
          /\ peek_buf_index' = peek_buf_index + granted /\ peek_buf_index' < first
      BY <1>1, <1>2, <2>1, <2>3 DEF first
    <3>2. /\ Taken' = 0 /\ Taken = granted /\ Held' = Held - granted /\ buffered' \in Nat
          /\ granted' = 0
      BY <1>1, <1>2, <2>1, <3>1, PulseHolds
    <3>3. Goal
      BY <2>1, <3>2, PulseHolds, InEnds DEF Same
    <3>4. Peeked' /\ Locks'
      BY <1>1, <1>2, <1>3, <2>1, <3>1
         DEF PulseInv, Peeked, Locks, Begun, IsIn, IsOut, Callbacks, first
    <3>5. Holds(chunks, buffered)' /\ chunks' \in Seq(Pulse!Chunk)
          /\ peek_buf_index' \in Nat
      BY ONLY PulseInv, <1>1, <2>1, <3>1 DEF PulseInv, Holds
    <3> QED
      BY <3>1, <3>3, <3>4, <3>5 DEF PulseInv
  <2> QED
    BY <2>2, <2>3
<1>6. CASE Pulse!CallbackReturns
  <2> USE <1>6 DEF Pulse!CallbackReturns, Pulse!CallBack
  <2>1. pc \in Callbacks /\ lock = "main_loop" /\ UNCHANGED <<Taken, Held>>
    BY PulseHolds DEF Callbacks, PulseInv, Locks
  <2>2. Goal
    BY <1>1, <2>1, PulseHolds, OutReturns, InReturns DEF Same, Callbacks
  <2> QED
    BY <1>1, <2>1, <2>2 DEF PulseInv, Peeked, Locks, Begun, IsIn, IsOut, Holds
<1> QED
  BY <1>4, <1>5, <1>6

LEMMA PulseClient ==
  ASSUME LoopInv, AtRest, PulseInv, InPulse, Pulse!Client
  PROVE  LoopInv' /\ Kept /\ PulseInv'
<1> USE DEF Pulse!callback_vars, callback_vars, Pulse!record_vars, Pulse!pulse_vars,
            Pulse!StreamVars, Pulse!Unlocked
<1> DEFINE Goal == LoopInv' /\ Kept
           Rest == Peeked /\ Holds(chunks, buffered)
<1>1. /\ buffered \in Nat /\ granted \in Nat /\ frames_left \in Int
      /\ IsIn <=> ~IsOut
      /\ pc \notin Callbacks => granted = 0
      /\ IsIn /\ buffered = 0 => chunks = <<>> /\ ~peek_buf /\ peek_buf_index = 0
      /\ clear_buffer_flag \in BOOLEAN
  BY PulseFacts DEF LoopInv, Typed
\* All but the end of destroy leave what has been recorded alone.
<1>2. ASSUME UNCHANGED <<direction, pc, buffered, callback_vars, Pulse!record_vars>>, Locks'
      PROVE  PulseInv'
  BY <1>2 DEF PulseInv, Peeked, Holds, IsIn, IsOut, Pulse!record_vars
<1>3. ASSUME UNCHANGED <<direction, pc, buffered, callback_vars, Pulse!record_vars>>, ~Begun
      PROVE  Quiet /\ pc = "none" /\ buffered = 0
  <2>1. pc \notin Callbacks /\ buffered = 0
    BY <1>3, NothingYet
  <2>2. pc = "none"
    BY <1>3, <2>1 DEF PulseInv, Locks, Callbacks
  <2> QED
    BY <1>3, <2>1, <2>2, PulseHolds DEF Quiet, Pulse!record_vars
<1>4. CASE Pulse!outstream_open \/ Pulse!instream_open
  <2> USE <1>4 DEF Pulse!outstream_open, Pulse!instream_open
  <2>1. /\ stream = "created" /\ ~Begun /\ clear_buffer_flag' \in BOOLEAN
        /\ UNCHANGED <<direction, pc, buffered, callback_vars, Pulse!record_vars, lock>>
    BY <1>1 DEF Begun, Pulse!record_vars
  <2>2. Goal
    BY <1>1, <1>3, <2>1, Tries, Opens DEF IsIn, IsOut
  <2>3. Locks'
    BY <1>1, <1>3, <2>1 DEF PulseInv, Locks, Begun, IsIn, IsOut
  <2> QED
    BY <1>2, <2>1, <2>2, <2>3
<1>5. CASE Pulse!instream_start \/ Pulse!outstream_start
  <2> USE <1>5 DEF Pulse!instream_start, Pulse!outstream_start
  <2>1. /\ stream = "opened" /\ ~Begun
        /\ UNCHANGED <<direction, pc, buffered, callback_vars, Pulse!record_vars>>
        /\ UNCHANGED clear_buffer_flag
    BY DEF Begun, Pulse!record_vars
  <2>2. CASE stream' = "starting"
    <3>1. Goal
      BY <1>3, <2>1, <2>2, PulseHolds, Starts
    <3>2. Locks'
      BY <1>1, <1>3, <2>1, <2>2 DEF PulseInv, Locks, Begun, IsIn, IsOut
    <3> QED
      BY <1>2, <2>1, <3>1, <3>2
  <2>3. CASE stream' # "starting"
    <3>1. UNCHANGED <<loop_vars, peek_buf_index, lock, pa_state>>
      BY <2>1, <2>3 DEF loop_vars, Pulse!record_vars
    <3>2. Goal
      BY <3>1, PulseStays
    <3>3. Locks'
      BY <3>1 DEF PulseInv, Locks, Begun, IsIn, IsOut, loop_vars
    <3> QED
      BY <1>2, <2>1, <3>2, <3>3
  <2> QED
    BY <2>2, <2>3
<1>6. CASE Pulse!ReadySeen \/ Pulse!TimingEnds
  <2> USE <1>6 DEF Pulse!ReadySeen, Pulse!TimingEnds
  <2>1. /\ UNCHANGED <<direction, pc, buffered, callback_vars, Pulse!record_vars>>
        /\ UNCHANGED <<clear_buffer_flag, lock, pa_state, peek_buf_index>>
        /\ stream \in {"opening", "starting", "timing"}
    BY DEF Pulse!record_vars
  <2>2. CASE IsOut
    <3>1. ~Begun /\ stream \in {"opening", "timing"} /\ clear_buffer_flag' = TRUE
          /\ stream' \in {"timing", "opened", "failed"}
      BY <1>1, <2>1, <2>2 DEF Begun, IsIn, IsOut, LoopInv, Fresh
    <3>2. Goal
      BY <1>3, <2>1, <2>2, <3>1, Tries, Opens
    <3>3. Locks'
      BY <1>1, <1>3, <2>1, <2>2, <3>1 DEF PulseInv, Locks, Begun, IsIn, IsOut
    <3> QED
      BY <1>2, <2>1, <3>2, <3>3
  <2>3. CASE IsIn
    <3>1. \/ stream = "starting" /\ stream' = "timing"
          \/ stream = "timing" /\ stream' = "started"
      BY <1>1, <2>1, <2>3 DEF IsIn, IsOut, PulseInv, Locks
    <3>2. UNCHANGED <<Taken, Held>>
      BY <2>1, PulseHolds
    <3>3. Goal
      BY <2>1, <2>3, <3>1, <3>2, PulseHolds, Waits DEF Same
    <3>4. Locks'
      BY <1>1, <2>1, <2>3, <3>1 DEF PulseInv, Locks, Begun, IsIn, IsOut
    <3> QED
      BY <1>2, <2>1, <3>3, <3>4
  <2> QED
    BY <1>1, <2>2, <2>3
<1>7. CASE Pulse!outstream_pause \/ Pulse!instream_pause
  <2> USE <1>7 DEF Pulse!outstream_pause, Pulse!instream_pause, Pulse!loop_vars
  <2>1. /\ UNCHANGED <<loop_vars, peek_buf_index, pa_state>>
        /\ UNCHANGED <<direction, pc, buffered, callback_vars, Pulse!record_vars>>
        /\ UNCHANGED lock \/ (IsIn /\ lock' = "leaked" /\ pa_state # "READY")
    BY DEF loop_vars, Pulse!record_vars, IsIn
  <2>2. Goal
    BY <2>1, PulseStays
  <2>3. Locks'
    BY <1>1, <2>1 DEF PulseInv, Locks, Begun, IsIn, IsOut, loop_vars
  <2> QED
    BY <1>2, <2>1, <2>2, <2>3
<1>8. CASE Pulse!outstream_destroy \/ Pulse!instream_destroy
  <2> USE <1>8 DEF Pulse!outstream_destroy, Pulse!instream_destroy, Pulse!Destroy
  <2>1. /\ UNCHANGED <<direction, pc, buffered, callback_vars, Pulse!record_vars, lock>>
        /\ UNCHANGED <<clear_buffer_flag, peek_buf_index>>
    BY DEF Pulse!record_vars
  <2>2. CASE stream = "started" /\ stream' = "joining" /\ UNCHANGED pa_state
    <3>1. UNCHANGED <<Taken, Held>>
      BY <2>1, PulseHolds
    <3>2. Goal
      BY <2>1, <2>2, <3>1, PulseHolds, Waits DEF Same
    <3>3. Locks'
      BY <1>1, <2>1, <2>2 DEF PulseInv, Locks, Begun, IsIn, IsOut
    <3> QED
      BY <1>2, <2>1, <3>2, <3>3
  <2>3. CASE /\ stream \in {"created", "failed", "opened"} /\ stream' = "destroyed"
             /\ pa_state' = "TERMINATED"
    <3>1. ~Begun
      BY <2>3 DEF Begun
    <3>2. pc = "none" /\ buffered' = 0 /\ (IsIn => Held' = 0)
      BY <1>1, <1>3, <2>1, <3>1, PulseHolds
    <3>3. Goal
      BY <2>1, <2>3, <3>2, Destroys DEF Callbacks
    <3>4. Locks'
      BY <1>1, <2>1, <2>3, <3>2 DEF PulseInv, Locks, Begun, IsIn, IsOut
    <3> QED
      BY <1>2, <2>1, <3>3, <3>4
  <2> QED
    BY <2>2, <2>3
<1>9. CASE Pulse!Disconnects
  <2> USE <1>9 DEF Pulse!Disconnects
  <2>1. pc = "none" /\ Held' = 0 /\ granted = 0
    BY <1>1, PulseHolds DEF PulseInv, Locks, Callbacks
  <2>2. Goal
    BY <2>1, Destroys DEF Callbacks
  <2>3. Holds(chunks', buffered') /\ chunks' \in Seq(Pulse!Chunk)
    BY NoChunks
  <2>4. Locks'
    BY <1>1, <2>1 DEF PulseInv, Locks, Begun, IsIn, IsOut
  <2>5. Peeked' /\ peek_buf' \in BOOLEAN /\ peek_buf_index' \in Nat
    <3>1. /\ ~peek_buf' /\ peek_buf' \in BOOLEAN /\ peek_buf_index' = 0
          /\ granted' = 0 /\ pc' = "none"
      BY <2>1
    <3> QED
      BY ONLY <3>1 DEF Peeked
  <2> QED
    BY <2>2, <2>3, <2>4, <2>5 DEF PulseInv
<1>10. CASE Pulse!RequestClear /\ UNCHANGED Pulse!pulse_vars
  <2>1. RequestClear
    BY <1>10 DEF Pulse!RequestClear, RequestClear, Pulse!Opened, Opened
  <2>2. Goal
    BY <2>1, PulseHolds, OutAsksToClear
  <2>3. Locks'
    BY <1>10, <2>1 DEF RequestClear, PulseInv, Locks, Begun, IsIn, IsOut
  <2> QED
    BY <1>2, <1>10, <2>1, <2>2, <2>3 DEF RequestClear, Pulse!record_vars
<1> QED
  BY <1>4, <1>5, <1>6, <1>7, <1>8, <1>9, <1>10 DEF Pulse!Client, Pulse!Proceeds

LEMMA PulseKeeps ==
  ASSUME LoopInv, AtRest, PulseInv, InPulse, Pulse!Next
  PROVE  LoopInv' /\ Kept /\ PulseInv'
BY PulseMainLoop, PulseWrites, PulseReads, PulseClient
   DEF Pulse!Next, Pulse!Callback

-----------------------------------------------------------------------------
(* WASAPI *)

\* Of a device that is gone nothing is held; of a packet, what is left of it.
LEMMA WasapiHolds ==
  ASSUME LoopInv, AtRest, InWasapi
  PROVE  /\ UNCHANGED current_backend /\ current_backend = "wasapi"
         /\ Taken = (IF Gone THEN 0 ELSE granted)
         /\ Taken' = (IF Gone' THEN 0 ELSE granted')
         /\ Gone => Held = 0
         /\ Gone' => Held' = 0
         /\ ~Gone /\ read_buf_frames_left > 0 =>
              Held = buffered - (opened_buf_frames - read_buf_frames_left)
         /\ ~Gone' /\ read_buf_frames_left' > 0 =>
              Held' = buffered' - (opened_buf_frames' - read_buf_frames_left')
         /\ ~Gone /\ ~(read_buf_frames_left > 0) => Held = buffered
         /\ ~Gone' /\ ~(read_buf_frames_left' > 0) /\ buffered' \in Nat =>
              Held' = buffered'
         /\ AtRest'
<1> USE DEF InWasapi, alsa, pulse, jack, dummy, AtRest
<1>1. /\ ~stale /\ ~stale' /\ peek_buf_index = 0 /\ peek_buf_index' = 0
      /\ current_backend' = "wasapi" /\ current_backend = "wasapi" /\ buffered \in Nat
  BY DEF LoopInv, Typed
<1>2. AtRest'
  BY <1>1
<1> HIDE DEF InWasapi, AtRest
<1>3. /\ read_buf_frames_left > 0 =>
           Captured = buffered - (opened_buf_frames - read_buf_frames_left)
      /\ ~(read_buf_frames_left > 0) => Captured = buffered
  BY <1>1 DEF Captured
<1>4. /\ read_buf_frames_left' > 0 =>
           Captured' = buffered' - (opened_buf_frames' - read_buf_frames_left')
      /\ ~(read_buf_frames_left' > 0) /\ buffered' \in Nat => Captured' = buffered'
  BY <1>1 DEF Captured
<1> QED
  BY <1>1, <1>2, <1>3, <1>4 DEF Taken, Held

LEMMA WasapiFacts ==
  ASSUME LoopInv, WasapiInv
  PROVE  /\ buffered \in Nat /\ granted \in Nat /\ frames_left \in Int
         /\ IsIn <=> ~IsOut
         /\ pc \notin Callbacks => granted = 0
         /\ buffered > 0 => Begun
         /\ clear_buffer_flag \in BOOLEAN
         /\ opened_buf_frames \in Nat /\ read_buf_frames_left \in Nat
BY Directions DEF LoopInv, Typed, CallOrder, WasapiInv

\* The thread goes on outside of a callback, or it ends and releases the client.
LEMMA WasapiGoesOn ==
  ASSUME LoopInv, AtRest, WasapiInv, InWasapi,
         UNCHANGED <<direction, stream, buffered, is_raw, Wasapi!packet, callback_vars,
                     clear_buffer_flag>>,
         \/ pc' = pc
         \/ pc \notin Callbacks \cup {"ended"} /\ pc' \notin Callbacks,
         \/ Gone <=> Gone'
         \/ Begun /\ Gone'
  PROVE  LoopInv' /\ Kept
<1> USE DEF callback_vars, Wasapi!packet
<1>1. /\ buffered \in Nat /\ granted \in Nat /\ (buffered > 0 => Begun)
      /\ IsIn <=> ~IsOut
      /\ opened_buf_frames \in Nat /\ read_buf_frames_left \in Nat
  BY WasapiFacts
<1>2. buffered' \in 0..buffered /\ buffered' \in Nat /\ (buffered' > 0 => Begun)
  BY <1>1
<1>3. CASE IsOut
  BY <1>2, <1>3, WasapiHolds, OutGoesOn DEF Same
<1>4. CASE IsIn
  <2>1. CASE Gone <=> Gone'
    <3>1. UNCHANGED <<Taken, Held>>
      BY <1>1, <1>2, <2>1, WasapiHolds
    <3> QED
      BY <1>2, <1>4, <3>1, WasapiHolds, InGoesOn DEF Same
  <2>2. CASE Begun /\ Gone'
    <3>1. Taken' = 0 /\ Held' = 0
      BY <2>2, WasapiHolds
    <3> QED
      BY <1>2, <1>4, <2>2, <3>1, WasapiHolds, InGoesOn DEF Same, Stops, Broken
  <2> QED
    BY <2>1, <2>2
<1> QED
  BY <1>1, <1>3, <1>4

LEMMA WasapiDevice ==
  ASSUME LoopInv, AtRest, WasapiInv, InWasapi, Wasapi!Device \/ Wasapi!Unplug
  PROVE  LoopInv' /\ Kept /\ WasapiInv'
<1> USE DEF Wasapi!callback_vars, callback_vars, Wasapi!packet, Wasapi!DeviceVars
<1> DEFINE Goal == LoopInv' /\ Kept
<1>1. /\ buffered \in Nat /\ granted \in Nat /\ frames_left \in Int
      /\ IsIn <=> ~IsOut
      /\ opened_buf_frames \in Nat /\ read_buf_frames_left \in Nat
      /\ buffered > 0 => Begun
      /\ PeriodSize \in Nat /\ Room \in Nat
  BY WasapiFacts, StreamLoopAssumption
<1>2. CASE Wasapi!Device
  <2> USE DEF Wasapi!Device, Wasapi!Period, Wasapi!Frame, Wasapi!Min2
  <2>1. /\ audio_client = "running" /\ audio_client' = audio_client /\ Begun
        /\ UNCHANGED <<direction, stream, pc, callback_vars, clear_buffer_flag, is_raw>>
        /\ UNCHANGED <<opened_buf_frames, read_buf_frames_left>>
    BY <1>2 DEF WasapiInv
  <2>2. CASE IsOut
    <3>1. buffered' \in 0..buffered
      BY <1>1, <1>2, <2>2 DEF IsOut
    <3>2. Due = IF is_raw THEN PeriodSize ELSE 1
      BY <2>1, WasapiHolds DEF Due
    <3>3. buffered - buffered' <= Due
      BY <1>1, <1>2, <2>2, <3>2 DEF IsOut
    <3>4. Goal
      BY <2>1, <2>2, <3>1, <3>3, WasapiHolds, OutGoesOn DEF Same
    <3> QED
      BY <1>1, <2>1, <2>2, <3>1, <3>4 DEF WasapiInv, Begun, IsIn, IsOut, Gone
  <2>3. CASE IsIn
    <3>1. buffered' \in buffered..Room
      BY <1>1, <1>2, <2>3 DEF IsIn, WasapiInv
    <3>2. buffered' \in Nat /\ ~Gone /\ ~Gone'
      BY <1>1, <2>1, <3>1 DEF Gone
    <3>3. Taken' = Taken /\ (Held' = Held \/ Held' > Held)
      <4>1. Taken' = granted' /\ Taken = granted /\ granted' = granted
        BY <2>1, <3>2, WasapiHolds
      <4>2. CASE read_buf_frames_left > 0
        <5>1. /\ Held = buffered - (opened_buf_frames - read_buf_frames_left)
              /\ Held' = buffered' - (opened_buf_frames - read_buf_frames_left)
          BY <2>1, <3>2, <4>2, WasapiHolds
        <5>2. buffered' = buffered \/ buffered' > buffered
          BY <1>1, <3>1
        <5>3. opened_buf_frames - read_buf_frames_left \in Nat
          BY <1>1, <4>2 DEF WasapiInv
        <5>4. buffered \in Nat /\ buffered' \in Nat
          BY <1>1, <3>2
        <5>5. buffered' > buffered => Held' > Held
          BY ONLY <5>1, <5>3, <5>4, MoreIsLeft, Zenon
        <5> QED
          BY ONLY <4>1, <5>1, <5>2, <5>5
      <4>3. CASE ~(read_buf_frames_left > 0)
        BY <1>1, <2>1, <3>1, <3>2, <4>1, <4>3, WasapiHolds
      <4> QED
        BY <4>2, <4>3
    <3>4. Goal
      BY <2>1, <2>3, <3>2, <3>3, WasapiHolds, InGoesOn DEF Same
    <3>5. read_buf_frames_left > 0 => opened_buf_frames <= buffered'
      BY <1>1, <3>1, <3>2 DEF WasapiInv
    <3> QED
      BY <1>1, <2>1, <2>3, <3>1, <3>4, <3>5 DEF WasapiInv, Begun, IsIn, IsOut, Gone
  <2> QED
    BY <1>1, <2>2, <2>3
<1>3. CASE Wasapi!Unplug
  <2> USE <1>3 DEF Wasapi!Unplug
  <2>1. /\ Gone' /\ buffered' = 0 /\ buffered' \in 0..buffered
        /\ audio_client \in {"stopped", "running"}
        /\ UNCHANGED <<direction, stream, pc, callback_vars, clear_buffer_flag, is_raw>>
        /\ UNCHANGED <<opened_buf_frames, read_buf_frames_left>>
    BY <1>1 DEF Gone, Wasapi!Works
  <2>2. ASSUME IsOut PROVE Goal
    BY <2>1, <2>2, WasapiHolds, OutGoesOn DEF Same, Broken
  <2>3. ASSUME IsIn PROVE Goal
    <3>1. Taken' = 0 /\ Held' = 0
      BY <2>1, WasapiHolds
    <3>2. ~Begun => Taken = 0 /\ Held = 0
      <4>1. ~Begun => granted = 0 /\ buffered = 0
        BY NothingYet
      <4>2. ~Gone
        BY <2>1 DEF Gone
      <4>3. ~Begun => read_buf_frames_left = 0
        BY <1>1, <4>1, <4>2 DEF WasapiInv
      <4> QED
        BY <1>1, <4>1, <4>2, <4>3, WasapiHolds
    <3> QED
      BY <2>1, <2>3, <3>1, <3>2, WasapiHolds, InGoesOn DEF Same, Stops, Broken
  <2>4. Goal
    BY <1>1, <2>2, <2>3
  <2>5. audio_client' = "invalid"
    OBVIOUS
  <2> QED
    BY <1>1, <2>1, <2>4, <2>5 DEF WasapiInv, Begun, IsIn, IsOut
<1> QED
  BY <1>2, <1>3

\* The thread until it runs the stream.
LEMMA WasapiOpens ==
  ASSUME LoopInv, AtRest, WasapiInv, InWasapi, Wasapi!DoOpen \/ Wasapi!AwaitStart
  PROVE  LoopInv' /\ Kept /\ WasapiInv'
<1> USE DEF Wasapi!callback_vars, callback_vars, Wasapi!packet, Wasapi!IdleVars,
            Wasapi!FlagVars, Wasapi!NoCallBack, Wasapi!DoOpen, Wasapi!AwaitStart
<1>1. /\ buffered \in Nat /\ granted \in Nat /\ frames_left \in Int
      /\ IsIn <=> ~IsOut
      /\ buffered > 0 => Begun
  BY WasapiFacts
<1>2. /\ pc \in {"open", "waiting"} /\ pc' \in {"waiting", "ended", "run"}
      /\ UNCHANGED <<direction, stream, buffered, is_raw, Wasapi!packet, callback_vars,
                     clear_buffer_flag>>
      /\ pc' = "run" => stream = "started"
      /\ pc' = "waiting" => pc = "open" /\ audio_client' = "stopped"
      /\ audio_client' = audio_client \/ (pc = "open" /\ audio_client' = "stopped")
  OBVIOUS
<1>3. Gone <=> Gone'
  BY <1>2 DEF WasapiInv, Gone
<1>4. LoopInv' /\ Kept
  BY <1>2, <1>3, WasapiGoesOn DEF Callbacks
<1>5. pc = "open" => stream = "opening" /\ ~Begun /\ buffered = 0
  BY <1>1 DEF WasapiInv, Begun
<1> QED
  BY <1>1, <1>2, <1>4, <1>5 DEF WasapiInv, Begun, IsIn, IsOut, Gone

\* A step of the thread in a stream that runs, but for its callbacks: the client
\* is stopped or started, or is released when the thread ends.
LEMMA WasapiRuns ==
  ASSUME LoopInv, AtRest, WasapiInv, InWasapi,
         pc \in {"run", "start", "loop", "clear?", "pause?", "ask"},
         pc' \in {"loop", "clear?", "pause?", "ask", "ended"},
         pc' = "clear?" => IsOut /\ ~is_raw,
         UNCHANGED <<direction, stream, buffered, is_raw, Wasapi!packet, callback_vars,
                     clear_buffer_flag>>,
         \/ audio_client' = audio_client
         \/ pc' = "ended" /\ audio_client' = "invalid"
         \/ /\ audio_client \in {"stopped", "running"}
            /\ audio_client' \in {"stopped", "running"}
  PROVE  LoopInv' /\ Kept /\ WasapiInv'
<1> USE DEF callback_vars, Wasapi!packet
<1>1. Begun /\ stream # "created" /\ audio_client # "none"
  BY DEF WasapiInv, Begun
<1>2. (Gone <=> Gone') \/ (Begun /\ Gone')
  BY <1>1 DEF Gone
<1>3. LoopInv' /\ Kept
  BY <1>2, WasapiGoesOn DEF Callbacks
<1> QED
  BY <1>1, <1>3, WasapiFacts DEF WasapiInv, Begun, IsIn, IsOut, Gone

LEMMA WasapiThread ==
  ASSUME LoopInv, AtRest, WasapiInv, InWasapi, Wasapi!OutThread \/ Wasapi!InThread
  PROVE  LoopInv' /\ Kept /\ WasapiInv'
<1> USE DEF Wasapi!callback_vars, callback_vars, Wasapi!packet, Wasapi!IdleVars,
            Wasapi!FlagVars, Wasapi!NoCallBack, Wasapi!CallBack, Wasapi!ThreadEnds,
            Wasapi!Fails, Wasapi!Works, Wasapi!pause_vars
<1> DEFINE Goal == LoopInv' /\ Kept
<1>1. /\ buffered \in Nat /\ granted \in Nat /\ frames_left \in Int
      /\ IsIn <=> ~IsOut
      /\ opened_buf_frames \in Nat /\ read_buf_frames_left \in Nat
      /\ clear_buffer_flag \in BOOLEAN /\ is_raw \in BOOLEAN
      /\ PeriodSize \in Nat \ {0} /\ Room \in Nat \ {0} /\ PeriodSize <= Room
      /\ audio_client \in {"none", "stopped", "running", "invalid"}
  BY WasapiFacts, StreamLoopAssumption DEF WasapiInv
<1>2. CASE Wasapi!Starts("start") \/ (Wasapi!Starts("run") /\ IsIn) \/ Wasapi!PaddingFails
  BY <1>1, <1>2, WasapiRuns DEF Wasapi!Starts, Wasapi!PaddingFails
<1>3. CASE \/ Wasapi!TestExit(IF is_raw THEN "pause?" ELSE "clear?") /\ IsOut
           \/ Wasapi!TestExit("ask")
  <2>1. pc = "loop" /\ pc' \in {"pause?", "clear?", "ask", "ended"}
        /\ (pc' = "clear?" => IsOut /\ ~is_raw)
    BY <1>3 DEF Wasapi!TestExit
  <2> QED
    BY <1>1, <1>3, <2>1, WasapiRuns DEF Wasapi!TestExit
<1>4. CASE Wasapi!TestPause
  <2> USE <1>4 DEF Wasapi!TestPause
  <2>1. pc = "pause?" /\ pc' \in {"ask", "ended"}
    OBVIOUS
  <2>2. \/ audio_client' = audio_client
        \/ pc' = "ended" /\ audio_client' = "invalid"
        \/ /\ audio_client \in {"stopped", "running"}
           /\ audio_client' \in {"stopped", "running"}
    OBVIOUS
  <2> QED
    BY <2>1, <2>2, WasapiRuns
<1>5. CASE Wasapi!Prefill
  <2> USE <1>5 DEF Wasapi!Prefill
  <2>1. CASE pc' = "prefill"
    <3>1. /\ IsOut /\ ~IsIn /\ Begun /\ buffered = 0 /\ pc = "run"
          /\ frames_left' \in 1..(Room - buffered) /\ UNCHANGED granted
      BY <1>1, <2>1 DEF WasapiInv, IsOut
    <3>2. Goal
      BY <2>1, <3>1, WasapiHolds, OutCalls DEF Same, Callbacks
    <3> QED
      BY <1>1, <2>1, <3>1, <3>2 DEF WasapiInv, Begun, IsIn, IsOut, Gone
  <2>2. CASE pc' # "prefill"
    BY <1>1, <2>2, WasapiRuns
  <2> QED
    BY <2>1, <2>2
<1>6. CASE Wasapi!TestClear
  <2> USE <1>6 DEF Wasapi!TestClear
  <2>1. /\ IsOut /\ ~is_raw /\ ~IsIn /\ pc = "clear?" /\ Begun /\ clear_buffer_flag' = TRUE
        /\ UNCHANGED <<direction, stream, is_raw, callback_vars>>
        /\ UNCHANGED <<opened_buf_frames, read_buf_frames_left>>
    BY <1>1 DEF WasapiInv
  <2>2. CASE clear_buffer_flag
    <3>1. UNCHANGED clear_buffer_flag
      BY <1>1, <2>1, <2>2
    <3>2. pc' = "pause?" /\ UNCHANGED <<buffered, audio_client>>
      BY <2>2
    <3> QED
      BY <2>1, <3>1, <3>2, WasapiRuns
  <2>3. CASE ~clear_buffer_flag
    <3>1. /\ pc' \in {"pause?", "ended"} /\ buffered' \in {0, buffered}
          /\ pc' = "ended" \/ buffered' = 0
          /\ audio_client' = IF pc' = "ended" THEN "invalid" ELSE "stopped"
      BY <2>3
    <3> HIDE <1>6
    <3>2. Goal
      BY <2>1, <2>3, <3>1, WasapiHolds, OutClears DEF Same, Callbacks
    <3> QED
      BY <1>1, <2>1, <3>1, <3>2 DEF WasapiInv, Begun, IsIn, IsOut, Gone
  <2> QED
    BY <2>2, <2>3
<1>7. CASE /\ \/ IsOut /\ Wasapi!Ask(Room - buffered)
              \/ IsIn /\ Wasapi!Ask(buffered)
           /\ pc' = "callback"
  <2> USE DEF Wasapi!Ask
  <2>1. /\ pc = "ask" /\ Begun /\ UNCHANGED granted
        /\ UNCHANGED <<direction, stream, buffered, is_raw, clear_buffer_flag, audio_client>>
        /\ UNCHANGED <<opened_buf_frames, read_buf_frames_left>>
        /\ audio_client # "none" /\ stream # "created"
    BY <1>1, <1>7 DEF WasapiInv, Begun
  <2>2. ASSUME IsOut PROVE Goal
    <3>1. CASE frames_left' \in 1..(Room - buffered)
      BY <1>7, <2>1, <2>2, <3>1, WasapiHolds, OutCalls DEF Same, Callbacks
    <3>2. CASE frames_left' \notin 1..(Room - buffered)
      <4>1. is_raw /\ frames_left' = PeriodSize /\ buffered > Room - PeriodSize
        BY <1>1, <1>7, <2>2, <3>2
      <4>2. CallsEarly
        BY <1>7, <2>2, <4>1, WasapiHolds DEF CallsEarly
      <4>3. LoopInv'
        BY <1>1, <1>7, <2>1, <2>2, <4>1
           DEF LoopInv, Typed, CallOrder, Fresh, Begun, IsIn, IsOut, Callbacks
      <4> QED
        BY <2>1, <2>2, <4>2, <4>3, OutKept DEF LoopInv
    <3> QED
      BY <3>1, <3>2
  <2>3. ASSUME IsIn PROVE Goal
    <3>1. frames_left' \in Nat \ {0}
      BY <1>1, <1>7, <2>3
    <3>2. UNCHANGED <<Taken, Held>>
      BY <1>1, <2>1, WasapiHolds DEF Gone
    <3> QED
      BY <1>7, <2>1, <2>3, <3>1, <3>2, WasapiHolds, InCalls DEF Same, Callbacks
  <2>4. Goal
    BY <1>1, <2>2, <2>3
  <2> QED
    BY <1>1, <1>7, <2>1, <2>4 DEF WasapiInv, Begun, IsIn, IsOut, Gone
<1>8. CASE Wasapi!Ask(Room - buffered) /\ pc' # "callback"
  BY <1>1, <1>8, WasapiRuns DEF Wasapi!Ask
<1>9. CASE Wasapi!Ask(buffered) /\ pc' # "callback"
  BY <1>1, <1>9, WasapiRuns DEF Wasapi!Ask
<1> QED
  BY <1>2, <1>3, <1>4, <1>5, <1>6, <1>7, <1>8, <1>9
     DEF Wasapi!OutThread, Wasapi!InThread, IsIn, IsOut

LEMMA WasapiWrites ==
  ASSUME LoopInv, AtRest, WasapiInv, InWasapi, Wasapi!Write
  PROVE  LoopInv' /\ Kept /\ WasapiInv'
<1> USE DEF Wasapi!callback_vars, callback_vars, Wasapi!packet, Wasapi!wasapi_vars,
            Wasapi!WriteVars, Wasapi!Writing, Wasapi!Grants, Wasapi!ReturnsError,
            ReturnsError, Wasapi!Ends, Ends
<1> DEFINE Goal == LoopInv' /\ Kept
<1>1. /\ buffered \in Nat /\ granted \in Nat /\ frames_left \in Int
      /\ IsIn <=> ~IsOut
      /\ granted > 0 => granted <= frames_left
  BY WasapiFacts DEF LoopInv, CallOrder
<1>2. /\ IsOut /\ ~IsIn /\ pc \in Callbacks /\ Begun
      /\ UNCHANGED <<direction, stream, clear_buffer_flag, audio_client, is_raw>>
      /\ UNCHANGED <<opened_buf_frames, read_buf_frames_left>>
  BY <1>1 DEF Wasapi!Write, Wasapi!outstream_begin_write, Wasapi!outstream_end_write,
              Wasapi!WriteReturns, IsOut, Callbacks, LoopInv, CallOrder
<1>3. ASSUME pc' \in {"prefill", "callback", "start", "loop"}
      PROVE  WasapiInv'
  BY <1>1, <1>2, <1>3 DEF WasapiInv, Begun, IsIn, IsOut, Gone, Callbacks
<1>4. CASE Wasapi!outstream_begin_write
  <2> USE <1>4 DEF Wasapi!outstream_begin_write
  <2>1. CASE granted' > 0
    <3>1. granted' \in 1..frames_left /\ UNCHANGED <<frames_left, pc, buffered>>
      BY <1>1, <2>1
    <3> QED
      BY <1>2, <1>3, <3>1, WasapiHolds, OutBegins DEF Same, Callbacks
  <2>2. CASE ~(granted' > 0)
    <3>1. ReturnsError /\ frames_left > 0 /\ UNCHANGED <<pc, buffered>>
      BY <1>1, <2>2
    <3> QED
      BY <1>2, <1>3, <3>1, WasapiHolds, OutFails DEF Same, Callbacks
  <2> QED
    BY <2>1, <2>2
<1>5. CASE Wasapi!outstream_end_write
  <2> USE <1>5 DEF Wasapi!outstream_end_write
  <2>1. CASE Wasapi!Works
    <3>1. UNCHANGED pc /\ Ends /\ buffered' = buffered + granted /\ granted > 0
      BY <2>1
    <3> QED
      BY <1>2, <1>3, <3>1, WasapiHolds, OutEnds DEF Same, Callbacks
  <2>2. CASE ~Wasapi!Works
    <3>1. ReturnsError /\ frames_left > 0 /\ UNCHANGED <<pc, buffered>>
      BY <1>1, <2>2
    <3> QED
      BY <1>2, <1>3, <3>1, WasapiHolds, OutFails DEF Same, Callbacks
  <2> QED
    BY <2>1, <2>2
<1>6. CASE Wasapi!WriteReturns
  <2> USE <1>6 DEF Wasapi!WriteReturns
  <2>1. pc' \in {"start", "loop"} /\ granted = 0 /\ frames_left' = 0
        /\ UNCHANGED <<granted, buffered>>
    OBVIOUS
  <2> QED
    BY <1>2, <1>3, <2>1, WasapiHolds, OutReturns DEF Same, Callbacks
<1> QED
  BY <1>4, <1>5, <1>6 DEF Wasapi!Write

\* A packet is read in parts, and released once it is read.
LEMMA WasapiReads ==
  ASSUME LoopInv, AtRest, WasapiInv, InWasapi, Wasapi!Read
  PROVE  LoopInv' /\ Kept /\ WasapiInv'
<1> USE DEF Wasapi!callback_vars, callback_vars, Wasapi!packet, Wasapi!IdleVars,
            Wasapi!FlagVars, Wasapi!pause_vars, Wasapi!ReadVars, Wasapi!Reading
<1> DEFINE Goal == LoopInv' /\ Kept
           left == read_buf_frames_left
           opened == opened_buf_frames
<1>1. /\ buffered \in Nat /\ granted \in Nat /\ frames_left \in Int
      /\ IsIn <=> ~IsOut
      /\ granted > 0 => granted <= frames_left
      /\ opened \in Nat /\ left \in Nat
      /\ PeriodSize \in Nat \ {0} /\ Room \in Nat
  BY WasapiFacts, StreamLoopAssumption DEF LoopInv, CallOrder
<1>2. /\ IsIn /\ ~IsOut /\ pc = "callback" /\ pc \in Callbacks /\ Begun
      /\ UNCHANGED <<direction, stream, clear_buffer_flag, audio_client, is_raw>>
      /\ Gone <=> Gone'
      /\ buffered <= Room
  BY <1>1 DEF Wasapi!Read, Wasapi!instream_begin_read, Wasapi!instream_end_read,
              Wasapi!ReadReturns, IsIn, Callbacks, LoopInv, CallOrder, WasapiInv, Gone
<1>3. /\ left > 0 => left <= opened /\ (~Gone => opened <= buffered)
      /\ granted > 0 => granted <= left
  BY <1>2 DEF WasapiInv
<1>4. ASSUME pc' \in {"callback", "loop"}, opened' \in Nat, left' \in Nat,
             buffered' <= Room,
             left' > 0 => left' <= opened' /\ (~Gone => opened' <= buffered'),
             granted' > 0 => granted' <= left'
      PROVE  WasapiInv'
  BY <1>1, <1>2, <1>4 DEF WasapiInv, Begun, IsIn, IsOut, Gone
<1>5. CASE Wasapi!instream_begin_read
  <2> USE <1>5 DEF Wasapi!instream_begin_read, Wasapi!Grants, Wasapi!Min2
  <2>1. UNCHANGED <<buffered, pc>> /\ granted = 0 /\ frames_left > 0
    OBVIOUS
  <2>2. CASE left > 0
    <3>1. /\ granted' \in 1..frames_left /\ granted' <= left
          /\ UNCHANGED <<frames_left, opened_buf_frames, read_buf_frames_left>>
      BY <1>1, <2>2
    <3> HIDE <1>5
    <3>2. WasapiInv'
      BY <1>1, <1>2, <1>3, <1>4, <2>1, <3>1
    <3>3. /\ Taken = 0 /\ Held' = Held
          /\ Taken' = 0 \/ (Taken' = granted' /\ Taken' <= Held)
      <4>1. CASE Gone
        BY <1>2, <4>1, WasapiHolds
      <4>2. CASE ~Gone
        <5>1. /\ Taken = 0 /\ Taken' = granted'
              /\ Held = buffered - (opened - left) /\ Held' = buffered - (opened - left)
          BY <1>1, <1>2, <2>1, <2>2, <3>1, <4>2, WasapiHolds
        <5>2. granted' <= buffered - (opened - left)
          BY <1>1, <1>3, <2>2, <3>1, <4>2
        <5> QED
          BY <5>1, <5>2
      <4> QED
        BY <4>1, <4>2
    <3>4. Goal
      BY <1>1, <1>2, <2>1, <3>1, <3>3, WasapiHolds, InBegins DEF Same
    <3> QED
      BY <3>2, <3>4
  <2>3. CASE left = 0 /\ Wasapi!Works /\ buffered > 0
    <3>1. /\ granted' \in 1..frames_left /\ granted' <= opened' /\ UNCHANGED frames_left
          /\ left' = opened' /\ opened' \in 1..buffered
      BY <1>1, <2>3
    <3>2. ~Gone /\ ~Gone'
      BY <1>2, <2>3 DEF Wasapi!Works, Gone
    <3> HIDE <1>5
    <3>3. WasapiInv'
      BY <1>1, <1>2, <1>4, <2>1, <3>1
    <3>4. Taken = 0 /\ Taken' = granted' /\ Held = buffered /\ Held' = buffered
      BY <1>1, <2>1, <2>3, <3>1, <3>2, WasapiHolds
    <3>5. Goal
      BY <1>1, <1>2, <2>1, <3>1, <3>4, WasapiHolds, InBegins DEF Same
    <3> QED
      BY <3>3, <3>5
  <2>4. CASE left = 0 /\ ~(Wasapi!Works /\ buffered > 0)
    <3>1. ReturnsError /\ UNCHANGED <<opened_buf_frames, read_buf_frames_left>>
      BY <1>1, <2>4 DEF ReturnsError, Wasapi!ReturnsError
    <3> HIDE <1>5
    <3>2. WasapiInv'
      BY <1>1, <1>2, <1>4, <2>1, <2>4, <3>1 DEF ReturnsError
    <3>3. Taken' = 0 /\ Held' = Held
      BY <1>1, <1>2, <2>1, <2>4, <3>1, WasapiHolds DEF ReturnsError
    <3>4. Goal
      BY <1>2, <2>1, <3>1, <3>3, WasapiHolds, InFails DEF Same
    <3> QED
      BY <3>2, <3>4
  <2> QED
    BY <1>1, <2>2, <2>3, <2>4
<1>6. CASE Wasapi!instream_end_read
  <2> USE <1>6 DEF Wasapi!instream_end_read
  <2>1. /\ UNCHANGED <<pc, opened_buf_frames>> /\ granted > 0 /\ frames_left > 0
        /\ left' = left - granted /\ left' \in Nat /\ left > 0
    BY <1>1, <1>3
  <2>2. CASE left' # 0
    <3>1. Ends /\ UNCHANGED buffered
      BY <2>2 DEF Ends, Wasapi!Ends
    <3> HIDE <1>6
    <3>2. WasapiInv'
      BY <1>1, <1>2, <1>3, <1>4, <2>1, <3>1 DEF Ends
    <3>3. /\ Taken' = 0
          /\ \/ Taken = granted /\ Held' = Held - granted
             \/ Taken = 0 /\ Held' = Held
      <4>1. CASE Gone
        BY <1>2, <4>1, WasapiHolds
      <4>2. CASE ~Gone
        <5>1. /\ Taken = granted /\ Taken' = 0
              /\ Held = buffered - (opened - left)
              /\ Held' = buffered - (opened - (left - granted))
          BY <1>1, <1>2, <2>1, <2>2, <3>1, <4>2, WasapiHolds DEF Ends
        <5> QED
          BY <1>1, <5>1
      <4> QED
        BY <4>1, <4>2
    <3>4. Goal
      BY <1>1, <1>2, <2>1, <3>1, <3>3, WasapiHolds, InEnds DEF Same
    <3> QED
      BY <3>2, <3>4
  <2>3. CASE left' = 0 /\ Wasapi!Works
    <3>1. Ends /\ buffered' = buffered - opened
      BY <2>3 DEF Ends, Wasapi!Ends
    <3>2. ~Gone /\ ~Gone'
      BY <1>2, <2>3 DEF Wasapi!Works, Gone
    <3> HIDE <1>6
    <3>3. buffered' \in Nat /\ granted = left
      BY <1>1, <1>3, <2>1, <2>3, <3>1, <3>2
    <3>4. WasapiInv'
      BY <1>1, <1>2, <1>3, <1>4, <2>1, <2>3, <3>1, <3>3 DEF Ends
    <3>5. Taken = granted /\ Taken' = 0 /\ Held' = Held - granted
      <4>1. /\ Taken = granted /\ Taken' = 0
            /\ Held = buffered - (opened - granted) /\ Held' = buffered - opened
        BY <1>1, <1>2, <2>1, <2>3, <3>1, <3>2, <3>3, WasapiHolds DEF Ends
      <4> QED
        BY <1>1, <4>1
    <3>6. Goal
      BY <1>1, <1>2, <2>1, <3>1, <3>3, <3>5, WasapiHolds, InEnds DEF Same
    <3> QED
      BY <3>4, <3>6
  <2>4. CASE left' = 0 /\ ~Wasapi!Works
    <3>1. ReturnsError /\ UNCHANGED buffered
      BY <2>4 DEF ReturnsError, Wasapi!ReturnsError
    <3>2. Gone /\ Gone'
      BY <1>2, <2>4 DEF Wasapi!Works, Gone, WasapiInv
    <3> HIDE <1>6
    <3>3. WasapiInv'
      BY <1>1, <1>2, <1>4, <2>1, <2>4, <3>1 DEF ReturnsError
    <3>4. Taken' = 0 /\ Held' = Held
      BY <3>2, WasapiHolds
    <3>5. Goal
      BY <1>2, <2>1, <3>1, <3>4, WasapiHolds, InFails DEF Same
    <3> QED
      BY <3>3, <3>5
  <2> QED
    BY <2>2, <2>3, <2>4
<1>7. CASE Wasapi!ReadReturns
  <2> USE <1>7 DEF Wasapi!ReadReturns, Wasapi!CallBack
  <2>1. /\ pc' = "loop" /\ granted = 0 /\ granted' = 0 /\ frames_left' = 0
        /\ UNCHANGED <<buffered, opened_buf_frames, read_buf_frames_left>>
    OBVIOUS
  <2>2. WasapiInv'
    BY <1>1, <1>2, <1>3, <1>4, <2>1
  <2>3. UNCHANGED <<Taken, Held>>
    BY <1>1, <1>2, <2>1, WasapiHolds
  <2>4. Goal
    BY <1>2, <2>1, <2>3, WasapiHolds, InReturns DEF Same, Callbacks
  <2> QED
    BY <2>2, <2>4
<1> QED
  BY <1>5, <1>6, <1>7 DEF Wasapi!Read

LEMMA WasapiClient ==
  ASSUME LoopInv, AtRest, WasapiInv, InWasapi, Wasapi!Client \/ Wasapi!Join
  PROVE  LoopInv' /\ Kept /\ WasapiInv'
<1> USE DEF Wasapi!callback_vars, callback_vars, Wasapi!packet, Wasapi!FlowVars,
            Wasapi!pause_vars, Wasapi!wasapi_vars, Wasapi!loop_vars
<1> DEFINE Goal == LoopInv' /\ Kept
<1>1. /\ buffered \in Nat /\ granted \in Nat /\ frames_left \in Int
      /\ IsIn <=> ~IsOut
      /\ pc \notin Callbacks => granted = 0
      /\ opened_buf_frames \in Nat /\ read_buf_frames_left \in Nat
      /\ clear_buffer_flag \in BOOLEAN
      /\ Room \in Nat
  BY WasapiFacts, StreamLoopAssumption
<1>2. ~Begun => /\ buffered = 0 /\ granted = 0 /\ pc \notin Callbacks
                /\ pc \in {"none", "open", "waiting", "ended"} /\ Held = 0
  <2>1. ~Begun => buffered = 0 /\ granted = 0 /\ pc \notin Callbacks
    BY NothingYet
  <2>2. ~Begun /\ ~Gone => read_buf_frames_left = 0
    BY <1>1, <2>1 DEF WasapiInv
  <2>3. ~Begun => Held = 0
    BY <1>1, <2>1, <2>2, WasapiHolds
  <2> QED
    BY <2>1, <2>3 DEF WasapiInv
<1>3. ASSUME ~Begun, UNCHANGED <<buffered, audio_client>>,
             UNCHANGED <<opened_buf_frames, read_buf_frames_left>>
      PROVE  Held' = 0
  <2>1. ~Gone' => read_buf_frames_left = 0
    BY <1>1, <1>2, <1>3 DEF WasapiInv, Gone
  <2> QED
    BY <1>1, <1>2, <1>3, <2>1, WasapiHolds
<1>4. CASE Wasapi!outstream_open \/ Wasapi!instream_open
  <2> USE <1>4 DEF Wasapi!outstream_open, Wasapi!instream_open, Wasapi!Open
  <2>1. /\ stream = "created" /\ ~Begun /\ pc \in {"none", "ended"} /\ pc' \in {pc, "open"}
        /\ UNCHANGED <<direction, buffered, audio_client, callback_vars>>
        /\ UNCHANGED <<opened_buf_frames, read_buf_frames_left>>
        /\ clear_buffer_flag' \in BOOLEAN
    BY <1>1, <1>2 DEF Begun, WasapiInv
  <2>2. Quiet
    BY <1>2, <1>3, <2>1, WasapiHolds DEF Quiet, Callbacks
  <2>3. Goal
    BY <1>1, <2>1, <2>2, Tries DEF IsIn
  <2> QED
    BY <1>1, <1>2, <2>1, <2>3 DEF WasapiInv, Begun, IsIn, IsOut, Gone
<1>5. CASE Wasapi!OpenReturns
  <2> USE <1>5 DEF Wasapi!OpenReturns
  <2>1. /\ stream = "opening" /\ ~Begun /\ pc' \notin Callbacks
        /\ (IsOut => clear_buffer_flag' = TRUE)
        /\ UNCHANGED <<pc, direction, buffered, audio_client, callback_vars, is_raw>>
        /\ UNCHANGED <<opened_buf_frames, read_buf_frames_left, clear_buffer_flag>>
    BY <1>1, <1>2 DEF Begun, Callbacks, LoopInv, Fresh
  <2>2. Quiet
    BY <1>2, <1>3, <2>1, WasapiHolds DEF Quiet
  <2>3. Goal
    BY <1>1, <2>1, <2>2, Tries, Opens
  <2> QED
    BY <1>1, <1>2, <2>1, <2>3 DEF WasapiInv, Begun, IsIn, IsOut, Gone
<1>6. CASE Wasapi!Start
  <2> USE <1>6 DEF Wasapi!Start
  <2>1. /\ stream = "opened" /\ ~Begun /\ stream' = "started"
        /\ UNCHANGED <<pc, direction, buffered, audio_client, callback_vars, is_raw>>
        /\ UNCHANGED <<opened_buf_frames, read_buf_frames_left, clear_buffer_flag>>
    BY DEF Begun
  <2>2. Quiet
    BY <1>2, <1>3, <2>1, WasapiHolds DEF Quiet
  <2>3. Goal
    BY <2>1, <2>2, Starts
  <2> QED
    BY <1>1, <1>2, <2>1, <2>3 DEF WasapiInv, Begun, IsIn, IsOut, Gone
<1>7. CASE Wasapi!outstream_pause \/ Wasapi!instream_pause
  <2> USE <1>7 DEF Wasapi!outstream_pause, Wasapi!instream_pause, Wasapi!Works
  <2>1. /\ UNCHANGED <<direction, stream, pc, buffered, frames_left, granted>>
        /\ UNCHANGED <<clear_buffer_flag, is_raw, opened_buf_frames, read_buf_frames_left>>
        /\ \/ audio_client' = audio_client
           \/ /\ audio_client \in {"stopped", "running"} /\ stream = "started"
              /\ audio_client' \in {"stopped", "running"}
    OBVIOUS
  <2> HIDE <1>7
  <2>2. Gone <=> Gone'
    BY <2>1 DEF Gone
  <2>3. Goal
    BY <2>1, <2>2, WasapiGoesOn
  <2> QED
    BY <1>1, <2>1, <2>2, <2>3 DEF WasapiInv, Begun, IsIn, IsOut, Gone
<1>8. CASE Wasapi!Destroy
  <2> USE <1>8 DEF Wasapi!Destroy
  <2>1. /\ UNCHANGED <<direction, pc, buffered, callback_vars, clear_buffer_flag>>
        /\ UNCHANGED <<audio_client, is_raw, opened_buf_frames, read_buf_frames_left>>
    OBVIOUS
  <2>2. CASE stream \in {"created", "failed"} /\ stream' = "destroyed"
    <3>1. ~Begun
      BY <2>2 DEF Begun
    <3>2. Goal
      BY <1>2, <1>3, <2>1, <2>2, <3>1, Destroys
    <3> QED
      BY <1>1, <1>2, <2>1, <2>2, <3>1, <3>2 DEF WasapiInv, Begun, IsIn, IsOut, Gone
  <2>3. CASE \/ stream = "opened" /\ stream' = "closing"
             \/ stream = "started" /\ stream' = "joining"
    <3>1. Gone <=> Gone'
      BY <2>1 DEF Gone
    <3>2. UNCHANGED <<Taken, Held>>
      BY <1>1, <2>1, <3>1, WasapiHolds
    <3>3. Goal
      BY <2>1, <2>3, <3>2, WasapiHolds, Waits DEF Same
    <3> QED
      BY <1>1, <1>2, <2>1, <2>3, <3>3 DEF WasapiInv, Begun, IsIn, IsOut, Gone
  <2> QED
    BY <2>2, <2>3
<1>9. CASE Wasapi!Join
  <2> USE <1>9 DEF Wasapi!Join
  <2>1. pc = "ended" /\ pc' = "ended" /\ granted = 0 /\ ~Gone' /\ audio_client' = "none"
        /\ stream \in {"closing", "joining"} /\ buffered' = 0
        /\ UNCHANGED <<direction, callback_vars, clear_buffer_flag, is_raw>>
    BY <1>1 DEF Callbacks, Gone
  <2>2. Held' = 0
    BY <2>1, WasapiHolds
  <2>3. Goal
    BY <2>1, <2>2, Destroys DEF Callbacks
  <2> QED
    BY <1>1, <2>1, <2>3 DEF WasapiInv, Begun, IsIn, IsOut, Gone
<1>10. CASE ~is_raw /\ Wasapi!RequestClear /\ UNCHANGED Wasapi!wasapi_vars
  <2>1. RequestClear
    BY <1>10 DEF Wasapi!RequestClear, RequestClear, Wasapi!Opened, Opened
  <2>2. Goal
    BY <1>10, <2>1, WasapiHolds, OutAsksToClear
  <2>3. /\ UNCHANGED <<direction, stream, pc, buffered, callback_vars>>
        /\ UNCHANGED <<audio_client, is_raw, opened_buf_frames, read_buf_frames_left>>
    BY <1>10, <2>1 DEF RequestClear
  <2> QED
    BY <1>1, <2>2, <2>3 DEF WasapiInv, Begun, IsIn, IsOut, Gone
<1> QED
  BY <1>4, <1>5, <1>6, <1>7, <1>8, <1>9, <1>10
     DEF Wasapi!Client, Wasapi!outstream_start, Wasapi!instream_start,
         Wasapi!outstream_destroy, Wasapi!instream_destroy

LEMMA WasapiKeeps ==
  ASSUME LoopInv, AtRest, WasapiInv, InWasapi, Wasapi!Next
  PROVE  LoopInv' /\ Kept /\ WasapiInv'
BY WasapiDevice, WasapiOpens, WasapiThread, WasapiWrites, WasapiReads, WasapiClient
   DEF Wasapi!Next, Wasapi!Thread

-----------------------------------------------------------------------------
(* All backends *)

LEMMA InitPromises ==
  ASSUME Init
  PROVE  IInv /\ Playing!Init /\ Recording!Init
<1>1. /\ direction \in {"out", "in"} /\ stream = "created" /\ pc = "none"
      /\ buffered = 0 /\ frames_left = 0 /\ granted = 0 /\ clear_buffer_flag \in BOOLEAN
  BY DEF Init, LoopInit
<1>2. ~Begun /\ (IsIn <=> ~IsOut)
  BY <1>1 DEF Begun, IsIn, IsOut
<1>3. LoopInv
  <2>1. Typed
    BY ONLY <1>1 DEF Typed, Stages
  <2>2. CallOrder /\ Fresh
    BY ONLY <1>1 DEF CallOrder, Fresh, Callbacks
  <2> QED
    BY <2>1, <2>2 DEF LoopInv
<1>4. AtRest
  BY DEF Init, LoopInit, Alsa!PcmInit, Pulse!PaInit, Wasapi!AudioInit, AtRest, IsIn
<1>5. AlsaInv /\ JackInv /\ CoreAudioInv
  BY <1>1, <1>2, StreamLoopAssumption
     DEF Init, Alsa!PcmInit, Jack!JackInit, CoreAudio!UnitInit, AlsaInv, PcmStates,
         JackInv, CoreAudioInv
<1>6. DummyInv
  BY <1>1, StreamLoopAssumption DEF DummyInv
<1>7. WasapiInv
  <2>1. /\ is_raw \in BOOLEAN /\ audio_client = "none"
        /\ opened_buf_frames = 0 /\ read_buf_frames_left = 0
    BY DEF Init, Wasapi!AudioInit
  <2> QED
    BY ONLY <1>1, <1>2, <2>1, StreamLoopAssumption DEF WasapiInv
<1>8. PulseInv
  <2>1. /\ chunks = <<>> /\ ~peek_buf /\ peek_buf \in BOOLEAN /\ peek_buf_index = 0
        /\ lock = "free" /\ pa_state = "NONE"
    BY DEF Init, Pulse!PaInit
  <2>2. Peeked
    BY ONLY <1>1, <2>1 DEF Peeked
  <2>3. Locks
    BY ONLY <1>1, <2>1 DEF Locks
  <2>4. Holds(chunks, buffered)
    BY <1>1, <2>1, NoChunks
  <2>5. chunks \in Seq(Pulse!Chunk)
    BY ONLY <2>1
  <2> QED
    BY ONLY <2>1, <2>2, <2>3, <2>4, <2>5 DEF PulseInv
<1>9. Stream = "created" /\ ~InCallback /\ Allowance = 0
  BY <1>1 DEF Stream, InCallback, Allowance
<1>10. ~Gone /\ Captured = 0
  BY <1>1 DEF Init, Alsa!PcmInit, Pulse!PaInit, Wasapi!AudioInit, Gone, Captured
<1>11. Playing!Init /\ Recording!Init
  BY <1>1, <1>9, <1>10 DEF Playing!Init, Recording!Init
<1> QED
  BY <1>3, <1>4, <1>5, <1>6, <1>7, <1>8, <1>11 DEF IInv

\* A step is one of the backend in use, and leaves what the others keep alone.
LEMMA StepKeeps ==
  ASSUME IInv, [Next]_vars
  PROVE  IInv' /\ Kept
<1>1. CASE InAlsa /\ Alsa!Next
  <2>1. current_backend = "alsa" /\ AtRest' /\ current_backend' = "alsa"
    BY <1>1, AlsaHolds DEF IInv
  <2> QED
    BY <1>1, <2>1, AlsaKeeps DEF IInv
<1>2. CASE InPulse /\ Pulse!Next
  <2>1. current_backend = "pulseaudio" /\ AtRest' /\ current_backend' = "pulseaudio"
    BY <1>2, PulseHolds DEF IInv
  <2> QED
    BY <1>2, <2>1, PulseKeeps DEF IInv
<1>3. CASE InJack /\ Jack!Next
  <2>1. /\ current_backend = "jack" /\ current_backend' = "jack"
        /\ UNCHANGED <<is_raw, stale, audio_client, peek_buf_index, read_buf_frames_left>>
    BY <1>3 DEF InJack, shared, alsa, pulse, dummy, wasapi
  <2>2. AtRest'
    BY <2>1, AllIsHeld DEF IInv
  <2> QED
    BY <1>3, <2>1, <2>2, JackKeeps DEF IInv
<1>4. CASE InDummy /\ Dummy!Next
  <2>1. /\ current_backend = "dummy" /\ current_backend' = "dummy"
        /\ UNCHANGED <<is_raw, stale, audio_client, peek_buf_index, read_buf_frames_left>>
    BY <1>4 DEF InDummy, shared, alsa, pulse, jack, wasapi
  <2>2. UNCHANGED direction
    BY <1>4 DEF Dummy!Next, Dummy!Thread, Dummy!Client, Dummy!Join, Dummy!CheckAbort,
                Dummy!Capture, Dummy!Deliver, Dummy!instream_begin_read,
                Dummy!instream_end_read, Dummy!CallbackReturns, Dummy!instream_open,
                Dummy!instream_start, Dummy!instream_pause, Dummy!instream_destroy,
                Dummy!loop_vars
  <2>3. AtRest'
    BY <2>1, <2>2, AllIsHeld DEF IInv, AtRest, IsIn
  <2> QED
    BY <1>4, <2>1, <2>3, DummyKeeps DEF IInv
<1>5. CASE InCoreAudio /\ CoreAudio!Next
  <2>1. /\ current_backend = "coreaudio" /\ current_backend' = "coreaudio"
        /\ UNCHANGED <<is_raw, stale, audio_client, peek_buf_index, read_buf_frames_left>>
    BY <1>5 DEF InCoreAudio, shared, alsa, pulse, jack, dummy, wasapi
  <2>2. AtRest'
    BY <2>1, AllIsHeld DEF IInv
  <2> QED
    BY <1>5, <2>1, <2>2, CoreAudioKeeps DEF IInv
<1>6. CASE InWasapi /\ Wasapi!Next
  <2>1. current_backend = "wasapi" /\ AtRest' /\ current_backend' = "wasapi"
    BY <1>6, WasapiHolds DEF IInv
  <2> QED
    BY <1>6, <2>1, WasapiKeeps DEF IInv
<1>7. CASE UNCHANGED vars
  <2> USE <1>7 DEF vars, loop_vars, callback_vars, shared, alsa, pulse, jack, dummy, wasapi
  <2>1. LoopInv' /\ AtRest'
    BY DEF IInv, LoopInv, Typed, CallOrder, Fresh, Begun, IsIn, IsOut, AtRest
  <2>2. AlsaInv => AlsaInv'
    BY DEF AlsaInv, Begun, IsIn, IsOut
  <2>3. PulseInv => PulseInv'
    BY DEF PulseInv, Peeked, Locks, Holds, Begun, IsIn, IsOut
  <2>4. JackInv => JackInv'
    BY DEF JackInv, Begun, IsIn
  <2>5. CoreAudioInv => CoreAudioInv'
    BY DEF CoreAudioInv, Begun, IsIn
  <2>6. DummyInv => DummyInv'
    BY DEF DummyInv, Begun, IsIn
  <2>7. WasapiInv => WasapiInv'
    BY DEF WasapiInv, Begun, IsIn, IsOut, Gone
  <2>8. Kept
    <3>1. UNCHANGED <<IsOut, IsIn, Stream, InCallback, Clears, Allowance, Captured, Gone>>
      BY DEF IsOut, IsIn, Stream, InCallback, Clears, Allowance, Captured, Gone
    <3>2. UNCHANGED Playing!vars
      BY <3>1 DEF Playing!vars
    <3>3. UNCHANGED Recording!vars
      BY <3>1 DEF Recording!vars
    <3> QED
      BY <3>2, <3>3 DEF Kept
  <2> QED
    BY <2>1, <2>2, <2>3, <2>4, <2>5, <2>6, <2>7, <2>8 DEF IInv
<1> QED
  BY <1>1, <1>2, <1>3, <1>4, <1>5, <1>6, <1>7 DEF Next

(***************************************************************************)
(* In every state of a stream, of any backend, a callback runs only        *)
(* between start and destroy, no more frames are granted than it has left, *)
(* the frames that the device holds are counted right whatever the         *)
(* backend counts them by, and the locks that PulseAudio's callbacks rely  *)
(* on are held.                                                            *)
(***************************************************************************)
THEOREM StreamsInvariant == Spec => []IInv
<1>1. Init => IInv
  BY InitPromises
<1>2. IInv /\ [Next]_vars => IInv'
  BY StepKeeps
<1> QED
  BY <1>1, <1>2, PTL DEF Spec

(***************************************************************************)
(* Every backend's output stream implements OutStream: the callback is     *)
(* asked for at least one frame and no more than fit, no frame is          *)
(* committed twice or overwritten but by a clear that was asked for, and   *)
(* no callback runs once destroy has returned; but for CallsEarly.         *)
(***************************************************************************)
THEOREM OutStreamsImplement == Spec => OutStreamsKeepPromises
<1>1. Init => Playing!Init
  BY InitPromises
<1>2. IInv /\ [Next]_vars => [Playing!Next \/ CallsEarly]_(Playing!vars)
  BY StepKeeps DEF Kept
<1> QED
  BY <1>1, <1>2, StreamsInvariant, PTL DEF Spec, OutStreamsKeepPromises

(***************************************************************************)
(* Every backend's input stream implements InStream: no frame is granted   *)
(* that the device has not captured, none is read twice, and none is lost  *)
(* but by an overrun, a suspension or an unplugged device; but for         *)
(* ReadsAgain and the stale frames of ALSA.                                *)
(***************************************************************************)
THEOREM InStreamsImplement == Spec => InStreamsKeepPromises
<1>1. Init => Recording!Init
  BY InitPromises
<1>2. IInv /\ [Next]_vars => [Recording!Next \/ ReadsAgain]_(Recording!vars)
  BY StepKeeps DEF Kept
<1> QED
  BY <1>1, <1>2, StreamsInvariant, PTL DEF Spec, InStreamsKeepPromises
=============================================================================
