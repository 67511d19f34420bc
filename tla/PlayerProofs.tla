---------------------------- MODULE PlayerProofs ----------------------------
(***************************************************************************)
(* Type correctness of the player, for files of arbitrary bytes and for    *)
(* every loop count, device and callback size; and, if the files are well  *)
(* formed, that the player stays on command boundaries, reads only what is *)
(* there and panics over nothing but files that do not load and writes     *)
(* that a chip does not take, plays every song at its full length and      *)
(* implements Playback.  Behind that, what the parser of the files makes   *)
(* of them.                                                                *)
(***************************************************************************)
EXTENDS Player, VgmFile, Induction, TLAPS

\* The audio thread runs only while a song is loaded.
SongLoaded ==
  Running => /\ main \in {"start", "wait"} => vgm # 0
             /\ cb # "idle" => main = "wait"

IInv == TypeOK /\ InsideGrant /\ SongLoaded

(* The values that the little-endian reads return. *)
LEMMA ByteRange ==
  ASSUME NEW b \in Byte PROVE b \in Nat /\ b < 256
BY DEF Byte

LEMMA Read16Range ==
  ASSUME NEW bytes, NEW at \in Nat, Readable(bytes, at, 2),
         \A p \in DOMAIN bytes : bytes[p] \in Byte
  PROVE  Read16(bytes, at) \in Nat /\ Read16(bytes, at) < 65536
<1>1. at \in DOMAIN bytes /\ at + 1 \in DOMAIN bytes
  BY DEF Readable
<1>2. /\ bytes[at] \in Nat /\ bytes[at] < 256
      /\ bytes[at + 1] \in Nat /\ bytes[at + 1] < 256
  BY <1>1, ByteRange
<1> QED  BY <1>2 DEF Read16

LEMMA Read32Range ==
  ASSUME NEW bytes, NEW at \in Nat, Readable(bytes, at, 4),
         \A p \in DOMAIN bytes : bytes[p] \in Byte
  PROVE  Read32(bytes, at) \in Nat
<1>1. Readable(bytes, at, 2) /\ Readable(bytes, at + 2, 2)
  BY DEF Readable
<1>2. Read16(bytes, at) \in Nat /\ Read16(bytes, at + 2) \in Nat
  BY <1>1, Read16Range
<1> QED  BY <1>2 DEF Read32

(* What PlayerAssumption says of the song being played. *)
LEMMA SongIsFile ==
  ASSUME TypeOK, vgm # 0
  PROVE  /\ vgm \in 1..Len(files)
         /\ IsFile(song)
         /\ Len(files) \in Nat
BY PlayerAssumption DEF TypeOK, song

(* The file that nextVGM loads. *)
LEMMA NextIsFile ==
  ASSUME TypeOK, ~NoMoreFiles
  PROVE  /\ files_index + 1 \in 1..Len(files)
         /\ IsFile(NextFile)
         /\ VgmDataBase + NextFile.vgm_data_offset \in Nat
<1>1. Len(files) \in Nat /\ files_index \in 0..Len(files)
  BY PlayerAssumption DEF TypeOK
<1>2. files_index + 1 \in 1..Len(files)
  <2>1. \A n \in Nat : \A m \in 0..n : m # n => m + 1 \in 1..n
    OBVIOUS
  <2> QED  BY <1>1, <2>1, Zenon DEF NoMoreFiles
<1>3. IsFile(NextFile)
  BY <1>2, PlayerAssumption DEF TypeOK, NextFile
<1> QED
  BY <1>2, <1>3 DEF IsFile, VgmDataBase

LEMMA NoWrites == <<>> \in Writings
BY DEF Writings

(* nextVGM keeps the types of what it assigns. *)
LEMMA NextVGMTypes ==
  ASSUME TypeOK, NextVGM
  PROVE  /\ files' = files
         /\ status' \in {status, "exited", "panicked"}
         /\ vgm' \in 0..Len(files)
         /\ ic' \in Writings
         /\ files_index' \in 0..Len(files)
         /\ current_loop' \in 0..LoopCount
         /\ vgm_position' \in Nat
         /\ remaining_wait' \in Nat /\ remaining_wait' < 65536
         /\ played' \in Nat
         /\ status' = "running" => vgm' # 0 \/ vgm' = vgm
<1>1. CASE NoMoreFiles
  BY <1>1, PlayerAssumption DEF NextVGM, Exit, Play, Panic, TypeOK, song_vars
<1>2. CASE ~NoMoreFiles /\ ~Loadable(NextFile)
  BY <1>2 DEF NextVGM, Exit, Play, Panic, TypeOK, song_vars
<1>3. CASE ~NoMoreFiles /\ Loadable(NextFile)
  <2>1. /\ files' = files /\ status' = status
        /\ vgm' = files_index + 1 /\ files_index' = files_index + 1
        /\ ic' = <<>> /\ current_loop' = 0 /\ remaining_wait' = 0 /\ played' = 0
        /\ vgm_position' = VgmDataBase + NextFile.vgm_data_offset
    BY <1>3 DEF NextVGM, Exit, Play, Panic
  <2>2. files_index + 1 \in 1..Len(files)
        /\ VgmDataBase + NextFile.vgm_data_offset \in Nat
    BY <1>3, NextIsFile
  <2> QED  BY <2>1, <2>2, NoWrites, PlayerAssumption
<1> QED  BY <1>1, <1>2, <1>3

-----------------------------------------------------------------------------
(* Type correctness *)

LEMMA InitTypes == Init => IInv
BY PlayerAssumption, NoWrites
   DEF Init, IInv, TypeOK, InsideGrant, SongLoaded, Running

LEMMA MainThreadTypes == IInv /\ MainThread => IInv'
<1> SUFFICES ASSUME IInv, MainThread PROVE IInv'
  OBVIOUS
<1>1. CASE OpenStream
  BY <1>1 DEF OpenStream, GiveUp, IInv, TypeOK, InsideGrant, SongLoaded, Running,
              song_vars, cb_vars
<1>2. CASE LoadFirst
  <2> USE <1>2 DEF LoadFirst, cb_vars
  <2>1. /\ files' = files
        /\ status' \in {status, "exited", "panicked"}
        /\ vgm' \in 0..Len(files)
        /\ ic' \in Writings
        /\ files_index' \in 0..Len(files)
        /\ current_loop' \in 0..LoopCount
        /\ vgm_position' \in Nat
        /\ remaining_wait' \in Nat /\ remaining_wait' < 65536
        /\ played' \in Nat
    BY NextVGMTypes DEF IInv
  <2>2. TypeOK'
    BY <2>1 DEF IInv, TypeOK
  <2>3. InsideGrant'
    BY DEF IInv, InsideGrant
  <2>4. Running' => vgm' # 0
    BY NextIsFile DEF NextVGM, Exit, Play, Panic, Running, IInv, song_vars
  <2>5. cb = "idle"
    BY DEF IInv, SongLoaded, TypeOK
  <2> QED  BY <2>2, <2>3, <2>4, <2>5 DEF IInv, SongLoaded
<1>3. CASE StartStream
  BY <1>3 DEF StartStream, GiveUp, IInv, TypeOK, InsideGrant, SongLoaded, Running,
              song_vars, cb_vars
<1> QED  BY <1>1, <1>2, <1>3 DEF MainThread

(* A command is executed only while a song is loaded; its operands exist. *)
LEMMA FetchFacts ==
  ASSUME IInv, NEW ops, Fetch(ops)
  PROVE  /\ IsFile(song) /\ vgm # 0
         /\ vgm_position \in Nat
         /\ Arg(0) \in ops /\ Arg(0) = song.data[vgm_position]
         /\ vgm_position \in DOMAIN song.data
         /\ Readable(song.data, vgm_position, BytesRead(Arg(0)))
         /\ \A p \in DOMAIN song.data : song.data[p] \in Byte
<1>1. vgm # 0
  BY DEF IInv, SongLoaded, Fetch, Fetching
<1>2. IsFile(song)
  BY <1>1, SongIsFile DEF IInv
<1> QED
  BY <1>1, <1>2 DEF IInv, TypeOK, Fetch, InBounds, Arg, IsFile

(* What every command but the end of the data leaves behind. *)
LEMMA AdvanceTypes ==
  ASSUME IInv, Fetching, NEW length \in Nat, NEW wait \in Nat, wait < 65536,
         Advance(length, wait), ic' \in Writings
  PROVE  IInv'
BY DEF Fetching, Advance, IInv, TypeOK, InsideGrant, SongLoaded, Running, cb_vars

(* Stamping writes with the current time. *)
LEMMA StampedTypes ==
  ASSUME TypeOK, NEW writes \in Seq(Writes)
  PROVE  ic \o Stamped(writes) \in Writings
<1> DEFINE W == [write : Writes, time : Nat]
<1>1. DOMAIN writes = 1..Len(writes) /\ Len(writes) \in Nat
      /\ \A w \in DOMAIN writes : writes[w] \in Writes
  OBVIOUS
<1>2. \A w \in DOMAIN writes : [write |-> writes[w], time |-> played] \in W
  BY <1>1 DEF TypeOK
<1>3. Stamped(writes) \in Seq(W)
  <2> HIDE DEF W
  <2> QED  BY <1>1, <1>2 DEF Stamped
<1>4. ic \in Seq(W)
  BY DEF TypeOK, Writings
<1>5. ic \o Stamped(writes) \in Seq(W)
  <2> HIDE DEF W
  <2> QED  BY <1>3, <1>4
<1> QED  BY <1>5 DEF Writings

LEMMA BytesReadOf ==
  /\ BytesRead(PSG_WRITE) = 3
  /\ BytesRead(OPM_WRITE) = 3
  /\ BytesRead(PCM_WRITE) = 3
  /\ BytesRead(WAIT_N) = 3
  /\ BytesRead(SCC_WRITE) = 4
  /\ BytesRead(PCM_LOAD) = 6
BY DEF BytesRead, PSG_WRITE, OPM_WRITE, PCM_WRITE, WAIT_N, SCC_WRITE, PCM_LOAD

LEMMA ArgIsByte ==
  ASSUME IInv, NEW op, Fetch({op}), BytesRead(op) \in Nat,
         NEW n \in Nat, n < BytesRead(op)
  PROVE  Arg(n) \in Byte
<1>1. vgm_position + n \in DOMAIN song.data
  BY FetchFacts DEF Readable
<1> QED  BY <1>1, FetchFacts DEF Arg

(* The writes that the commands make, of operands that are bytes. *)
LEMMA WriteOfTwo ==
  ASSUME NEW chip \in Chips, NEW a \in Byte, NEW b \in Byte
  PROVE  Write(chip, <<a, b>>) \in Writes
<1>1. <<a, b>> \in Seq(Byte)
  OBVIOUS
<1> QED  BY <1>1 DEF Write, Writes

LEMMA WriteOfThree ==
  ASSUME NEW chip \in Chips, NEW a \in Byte, NEW b \in Byte, NEW c \in Byte
  PROVE  Write(chip, <<a, b, c>>) \in Writes
<1>1. <<a, b, c>> \in Seq(Byte)
  OBVIOUS
<1> QED  BY <1>1 DEF Write, Writes

LEMMA OneWrite ==
  ASSUME TypeOK, NEW w \in Writes
  PROVE  ic \o Stamped(<<w>>) \in Writings
<1>1. <<w>> \in Seq(Writes)
  OBVIOUS
<1> QED  BY <1>1, StampedTypes

LEMMA TwoWrites ==
  ASSUME TypeOK, NEW v \in Writes, NEW w \in Writes
  PROVE  ic \o Stamped(<<v, w>>) \in Writings
<1>1. <<v, w>> \in Seq(Writes)
  OBVIOUS
<1> QED  BY <1>1, StampedTypes

LEMMA ChipNames ==
  "psg" \in Chips /\ "scc" \in Chips /\ "opm" \in Chips /\ "pcm" \in Chips
BY DEF Chips

LEMMA ZeroOneBytes == 0 \in Byte /\ 1 \in Byte
BY DEF Byte

LEMMA WriteTypes ==
  ASSUME IInv, WritePsg \/ WriteScc \/ WriteOpm \/ WritePcm
  PROVE  IInv'
<1>1. CASE WritePsg
  <2>1. Arg(1) \in Byte /\ Arg(2) \in Byte
    BY <1>1, ArgIsByte, BytesReadOf DEF WritePsg
  <2>2. ic \o Stamped(<<Write("psg", <<Arg(1), Arg(2)>>)>>) \in Writings
    BY <2>1, WriteOfTwo, OneWrite, ChipNames DEF IInv
  <2> QED  BY <1>1, <2>2, AdvanceTypes DEF WritePsg, Fetch
<1>2. CASE WriteScc
  <2>1. Arg(1) \in Byte /\ Arg(2) \in Byte /\ Arg(3) \in Byte
    BY <1>2, ArgIsByte, BytesReadOf DEF WriteScc
  <2>2. ic \o Stamped(<<Write("scc", <<Arg(1), Arg(2), Arg(3)>>)>>) \in Writings
    BY <2>1, WriteOfThree, OneWrite, ChipNames DEF IInv
  <2> QED  BY <1>2, <2>2, AdvanceTypes DEF WriteScc, Fetch
<1>3. CASE WriteOpm
  <2>1. Arg(1) \in Byte /\ Arg(2) \in Byte
    BY <1>3, ArgIsByte, BytesReadOf DEF WriteOpm
  <2>2. /\ Write("opm", <<0, Arg(1)>>) \in Writes
        /\ Write("opm", <<1, Arg(2)>>) \in Writes
    BY <2>1, WriteOfTwo, ChipNames, ZeroOneBytes
  <2>3. ic \o Stamped(<<Write("opm", <<0, Arg(1)>>), Write("opm", <<1, Arg(2)>>)>>)
          \in Writings
    BY <2>2, TwoWrites DEF IInv
  <2>4. Fetching /\ Advance(3, 0) /\ ic' \in Writings
    BY <1>3, <2>3 DEF WriteOpm, Fetch
  <2> QED  BY <2>4, AdvanceTypes
<1>4. CASE WritePcm
  <2>1. Arg(1) \in Byte /\ Arg(2) \in Byte
    BY <1>4, ArgIsByte, BytesReadOf DEF WritePcm
  <2>2. ic \o Stamped(<<Write("pcm", <<Arg(1), Arg(2)>>)>>) \in Writings
    BY <2>1, WriteOfTwo, OneWrite, ChipNames DEF IInv
  <2> QED  BY <1>4, <2>2, AdvanceTypes DEF WritePcm, Fetch
<1> QED  BY <1>1, <1>2, <1>3, <1>4

LEMMA NextStepTypes == IInv /\ NextStep => IInv'
<1> SUFFICES ASSUME IInv, NextStep PROVE IInv'
  OBVIOUS
<1>1. CASE WritePsg \/ WriteScc \/ WriteOpm \/ WritePcm
  BY <1>1, WriteTypes
<1>3. CASE LoadPcmData
  <2>1. Readable(song.data, vgm_position, 6)
    BY <1>3, FetchFacts, BytesReadOf DEF LoadPcmData
  <2>2. Readable(song.data, vgm_position + 2, 4) /\ vgm_position + 2 \in Nat
    BY <2>1, <1>3, FetchFacts DEF LoadPcmData, Readable
  <2>3. Read32(song.data, vgm_position + 2) \in Nat
    BY <2>2, <1>3, FetchFacts, Read32Range DEF LoadPcmData
  <2> QED
    BY <2>3, <1>3, AdvanceTypes DEF LoadPcmData, Fetch, IInv, TypeOK
<1>4. CASE WaitSamples
  <2>1. Readable(song.data, vgm_position, 3)
    BY <1>4, FetchFacts, BytesReadOf DEF WaitSamples
  <2>2. Readable(song.data, vgm_position + 1, 2) /\ vgm_position + 1 \in Nat
    BY <2>1, <1>4, FetchFacts DEF WaitSamples, Readable
  <2>3. LET w == Read16(song.data, vgm_position + 1)
        IN  w \in Nat /\ w < 65536
    BY <2>2, <1>4, FetchFacts, Read16Range DEF WaitSamples
  <2> QED
    BY <2>3, <1>4, AdvanceTypes DEF WaitSamples, Fetch, IInv, TypeOK
<1>5. CASE Wait60th \/ Wait50th \/ SkipByte
  BY <1>5, AdvanceTypes DEF Wait60th, Wait50th, SkipByte, Fetch, IInv, TypeOK
<1>6. CASE WaitShort
  <2>1. Arg(0) \in Nat
    BY <1>6, FetchFacts, ByteRange DEF WaitShort
  <2>2. (Arg(0) % 16) + 1 \in Nat /\ (Arg(0) % 16) + 1 < 65536
    BY <2>1
  <2> QED
    BY <2>2, <1>6, AdvanceTypes DEF WaitShort, Fetch, IInv, TypeOK
<1>7. CASE LoopBack
  <2>1. song.loop_offset + LoopBase \in Nat
    BY <1>7, FetchFacts DEF LoopBack, IsFile, LoopBase
  <2>2. current_loop + 1 \in 0..LoopCount
    BY <1>7, PlayerAssumption DEF LoopBack, Loops, IInv, TypeOK
  <2> QED
    BY <1>7, <2>1, <2>2 DEF LoopBack, Fetch, Fetching, IInv, TypeOK,
         InsideGrant, SongLoaded, Running, cb_vars
<1>8. CASE EndSong
  <2> USE <1>8 DEF EndSong, Fetch, Fetching, cb_vars
  <2>1. TypeOK'
    BY NextVGMTypes DEF IInv, TypeOK
  <2>2. InsideGrant'
    BY DEF IInv, InsideGrant
  <2>3. Running' => vgm' # 0
    BY NextVGMTypes DEF IInv, SongLoaded, Running
  <2> QED  BY <2>1, <2>2, <2>3 DEF IInv, SongLoaded, Running
<1>9. CASE ReadPastEnd \/ WritePanics
  <2>1. Fetching /\ Panic
    BY <1>9 DEF ReadPastEnd, WritePanics, Fetch
  <2> QED
    BY <2>1 DEF Panic, Fetching, IInv, TypeOK, InsideGrant, SongLoaded, Running,
                song_vars, cb_vars
<1> QED
  BY <1>1, <1>3, <1>4, <1>5, <1>6, <1>7, <1>8, <1>9 DEF NextStep

LEMMA AudioThreadTypes == IInv /\ AudioThread => IInv'
<1> SUFFICES ASSUME IInv, AudioThread PROVE IInv'
  OBVIOUS
<1> USE DEF IInv, TypeOK, InsideGrant, SongLoaded, Running, song_vars
<1>1. CASE EnterCallback
  BY <1>1, PlayerAssumption DEF EnterCallback
<1>2. CASE BeginWrite
  BY <1>2, PlayerAssumption DEF BeginWrite
<1>3. CASE EndWrite
  BY <1>3, PlayerAssumption DEF EndWrite
<1>4. CASE WriteFails
  BY <1>4 DEF WriteFails, Panic, cb_vars
<1>5. CASE RenderFrame
  <2>1. frame \in Nat /\ frame_count \in Nat /\ frame < frame_count
        /\ frame' = frame + 1 /\ frame_count' = frame_count
        /\ frame_count <= MaxFrames /\ MaxFrames \in Nat
    BY <1>5, PlayerAssumption DEF RenderFrame
  <2>2. frame' \in 0..MaxFrames /\ frame' <= frame_count'
    BY <2>1
  <2>3. remaining_wait' \in Nat /\ remaining_wait' < 65536 /\ played' \in Nat
    BY <1>5 DEF RenderFrame
  <2> QED
    BY <1>5, <2>2, <2>3 DEF RenderFrame
<1>6. CASE NextStep
  BY <1>6, NextStepTypes
<1> QED
  BY <1>1, <1>2, <1>3, <1>4, <1>5, <1>6 DEF AudioThread

LEMMA Invariance == Spec => []IInv
<1>1. IInv /\ [Next]_vars => IInv'
  <2> SUFFICES ASSUME IInv, [Next]_vars PROVE IInv'
    OBVIOUS
  <2>1. CASE Stopped \/ UNCHANGED vars
    BY <2>1 DEF Stopped, vars, song_vars, cb_vars, IInv, TypeOK, InsideGrant,
                SongLoaded, Running
  <2> QED
    BY <2>1, MainThreadTypes, AudioThreadTypes DEF Next
<1> QED
  BY <1>1, InitTypes, PTL DEF Spec

(* Every variable keeps its type, whatever the bytes of the files. *)
THEOREM TypeCorrect == Spec => []TypeOK
BY Invariance, PTL DEF IInv

(* No frame is stored outside the area granted by begin_write. *)
THEOREM GrantRespected == Spec => []InsideGrant
BY Invariance, PTL DEF IInv

-----------------------------------------------------------------------------
(* Lists of well-formed files *)

(* What AllWellFormed says of the song being played. *)
LEMMA SongWellFormed ==
  ASSUME AllWellFormed, TypeOK, vgm # 0
  PROVE  WellFormed(song)
BY SongIsFile DEF TypeOK, song, AllWellFormed

(* The lengths of the format and those of the code agree on what the       *)
(* player knows.                                                           *)
LEMMA OperandsOf ==
  /\ Operands(PSG_WRITE) = 2
  /\ Operands(OPM_WRITE) = 2
  /\ Operands(PCM_WRITE) = 2
  /\ Operands(SCC_WRITE) = 3
  /\ Operands(WAIT_N) = 2
  /\ Operands(WAIT_60TH) = 0
  /\ Operands(WAIT_50TH) = 0
  /\ Operands(END_DATA) = 0
  /\ Operands(128) = 0
  /\ \A op \in SHORT_WAITS : Operands(op) = 0
BY DEF Operands, PSG_WRITE, OPM_WRITE, PCM_WRITE, SCC_WRITE, WAIT_N,
       WAIT_60TH, WAIT_50TH, END_DATA, SHORT_WAITS

LEMMA BlocksNotPlayable == PCM_LOAD \notin Playable
BY DEF Playable, PCM_LOAD, PSG_WRITE, SCC_WRITE, OPM_WRITE, PCM_WRITE, WAIT_N,
       WAIT_60TH, WAIT_50TH, END_DATA, SHORT_WAITS

LEMMA BytesReadIsOperands ==
  \A op \in Playable : BytesRead(op) = 1 + Operands(op)
<1>1. BytesRead(128) = 1 /\ BytesRead(WAIT_60TH) = 1 /\ BytesRead(WAIT_50TH) = 1
      /\ BytesRead(END_DATA) = 1
  BY DEF BytesRead, PSG_WRITE, OPM_WRITE, PCM_WRITE, SCC_WRITE, WAIT_N,
         PCM_LOAD, WAIT_60TH, WAIT_50TH, END_DATA
<1>2. \A op \in SHORT_WAITS : BytesRead(op) = 1
  BY DEF BytesRead, PSG_WRITE, OPM_WRITE, PCM_WRITE, SCC_WRITE, WAIT_N,
         PCM_LOAD, SHORT_WAITS
<1> QED
  BY <1>1, <1>2, OperandsOf, BytesReadOf DEF Playable

-----------------------------------------------------------------------------
(* Staying on command boundaries *)

(* The command at the position of the player, and the one behind it. *)
LEMMA CommandThere ==
  ASSUME AllWellFormed, IInv, OnCommand, AtFetch
  PROVE  /\ vgm # 0
         /\ InBounds
         /\ Arg(0) \in Playable
         /\ Arg(0) = song.data[vgm_position]
         /\ Arg(0) # END_DATA =>
              vgm_position + CommandLength(song, vgm_position) \in song.marks
<1>1. vgm # 0 /\ vgm_position \in Nat
  BY DEF IInv, SongLoaded, AtFetch, TypeOK
<1>2. vgm_position \in song.marks
  BY <1>1 DEF OnCommand
<1>3. IsFile(song) /\ WellFormed(song)
  BY <1>1, SongIsFile, SongWellFormed DEF IInv
<1>4. Arg(0) = song.data[vgm_position]
  BY <1>1 DEF Arg
<1>5. /\ Arg(0) \in Playable
      /\ \A n \in 1..Operands(Arg(0)) : vgm_position + n \in DOMAIN song.data
      /\ Arg(0) # END_DATA =>
           vgm_position + CommandLength(song, vgm_position) \in song.marks
  BY <1>2, <1>3, <1>4 DEF WellFormed
<1>6. vgm_position \in DOMAIN song.data
  BY <1>2, <1>3 DEF IsFile
<1>7. BytesRead(Arg(0)) = 1 + Operands(Arg(0))
  BY <1>5, BytesReadIsOperands
<1>8. Operands(Arg(0)) \in Nat
  BY <1>5, OperandsOf DEF Playable
<1>9. Readable(song.data, vgm_position, BytesRead(Arg(0)))
  <2> SUFFICES ASSUME NEW p \in vgm_position..(vgm_position + Operands(Arg(0)))
               PROVE  p \in DOMAIN song.data
    BY <1>1, <1>7, <1>8 DEF Readable
  <2>1. CASE p = vgm_position
    BY <2>1, <1>6
  <2>2. CASE p # vgm_position
    <3>1. p - vgm_position \in 1..Operands(Arg(0))
          /\ vgm_position + (p - vgm_position) = p
      BY <2>2, <1>1, <1>8
    <3> QED  BY <3>1, <1>5
  <2> QED  BY <2>1, <2>2
<1> QED
  BY <1>1, <1>4, <1>5, <1>6, <1>9 DEF InBounds

(* A step that executes a command begins where one can be executed. *)
LEMMA AtCommand ==
  ASSUME AllWellFormed, IInv, OnCommand, Fetching
  PROVE  /\ vgm # 0
         /\ InBounds
         /\ Arg(0) \in Playable
         /\ Arg(0) = song.data[vgm_position]
         /\ Arg(0) # END_DATA =>
              vgm_position + CommandLength(song, vgm_position) \in song.marks
<1>1. AtFetch
  BY DEF Fetching, AtFetch
<1> QED  BY <1>1, CommandThere

(* The player's lengths of the commands, against the format's. *)
LEMMA LengthOf ==
  ASSUME NEW f, NEW p, f.data[p] # PCM_LOAD
  PROVE  CommandLength(f, p) = 1 + Operands(f.data[p])
BY DEF CommandLength

LEMMA AdvanceOnCommand ==
  ASSUME AllWellFormed, IInv, OnCommand, Fetching, Arg(0) # END_DATA,
         NEW wait, Advance(1 + Operands(Arg(0)), wait)
  PROVE  OnCommand'
<1>1. song' = song
  BY DEF Advance, song
<1>2. Arg(0) # PCM_LOAD
  BY AtCommand, BlocksNotPlayable
<1>3. vgm_position + (1 + Operands(Arg(0))) \in song.marks
  BY <1>2, AtCommand, LengthOf
<1> QED  BY <1>1, <1>3 DEF Advance, OnCommand

(* A song starts on a command. *)
LEMMA NextVGMOnCommand ==
  ASSUME AllWellFormed, IInv, OnCommand, NextVGM
  PROVE  OnCommand'
<1>1. CASE NoMoreFiles
  BY <1>1 DEF NextVGM, Exit, Play, Panic, OnCommand
<1>2. CASE ~NoMoreFiles /\ ~Loadable(NextFile)
  BY <1>2 DEF NextVGM, Exit, Play, Panic, OnCommand, song_vars, song
<1>3. CASE ~NoMoreFiles /\ Loadable(NextFile)
  <2>1. files_index + 1 \in 1..Len(files) /\ files \in FileLists
    BY <1>3, NextIsFile DEF IInv, TypeOK
  <2>2. WellFormed(NextFile)
    BY <2>1 DEF NextFile, AllWellFormed
  <2>3. vgm_position' = FirstCommand(NextFile) /\ song' = NextFile
    BY <1>3 DEF NextVGM, Exit, Play, Panic, FirstCommand, VgmDataBase, song, NextFile
  <2> QED  BY <2>2, <2>3 DEF OnCommand, WellFormed
<1> QED  BY <1>1, <1>2, <1>3

LEMMA NextStepFetches == NextStep => Fetching
BY DEF NextStep, WritePsg, WriteScc, WriteOpm, WritePcm, WritePanics, LoadPcmData,
       WaitSamples, Wait60th, Wait50th, WaitShort, LoopBack, EndSong, SkipByte,
       ReadPastEnd, Fetch

LEMMA NextStepOnCommand ==
  ASSUME AllWellFormed, IInv, OnCommand, NextStep
  PROVE  OnCommand'
<1>0. Fetching
  BY NextStepFetches
<1>1. CASE WritePsg \/ WriteScc \/ WriteOpm \/ WritePcm
  <2>1. Advance(1 + Operands(Arg(0)), 0)
    BY <1>1, OperandsOf DEF WritePsg, WriteScc, WriteOpm, WritePcm, Fetch
  <2>2. Arg(0) # END_DATA
    BY <1>1 DEF WritePsg, WriteScc, WriteOpm, WritePcm, Fetch, PSG_WRITE,
         SCC_WRITE, OPM_WRITE, PCM_WRITE, END_DATA
  <2> QED  BY <1>0, <2>1, <2>2, AdvanceOnCommand
<1>2. CASE LoadPcmData
  BY <1>0, <1>2, AtCommand, BlocksNotPlayable DEF LoadPcmData, Fetch
<1>3. CASE WaitSamples
  <2>1. Arg(0) = WAIT_N /\ Arg(0) # END_DATA
    BY <1>3 DEF WaitSamples, Fetch, WAIT_N, END_DATA
  <2>2. Advance(1 + Operands(Arg(0)), Read16(song.data, vgm_position + 1))
    BY <1>3, <2>1, OperandsOf DEF WaitSamples
  <2> QED  BY <1>0, <2>1, <2>2, AdvanceOnCommand
<1>4. CASE Wait60th
  <2>1. Arg(0) = WAIT_60TH /\ Arg(0) # END_DATA
    BY <1>4 DEF Wait60th, Fetch, WAIT_60TH, END_DATA
  <2> QED  BY <1>0, <1>4, <2>1, OperandsOf, AdvanceOnCommand DEF Wait60th
<1>5. CASE Wait50th
  <2>1. Arg(0) = WAIT_50TH /\ Arg(0) # END_DATA
    BY <1>5 DEF Wait50th, Fetch, WAIT_50TH, END_DATA
  <2> QED  BY <1>0, <1>5, <2>1, OperandsOf, AdvanceOnCommand DEF Wait50th
<1>6. CASE WaitShort
  <2>1. Arg(0) \in SHORT_WAITS /\ Arg(0) # END_DATA
    BY <1>6 DEF WaitShort, Fetch, SHORT_WAITS, END_DATA
  <2>2. Advance(1 + Operands(Arg(0)), (Arg(0) % 16) + 1)
    BY <1>6, <2>1, OperandsOf DEF WaitShort
  <2> QED  BY <1>0, <2>1, <2>2, AdvanceOnCommand
<1>7. CASE LoopBack
  <2>1. WellFormed(song) /\ song.loop_offset > 0 /\ vgm # 0
    BY <1>0, <1>7, AtCommand, SongWellFormed DEF LoopBack, Loops, IInv
  <2>2. IsFile(song) /\ song' = song /\ vgm' = vgm
    BY <1>7, <2>1, SongIsFile DEF LoopBack, song, IInv
  <2>3. vgm_position' = LoopCommand(song)
    BY <1>7, <2>1, <2>2 DEF LoopBack, LoopCommand, LoopBase, IsFile
  <2> QED  BY <2>1, <2>2, <2>3 DEF WellFormed, OnCommand
<1>8. CASE EndSong
  BY <1>8, NextVGMOnCommand DEF EndSong
<1>9. CASE SkipByte
  <2>1. Arg(0) = 128 /\ Arg(0) # END_DATA
    BY <1>0, <1>9, AtCommand DEF SkipByte, Fetch, Known, Playable, END_DATA
  <2> QED  BY <1>0, <1>9, <2>1, OperandsOf, AdvanceOnCommand DEF SkipByte
<1>10. CASE ReadPastEnd
  BY <1>0, <1>10, AtCommand DEF ReadPastEnd, Panic
<1>11. CASE WritePanics
  BY <1>11 DEF WritePanics, Panic, song_vars, OnCommand, song
<1> QED
  BY <1>1, <1>2, <1>3, <1>4, <1>5, <1>6, <1>7, <1>8, <1>9, <1>10, <1>11
     DEF NextStep

(* nextStep executes commands and nothing but commands. *)
THEOREM StaysOnCommands ==
  ASSUME AllWellFormed
  PROVE  Spec => []OnCommand
<1>1. Init => OnCommand
  BY DEF Init, OnCommand
<1>2. IInv /\ OnCommand /\ [Next]_vars => OnCommand'
  <2> SUFFICES ASSUME IInv, OnCommand, [Next]_vars PROVE OnCommand'
    OBVIOUS
  <2>1. CASE LoadFirst
    BY <2>1, NextVGMOnCommand DEF LoadFirst
  <2>2. CASE NextStep
    BY <2>2, NextStepOnCommand
  <2>3. CASE UNCHANGED <<files, vgm, vgm_position>>
    BY <2>3 DEF OnCommand, song
  <2>4. OpenStream \/ StartStream \/ EnterCallback \/ BeginWrite \/ EndWrite
        \/ WriteFails \/ RenderFrame \/ Stopped \/ UNCHANGED vars
        => UNCHANGED <<files, vgm, vgm_position>>
    BY DEF OpenStream, StartStream, GiveUp, EnterCallback, BeginWrite, EndWrite,
           WriteFails, Panic, RenderFrame, Stopped, vars, song_vars
  <2> QED
    BY <2>1, <2>2, <2>3, <2>4 DEF Next, MainThread, AudioThread
<1> QED
  BY <1>1, <1>2, Invariance, PTL DEF Spec

(* A panic over an operand is one over an operand of the song's. *)
LEMMA PanicIsOfSong ==
  ASSUME AllWellFormed, IInv, OnCommand, WritePanics
  PROVE  ~WritesAreTaken(song)
<1>1. Fetching
  BY DEF WritePanics, Fetch
<1>2. vgm_position \in song.marks
  BY <1>1, AtCommand DEF OnCommand
<1>3. /\ Arg(0) = song.data[vgm_position]
      /\ Arg(1) = song.data[vgm_position + 1]
      /\ Arg(2) = song.data[vgm_position + 2]
      /\ Arg(3) = song.data[vgm_position + 3]
  BY <1>1, AtCommand DEF Arg
<1>4. CASE Arg(0) = PSG_WRITE /\ ~PsgTakes(Arg(1))
  BY <1>2, <1>3, <1>4 DEF WritesAreTaken
<1>5. CASE Arg(0) = SCC_WRITE /\ ~SccTakes(Arg(1), Arg(2), Arg(3))
  BY <1>2, <1>3, <1>5 DEF WritesAreTaken
<1> QED  BY <1>4, <1>5 DEF WritePanics, Fetch

(* The commands that are executed leave the process running. *)
LEMMA CommandRuns ==
  ASSUME NextStep, status' = "panicked"
  PROVE  EndSong \/ WritePanics \/ ReadPastEnd
<1>1. status = "running"
  BY NextStepFetches DEF Fetching, Running
<1>2. WritePsg \/ WriteScc \/ WriteOpm \/ WritePcm \/ LoadPcmData \/ WaitSamples
      \/ Wait60th \/ Wait50th \/ WaitShort \/ LoopBack \/ SkipByte
      => status' = status
  BY DEF WritePsg, WriteScc, WriteOpm, WritePcm, LoadPcmData, WaitSamples,
         Wait60th, Wait50th, WaitShort, LoopBack, SkipByte, Advance
<1> QED  BY <1>1, <1>2 DEF NextStep

(***************************************************************************)
(* For every play list of well-formed files, and however it is looped, all *)
(* bytes that nextStep (player.zig:96) looks at are there; and where it    *)
(* ends the process, the next file did not load or a write of the song is  *)
(* one that psg.zig:110 or scc.zig:60-117 does not take.                   *)
(***************************************************************************)
THEOREM StaysInside ==
  ASSUME AllWellFormed
  PROVE  Spec => []ReadsInside /\ PanicsAreKnown
<1>1. IInv /\ OnCommand => ReadsInside
  BY CommandThere DEF ReadsInside
<1>2. ASSUME IInv, OnCommand, NextStep, status' = "panicked"
      PROVE  EndSong \/ ~WritesAreTaken(song)
  <2>1. ~ReadPastEnd
    BY <1>2, NextStepFetches, AtCommand DEF ReadPastEnd
  <2> QED  BY <1>2, <2>1, CommandRuns, PanicIsOfSong
<1>3. IInv /\ OnCommand
        => [NextStep /\ status' = "panicked" =>
              EndSong \/ ~WritesAreTaken(song)]_vars
  BY <1>2
<1> QED
  BY <1>1, <1>3, Invariance, StaysOnCommands, PTL DEF Spec, PanicsAreKnown

-----------------------------------------------------------------------------
(* The player implements Playback *)

\* The song in the player is the one last taken from the list.
Counted == /\ status # "exited" => vgm = files_index
           /\ main \in {"open", "load"} => status # "exited" /\ files_index = 0

LEMMA CountedInvariant == Spec => []Counted
<1>1. Init => Counted
  BY DEF Init, Counted
<1>2. IInv /\ Counted /\ [Next]_vars => Counted'
  <2> SUFFICES ASSUME IInv, Counted, [Next]_vars PROVE Counted'
    OBVIOUS
  <2>0. ASSUME NextVGM, Running
        PROVE  status' # "exited" => vgm' = files_index'
    BY <2>0 DEF NextVGM, Exit, Play, Panic, Counted, song_vars, Running
  <2>1. CASE OpenStream
    BY <2>1 DEF OpenStream, GiveUp, Counted, song_vars, Running
  <2>2. CASE LoadFirst
    BY <2>2, <2>0 DEF LoadFirst, Counted
  <2>3. CASE EndSong
    BY <2>3, <2>0 DEF EndSong, Fetch, Fetching, Counted, IInv, SongLoaded
  <2>4. StartStream \/ EnterCallback \/ BeginWrite \/ EndWrite
        \/ WriteFails \/ RenderFrame \/ Stopped \/ UNCHANGED vars => Counted'
    BY DEF StartStream, GiveUp, EnterCallback, BeginWrite, EndWrite, WriteFails,
           Panic, RenderFrame, Stopped, vars, song_vars, Running, Counted
  <2>5. WritePsg \/ WriteScc \/ WriteOpm \/ WritePcm \/ LoadPcmData
        \/ WaitSamples \/ Wait60th \/ Wait50th \/ WaitShort \/ LoopBack
        \/ SkipByte \/ ReadPastEnd \/ WritePanics => Counted'
    BY DEF WritePanics, WritePsg, WriteScc, WriteOpm, WritePcm, LoadPcmData, WaitSamples,
           Wait60th, Wait50th, WaitShort, LoopBack, SkipByte, ReadPastEnd, Panic,
           Fetch, Fetching, Advance, song_vars, Running, Counted
  <2> QED
    BY <2>1, <2>2, <2>3, <2>4, <2>5 DEF Next, MainThread, AudioThread, NextStep
<1> QED
  BY <1>1, <1>2, Invariance, PTL DEF Spec

(* The play list of the abstract player, song by song. *)
LEMMA ListOfSongs ==
  ASSUME TypeOK
  PROVE  /\ Len(PlayList(files)) = Len(files)
         /\ Len(files) \in Nat
         /\ \A n \in 1..Len(files) : PlayList(files)[n] = SongOf(files[n])
<1>1. Len(files) \in Nat /\ DOMAIN files = 1..Len(files)
  BY PlayerAssumption DEF TypeOK
<1> QED  BY <1>1 DEF PlayList

(* Adding no writes changes nothing. *)
LEMMA NothingStamped ==
  ASSUME TypeOK
  PROVE  ic \o Stamped(<<>>) = ic
<1> DEFINE W == [write : Writes, time : Nat]
<1>1. ic \in Seq(W)
  BY DEF TypeOK, Writings
<1>2. Stamped(<<>>) = <<>>
  BY DEF Stamped
<1> HIDE DEF W
<1> QED  BY <1>1, <1>2

(* What the format says the player's commands mean. *)
LEMMA WaitsOf ==
  ASSUME NEW f, NEW p
  PROVE  /\ f.data[p] \in {PSG_WRITE, SCC_WRITE, OPM_WRITE, PCM_WRITE, 128} =>
              SamplesOf(f, p) = 0
         /\ f.data[p] = WAIT_N => SamplesOf(f, p) = Read16(f.data, p + 1)
         /\ f.data[p] = WAIT_60TH => SamplesOf(f, p) = 735
         /\ f.data[p] = WAIT_50TH => SamplesOf(f, p) = 882
         /\ f.data[p] \in SHORT_WAITS =>
              SamplesOf(f, p) = (f.data[p] % 16) + 1
BY DEF SamplesOf, PSG_WRITE, SCC_WRITE, OPM_WRITE, PCM_WRITE, WAIT_N,
       WAIT_60TH, WAIT_50TH, SHORT_WAITS

LEMMA SilentCommands ==
  ASSUME NEW f, NEW p,
         f.data[p] \in {WAIT_N, WAIT_60TH, WAIT_50TH, 128} \cup SHORT_WAITS
  PROVE  WritesOf(f, p) = <<>>
BY DEF WritesOf, PSG_WRITE, SCC_WRITE, OPM_WRITE, PCM_WRITE, WAIT_N,
       WAIT_60TH, WAIT_50TH, SHORT_WAITS

LEMMA WritingCommands ==
  ASSUME NEW f, NEW p
  PROVE  /\ f.data[p] = PSG_WRITE =>
              WritesOf(f, p) = <<Write("psg", <<f.data[p + 1], f.data[p + 2]>>)>>
         /\ f.data[p] = SCC_WRITE =>
              WritesOf(f, p) = <<Write("scc", <<f.data[p + 1], f.data[p + 2],
                                                f.data[p + 3]>>)>>
         /\ f.data[p] = OPM_WRITE =>
              WritesOf(f, p) = <<Write("opm", <<0, f.data[p + 1]>>),
                                 Write("opm", <<1, f.data[p + 2]>>)>>
         /\ f.data[p] = PCM_WRITE =>
              WritesOf(f, p) = <<Write("pcm", <<f.data[p + 1], f.data[p + 2]>>)>>
BY DEF WritesOf, PSG_WRITE, SCC_WRITE, OPM_WRITE, PCM_WRITE

(* The abstract player's view of the command at the player's position. *)
LEMMA AbstractCommand ==
  ASSUME AllWellFormed, IInv, OnCommand, Fetching
  PROVE  /\ PB!Command = CommandAt(song, vgm_position)
         /\ PB!Ready
<1>1. vgm \in 1..Len(files) /\ vgm_position \in song.marks
  BY AtCommand, SongIsFile DEF IInv, OnCommand
<1>2. status # "exited"
  BY DEF Fetching, Running
<1>3. PlayList(files)[vgm] = SongOf(song) /\ Len(PlayList(files)) = Len(files)
  BY <1>1, ListOfSongs DEF IInv, song
<1>4. SongOf(song).cmd[vgm_position] = CommandAt(song, vgm_position)
  BY <1>1 DEF SongOf
<1> QED
  BY <1>1, <1>2, <1>3, <1>4 DEF PB!Command, PB!Ready, Fetching

(* A command of the code that means what the format says is an Execute. *)
LEMMA ExecuteStep ==
  ASSUME AllWellFormed, IInv, OnCommand, Fetching, Arg(0) # END_DATA,
         Advance(1 + Operands(Arg(0)), SamplesOf(song, vgm_position)),
         ic' = ic \o Stamped(WritesOf(song, vgm_position))
  PROVE  PB!Execute
<1>1. Arg(0) # PCM_LOAD /\ Arg(0) = song.data[vgm_position]
  BY AtCommand, BlocksNotPlayable
<1>2. CommandAt(song, vgm_position) =
        [kind |-> "step", next |-> vgm_position + (1 + Operands(Arg(0))),
         wait |-> SamplesOf(song, vgm_position),
         writes |-> WritesOf(song, vgm_position)]
  BY <1>1, LengthOf DEF CommandAt
<1>3. PB!Command = CommandAt(song, vgm_position) /\ PB!Ready
  BY AbstractCommand
<1>4. status # "exited" /\ status' # "exited" /\ files' = files /\ vgm' = vgm
      /\ played' = played /\ current_loop' = current_loop
  BY DEF Fetching, Running, Advance
<1> QED
  BY <1>2, <1>3, <1>4 DEF PB!Execute, Advance, Stamped

(* nextVGM is the abstract Begin of the next song. *)
LEMMA BeginStep ==
  ASSUME IInv, Counted, Running, NextVGM
  PROVE  IF status' = "panicked" THEN UNCHANGED PB!vars ELSE PB!Begin(vgm + 1)
<1>1. vgm = files_index /\ status = "running"
  BY DEF Counted, Running
<1>2. Len(PlayList(files)) = Len(files) /\ Len(files) \in Nat
  BY ListOfSongs DEF IInv
<1>3. CASE NoMoreFiles
  BY <1>1, <1>2, <1>3 DEF NextVGM, Exit, Play, Panic, NoMoreFiles, PB!Begin, PB!Finished
<1>4. CASE ~NoMoreFiles /\ ~Loadable(NextFile)
  BY <1>1, <1>4 DEF NextVGM, Exit, Play, Panic, song_vars, PB!vars
<1>5. CASE ~NoMoreFiles /\ Loadable(NextFile)
  <2>1. files_index + 1 \in 1..Len(files)
    BY <1>5, NextIsFile DEF IInv
  <2>2. PlayList(files)[files_index + 1] = SongOf(NextFile)
    BY <2>1, ListOfSongs DEF IInv, NextFile
  <2>3. status' = "running" /\ vgm + 1 # PB!Finished
    BY <1>1, <1>2, <1>5, <2>1 DEF NextVGM, Exit, Play, Panic, PB!Finished
  <2> QED
    BY <1>1, <1>5, <2>2, <2>3 DEF NextVGM, Exit, Play, Panic, PB!Begin, SongOf, FirstCommand,
       VgmDataBase
<1> QED  BY <1>3, <1>4, <1>5

(* The end of the data. *)
LEMMA EndStep ==
  ASSUME AllWellFormed, IInv, OnCommand, Counted, LoopBack \/ EndSong
  PROVE  PB!Repeat \/ PB!NextSong \/ UNCHANGED PB!vars
<1>1. Fetching /\ Arg(0) = END_DATA
  BY DEF LoopBack, EndSong, Fetch
<1>2. /\ PB!Ready /\ PB!Command.kind = "end"
  BY <1>1, AtCommand, AbstractCommand DEF CommandAt
<1>3. vgm \in 1..Len(files) /\ status = "running" /\ IsFile(song)
  BY <1>1, AtCommand, SongIsFile DEF IInv, Fetching, Running
<1>4. PlayList(files)[vgm] = SongOf(song)
  BY <1>3, ListOfSongs DEF IInv, song
<1>5. PB!Repeats <=> Loops
  <2>1. PB!Repeats <=> LoopCommand(song) # 0 /\ current_loop < LoopCount
    BY <1>3, <1>4 DEF PB!Repeats, SongOf
  <2>2. LoopCommand(song) # 0 <=> song.loop_offset > 0
    BY <1>3 DEF LoopCommand, LoopBase, IsFile
  <2>3. LoopCount \in Nat /\ current_loop \in Nat
    BY PlayerAssumption DEF IInv, TypeOK
  <2> QED  BY <2>1, <2>2, <2>3 DEF Loops
<1>6. CASE LoopBack
  <2>1. SongOf(song).loop = song.loop_offset + LoopBase
    BY <1>3, <1>6 DEF LoopBack, Loops, SongOf, LoopCommand, LoopBase, IsFile
  <2> QED
    BY <1>2, <1>3, <1>4, <1>5, <1>6, <2>1 DEF LoopBack, PB!Repeat
<1>7. CASE EndSong
  BY <1>2, <1>3, <1>5, <1>7, BeginStep
     DEF EndSong, PB!NextSong, Running
<1> QED  BY <1>6, <1>7

(* Every other command that is executed is an Execute. *)
LEMMA CommandStep ==
  ASSUME AllWellFormed, IInv, OnCommand, NextStep, ~LoopBack, ~EndSong,
         ~WritePanics
  PROVE  PB!Execute
<1>0. Fetching
  BY NextStepFetches
<1>1. /\ Arg(0) = song.data[vgm_position]
      /\ Arg(1) = song.data[vgm_position + 1]
      /\ Arg(2) = song.data[vgm_position + 2]
      /\ Arg(3) = song.data[vgm_position + 3]
  BY <1>0, AtCommand DEF Arg
<1>2. ic = ic \o Stamped(<<>>)
  BY NothingStamped DEF IInv
<1>3. CASE WritePsg
  <2>1. Arg(0) = PSG_WRITE /\ Arg(0) # END_DATA
    BY <1>3 DEF WritePsg, Fetch, PSG_WRITE, END_DATA
  <2>2. WritesOf(song, vgm_position) = <<Write("psg", <<Arg(1), Arg(2)>>)>>
    BY <1>1, <2>1, WritingCommands
  <2>3. Advance(1 + Operands(Arg(0)), SamplesOf(song, vgm_position))
    BY <1>1, <1>3, <2>1, OperandsOf, WaitsOf DEF WritePsg
  <2> QED
    BY <1>0, <1>3, <2>1, <2>2, <2>3, ExecuteStep DEF WritePsg
<1>4. CASE WriteScc
  <2>1. Arg(0) = SCC_WRITE /\ Arg(0) # END_DATA
    BY <1>4 DEF WriteScc, Fetch, SCC_WRITE, END_DATA
  <2>2. WritesOf(song, vgm_position) = <<Write("scc", <<Arg(1), Arg(2), Arg(3)>>)>>
    BY <1>1, <2>1, WritingCommands
  <2>3. Advance(1 + Operands(Arg(0)), SamplesOf(song, vgm_position))
    BY <1>1, <1>4, <2>1, OperandsOf, WaitsOf DEF WriteScc
  <2> QED
    BY <1>0, <1>4, <2>1, <2>2, <2>3, ExecuteStep DEF WriteScc
<1>5. CASE WriteOpm
  <2>1. Arg(0) = OPM_WRITE /\ Arg(0) # END_DATA
    BY <1>5 DEF WriteOpm, Fetch, OPM_WRITE, END_DATA
  <2>2. WritesOf(song, vgm_position) = <<Write("opm", <<0, Arg(1)>>),
                                       Write("opm", <<1, Arg(2)>>)>>
    BY <1>1, <2>1, WritingCommands
  <2>3. Advance(1 + Operands(Arg(0)), SamplesOf(song, vgm_position))
    BY <1>1, <1>5, <2>1, OperandsOf, WaitsOf DEF WriteOpm
  <2> QED
    BY <1>0, <1>5, <2>1, <2>2, <2>3, ExecuteStep DEF WriteOpm
<1>6. CASE WritePcm
  <2>1. Arg(0) = PCM_WRITE /\ Arg(0) # END_DATA
    BY <1>6 DEF WritePcm, Fetch, PCM_WRITE, END_DATA
  <2>2. WritesOf(song, vgm_position) = <<Write("pcm", <<Arg(1), Arg(2)>>)>>
    BY <1>1, <2>1, WritingCommands
  <2>3. Advance(1 + Operands(Arg(0)), SamplesOf(song, vgm_position))
    BY <1>1, <1>6, <2>1, OperandsOf, WaitsOf DEF WritePcm
  <2> QED
    BY <1>0, <1>6, <2>1, <2>2, <2>3, ExecuteStep DEF WritePcm
<1>7. CASE LoadPcmData
  BY <1>0, <1>7, AtCommand, BlocksNotPlayable DEF LoadPcmData, Fetch
<1>8. CASE WaitSamples
  <2>1. Arg(0) = WAIT_N /\ Arg(0) # END_DATA
    BY <1>8 DEF WaitSamples, Fetch, WAIT_N, END_DATA
  <2> QED
    BY <1>0, <1>1, <1>2, <1>8, <2>1, OperandsOf, WaitsOf, SilentCommands,
       ExecuteStep DEF WaitSamples
<1>9. CASE Wait60th
  <2>1. Arg(0) = WAIT_60TH /\ Arg(0) # END_DATA
    BY <1>9 DEF Wait60th, Fetch, WAIT_60TH, END_DATA
  <2> QED
    BY <1>0, <1>1, <1>2, <1>9, <2>1, OperandsOf, WaitsOf, SilentCommands,
       ExecuteStep DEF Wait60th
<1>10. CASE Wait50th
  <2>1. Arg(0) = WAIT_50TH /\ Arg(0) # END_DATA
    BY <1>10 DEF Wait50th, Fetch, WAIT_50TH, END_DATA
  <2> QED
    BY <1>0, <1>1, <1>2, <1>10, <2>1, OperandsOf, WaitsOf, SilentCommands,
       ExecuteStep DEF Wait50th
<1>11. CASE WaitShort
  <2>1. Arg(0) \in SHORT_WAITS /\ Arg(0) # END_DATA
    BY <1>11 DEF WaitShort, Fetch, SHORT_WAITS, END_DATA
  <2> QED
    BY <1>0, <1>1, <1>2, <1>11, <2>1, OperandsOf, WaitsOf, SilentCommands,
       ExecuteStep DEF WaitShort
<1>12. CASE SkipByte
  <2>1. Arg(0) = 128 /\ Arg(0) # END_DATA
    BY <1>0, <1>12, AtCommand DEF SkipByte, Fetch, Known, Playable, END_DATA
  <2> QED
    BY <1>0, <1>1, <1>2, <1>12, <2>1, OperandsOf, WaitsOf, SilentCommands,
       ExecuteStep DEF SkipByte
<1>13. CASE ReadPastEnd
  BY <1>0, <1>13, AtCommand DEF ReadPastEnd, Panic
<1> QED
  BY <1>3, <1>4, <1>5, <1>6, <1>7, <1>8, <1>9, <1>10, <1>11, <1>12, <1>13
     DEF NextStep

(* What the audio callback does besides commands is not heard of. *)
LEMMA SilentStep ==
  ASSUME IInv, OpenStream \/ StartStream \/ EnterCallback \/ BeginWrite
               \/ EndWrite \/ WriteFails \/ Stopped \/ UNCHANGED vars
  PROVE  UNCHANGED PB!vars
BY DEF OpenStream, StartStream, GiveUp, EnterCallback, BeginWrite, EndWrite,
       WriteFails, Panic, Stopped, vars, song_vars, Running, PB!vars

LEMMA SampleStep ==
  ASSUME IInv, RenderFrame
  PROVE  PB!PlaySample
<1>1. vgm \in 1..Len(files) /\ status = "running" /\ status' = "running"
  BY SongIsFile DEF RenderFrame, IInv, SongLoaded, Running
<1>2. Len(PlayList(files)) = Len(files)
  BY ListOfSongs DEF IInv
<1> QED  BY <1>1, <1>2 DEF RenderFrame, PB!PlaySample

LEMMA FirstStep ==
  ASSUME IInv, Counted, LoadFirst
  PROVE  PB!FirstSong \/ UNCHANGED PB!vars
<1>1. vgm = 0 /\ status = "running" /\ Running
  BY DEF LoadFirst, Counted, Running
<1>2. IF status' = "panicked" THEN UNCHANGED PB!vars ELSE PB!Begin(vgm + 1)
  BY <1>1, BeginStep DEF LoadFirst
<1> QED  BY <1>1, <1>2 DEF PB!FirstSong

(* The player implements the abstract play list, whatever fails around it. *)
THEOREM PlaysBackList ==
  ASSUME AllWellFormed
  PROVE  Spec => PlaysBack
<1>1. Init => PB!Init
  BY DEF Init, PB!Init
<1>2. IInv /\ OnCommand /\ Counted /\ [Next]_vars => [PB!Next]_(PB!vars)
  <2> SUFFICES ASSUME IInv, OnCommand, Counted, [Next]_vars
               PROVE  PB!Next \/ UNCHANGED PB!vars
    OBVIOUS
  <2>1. CASE LoadFirst
    BY <2>1, FirstStep DEF PB!Next
  <2>2. CASE NextStep
    <3>1. CASE WritePanics
      BY <3>1 DEF WritePanics, Fetch, Fetching, Panic, song_vars, Running, PB!vars
    <3> QED  BY <2>2, <3>1, EndStep, CommandStep DEF PB!Next
  <2>3. CASE RenderFrame
    BY <2>3, SampleStep DEF PB!Next
  <2> QED
    BY <2>1, <2>2, <2>3, SilentStep DEF Next, MainThread, AudioThread
<1> QED
  BY <1>1, <1>2, Invariance, StaysOnCommands, CountedInvariant, PTL
     DEF Spec, PlaysBack, PB!Spec

-----------------------------------------------------------------------------
(* The length of a song *)

\* What was rendered of the song, and is being waited for, is what its writer
\* has put before the position, and the loop sections gone through.
OnTime ==
  vgm # 0 =>
    /\ played + remaining_wait
         = song.times[vgm_position] + current_loop * song.loop_samples
    /\ song.loop_offset = 0 => current_loop = 0

LEMMA SongTimed ==
  ASSUME AllWellFormed, AllTimed, IInv, OnCommand, vgm # 0
  PROVE  /\ Timed(song) /\ WellFormed(song) /\ IsFile(song)
         /\ song.times[vgm_position] \in Nat
         /\ song.loop_samples \in Nat /\ song.total_samples \in Nat
         /\ played \in Nat /\ remaining_wait \in Nat /\ current_loop \in Nat
<1>1. Timed(song) /\ WellFormed(song) /\ IsFile(song)
  BY SongIsFile, SongWellFormed DEF IInv, TypeOK, song, AllTimed
<1>2. song.times \in [song.marks -> Nat] /\ vgm_position \in song.marks
  BY <1>1 DEF IsFile, OnCommand
<1>3. current_loop \in Nat
  BY PlayerAssumption DEF IInv, TypeOK
<1> QED  BY <1>1, <1>2, <1>3 DEF IsFile, IInv, TypeOK

(* Once more through the loop section. *)
LEMMA OnceMore ==
  \A n, k \in Nat : (n + 1) * k = n * k + k
OBVIOUS

LEMMA NextVGMOnTime ==
  ASSUME AllWellFormed, AllTimed, IInv, OnTime, NextVGM
  PROVE  OnTime'
<1>1. CASE NoMoreFiles
  BY <1>1 DEF NextVGM, Exit, Play, Panic, OnTime
<1>2. CASE ~NoMoreFiles /\ ~Loadable(NextFile)
  BY <1>2 DEF NextVGM, Exit, Play, Panic, OnTime, song_vars, song
<1>3. CASE ~NoMoreFiles /\ Loadable(NextFile)
  <2>1. files_index + 1 \in 1..Len(files) /\ files \in FileLists /\ IsFile(NextFile)
    BY <1>3, NextIsFile DEF IInv, TypeOK
  <2>2. Timed(NextFile)
    BY <2>1 DEF NextFile, AllTimed
  <2>3. vgm_position' = FirstCommand(NextFile) /\ song' = NextFile
    BY <1>3 DEF NextVGM, Exit, Play, Panic, FirstCommand, VgmDataBase, song, NextFile
  <2>4. played' = 0 /\ remaining_wait' = 0 /\ current_loop' = 0
    BY <1>3 DEF NextVGM, Exit, Play, Panic
  <2>5. song'.times[vgm_position'] = 0 /\ song'.loop_samples \in Nat
    BY <2>1, <2>2, <2>3 DEF Timed, IsFile
  <2> QED  BY <2>4, <2>5 DEF OnTime
<1> QED  BY <1>1, <1>2, <1>3

LEMMA CommandOnTime ==
  ASSUME AllWellFormed, AllTimed, IInv, OnCommand, OnTime,
         NextStep, ~LoopBack, ~EndSong, ~WritePanics
  PROVE  OnTime'
<1>0. Fetching
  BY NextStepFetches
<1>1. PB!Execute
  BY CommandStep
<1>2. PB!Command = CommandAt(song, vgm_position) /\ vgm # 0
  BY <1>0, AbstractCommand, AtCommand
<1>3. /\ vgm_position' = vgm_position + CommandLength(song, vgm_position)
      /\ remaining_wait' = SamplesOf(song, vgm_position)
      /\ played' = played /\ current_loop' = current_loop
      /\ song.data[vgm_position] # END_DATA
  BY <1>1, <1>2 DEF PB!Execute, CommandAt
<1>4. vgm' = vgm /\ files' = files
  BY <1>0, AtCommand DEF NextStep, WritePsg, WriteScc, WriteOpm, WritePcm,
     LoadPcmData, WaitSamples, Wait60th, Wait50th, WaitShort, SkipByte,
     ReadPastEnd, Advance
<1>5. song.times[vgm_position']
        = song.times[vgm_position] + SamplesOf(song, vgm_position)
  BY <1>2, <1>3, SongTimed DEF Timed, OnCommand
<1>6. remaining_wait = 0 /\ song' = song
  BY <1>0, <1>4 DEF Fetching, song
<1>7. song.times[vgm_position'] \in Nat
  <2>1. vgm_position' \in song.marks
    BY <1>2, <1>3, SongTimed DEF WellFormed, OnCommand
  <2> QED  BY <1>2, <2>1, SongTimed DEF IsFile
<1>8. remaining_wait' \in Nat
  BY NextStepTypes DEF IInv, TypeOK
<1>9. played = song.times[vgm_position] + current_loop * song.loop_samples
  <2>1. current_loop * song.loop_samples \in Nat
    BY <1>2, SongTimed
  <2> QED  BY <1>2, <1>6, <2>1, SongTimed DEF OnTime
<1>10. played + remaining_wait'
         = song.times[vgm_position'] + current_loop * song.loop_samples
  <2> DEFINE looped == current_loop * song.loop_samples
             before == song.times[vgm_position]
  <2>1. before \in Nat /\ looped \in Nat
    BY <1>2, SongTimed
  <2>2. played = before + looped /\ song.times[vgm_position'] = before + remaining_wait'
    BY <1>3, <1>5, <1>9
  <2> HIDE DEF looped, before
  <2>3. played + remaining_wait' = song.times[vgm_position'] + looped
    BY <1>8, <2>1, <2>2
  <2> QED  BY <2>3 DEF looped
<1> QED  BY <1>2, <1>3, <1>4, <1>6, <1>10 DEF OnTime

LEMMA LoopBackOnTime ==
  ASSUME AllWellFormed, AllTimed, IInv, OnCommand, OnTime, LoopBack
  PROVE  OnTime'
<1>1. Fetching /\ song.data[vgm_position] = END_DATA /\ vgm # 0
  BY AtCommand DEF LoopBack, Fetch
<1>2. /\ song.loop_offset > 0 /\ song' = song /\ vgm' = vgm
      /\ played' = played /\ remaining_wait' = 0 /\ remaining_wait = 0
      /\ current_loop' = current_loop + 1
  BY <1>1 DEF LoopBack, Loops, song, Fetching
<1>3. vgm_position' = LoopCommand(song) /\ vgm_position' \in song.marks
  BY <1>1, <1>2, SongTimed DEF LoopBack, LoopCommand, LoopBase, IsFile, WellFormed
<1>4. /\ song.times[vgm_position] = song.total_samples
      /\ song.times[vgm_position'] + song.loop_samples = song.total_samples
  BY <1>1, <1>2, <1>3, SongTimed DEF Timed, OnCommand
<1>5. played = song.total_samples + current_loop * song.loop_samples
  <2>1. current_loop * song.loop_samples \in Nat
    BY <1>1, SongTimed
  <2> QED  BY <1>1, <1>2, <1>4, <2>1, SongTimed DEF OnTime
<1>6. played = song.times[vgm_position'] + (current_loop + 1) * song.loop_samples
  <2> DEFINE looped == current_loop * song.loop_samples
             loops == (current_loop + 1) * song.loop_samples
             before == song.times[vgm_position']
             loop_samples == song.loop_samples
             total == song.total_samples
  <2>1. looped \in Nat /\ loop_samples \in Nat /\ before \in Nat
    BY <1>1, <1>3, SongTimed DEF IsFile
  <2>2. loops = looped + loop_samples
    BY <1>1, SongTimed, OnceMore
  <2>3. before + loop_samples = total /\ played = total + looped
    BY <1>4, <1>5
  <2> HIDE DEF looped, loops, before, loop_samples, total
  <2>4. played = before + loops
    BY <2>1, <2>2, <2>3
  <2> QED  BY <2>4 DEF before, loops
<1>7. song.times[vgm_position'] \in Nat /\ (current_loop + 1) * song.loop_samples \in Nat
  BY <1>1, <1>3, SongTimed DEF IsFile
<1>8. played + 0 = played
  BY <1>1, SongTimed
<1> QED  BY <1>1, <1>2, <1>6, <1>8, SongTimed DEF OnTime, IsFile

LEMMA RenderOnTime ==
  ASSUME AllWellFormed, AllTimed, IInv, OnCommand, OnTime, RenderFrame
  PROVE  OnTime'
<1>1. /\ song' = song /\ vgm' = vgm /\ vgm_position' = vgm_position
      /\ current_loop' = current_loop
      /\ played' = played + 1 /\ remaining_wait' = remaining_wait - 1
  BY DEF RenderFrame, song
<1>2. vgm # 0 => played' + remaining_wait' = played + remaining_wait
  BY <1>1, SongTimed
<1> QED  BY <1>1, <1>2 DEF OnTime

LEMMA OnTimeInvariant ==
  ASSUME AllWellFormed, AllTimed
  PROVE  Spec => []OnTime
<1>1. Init => OnTime
  BY DEF Init, OnTime
<1>2. IInv /\ OnCommand /\ OnTime /\ [Next]_vars => OnTime'
  <2> SUFFICES ASSUME IInv, OnCommand, OnTime, [Next]_vars PROVE OnTime'
    OBVIOUS
  <2>1. CASE LoadFirst
    BY <2>1, NextVGMOnTime DEF LoadFirst
  <2>2. CASE NextStep
    <3>1. CASE EndSong
      BY <3>1, NextVGMOnTime DEF EndSong
    <3>2. CASE WritePanics
      BY <3>2 DEF WritePanics, Panic, song_vars, OnTime, song
    <3> QED  BY <2>2, <3>1, <3>2, LoopBackOnTime, CommandOnTime
  <2>3. CASE RenderFrame
    BY <2>3, RenderOnTime
  <2>4. CASE UNCHANGED song_vars
    BY <2>4 DEF OnTime, song, song_vars
  <2>5. OpenStream \/ StartStream \/ EnterCallback \/ BeginWrite \/ EndWrite
        \/ WriteFails \/ Stopped \/ UNCHANGED vars => UNCHANGED song_vars
    BY DEF OpenStream, StartStream, GiveUp, EnterCallback, BeginWrite, EndWrite,
           WriteFails, Panic, Stopped, vars
  <2> QED
    BY <2>1, <2>2, <2>3, <2>4, <2>5 DEF Next, MainThread, AudioThread
<1> QED
  BY <1>1, <1>2, Invariance, StaysOnCommands, PTL DEF Spec

(* Where a song is left, its loop has been repeated as often as it can be. *)
LEMMA LeavesAtLength ==
  ASSUME AllWellFormed, AllTimed, IInv, OnCommand, OnTime, Counted,
         [Next]_vars, vgm # 0, vgm' # vgm
  PROVE  played = song.total_samples
                    + (IF song.loop_offset > 0 THEN LoopCount * song.loop_samples ELSE 0)
<1>1. EndSong
  <2>1. ~LoadFirst
    BY DEF LoadFirst, Counted
  <2>2. OpenStream \/ StartStream \/ EnterCallback \/ BeginWrite \/ EndWrite
        \/ WriteFails \/ RenderFrame \/ Stopped \/ UNCHANGED vars => vgm' = vgm
    BY DEF OpenStream, StartStream, GiveUp, EnterCallback, BeginWrite, EndWrite,
           WriteFails, Panic, RenderFrame, Stopped, vars, song_vars
  <2>3. WritePsg \/ WriteScc \/ WriteOpm \/ WritePcm \/ LoadPcmData
        \/ WaitSamples \/ Wait60th \/ Wait50th \/ WaitShort \/ LoopBack
        \/ SkipByte \/ ReadPastEnd \/ WritePanics => vgm' = vgm
    BY DEF WritePanics, WritePsg, WriteScc, WriteOpm, WritePcm, LoadPcmData, WaitSamples,
           Wait60th, Wait50th, WaitShort, LoopBack, SkipByte, ReadPastEnd, Panic,
           Advance, song_vars
  <2> QED
    BY <2>1, <2>2, <2>3 DEF Next, MainThread, AudioThread, NextStep
<1>2. song.data[vgm_position] = END_DATA /\ remaining_wait = 0 /\ ~Loops
  BY <1>1, AtCommand DEF EndSong, Fetch, Fetching
<1>3. played = song.total_samples + current_loop * song.loop_samples
  <2>1. song.times[vgm_position] = song.total_samples
    BY <1>2, SongTimed DEF Timed, OnCommand
  <2>2. played + 0 = played
    BY SongTimed
  <2> QED  BY <1>2, <2>1, <2>2 DEF OnTime
<1>4. CASE song.loop_offset > 0
  <2>1. current_loop \in 0..LoopCount /\ LoopCount \in Nat
    BY PlayerAssumption DEF IInv, TypeOK
  <2>2. current_loop = LoopCount
    BY <1>2, <1>4, <2>1 DEF Loops
  <2> QED  BY <1>3, <1>4, <2>2
<1>5. CASE ~(song.loop_offset > 0)
  <2>1. song.loop_offset = 0
    BY <1>5, SongTimed DEF IsFile
  <2>2. current_loop = 0
    BY <2>1 DEF OnTime
  <2>3. 0 * song.loop_samples = 0
    BY SongTimed
  <2> QED  BY <1>3, <1>5, <2>2, <2>3
<1> QED  BY <1>4, <1>5

(***************************************************************************)
(* For every play list of well-formed files whose headers count their      *)
(* samples, nextVGM leaves a song after the header's total_samples and     *)
(* LoopCount times its loop_samples, however callbacks cut it.             *)
(***************************************************************************)
THEOREM PlaysFullLength ==
  ASSUME AllWellFormed, AllTimed
  PROVE  Spec => SongLength
<1>1. IInv /\ OnCommand /\ OnTime /\ Counted /\ [Next]_vars
        => [vgm # 0 /\ vgm' # vgm =>
              played = song.total_samples
                + (IF song.loop_offset > 0
                   THEN LoopCount * song.loop_samples ELSE 0)]_vars
  BY LeavesAtLength
<1> QED
  BY <1>1, Invariance, StaysOnCommands, OnTimeInvariant, CountedInvariant, PTL
     DEF Spec, SongLength

-----------------------------------------------------------------------------
(* VgmFile: the file that a song is parsed from. *)

\* Where a character is stored: behind n characters of the text of f the passes
\* are at tag TagOf and in it behind PosOf characters.
NulsOf(f, n) == {k \in 1..n : f.text[k] = NUL}
LastOf(S) == IF S = {} THEN 0 ELSE CHOOSE m \in S : \A k \in S : k <= m
LastNul(f, n) == LastOf(NulsOf(f, n))
TagOf(f, n) == Cardinality(NulsOf(f, n))
PosOf(f, n) == n - LastNul(f, n)

LEMMA NulsAreFinite ==
  ASSUME NEW f, NEW n \in Nat
  PROVE  IsFiniteSet(NulsOf(f, n)) /\ TagOf(f, n) \in Nat /\ NulsOf(f, n) \subseteq 1..n
<1>1. IsFiniteSet(1..n) /\ NulsOf(f, n) \subseteq 1..n
  BY FS_Interval DEF NulsOf
<1> QED
  BY <1>1, FS_Subset, FS_CardinalityType DEF TagOf

LEMMA NoNuls ==
  ASSUME NEW f
  PROVE  NulsOf(f, 0) = {} /\ TagOf(f, 0) = 0 /\ LastNul(f, 0) = 0
<1>1. NulsOf(f, 0) = {}
  BY DEF NulsOf
<1> QED
  BY <1>1, FS_EmptySet DEF TagOf, LastNul, LastOf

LEMMA NulsGrow ==
  ASSUME NEW f, NEW n \in Nat
  PROVE  /\ f.text[n + 1] = NUL =>
              /\ NulsOf(f, n + 1) = NulsOf(f, n) \cup {n + 1}
              /\ TagOf(f, n + 1) = TagOf(f, n) + 1
              /\ LastNul(f, n + 1) = n + 1
         /\ f.text[n + 1] # NUL =>
              /\ NulsOf(f, n + 1) = NulsOf(f, n)
              /\ TagOf(f, n + 1) = TagOf(f, n)
              /\ LastNul(f, n + 1) = LastNul(f, n)
<1>1. CASE f.text[n + 1] = NUL
  <2>1. NulsOf(f, n + 1) = NulsOf(f, n) \cup {n + 1}
    BY <1>1 DEF NulsOf
  <2>2. IsFiniteSet(NulsOf(f, n)) /\ n + 1 \notin NulsOf(f, n)
    BY NulsAreFinite
  <2>3. TagOf(f, n + 1) = TagOf(f, n) + 1
    BY <2>1, <2>2, FS_AddElement DEF TagOf
  <2>4. \A k \in NulsOf(f, n + 1) : k \in Nat /\ k <= n + 1
    BY NulsAreFinite
  <2>5. n + 1 \in NulsOf(f, n + 1)
    BY <2>1
  <2>6. \A m \in NulsOf(f, n + 1) :
          (\A k \in NulsOf(f, n + 1) : k <= m) => m = n + 1
    BY <2>4, <2>5
  <2>7. LastNul(f, n + 1) = n + 1
    <3> DEFINE S == NulsOf(f, n + 1)
    <3>1. n + 1 \in S /\ \A k \in S : k <= n + 1
      BY <2>4, <2>5
    <3>2. \A m \in S : (\A k \in S : k <= m) => m = n + 1
      BY <2>6
    <3>3. LastNul(f, n + 1) = CHOOSE m \in S : \A k \in S : k <= m
      BY <2>5 DEF LastNul, LastOf
    <3> DEFINE last == CHOOSE m \in S : \A k \in S : k <= m
    <3>4. last \in S /\ \A k \in S : k <= last
      <4> HIDE DEF S
      <4> QED
        BY <3>1, Zenon
    <3>5. LastNul(f, n + 1) = last
      BY <3>3
    <3> HIDE DEF last
    <3> QED
      BY <3>2, <3>4, <3>5
  <2> QED
    BY <1>1, <2>1, <2>3, <2>7
<1>2. CASE f.text[n + 1] # NUL
  <2>1. NulsOf(f, n + 1) = NulsOf(f, n)
    BY <1>2 DEF NulsOf
  <2> QED
    BY <1>2, <2>1 DEF TagOf, LastNul
<1> QED
  BY <1>1, <1>2

LEMMA LastNulRange ==
  ASSUME NEW f
  PROVE  \A n \in Nat : LastNul(f, n) \in 0..n
<1> DEFINE T == {n \in Nat : LastNul(f, n) \in 0..n}
<1>1. 0 \in T
  BY NoNuls
<1>2. ASSUME NEW n \in Nat, n \in T PROVE n + 1 \in T
  BY <1>2, NulsGrow
<1> HIDE DEF T
<1>3. Nat \subseteq T
  BY <1>1, <1>2, SetInduction
<1> QED
  BY <1>3 DEF T

(* How the passes move on, which cut the text behind each NUL. *)
LEMMA CutsFirst ==
  ASSUME NEW f
  PROVE  TagOf(f, 0) = 0 /\ PosOf(f, 0) = 0
BY NoNuls DEF PosOf

LEMMA CutTypes ==
  ASSUME NEW f, NEW n \in Nat
  PROVE  TagOf(f, n) \in Nat /\ PosOf(f, n) \in Nat /\ PosOf(f, n) <= n
<1>1. LastNul(f, n) \in 0..n
  BY LastNulRange
<1> QED
  BY <1>1, NulsAreFinite DEF PosOf

LEMMA Cuts ==
  ASSUME NEW f, NEW n \in Nat
  PROVE  /\ f.text[n + 1] = NUL =>
              TagOf(f, n + 1) = TagOf(f, n) + 1 /\ PosOf(f, n + 1) = 0
         /\ f.text[n + 1] # NUL =>
              TagOf(f, n + 1) = TagOf(f, n) /\ PosOf(f, n + 1) = PosOf(f, n) + 1
<1>1. LastNul(f, n) \in 0..n
  BY LastNulRange
<1> QED
  BY <1>1, NulsGrow DEF PosOf

(* No two characters are stored in one place. *)
LEMMA CutsApart ==
  ASSUME NEW f, NEW a \in Nat, NEW b \in Nat, a < b
  PROVE  /\ TagOf(f, a) <= TagOf(f, b)
         /\ TagOf(f, a) = TagOf(f, b) => PosOf(f, a) < PosOf(f, b)
<1>1. NulsOf(f, a) \subseteq NulsOf(f, b) /\ IsFiniteSet(NulsOf(f, b))
  <2>1. 1..a \subseteq 1..b
    OBVIOUS
  <2> QED
    BY <2>1, NulsAreFinite DEF NulsOf
<1>2. TagOf(f, a) <= TagOf(f, b)
  <2>1. Cardinality(NulsOf(f, a)) <= Cardinality(NulsOf(f, b))
    BY <1>1, FS_Subset
  <2> QED
    BY <2>1 DEF TagOf
<1>3. ASSUME TagOf(f, a) = TagOf(f, b) PROVE LastNul(f, a) = LastNul(f, b)
  <2>1. NulsOf(f, a) = NulsOf(f, b)
    BY <1>1, <1>3, FS_Subset DEF TagOf
  <2> QED
    BY <2>1 DEF LastNul
<1> QED
  BY <1>2, <1>3, LastNulRange DEF PosOf

-----------------------------------------------------------------------------
(* What both passes keep *)

Chars(f) == (f.gd3_length + 1) \div 2
Symbols(f) == {f.text[k] : k \in DOMAIN f.text} \cup {Undefined}

\* The lengths counted for n characters: room for each of them, no more than
\* that, and an end behind each NUL and the last.
Counts(f, n, counted) ==
  /\ counted \in [Tags -> Nat]
  /\ \A k \in 1..n :
       /\ TagOf(f, k - 1) \in Tags
       /\ PosOf(f, k - 1) < counted[TagOf(f, k - 1)]
       /\ f.text[k] = NUL \/ k = n => counted[TagOf(f, k - 1)] = PosOf(f, k - 1) + 1
  /\ \A t \in Tags : \A j \in 1..counted[t] :
       \E k \in 1..n : TagOf(f, k - 1) = t /\ PosOf(f, k - 1) = j - 1

\* Arrays of these lengths in which n characters are stored.
Filled(f, n, counted, arrays) ==
  /\ Chars(f) <= Len(f.text)
  /\ Counts(f, Chars(f), counted)
  /\ arrays \in [Tags -> Seq(Symbols(f))]
  /\ \A t \in Tags : Len(arrays[t]) = counted[t]
  /\ \A k \in 1..n : arrays[TagOf(f, k - 1)][PosOf(f, k - 1) + 1] = f.text[k]

\* i counts bytes.
CharsRead == i \div 2

Passes ==
  /\ i \in Nat /\ i = 2 * CharsRead /\ CharsRead <= Chars(file)
  /\ tag = TagOf(file, CharsRead)

Counting ==
  step = "count" =>
    /\ Passes
    /\ CharsRead <= Len(file.text)
    /\ Counts(file, CharsRead, lengths)
    /\ \A t \in Tags : t >= tag =>
         lengths[t] = IF t = tag THEN PosOf(file, CharsRead) ELSE 0

Filling ==
  step = "fill" =>
    /\ Passes
    /\ pos = PosOf(file, CharsRead)
    /\ Filled(file, CharsRead, lengths, tags)

Converting == step = "convert" => Filled(file, Chars(file), lengths, tags)

Pairs(f) ==
  \A k \in 1..Chars(f) :
    /\ f.text[k] = "high" => k < Chars(f) /\ f.text[k + 1] = "low"
    /\ f.text[k] = "low" => k > 1 /\ f.text[k - 1] = "high"

SoundText(f) ==
  /\ Chars(f) <= Len(f.text)
  /\ Cardinality(NulsOf(f, Chars(f) - 1)) < NumTags
  /\ Pairs(f)

Converted == step = "chips" => file.gd3 = "none" \/ SoundText(file)

Inflated ==
  step \notin {"open", "look"} =>
    \/ inflated = file /\ ReadFromItsStart
    \/ ~ReadFromItsStart /\ step = "header" /\ inflated.matches = FALSE

HeaderRead ==
  step \in {"count", "fill", "convert", "chips"} =>
    /\ file.matches /\ file.version >= 336
    /\ \/ file.gd3 = "none" /\ step = "chips"
       \/ file.gd3 = "inside" /\ file.gd3_matches

NothingRead ==
  step \in {"open", "look", "header"} =>
    tag = 0 /\ i = 0 /\ lengths = [t \in Tags |-> 0]

Steps == {"open", "look", "header", "count", "fill", "convert", "chips"}

FileInv ==
  /\ file \in Files /\ step \in Steps
  /\ Inflated /\ HeaderRead /\ NothingRead
  /\ Counting /\ Filling /\ Converting /\ Converted
  /\ SecondPassFits /\ ParsedWhenSound

LEMMA SoundIs ==
  Sound <=> /\ file.matches /\ file.version >= 336
            /\ file.size >= HeaderEnd(file.version)
            /\ \/ file.gd3 = "none"
               \/ file.gd3 = "inside" /\ file.gd3_matches /\ SoundText(file)
BY DEF Sound, SoundText, NumChars, Chars, Nuls, NulsOf, Pairs

LEMMA FileFacts ==
  ASSUME NEW f \in Files
  PROVE  /\ f.size \in Nat /\ f.version \in Nat /\ f.gd3_length \in Nat
         /\ Chars(f) \in Nat /\ Len(f.text) \in Nat
         /\ DOMAIN f.text = 1..Len(f.text)
         /\ f.matches \in BOOLEAN /\ f.gd3_matches \in BOOLEAN
         /\ f.storage \in {"gzip", "broken", "plain"} /\ f.stray \in {0, 2}
         /\ f.gd3 \in {"none", "beyond", "inside"}
<1>1. IsStored(f)
  BY VgmFileAssumption
<1>2. f.gd3_length \in Nat
  BY <1>1 DEF IsStored
<1>3. Chars(f) \in Nat
  BY <1>2 DEF Chars
<1>4. Len(f.text) \in Nat /\ DOMAIN f.text = 1..Len(f.text)
  <2> DEFINE S == {f.text[k] : k \in DOMAIN f.text}
  <2>1. f.text \in Seq(S)
    BY <1>1 DEF IsStored
  <2> HIDE DEF S
  <2> QED
    BY <2>1
<1> QED
  BY <1>1, <1>3, <1>4 DEF IsStored

LEMMA LastHeaderField ==
  \A v \in Nat : HeaderEnd(v) \in Nat /\ HeaderEnd(v) >= 56
BY DEF HeaderEnd

(* A step that only ends with an error. *)
LEMMA StopKeeps ==
  ASSUME FileInv, NEW with, Stop(with), step # "fill", with # "none", with # "parsed",
         with = "cannot open" \/ ~ReadFromItsStart \/ ~Sound
  PROVE  FileInv'
<1>1. UNCHANGED <<file, inflated, step, tag, i, pos, lengths, tags>> /\ outcome' = with
  BY DEF Stop
<1>2. /\ file' \in Files /\ step' \in Steps
      /\ Inflated' /\ HeaderRead' /\ NothingRead'
  BY <1>1 DEF FileInv, Inflated, ReadFromItsStart, HeaderRead, NothingRead
<1>3. Counting' /\ Filling' /\ Converting' /\ Converted'
  BY <1>1 DEF FileInv, Counting, Filling, Converting, Converted, Passes, CharsRead
<1>4. SecondPassFits'
  BY <1>1 DEF SecondPassFits
<1>5. (Sound' <=> Sound) /\ (ReadFromItsStart' <=> ReadFromItsStart)
  BY <1>1 DEF Sound, ReadFromItsStart, NumChars, Nuls
<1>6. ParsedWhenSound'
  BY <1>1, <1>5 DEF ParsedWhenSound
<1> QED
  BY <1>2, <1>3, <1>4, <1>6 DEF FileInv

LEMMA FileBegins ==
  FileInit => FileInv
<1> SUFFICES ASSUME FileInit PROVE FileInv
  OBVIOUS
<1>1. file \in Files /\ step = "open" /\ outcome = "none"
      /\ tag = 0 /\ i = 0 /\ lengths = [t \in Tags |-> 0]
  BY DEF FileInit
<1> QED
  BY <1>1 DEF FileInv, Steps, Inflated, ReadFromItsStart, HeaderRead, NothingRead, Counting, Filling,
     Converting, Converted, SecondPassFits, ParsedWhenSound

(* A step that goes on without an error. *)
LEMMA GoesOn ==
  ASSUME FileInv, outcome = "none", file' = file, outcome' = outcome, step' \in Steps,
         Inflated', HeaderRead', NothingRead', Counting', Filling', Converting', Converted'
  PROVE  FileInv'
BY DEF FileInv, SecondPassFits, ParsedWhenSound

LEMMA OpenKeeps ==
  ASSUME FileInv, Open PROVE FileInv'
<1>1. step = "open" /\ outcome = "none"
  BY DEF Open, At
<1>2. CASE Stop("cannot open")
  BY <1>1, <1>2, StopKeeps
<1>3. CASE file.storage = "plain" /\ EndPos = 0 /\ Stop("FileEmpty")
  <2>1. ~ReadFromItsStart
    BY <1>1, <1>3, FileFacts DEF ReadFromItsStart, EndPos, FileInv
  <2> QED
    BY <1>1, <1>3, <2>1, StopKeeps
<1>4. CASE Goto("look")
  BY <1>1, <1>4, GoesOn DEF Goto, FileInv, Steps, Inflated, ReadFromItsStart, HeaderRead, NothingRead,
     Counting, Filling, Converting, Converted
<1> QED
  BY <1>2, <1>3, <1>4 DEF Open

LEMMA LookKeeps ==
  ASSUME FileInv, Look PROVE FileInv'
<1>1. step = "look" /\ outcome = "none" /\ IsStored(file)
  BY VgmFileAssumption DEF Look, At, FileInv
<1>2. ASSUME NEW bytes, Returns(bytes),
             \/ bytes = file /\ ReadFromItsStart
             \/ ~ReadFromItsStart /\ bytes.matches = FALSE
      PROVE  FileInv'
  <2>1. /\ step' = "header" /\ inflated' = bytes /\ file' = file /\ outcome' = outcome
        /\ tag' = tag /\ i' = i /\ lengths' = lengths
    BY <1>2 DEF Returns
  <2>2. Inflated' /\ NothingRead'
    BY <1>1, <1>2, <2>1 DEF Inflated, ReadFromItsStart, FileInv, NothingRead
  <2> QED
    BY <1>1, <2>1, <2>2, GoesOn DEF Steps, HeaderRead, Counting, Filling, Converting,
       Converted
<1>3. CASE file.storage = "plain" /\ EndPos < 2 /\ Stop("EndOfStream")
  <2>1. ~ReadFromItsStart
    BY <1>1, <1>3, FileFacts DEF ReadFromItsStart, EndPos, FileInv
  <2> QED
    BY <1>1, <1>3, <2>1, StopKeeps
<1>4. ASSUME NEW n \in {0, 2}, n # file.stray PROVE Behind(n).matches = FALSE
  <2>1. file = [storage |-> file.storage, stray |-> file.stray, size |-> file.size,
                matches |-> file.matches, version |-> file.version, gd3 |-> file.gd3,
                gd3_matches |-> file.gd3_matches, gd3_length |-> file.gd3_length,
                text |-> file.text, clocks |-> file.clocks]
    BY <1>1 DEF IsStored
  <2> QED
    BY ONLY <1>4, <2>1 DEF Behind
<1>5. CASE file.storage = "plain" /\ Returns(Behind(2))
  <2>1. \/ Behind(2) = file /\ ReadFromItsStart
        \/ ~ReadFromItsStart /\ Behind(2).matches = FALSE
    BY <1>4, <1>5 DEF Behind, ReadFromItsStart
  <2> QED
    BY <1>2, <1>5, <2>1
<1>6. CASE file.storage = "gzip" /\ Returns(Behind(0))
  <2>1. \/ Behind(0) = file /\ ReadFromItsStart
        \/ ~ReadFromItsStart /\ Behind(0).matches = FALSE
    BY <1>4, <1>6 DEF Behind, ReadFromItsStart
  <2> QED
    BY <1>2, <1>6, <2>1
<1>7. CASE file.storage \notin {"gzip", "plain"} /\ Stop("not a stream")
  BY <1>1, <1>7, StopKeeps DEF ReadFromItsStart
<1> QED
  BY <1>3, <1>5, <1>6, <1>7 DEF Look, Inflates, StartOfStream

LEMMA ReadHeaderKeeps ==
  ASSUME FileInv, ReadHeader PROVE FileInv'
<1>1. step = "header" /\ outcome = "none" /\ file \in Files
  BY DEF ReadHeader, At, FileInv
<1>2. \/ inflated = file /\ ReadFromItsStart
      \/ ~ReadFromItsStart /\ inflated.matches = FALSE
  BY <1>1 DEF FileInv, Inflated
<1>3. ASSUME NEW with, Stop(with), with \notin {"none", "parsed"},
             ~Sound \/ ~ReadFromItsStart
      PROVE  FileInv'
  BY <1>1, <1>3, StopKeeps
<1>4. CASE ~inflated.matches /\ Stop("InvalidVGMIdent")
  BY <1>2, <1>3, <1>4 DEF Sound
<1>5. HeaderEnd(file.version) >= 56 /\ HeaderEnd(file.version) \in Nat /\ file.size \in Nat
  BY <1>1, FileFacts, LastHeaderField
<1>6. CASE (inflated.size < 12 \/ inflated.size < 24) /\ Stop("panic")
  BY <1>2, <1>3, <1>5, <1>6 DEF Sound
<1>7. CASE inflated.version < 336 /\ Stop("InvalidVGMVersion")
  <2>1. ReadFromItsStart => ~(file.version >= 336)
    BY <1>1, <1>2, <1>7, FileFacts
  <2> QED
    BY <1>3, <1>7, <2>1 DEF Sound
<1>8. CASE inflated.gd3 = "beyond" /\ Stop("panic")
  BY <1>2, <1>3, <1>8 DEF Sound
<1>9. CASE inflated.gd3 = "inside" /\ ~inflated.gd3_matches /\ Stop("InvalidGD3Ident")
  BY <1>2, <1>3, <1>9 DEF Sound
<1>10. CASE /\ inflated.matches /\ inflated.version >= 336 /\ inflated.gd3 # "beyond"
            /\ inflated.gd3 = "inside" => inflated.gd3_matches
            /\ Goto(IF inflated.gd3 = "none" THEN "chips" ELSE "count")
  <2>1. inflated = file /\ ReadFromItsStart
    BY <1>2, <1>10
  <2>2. /\ step' = IF file.gd3 = "none" THEN "chips" ELSE "count"
        /\ UNCHANGED <<file, inflated, outcome, tag, i, lengths>>
    BY <1>10, <2>1 DEF Goto
  <2>3. tag = 0 /\ i = 0 /\ lengths = [t \in Tags |-> 0]
    BY <1>1 DEF FileInv, NothingRead
  <2>4. file.gd3 \in {"none", "inside"}
    BY <1>1, <1>10, <2>1, FileFacts
  <2>5. Inflated' /\ HeaderRead' /\ NothingRead' /\ step' \in Steps
    BY <1>10, <2>1, <2>2, <2>4 DEF Inflated, ReadFromItsStart, HeaderRead, NothingRead, Steps
  <2>6. Filling' /\ Converting' /\ Converted'
    BY <2>2 DEF Filling, Converting, Converted
  <2>7. Counting'
    <3>1. i' = 0 /\ tag' = 0 /\ lengths' = [t \in Tags |-> 0] /\ file' = file /\ CharsRead' = 0
      BY <2>2, <2>3 DEF CharsRead
    <3>2. TagOf(file, 0) = 0 /\ PosOf(file, 0) = 0 /\ Chars(file) \in Nat /\ Len(file.text) \in Nat
      BY <1>1, CutsFirst, FileFacts
    <3>3. Counts(file, 0, lengths')
      BY <3>1 DEF Counts
    <3> QED
      BY <3>1, <3>2, <3>3 DEF Counting, Passes
  <2> QED
    BY <1>1, <2>2, <2>5, <2>6, <2>7, GoesOn
<1> QED
  BY <1>4, <1>6, <1>7, <1>8, <1>9, <1>10 DEF ReadHeader

(* One more character is counted. *)
LEMMA CountsOneMore ==
  ASSUME FileInv, CountChar, CharIsThere, tag < NumTags
  PROVE  /\ Counts(file, CharsRead + 1, lengths')
         /\ \A t \in Tags : t >= TagOf(file, CharsRead + 1) =>
              lengths'[t] = IF t = TagOf(file, CharsRead + 1)
                            THEN PosOf(file, CharsRead + 1) ELSE 0
<1> DEFINE n == CharsRead
           f == file
<1>1. /\ n \in Nat /\ tag = TagOf(f, n) /\ Counts(f, n, lengths)
      /\ \A t \in Tags : t >= tag => lengths[t] = IF t = tag THEN PosOf(f, n) ELSE 0
  BY DEF CountChar, At, FileInv, Counting, Passes, CharsRead
<1>2. lengths' = [lengths EXCEPT ![tag] = @ + 1] /\ file' = file
  BY DEF CountChar, CountedOnce
<1>3. tag \in Tags /\ PosOf(f, n) \in Nat /\ TagOf(f, n) \in Nat /\ Tags \subseteq Nat
  BY <1>1, CutTypes, VgmFileAssumption DEF Tags
<1>4. lengths \in [Tags -> Nat] /\ lengths[tag] = PosOf(f, n)
  BY <1>1, <1>3 DEF Counts
<1>5. /\ lengths' \in [Tags -> Nat] /\ lengths'[tag] = PosOf(f, n) + 1
      /\ \A t \in Tags : t # tag => lengths'[t] = lengths[t]
      /\ \A t \in Tags : lengths'[t] >= lengths[t]
  BY <1>2, <1>3, <1>4
<1> HIDE DEF n
<1>6. ASSUME NEW k \in 1..(n + 1)
      PROVE  /\ TagOf(f, k - 1) \in Tags
             /\ PosOf(f, k - 1) < lengths'[TagOf(f, k - 1)]
             /\ f.text[k] = NUL \/ k = n + 1 =>
                  lengths'[TagOf(f, k - 1)] = PosOf(f, k - 1) + 1
  <2>1. CASE k = n + 1
    <3>1. k - 1 = n
      BY <1>1, <2>1
    <3> QED
      BY <1>1, <1>3, <1>5, <3>1
  <2>2. CASE k # n + 1
    <3>1. k \in 1..n /\ k - 1 \in Nat /\ k \in Nat /\ k <= n
      BY <1>1, <2>2
    <3>2. /\ TagOf(f, k - 1) \in Tags
          /\ PosOf(f, k - 1) < lengths[TagOf(f, k - 1)]
          /\ f.text[k] = NUL => lengths[TagOf(f, k - 1)] = PosOf(f, k - 1) + 1
      BY <1>1, <3>1 DEF Counts
    <3>3. PosOf(f, k - 1) \in Nat
      BY <3>1, CutTypes
    <3>4. ASSUME f.text[k] = NUL PROVE TagOf(f, k - 1) # tag
      <4>1. f.text[(k - 1) + 1] = NUL /\ (k - 1) + 1 = k
        BY <3>1, <3>4
      <4>2. TagOf(f, k) = TagOf(f, k - 1) + 1
        BY <3>1, <4>1, Cuts
      <4>3. TagOf(f, k) <= tag
        <5>1. k = n \/ k < n
          BY <1>1, <3>1
        <5> QED
          BY <1>1, <1>3, <3>1, <5>1, CutsApart
      <4> QED
        BY <1>3, <3>1, <4>2, <4>3, CutTypes
    <3>5. lengths'[TagOf(f, k - 1)] >= lengths[TagOf(f, k - 1)]
          /\ lengths'[TagOf(f, k - 1)] \in Nat /\ lengths[TagOf(f, k - 1)] \in Nat
      BY <1>4, <1>5, <3>2
    <3>6. PosOf(f, k - 1) < lengths'[TagOf(f, k - 1)]
      BY <3>2, <3>3, <3>5
    <3>7. f.text[k] = NUL => lengths'[TagOf(f, k - 1)] = lengths[TagOf(f, k - 1)]
      BY <1>5, <3>2, <3>4
    <3> QED
      BY <2>2, <3>2, <3>6, <3>7
  <2> QED
    BY <2>1, <2>2
<1>7. ASSUME NEW t \in Tags, NEW j \in 1..lengths'[t]
      PROVE  \E k \in 1..(n + 1) : TagOf(f, k - 1) = t /\ PosOf(f, k - 1) = j - 1
  <2>1. CASE t = tag /\ j = PosOf(f, n) + 1
    <3>1. n + 1 \in 1..(n + 1) /\ (n + 1) - 1 = n /\ j - 1 = PosOf(f, n)
      BY <1>1, <1>3, <2>1
    <3> QED
      BY <1>1, <2>1, <3>1
  <2>2. CASE ~(t = tag /\ j = PosOf(f, n) + 1)
    <3>1. j \in 1..lengths[t]
      BY <1>3, <1>4, <1>5, <2>2
    <3>2. PICK k \in 1..n : TagOf(f, k - 1) = t /\ PosOf(f, k - 1) = j - 1
      BY <1>1, <3>1 DEF Counts
    <3>3. k \in 1..(n + 1)
      BY <1>1
    <3> QED
      BY <3>2, <3>3
  <2> QED
    BY <2>1, <2>2
<1>8. Counts(f, n + 1, lengths')
  BY <1>5, <1>6, <1>7 DEF Counts
<1>9. ASSUME NEW t \in Tags, t >= TagOf(f, n + 1)
      PROVE  lengths'[t] = IF t = TagOf(f, n + 1) THEN PosOf(f, n + 1) ELSE 0
  <2>1. CASE f.text[n + 1] = NUL
    <3>1. TagOf(f, n + 1) = tag + 1 /\ PosOf(f, n + 1) = 0
      BY <1>1, <2>1, Cuts
    <3> QED
      BY <1>1, <1>3, <1>5, <1>9, <3>1
  <2>2. CASE f.text[n + 1] # NUL
    <3>1. TagOf(f, n + 1) = tag /\ PosOf(f, n + 1) = PosOf(f, n) + 1
      BY <1>1, <2>2, Cuts
    <3> QED
      BY <1>1, <1>3, <1>5, <1>9, <3>1
  <2> QED
    BY <2>1, <2>2
<1> QED
  BY <1>8, <1>9 DEF n

(* Where the passes are after one more character. *)
LEMMA PassesOn ==
  ASSUME FileInv, Passes, i < file.gd3_length, CharsRead < Len(file.text),
         file' = file, i' = i + 2,
         tag' = IF file.text[CharsRead + 1] = NUL THEN tag + 1 ELSE tag
  PROVE  Passes' /\ CharsRead' = CharsRead + 1
<1>1. file.gd3_length \in Nat /\ CharsRead \in Nat /\ i \in Nat /\ i = 2 * CharsRead
  BY FileFacts DEF FileInv, Passes, CharsRead
<1>2. i' = 2 * (CharsRead + 1)
  BY <1>1
<1>3. CharsRead' = CharsRead + 1
  BY <1>1, <1>2 DEF CharsRead
<1>4. CharsRead + 1 <= Chars(file)
  BY <1>1 DEF Chars
<1>5. tag' = TagOf(file, CharsRead + 1)
  BY <1>1, Cuts DEF Passes
<1> QED
  BY <1>1, <1>2, <1>3, <1>4, <1>5 DEF Passes

LEMMA CountCharKeeps ==
  ASSUME FileInv, CountChar PROVE FileInv'
<1>1. /\ step = "count" /\ outcome = "none" /\ i < inflated.gd3_length
      /\ inflated = file /\ ReadFromItsStart /\ file \in Files
      /\ HeaderRead /\ file.gd3 = "inside"
  BY DEF CountChar, At, FileInv, Inflated, ReadFromItsStart, HeaderRead
<1>2. /\ Passes /\ Counts(file, CharsRead, lengths) /\ CharsRead <= Len(file.text)
      /\ CharsRead \in Nat
  BY <1>1 DEF FileInv, Counting, Passes, CharsRead
<1>3. CASE CharIsThere /\ tag < NumTags
  <2>1. /\ UNCHANGED <<file, inflated, step, outcome>> /\ i' = i + 2
        /\ tag' = IF file.text[CharsRead + 1] = NUL THEN tag + 1 ELSE tag
    BY <1>1, <1>3 DEF CountChar, Char, CharsRead
  <2>2. CharsRead < Len(file.text) /\ Len(file.text) \in Nat
    BY <1>1, <1>3, FileFacts DEF CharIsThere, CharsRead
  <2>3. Passes' /\ CharsRead' = CharsRead + 1
    BY <1>1, <1>2, <2>1, <2>2, PassesOn
  <2>4. Counting'
    BY <1>2, <1>3, <2>1, <2>2, <2>3, CountsOneMore DEF Counting, Passes
  <2> QED
    BY <1>1, <2>1, <2>4, GoesOn DEF FileInv, Inflated, ReadFromItsStart, HeaderRead, NothingRead, Filling,
       Converting, Converted
<1>4. CASE ~(CharIsThere /\ tag < NumTags)
  <2>1. Stop("panic")
    BY <1>4 DEF CountChar
  <2>2. /\ CharsRead < Chars(file) /\ Chars(file) \in Nat /\ file.gd3_length \in Nat
        /\ Len(file.text) \in Nat
    BY <1>1, <1>2, FileFacts DEF Passes, Chars
  <2>3. ~SoundText(file)
    <3>1. CASE ~CharIsThere
      BY <1>1, <1>2, <2>2, <3>1 DEF SoundText, CharIsThere, CharsRead
    <3>2. CASE ~(tag < NumTags)
      <4>1. TagOf(file, CharsRead) <= TagOf(file, Chars(file) - 1)
            /\ TagOf(file, Chars(file) - 1) \in Nat /\ TagOf(file, CharsRead) \in Nat
        <5>1. CharsRead = Chars(file) - 1 \/ CharsRead < Chars(file) - 1
          BY <1>2, <2>2
        <5>2. Chars(file) - 1 \in Nat
          BY <1>2, <2>2
        <5> QED
          BY <1>2, <5>1, <5>2, CutTypes, CutsApart
      <4>2. NumTags \in Nat /\ NumTags <= TagOf(file, Chars(file) - 1)
        BY <1>2, <3>2, <4>1, VgmFileAssumption DEF Passes
      <4> QED
        BY <4>1, <4>2 DEF SoundText, TagOf
    <3> QED
      BY <1>4, <3>1, <3>2
  <2>4. ~Sound
    BY <1>1, <2>3, SoundIs
  <2> QED
    BY <1>1, <2>1, <2>4, StopKeeps
<1> QED
  BY <1>3, <1>4

LEMMA AllocateKeeps ==
  ASSUME FileInv, Allocate PROVE FileInv'
<1>1. /\ step = "count" /\ outcome = "none" /\ i >= inflated.gd3_length
      /\ inflated = file /\ ReadFromItsStart /\ file \in Files
  BY DEF Allocate, At, FileInv, Inflated
<1>2. /\ Passes /\ Counts(file, CharsRead, lengths) /\ CharsRead <= Len(file.text)
      /\ CharsRead \in Nat
  BY <1>1 DEF FileInv, Counting, Passes, CharsRead
<1>3. CharsRead = Chars(file)
  BY <1>1, <1>2, FileFacts DEF Passes, Chars
<1>4. /\ tags' = [t \in Tags |-> [k \in 1..lengths[t] |-> Undefined]]
      /\ tag' = 0 /\ i' = 0 /\ pos' = 0 /\ step' = "fill"
      /\ UNCHANGED <<file, inflated, outcome, lengths>>
  BY DEF Allocate
<1>5. lengths \in [Tags -> Nat]
  BY <1>2 DEF Counts
<1>6. \A t \in Tags : tags'[t] \in Seq(Symbols(file)) /\ Len(tags'[t]) = lengths[t]
  <2> SUFFICES ASSUME NEW t \in Tags
               PROVE  tags'[t] \in Seq(Symbols(file)) /\ Len(tags'[t]) = lengths[t]
    OBVIOUS
  <2>1. lengths[t] \in Nat /\ tags'[t] = [k \in 1..lengths[t] |-> Undefined]
    BY <1>4, <1>5
  <2>2. Undefined \in Symbols(file)
    BY DEF Symbols
  <2> QED
    BY <2>1, <2>2
<1>7. tags' \in [Tags -> Seq(Symbols(file))]
  <2>1. tags' = [t \in Tags |-> tags'[t]]
    BY <1>4
  <2> QED
    BY <1>6, <2>1
<1>8. Filled(file, 0, lengths, tags')
  BY <1>2, <1>3, <1>6, <1>7 DEF Filled
<1>9. Filling'
  <2>1. CharsRead' = 0
    BY <1>4 DEF CharsRead
  <2>2. TagOf(file, 0) = 0 /\ PosOf(file, 0) = 0 /\ Chars(file) \in Nat
    BY <1>1, CutsFirst, FileFacts
  <2> QED
    BY <1>4, <1>8, <2>1, <2>2 DEF Filling, Passes
<1> QED
  BY <1>1, <1>4, <1>9, GoesOn DEF FileInv, Inflated, ReadFromItsStart, HeaderRead, NothingRead, Counting,
     Converting, Converted, Steps

(* What is left to fill has room, where nothing has been stored. *)
LEMMA RoomIsLeft ==
  ASSUME NEW f \in Files, NEW n \in Nat, NEW counted, NEW arrays,
         Filled(f, n, counted, arrays), n < Chars(f)
  PROVE  /\ n < Len(f.text)
         /\ TagOf(f, n) \in Tags /\ PosOf(f, n) \in Nat
         /\ PosOf(f, n) < Len(arrays[TagOf(f, n)])
<1>1. Chars(f) \in Nat /\ Len(f.text) \in Nat /\ Chars(f) <= Len(f.text)
  BY FileFacts DEF Filled
<1>2. n + 1 \in 1..Chars(f) /\ (n + 1) - 1 = n
  BY <1>1
<1>3. TagOf(f, n) \in Tags /\ PosOf(f, n) < counted[TagOf(f, n)]
  BY <1>2 DEF Filled, Counts
<1> QED
  BY <1>1, <1>3, CutTypes DEF Filled

LEMMA FillsOneMore ==
  ASSUME NEW f \in Files, NEW n \in Nat, NEW counted, NEW arrays, NEW filled,
         Filled(f, n, counted, arrays), n < Chars(f),
         filled = [arrays EXCEPT ![TagOf(f, n)][PosOf(f, n) + 1] = f.text[n + 1]]
  PROVE  Filled(f, n + 1, counted, filled)
<1> DEFINE tn == TagOf(f, n)
           pn == PosOf(f, n)
<1>1. /\ n < Len(f.text) /\ tn \in Tags /\ pn \in Nat /\ pn < Len(arrays[tn])
      /\ Len(f.text) \in Nat /\ DOMAIN f.text = 1..Len(f.text)
  BY RoomIsLeft, FileFacts
<1>2. /\ arrays \in [Tags -> Seq(Symbols(f))] /\ counted \in [Tags -> Nat]
      /\ \A t \in Tags : Len(arrays[t]) = counted[t]
  BY DEF Filled, Counts
<1>3. f.text[n + 1] \in Symbols(f)
  BY <1>1 DEF Symbols
<1> DEFINE one == [arrays[tn] EXCEPT ![pn + 1] = f.text[n + 1]]
<1>4. filled = [arrays EXCEPT ![tn] = one]
  OBVIOUS
<1>5. arrays[tn] \in Seq(Symbols(f)) /\ pn + 1 \in 1..Len(arrays[tn])
  BY <1>1, <1>2
<1> HIDE DEF tn, pn
<1>6. /\ one \in Seq(Symbols(f)) /\ Len(one) = Len(arrays[tn])
      /\ one[pn + 1] = f.text[n + 1]
      /\ \A j \in 1..Len(arrays[tn]) : j # pn + 1 => one[j] = arrays[tn][j]
  BY <1>3, <1>5
<1> HIDE DEF one
<1>7. /\ filled \in [Tags -> Seq(Symbols(f))]
      /\ filled[tn] = one /\ \A t \in Tags : t # tn => filled[t] = arrays[t]
  BY <1>1, <1>2, <1>4, <1>6
<1>8. \A t \in Tags : Len(filled[t]) = counted[t]
  BY <1>1, <1>2, <1>6, <1>7
<1>9. ASSUME NEW k \in 1..(n + 1)
      PROVE  filled[TagOf(f, k - 1)][PosOf(f, k - 1) + 1] = f.text[k]
  <2>1. CASE k = n + 1
    <3>1. k - 1 = n
      BY <2>1
    <3> QED
      BY <1>6, <1>7, <2>1, <3>1 DEF tn, pn
  <2>2. CASE k # n + 1
    <3>1. k \in 1..n /\ k - 1 \in Nat /\ k - 1 < n
      BY <2>2
    <3> DEFINE tk == TagOf(f, k - 1)
               pk == PosOf(f, k - 1)
    <3>2. arrays[tk][pk + 1] = f.text[k]
      BY <3>1 DEF Filled
    <3>3. tk \in Tags /\ pk \in Nat /\ pk < counted[tk]
      <4>1. k \in 1..Chars(f)
        BY <3>1, FileFacts
      <4> QED
        BY <3>1, <4>1, CutTypes DEF Filled, Counts
    <3>4. tk = tn => pk < pn
      BY <3>1, CutsApart DEF tn, pn
    <3> HIDE DEF tk, pk
    <3>5. CASE tk = tn
      <4>1. pk + 1 \in 1..Len(arrays[tn]) /\ pk + 1 # pn + 1
        BY <1>1, <1>2, <3>3, <3>4, <3>5
      <4>2. filled[tk][pk + 1] = f.text[k]
        BY <1>6, <1>7, <3>2, <3>5, <4>1
      <4> QED
        BY <4>2 DEF tk, pk
    <3>6. CASE tk # tn
      <4>1. filled[tk][pk + 1] = f.text[k]
        BY <1>7, <3>2, <3>3, <3>6
      <4> QED
        BY <4>1 DEF tk, pk
    <3> QED
      BY <3>5, <3>6
  <2> QED
    BY <2>1, <2>2
<1> QED
  BY <1>7, <1>8, <1>9 DEF Filled

LEMMA FillCharKeeps ==
  ASSUME FileInv, FillChar PROVE FileInv'
<1>1. /\ step = "fill" /\ outcome = "none" /\ i < inflated.gd3_length
      /\ inflated = file /\ ReadFromItsStart /\ file \in Files
  BY DEF FillChar, At, FileInv, Inflated
<1>2. /\ Passes /\ pos = PosOf(file, CharsRead) /\ Filled(file, CharsRead, lengths, tags)
      /\ CharsRead \in Nat
  BY <1>1 DEF FileInv, Filling, Passes, CharsRead
<1>3. CharsRead < Chars(file)
  BY <1>1, <1>2, FileFacts DEF Passes, Chars
<1>4. /\ CharsRead < Len(file.text) /\ TagOf(file, CharsRead) \in Tags
      /\ PosOf(file, CharsRead) < Len(tags[TagOf(file, CharsRead)])
  BY <1>1, <1>2, <1>3, RoomIsLeft
<1>5. CharIsThere /\ tag < NumTags /\ pos < Len(tags[tag]) /\ tag = TagOf(file, CharsRead)
  BY <1>1, <1>2, <1>4, VgmFileAssumption DEF CharIsThere, CharsRead, Passes, Tags
<1>6. /\ UNCHANGED <<file, inflated, step, outcome, lengths>> /\ i' = i + 2
      /\ tags' = [tags EXCEPT ![tag][pos + 1] = file.text[CharsRead + 1]]
      /\ tag' = IF file.text[CharsRead + 1] = NUL THEN tag + 1 ELSE tag
      /\ pos' = IF file.text[CharsRead + 1] = NUL THEN 0 ELSE pos + 1
  BY <1>1, <1>5 DEF FillChar, Char, CharsRead, PosOfNextTag
<1>7. Passes' /\ CharsRead' = CharsRead + 1
  BY <1>1, <1>2, <1>4, <1>6, PassesOn
<1>8. pos' = PosOf(file, CharsRead + 1)
  BY <1>2, <1>6, Cuts
<1>9. Filled(file, CharsRead + 1, lengths, tags')
  BY <1>1, <1>2, <1>3, <1>5, <1>6, FillsOneMore
<1>10. Filling'
  BY <1>6, <1>7, <1>8, <1>9 DEF Filling
<1> QED
  BY <1>1, <1>6, <1>10, GoesOn DEF FileInv, Inflated, ReadFromItsStart, HeaderRead, NothingRead, Counting,
     Converting, Converted

LEMMA FillEndsKeeps ==
  ASSUME FileInv, FillEnds PROVE FileInv'
<1>1. /\ step = "fill" /\ outcome = "none" /\ i >= inflated.gd3_length
      /\ inflated = file /\ file \in Files
  BY DEF FillEnds, At, FileInv, Inflated
<1>2. Passes /\ Filled(file, CharsRead, lengths, tags) /\ CharsRead \in Nat
  BY <1>1 DEF FileInv, Filling, Passes, CharsRead
<1>3. CharsRead = Chars(file)
  BY <1>1, <1>2, FileFacts DEF Passes, Chars
<1>4. step' = "convert" /\ UNCHANGED <<file, inflated, outcome, lengths, tags>>
  BY DEF FillEnds, Goto
<1>5. Converting'
  BY <1>2, <1>3, <1>4 DEF Converting
<1> QED
  BY <1>1, <1>4, <1>5, GoesOn DEF FileInv, Inflated, ReadFromItsStart, HeaderRead, NothingRead, Counting,
     Filling, Converted, Steps

(* A character that is not NUL and the one behind it are in one tag. *)
LEMMA Neighbours ==
  ASSUME NEW f, NEW k \in Nat \ {0}, f.text[k] # NUL
  PROVE  TagOf(f, k) = TagOf(f, k - 1) /\ PosOf(f, k) = PosOf(f, k - 1) + 1
<1>1. k - 1 \in Nat /\ (k - 1) + 1 = k
  OBVIOUS
<1> QED
  BY <1>1, Cuts

(* The tags are valid if the text is: none of its pairs is cut. *)
LEMMA PairsAreKept ==
  ASSUME NEW f \in Files, NEW counted, NEW arrays,
         Filled(f, Chars(f), counted, arrays)
  PROVE  (\A t \in Tags : IsUtf16(arrays[t])) <=> Pairs(f)
<1> DEFINE N == Chars(f)
           T(k) == TagOf(f, k - 1)
           P(k) == PosOf(f, k - 1)
<1>1. N \in Nat
  BY FileFacts
<1>2. ASSUME NEW k \in 1..N
      PROVE  /\ T(k) \in Tags /\ P(k) \in Nat /\ P(k) < Len(arrays[T(k)]) /\ P(k) <= k - 1
             /\ k = N => Len(arrays[T(k)]) = P(k) + 1
             /\ arrays[T(k)][P(k) + 1] = f.text[k]
             /\ Len(arrays[T(k)]) \in Nat
  <2>1. k - 1 \in Nat
    BY <1>1
  <2> QED
    BY <2>1, CutTypes DEF Filled, Counts
<1>3. ASSUME NEW k \in 1..N, k < N, f.text[k] # NUL
      PROVE  k + 1 \in 1..N /\ T(k + 1) = T(k) /\ P(k + 1) = P(k) + 1
  <2>1. k + 1 \in 1..N /\ k \in Nat \ {0} /\ (k + 1) - 1 = k
    BY <1>1, <1>3
  <2> QED
    BY <1>3, <2>1, Neighbours
<1>4. ASSUME NEW k \in 1..N, k > 1, f.text[k - 1] # NUL
      PROVE  k - 1 \in 1..N /\ T(k - 1) = T(k) /\ P(k) = P(k - 1) + 1
  <2>1. k - 1 \in 1..N /\ k - 1 \in Nat \ {0}
    BY <1>1, <1>4
  <2> QED
    BY <1>4, <2>1, Neighbours
<1>5. ASSUME NEW k \in 1..N, k > 1, f.text[k - 1] = NUL PROVE P(k) = 0
  <2>1. k - 2 \in Nat /\ (k - 2) + 1 = k - 1
    BY <1>1, <1>5
  <2> QED
    BY <1>5, <2>1, Cuts
<1>6. ASSUME NEW t \in Tags, NEW j \in 1..Len(arrays[t])
      PROVE  \E k \in 1..N : T(k) = t /\ P(k) = j - 1
  BY <1>6 DEF Filled, Counts
<1>7. NUL # "high" /\ NUL # "low"
  BY DEF NUL
<1> HIDE DEF N, T, P
<1>8. ASSUME \A t \in Tags : IsUtf16(arrays[t]), NEW k \in 1..N
      PROVE  /\ f.text[k] = "high" => k < N /\ f.text[k + 1] = "low"
             /\ f.text[k] = "low" => k > 1 /\ f.text[k - 1] = "high"
  <2> DEFINE j == P(k) + 1
             array == arrays[T(k)]
  <2>1. /\ T(k) \in Tags /\ P(k) \in Nat /\ j \in 1..Len(array) /\ P(k) <= k - 1
        /\ k = N => Len(array) = j
        /\ array[j] = f.text[k]
    BY <1>2
  <2>2. /\ array[j] = "high" => j < Len(array) /\ array[j + 1] = "low"
        /\ array[j] = "low" => j > 1 /\ array[j - 1] = "high"
    BY <1>8, <2>1 DEF IsUtf16
  <2>3. ASSUME f.text[k] = "high" PROVE k < N /\ f.text[k + 1] = "low"
    <3>1. k < N /\ array[j + 1] = "low"
      BY <1>1, <1>2, <2>1, <2>2, <2>3
    <3>2. arrays[T(k + 1)][P(k + 1) + 1] = f.text[k + 1] /\ T(k + 1) = T(k) /\ P(k + 1) = j
      BY <1>2, <1>3, <1>7, <2>3, <3>1
    <3> QED
      BY <3>1, <3>2
  <2>4. ASSUME f.text[k] = "low" PROVE k > 1 /\ f.text[k - 1] = "high"
    <3>1. j > 1 /\ array[j - 1] = "high" /\ k > 1
      BY <1>1, <2>1, <2>2, <2>4
    <3>2. f.text[k - 1] # NUL
      BY <1>5, <2>1, <3>1
    <3>3. /\ arrays[T(k - 1)][P(k - 1) + 1] = f.text[k - 1]
          /\ T(k - 1) = T(k) /\ P(k - 1) + 1 = P(k)
      BY <1>2, <1>4, <3>1, <3>2
    <3>4. j - 1 = P(k)
      BY <2>1
    <3> QED
      BY <3>1, <3>3, <3>4
  <2> QED
    BY <2>3, <2>4
<1>9. ASSUME Pairs(f), NEW t \in Tags, NEW j \in 1..Len(arrays[t])
      PROVE  /\ arrays[t][j] = "high" => j < Len(arrays[t]) /\ arrays[t][j + 1] = "low"
             /\ arrays[t][j] = "low" => j > 1 /\ arrays[t][j - 1] = "high"
  <2>1. PICK k \in 1..N : T(k) = t /\ P(k) = j - 1
    BY <1>6
  <2>2. P(k) + 1 = j /\ arrays[t][j] = f.text[k] /\ Len(arrays[t]) \in Nat
    BY <1>2, <2>1
  <2>3. /\ f.text[k] = "high" => k < N /\ f.text[k + 1] = "low"
        /\ f.text[k] = "low" => k > 1 /\ f.text[k - 1] = "high"
    BY <1>9 DEF Pairs, N
  <2>4. ASSUME f.text[k] = "high" PROVE j < Len(arrays[t]) /\ arrays[t][j + 1] = "low"
    <3>1. k + 1 \in 1..N /\ T(k + 1) = t /\ P(k + 1) = j
      BY <1>3, <1>7, <2>1, <2>2, <2>3, <2>4
    <3> QED
      BY <1>2, <2>3, <2>4, <3>1
  <2>5. ASSUME f.text[k] = "low" PROVE j > 1 /\ arrays[t][j - 1] = "high"
    <3>1. /\ k - 1 \in 1..N /\ T(k - 1) = t /\ P(k) = P(k - 1) + 1
          /\ P(k - 1) \in Nat /\ arrays[t][P(k - 1) + 1] = f.text[k - 1]
      BY <1>2, <1>4, <1>7, <2>1, <2>3, <2>5
    <3> QED
      BY <2>1, <2>2, <2>3, <2>5, <3>1
  <2> QED
    BY <2>2, <2>4, <2>5
<1>10. (\A t \in Tags : IsUtf16(arrays[t])) => Pairs(f)
  BY <1>8 DEF Pairs, N
<1>11. Pairs(f) => \A t \in Tags : IsUtf16(arrays[t])
  BY <1>9 DEF IsUtf16
<1> QED
  BY <1>10, <1>11

LEMMA TagsAreNamed ==
  ASSUME NEW f \in Files, NEW counted, Counts(f, Chars(f), counted)
  PROVE  Cardinality(NulsOf(f, Chars(f) - 1)) < NumTags
<1>1. Chars(f) \in Nat /\ NumTags \in Nat \ {0}
  BY FileFacts, VgmFileAssumption
<1>2. CASE Chars(f) = 0
  <2>1. NulsOf(f, Chars(f) - 1) = {}
    BY <1>2 DEF NulsOf
  <2> QED
    BY <1>1, <2>1, FS_EmptySet
<1>3. CASE Chars(f) # 0
  <2>1. Chars(f) \in 1..Chars(f)
    BY <1>1, <1>3
  <2>2. TagOf(f, Chars(f) - 1) \in Tags
    BY <2>1 DEF Counts
  <2> QED
    BY <1>1, <2>2 DEF TagOf, Tags
<1> QED
  BY <1>2, <1>3

LEMMA ConvertKeeps ==
  ASSUME FileInv, Convert PROVE FileInv'
<1>1. /\ step = "convert" /\ outcome = "none" /\ file \in Files
      /\ inflated = file /\ ReadFromItsStart
      /\ file.matches /\ file.version >= 336 /\ file.gd3 = "inside" /\ file.gd3_matches
  BY DEF Convert, At, FileInv, Inflated, ReadFromItsStart, HeaderRead
<1>2. Filled(file, Chars(file), lengths, tags)
  BY <1>1 DEF FileInv, Converting
<1>3. (\A t \in Tags : IsUtf16(tags[t])) <=> Pairs(file)
  BY <1>1, <1>2, PairsAreKept
<1>4. CASE Pairs(file)
  <2>1. step' = "chips" /\ UNCHANGED <<file, inflated, outcome>>
    BY <1>3, <1>4 DEF Convert, Goto
  <2>2. SoundText(file)
    BY <1>1, <1>2, <1>4, TagsAreNamed DEF SoundText, Filled
  <2> QED
    BY <1>1, <2>1, <2>2, GoesOn DEF FileInv, Inflated, ReadFromItsStart, HeaderRead, NothingRead, Counting,
       Filling, Converting, Converted, Steps
<1>5. CASE ~Pairs(file)
  <2>1. Stop("InvalidUtf16")
    BY <1>3, <1>5 DEF Convert
  <2>2. ~Sound
    BY <1>1, <1>5, SoundIs DEF SoundText
  <2> QED
    BY <1>1, <2>1, <2>2, StopKeeps
<1> QED
  BY <1>4, <1>5

LEMMA ReadChipsKeeps ==
  ASSUME FileInv, ReadChips PROVE FileInv'
<1>1. /\ step = "chips" /\ outcome = "none" /\ file \in Files
      /\ inflated = file /\ ReadFromItsStart
      /\ file.matches /\ file.version >= 336
      /\ \/ file.gd3 = "none"
         \/ file.gd3 = "inside" /\ file.gd3_matches
      /\ file.gd3 = "none" \/ SoundText(file)
  BY DEF ReadChips, At, FileInv, Inflated, ReadFromItsStart, HeaderRead, Converted
<1>2. HeaderEnd(file.version) \in Nat /\ file.size \in Nat
  BY <1>1, FileFacts, LastHeaderField
<1>3. CASE file.size < HeaderEnd(file.version)
  <2>1. Stop("panic") /\ ~Sound
    BY <1>1, <1>2, <1>3 DEF ReadChips, Sound
  <2> QED
    BY <1>1, <2>1, StopKeeps
<1>4. CASE ~(file.size < HeaderEnd(file.version))
  <2>1. outcome' = "parsed" /\ UNCHANGED <<file, inflated, step, tag, i, lengths>>
    BY <1>1, <1>4 DEF ReadChips
  <2>2. Sound
    <3>1. file.gd3 = "none" \/ (file.gd3 = "inside" /\ file.gd3_matches /\ SoundText(file))
      BY <1>1
    <3> QED
      BY <1>1, <1>2, <1>4, <3>1, SoundIs
  <2>3. Sound' /\ ReadFromItsStart'
    BY <1>1, <2>1, <2>2 DEF Sound, ReadFromItsStart, NumChars, Nuls
  <2>4. SecondPassFits' /\ ParsedWhenSound'
    BY <1>1, <2>1, <2>3 DEF SecondPassFits, ParsedWhenSound
  <2>5. Inflated' /\ HeaderRead' /\ NothingRead'
    BY <2>1 DEF FileInv, Inflated, ReadFromItsStart, HeaderRead, NothingRead
  <2>6. Counting' /\ Filling' /\ Converting' /\ Converted'
    BY <1>1, <2>1 DEF FileInv, Counting, Filling, Converting, Converted
  <2> QED
    BY <1>1, <2>1, <2>4, <2>5, <2>6 DEF FileInv
<1> QED
  BY <1>3, <1>4

LEMMA FileInvHolds ==
  FileSpec => []FileInv
<1>1. ASSUME FileInv, [FileNext]_file_vars PROVE FileInv'
  <2>1. CASE UNCHANGED file_vars
    <3>1. UNCHANGED <<file, inflated, step, outcome, tag, i, pos, lengths, tags>>
      BY <2>1 DEF file_vars
    <3>2. file' \in Files /\ step' \in Steps /\ Inflated' /\ HeaderRead' /\ NothingRead'
      BY <1>1, <3>1 DEF FileInv, Inflated, ReadFromItsStart, HeaderRead, NothingRead
    <3>3. Counting' /\ Filling' /\ Converting' /\ Converted'
      BY <1>1, <3>1 DEF FileInv, Counting, Filling, Converting, Converted, Passes, CharsRead
    <3>4. (Sound' <=> Sound) /\ (ReadFromItsStart' <=> ReadFromItsStart)
      BY <3>1 DEF Sound, ReadFromItsStart, NumChars, Nuls
    <3>5. SecondPassFits' /\ ParsedWhenSound'
      BY <1>1, <3>1, <3>4 DEF FileInv, SecondPassFits, ParsedWhenSound
    <3> QED
      BY <3>2, <3>3, <3>5 DEF FileInv
  <2> QED
    BY <1>1, <2>1, OpenKeeps, LookKeeps, ReadHeaderKeeps, CountCharKeeps, AllocateKeeps,
       FillCharKeeps, FillEndsKeeps, ConvertKeeps, ReadChipsKeeps DEF FileNext
<1> QED
  BY <1>1, FileBegins, PTL DEF FileSpec

(***************************************************************************)
(* The arrays that parseGd3 allocates for the tags have room for every     *)
(* character of the second pass, whatever the text and its length.         *)
(***************************************************************************)
THEOREM TagsFit == FileSpec => []SecondPassFits
<1>1. FileInv => SecondPassFits
  BY DEF FileInv
<1> QED
  BY <1>1, FileInvHolds, PTL

(***************************************************************************)
(* And behind that pass they hold the text, cut behind every NUL: a        *)
(* character's place in the arrays, TagOf and PosOf, is the one that the   *)
(* property counts from the NULs before it.                                *)
(***************************************************************************)
THEOREM TextIsCut == FileSpec => []TagsAreTheText
<1>1. ASSUME FileInv PROVE TagsAreTheText
  <2>1. SUFFICES ASSUME step = "convert", NEW k \in 1..NumChars
                 PROVE  /\ tags[Cardinality(Nuls(k - 1))][k - LastOf(Nuls(k - 1))] = file.text[k]
                        /\ file.text[k] = NUL \/ k = NumChars =>
                             Len(tags[Cardinality(Nuls(k - 1))]) = k - LastOf(Nuls(k - 1))
    BY DEF TagsAreTheText, LastOf
  <2>2. Filled(file, Chars(file), lengths, tags) /\ file \in Files
    BY <1>1, <2>1 DEF FileInv, Converting
  <2>3. NumChars = Chars(file) /\ Nuls(k - 1) = NulsOf(file, k - 1)
    BY DEF NumChars, Chars, Nuls, NulsOf
  <2>4. k - 1 \in Nat /\ k \in 1..Chars(file)
    BY <2>2, <2>3, FileFacts
  <2>5. LastOf(Nuls(k - 1)) \in 0..(k - 1)
    BY <2>3, <2>4, LastNulRange DEF LastNul
  <2>6. PosOf(file, k - 1) + 1 = k - LastOf(Nuls(k - 1))
    BY <2>3, <2>4, <2>5 DEF PosOf, LastNul
  <2>7. /\ tags[TagOf(file, k - 1)][PosOf(file, k - 1) + 1] = file.text[k]
        /\ file.text[k] = NUL \/ k = Chars(file) =>
             Len(tags[TagOf(file, k - 1)]) = PosOf(file, k - 1) + 1
    BY <2>2, <2>4 DEF Filled, Counts
  <2> QED
    BY <2>3, <2>6, <2>7 DEF TagOf
<1> QED
  BY <1>1, FileInvHolds, PTL

(***************************************************************************)
(* A file that is opened is parsed if and only if what it holds is sound   *)
(* and begins where openAndInflate reads from: with the stream, or with    *)
(* the third byte of a file that is none.  The tags are valid text if and  *)
(* only if the whole text is, because what cuts it is no part of a pair.   *)
(***************************************************************************)
THEOREM SoundFilesParse == FileSpec => []ParsedWhenSound
<1>1. FileInv => ParsedWhenSound
  BY DEF FileInv
<1> QED
  BY <1>1, FileInvHolds, PTL
=============================================================================
