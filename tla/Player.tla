------------------------------- MODULE Player -------------------------------
(***************************************************************************)
(* src/player.zig: the VGM player.                                         *)
(*                                                                         *)
(* Two threads.  The main thread (start) opens the audio stream, loads the *)
(* first song, starts the stream and then only waits for events.  The      *)
(* audio thread of libsoundio calls writeCallback whenever the device has  *)
(* room; the callback interprets the commands of the song, renders frames  *)
(* and, at the end of a song, loads the next one or exits the process.     *)
(*                                                                         *)
(* A file is a record: data maps the positions after the header to bytes,  *)
(* vgm_data_offset and loop_offset are the header's relative offsets,      *)
(* chips is the set of chips with a clock > 0, dual says that some         *)
(* multiplier is > 1, opened and parsed say whether openAndInflate and     *)
(* VGM.init succeed, total_samples and loop_samples are the header's       *)
(* sample counts (parsed, and never used by the player), marks is the set  *)
(* of positions at which the writer of the file put a command and times    *)
(* the number of samples that come before each (in no way known to the     *)
(* player).                                                                *)
(***************************************************************************)
EXTENDS Integers, Sequences

CONSTANTS
  FileLists,     \* the sequences of files the command line may name
  LoopCount,     \* -loop
  DeviceRates,   \* sample rates the opened stream may have
  DeviceLayouts, \* channel counts the opened stream may have
  MaxFrames,     \* bound on the frames one callback is asked for
  WriteErrors    \* errors begin_write and end_write may return

\* src/bitview.zig: little-endian reads from an array of bytes, a function from
\* positions to bytes.  A read outside its domain is the out-of-bounds access of
\* the code, so callers test Readable first.
Byte == 0..255

\* The n bytes that start at position pos all exist.
Readable(bytes, pos, n) == pos..(pos + n - 1) \subseteq DOMAIN bytes

Read16(bytes, pos) == bytes[pos] + 256 * bytes[pos + 1]

Read32(bytes, pos) == Read16(bytes, pos) + 65536 * Read16(bytes, pos + 2)

Chips == {"psg", "scc", "opm", "pcm"}

IsFile(f) ==
  /\ f = [opened |-> f.opened, parsed |-> f.parsed, chips |-> f.chips,
          dual |-> f.dual, data |-> f.data, marks |-> f.marks,
          vgm_data_offset |-> f.vgm_data_offset, loop_offset |-> f.loop_offset,
          total_samples |-> f.total_samples, loop_samples |-> f.loop_samples,
          times |-> f.times]
  /\ {f.opened, f.parsed, f.dual} \subseteq BOOLEAN
  /\ f.chips \subseteq Chips
  /\ DOMAIN f.data \subseteq Nat
  /\ \A p \in DOMAIN f.data : f.data[p] \in Byte
  /\ f.marks \subseteq DOMAIN f.data
  /\ f.times \in [f.marks -> Nat]
  /\ {f.vgm_data_offset, f.loop_offset, f.total_samples, f.loop_samples}
        \subseteq Nat

ASSUME PlayerAssumption ==
  /\ \A list \in FileLists :
       /\ list = [i \in 1..Len(list) |-> list[i]]
       /\ Len(list) \in Nat
       /\ \A i \in 1..Len(list) : IsFile(list[i])
  /\ LoopCount \in Nat
  /\ DeviceRates \subseteq Nat
  /\ DeviceLayouts \subseteq Nat
  /\ MaxFrames \in Nat \ {0}

MASTER_RATE == 44100

\* Where the header's relative offsets count from.
VgmDataBase == 52
LoopBaseOfData == VgmDataBase  \* mutant: the loop offset taken from there too
LoopBase == 28

VARIABLES
  main,          \* where the main thread is in start()
  sample_rate,   \* outstream.sample_rate, 0 until the stream is open
  status,        \* "running", "exited", "panicked" or "error" (start returned)
  files,         \* state.files: the files to play
  vgm,           \* index of the parsed file, 0 when null
  ic,            \* what the chips were told since init: writes with their time
  current_loop,  \* state.*
  vgm_position,
  remaining_wait,
  files_index,
  cb,            \* where the audio thread is in writeCallback
  frames_left,   \* locals of writeCallback
  frame_count,
  frame,
  played         \* history: frames rendered of the current song

song_vars == <<files, vgm, ic, current_loop, vgm_position, remaining_wait,
               files_index, played>>
cb_vars == <<cb, frames_left, frame_count, frame>>
vars == <<main, sample_rate, status, song_vars, cb_vars>>

Init ==
  /\ main = "open" /\ sample_rate = 0 /\ status = "running"
  /\ files \in FileLists
  /\ vgm = 0 /\ ic = <<>> /\ current_loop = 0 /\ vgm_position = 0
  /\ remaining_wait = 0 /\ files_index = 0 /\ played = 0
  /\ cb = "idle" /\ frames_left = 0 /\ frame_count = 0 /\ frame = 0

Running == status = "running"

-----------------------------------------------------------------------------
(* nextVGM *)

NoMoreFiles == files_index = Len(files)

NextFile == files[files_index + 1]

Loadable(f) == f.opened /\ f.parsed /\ f.chips # {} /\ ~f.dual

Exit ==
  /\ vgm' = 0
  /\ status' = "exited"
  /\ UNCHANGED <<files, ic, current_loop, vgm_position, remaining_wait,
                 files_index, played>>

\* Mutant: the chips keep what the last song left in them.
PlayKeepingChips ==
  /\ vgm' = files_index + 1
  /\ current_loop' = 0 /\ remaining_wait' = 0 /\ played' = 0
  /\ vgm_position' = VgmDataBase + NextFile.vgm_data_offset
  /\ files_index' = files_index + 1
  /\ UNCHANGED <<files, status, ic>>

Play ==
  /\ vgm' = files_index + 1
  /\ ic' = <<>>
  /\ current_loop' = 0
  /\ vgm_position' = VgmDataBase + NextFile.vgm_data_offset
  /\ remaining_wait' = 0
  /\ files_index' = files_index + 1
  /\ played' = 0
  /\ UNCHANGED <<files, status>>

Panic ==
  /\ status' = "panicked"
  /\ UNCHANGED song_vars

NextVGM ==
  \/ NoMoreFiles /\ Exit
  \/ ~NoMoreFiles /\ Loadable(NextFile) /\ Play
  \/ ~NoMoreFiles /\ ~Loadable(NextFile) /\ Panic

-----------------------------------------------------------------------------
(* start: the main thread *)

\* A try or an orelse of start: it returns the error.
GiveUp ==
  /\ status' = "error"
  /\ UNCHANGED <<main, song_vars, cb_vars>>

\* No connection, no device, no stream, or a stream that does not open; else the
\* checks on what was opened.
OpenStream ==
  /\ Running /\ main = "open"
  /\ \/ GiveUp /\ UNCHANGED sample_rate
     \/ \E rate \in DeviceRates, channels \in DeviceLayouts :
          /\ sample_rate' = rate
          /\ IF channels # 2 \/ rate < MASTER_RATE
             THEN GiveUp
             ELSE /\ main' = "load"
                  /\ UNCHANGED <<status, song_vars, cb_vars>>

LoadFirst ==
  /\ Running /\ main = "load"
  /\ NextVGM
  /\ main' = "start"
  /\ UNCHANGED <<sample_rate, cb_vars>>

\* From here on libsoundio may call writeCallback on its own thread.
StartStream ==
  /\ Running /\ main = "start"
  /\ \/ GiveUp
     \/ main' = "wait" /\ UNCHANGED <<status, song_vars, cb_vars>>
  /\ UNCHANGED sample_rate

-----------------------------------------------------------------------------
(* writeCallback: the audio thread *)

EnterCallback ==
  /\ Running /\ main = "wait" /\ cb = "idle"
  /\ \E frame_count_max \in 1..MaxFrames : frames_left' = frame_count_max
  /\ cb' = "begin"
  /\ UNCHANGED <<main, sample_rate, status, song_vars, frame_count, frame>>

\* Mutant: asks for the whole budget of the callback again.
BeginWriteAsksForAll ==
  /\ Running /\ cb = "begin"
  /\ \E granted \in 0..MaxFrames :
       /\ frame_count' = granted
       /\ cb' = IF granted = 0 THEN "idle" ELSE "frames"
  /\ frame' = 0
  /\ UNCHANGED <<main, sample_rate, status, song_vars, frames_left>>

\* begin_write grants at most the frames asked for; none ends the callback.
BeginWrite ==
  /\ Running /\ cb = "begin"
  /\ \E granted \in 0..frames_left :
       /\ frame_count' = granted
       /\ cb' = IF granted = 0 THEN "idle" ELSE "frames"
  /\ frame' = 0
  /\ UNCHANGED <<main, sample_rate, status, song_vars, frames_left>>

EndWrite ==
  /\ Running /\ cb = "frames" /\ frame = frame_count
  /\ frames_left' = frames_left - frame_count
  /\ cb' = IF frames_left' > 0 THEN "begin" ELSE "idle"
  /\ UNCHANGED <<main, sample_rate, status, song_vars, frame_count, frame>>

\* Any error of begin_write or end_write is a panic.
WriteFails ==
  /\ Running
  /\ cb = "begin" \/ (cb = "frames" /\ frame = frame_count)
  /\ WriteErrors # {}
  /\ Panic
  /\ UNCHANGED <<main, sample_rate, cb_vars>>

\* One sample: the chips advance by one step and the frame is stored.
RenderFrame ==
  /\ Running /\ cb = "frames" /\ frame < frame_count
  /\ remaining_wait > 0
  /\ remaining_wait' = remaining_wait - 1
  /\ frame' = frame + 1
  /\ played' = played + 1
  /\ UNCHANGED <<main, sample_rate, status, files, vgm, ic, current_loop,
                 vgm_position, files_index, cb, frames_left, frame_count>>

-----------------------------------------------------------------------------
(* nextStep: one command, executed when no wait remains *)

PSG_WRITE == 160   \* 0xA0
SCC_WRITE == 210   \* 0xD2
OPM_WRITE == 84    \* 0x54
PCM_WRITE == 183   \* 0xB7
PCM_LOAD  == 103   \* 0x67
WAIT_N    == 97    \* 0x61
WAIT_60TH == 98    \* 0x62
WAIT_50TH == 99    \* 0x63
END_DATA  == 102   \* 0x66
SHORT_WAITS == 112..127   \* 0x70..0x7F

song == files[vgm]
Arg(i) == song.data[vgm_position + i]

\* The bytes nextStep reads for an opcode, the opcode included.
BytesRead(op) ==
  CASE op \in {PSG_WRITE, OPM_WRITE, PCM_WRITE, WAIT_N} -> 3
    [] op = SCC_WRITE -> 4
    [] op = PCM_LOAD -> 6
    [] OTHER -> 1

InBounds ==
  /\ vgm_position \in DOMAIN song.data
  /\ Readable(song.data, vgm_position, BytesRead(Arg(0)))

Fetching ==
  /\ Running /\ cb = "frames" /\ frame < frame_count
  /\ remaining_wait = 0
  /\ UNCHANGED <<main, sample_rate, cb_vars>>

Fetch(ops) == Fetching /\ InBounds /\ Arg(0) \in ops

\* position and wait after a command of the given length
Advance(length, wait) ==
  /\ vgm_position' = vgm_position + length
  /\ remaining_wait' = wait
  /\ UNCHANGED <<status, files, vgm, current_loop, files_index, played>>

Write(chip, args) == [chip |-> chip, args |-> args]

Stamped(writes) ==
  [w \in DOMAIN writes |-> [write |-> writes[w], time |-> played]]

\* A write that ic.psg takes: its array has fourteen registers.
PsgTakes(register) == register \in 0..13

WritePsg ==
  /\ Fetch({PSG_WRITE})
  /\ PsgTakes(Arg(1))
  /\ ic' = ic \o Stamped(<<Write("psg", <<Arg(1), Arg(2)>>)>>)
  /\ Advance(3, 0)

\* A write that ic.scc takes: it addresses one of the five voices, and what
\* goes into a waveform fits an i8.
SccTakes(port, register, data) ==
  \/ port \in {0, 4} /\ register \div 32 < 5 /\ data < 128
  \/ port = 1 /\ register \div 2 < 5
  \/ port = 2 /\ register % 8 < 5
  \/ port \in {3, 5}

\* Mutant: forgets that this command has a port byte.
WriteSccShort ==
  /\ Fetch({SCC_WRITE})
  /\ SccTakes(Arg(1), Arg(2), Arg(3))
  /\ ic' = ic \o Stamped(<<Write("scc", <<Arg(1), Arg(2), Arg(3)>>)>>)
  /\ Advance(3, 0)

WriteScc ==
  /\ Fetch({SCC_WRITE})
  /\ SccTakes(Arg(1), Arg(2), Arg(3))
  /\ ic' = ic \o Stamped(<<Write("scc", <<Arg(1), Arg(2), Arg(3)>>)>>)
  /\ Advance(4, 0)

\* An index past the end, a cast that loses a value or an unknown port.
WritePanics ==
  /\ \/ Fetch({PSG_WRITE}) /\ ~PsgTakes(Arg(1))
     \/ Fetch({SCC_WRITE}) /\ ~SccTakes(Arg(1), Arg(2), Arg(3))
  /\ Panic

\* The address latch, then the data.  The chip, like pcm, takes anything.
WriteOpm ==
  /\ Fetch({OPM_WRITE})
  /\ ic' = ic \o Stamped(<<Write("opm", <<0, Arg(1)>>),
                      Write("opm", <<1, Arg(2)>>)>>)
  /\ Advance(3, 0)

WritePcm ==
  /\ Fetch({PCM_WRITE})
  /\ ic' = ic \o Stamped(<<Write("pcm", <<Arg(1), Arg(2)>>)>>)
  /\ Advance(3, 0)

LoadPcmData ==
  /\ Fetch({PCM_LOAD})
  /\ Advance(6 + Read32(song.data, vgm_position + 2), 0)
  /\ UNCHANGED ic

WaitSamples ==
  /\ Fetch({WAIT_N})
  /\ Advance(3, Read16(song.data, vgm_position + 1))
  /\ UNCHANGED ic

Wait60th ==
  /\ Fetch({WAIT_60TH})
  /\ Advance(1, 735)
  /\ UNCHANGED ic

Wait50th ==
  /\ Fetch({WAIT_50TH})
  /\ Advance(1, 882)
  /\ UNCHANGED ic

\* Mutant: 0x70 waits for no sample instead of one.
WaitShortFromZero ==
  /\ Fetch(SHORT_WAITS)
  /\ Advance(1, Arg(0) % 16)
  /\ UNCHANGED ic

WaitShort ==
  /\ Fetch(SHORT_WAITS)
  /\ Advance(1, (Arg(0) % 16) + 1)
  /\ UNCHANGED ic

\* Mutant: one repetition too many.
LoopsOnceMore ==
  /\ song.loop_offset > 0
  /\ LoopCount > 0
  /\ current_loop <= LoopCount

Loops ==
  /\ song.loop_offset > 0
  /\ LoopCount > 0
  /\ current_loop < LoopCount

\* Mutant: the repetitions are not counted.
LoopBackUncounted ==
  /\ Fetch({END_DATA})
  /\ Loops
  /\ vgm_position' = song.loop_offset + LoopBase
  /\ UNCHANGED <<status, files, vgm, ic, current_loop, remaining_wait,
                 files_index, played>>

LoopBack ==
  /\ Fetch({END_DATA})
  /\ Loops
  /\ vgm_position' = song.loop_offset + LoopBase
  /\ current_loop' = current_loop + 1
  /\ UNCHANGED <<status, files, vgm, ic, remaining_wait, files_index, played>>

EndSong ==
  /\ Fetch({END_DATA})
  /\ ~Loops
  /\ NextVGM

Known == {PSG_WRITE, SCC_WRITE, OPM_WRITE, PCM_WRITE, PCM_LOAD, WAIT_N,
          WAIT_60TH, WAIT_50TH, END_DATA} \cup SHORT_WAITS

\* Mutant: an unknown byte is looked at again and again.
SkipByteStays ==
  /\ Fetch(Byte \ Known)
  /\ Advance(0, 0)
  /\ UNCHANGED ic

SkipByte ==
  /\ Fetch(Byte \ Known)
  /\ Advance(1, 0)
  /\ UNCHANGED ic

\* The index of an opcode or of an operand is past the end of the array, or
\* the addition of a block's size to the position overflowed a u32 just before:
\* a panic in the builds that check (build.zig's default mode does).
ReadPastEnd ==
  /\ Fetching
  /\ ~InBounds
  /\ Panic

NextStep ==
  \/ WritePsg \/ WriteScc \/ WriteOpm \/ WritePcm \/ WritePanics
  \/ LoadPcmData
  \/ WaitSamples \/ Wait60th \/ Wait50th \/ WaitShort
  \/ LoopBack \/ EndSong
  \/ SkipByte \/ ReadPastEnd

-----------------------------------------------------------------------------
Stopped == ~Running /\ UNCHANGED vars

AudioThread ==
  \/ EnterCallback \/ BeginWrite \/ EndWrite \/ WriteFails
  \/ RenderFrame \/ NextStep

MainThread == OpenStream \/ LoadFirst \/ StartStream

Next == MainThread \/ AudioThread \/ Stopped

Spec == Init /\ [][Next]_vars

(***************************************************************************)
(* Fairness: the main thread and the audio thread run, libsoundio keeps    *)
(* calling the callback, and a callback that keeps asking for room is      *)
(* eventually granted some, because the device consumes what it was given. *)
(***************************************************************************)
FairSpec ==
  /\ Spec
  /\ WF_vars(MainThread)
  /\ WF_vars(AudioThread)
  /\ SF_vars(BeginWrite /\ frame_count' > 0)

-----------------------------------------------------------------------------
(***************************************************************************)
(* Properties: what the player must do, against the VGM format of          *)
(* src/vgmspec171.txt.  The encoding of that document is used from here on *)
(* only, on the side of the properties: what is above has the code's own.  *)
(***************************************************************************)

(* The format: how many operand bytes follow an opcode.                    *)
Operands(op) ==
  CASE op \in 48..63 \cup {79, 80, 148} -> 1
    [] op \in 64..78 \cup 81..95 \cup 160..191 \cup {97} -> 2
    [] op \in 192..223 \cup {100} -> 3
    [] op \in 224..255 \cup {144, 145, 149} -> 4
    [] op = 146 -> 5
    [] op = 147 -> 10
    [] op = 104 -> 11
    [] OTHER -> 0

\* 0x67 0x66 tt ss ss ss ss (data)
BlockLength(f, p) == 7 + Read32(f.data, p + 3)

CommandLength(f, p) ==
  IF f.data[p] = PCM_LOAD THEN BlockLength(f, p) ELSE 1 + Operands(f.data[p])

SamplesOf(f, p) ==
  LET op == f.data[p]
  IN  CASE op = WAIT_N -> Read16(f.data, p + 1)
        [] op = WAIT_60TH -> 735
        [] op = WAIT_50TH -> 882
        [] op \in SHORT_WAITS -> op - 111
        [] op \in 128..143 -> op - 128
        [] OTHER -> 0

WritesOf(f, p) ==
  LET op == f.data[p]
  IN  CASE op = PSG_WRITE ->
             <<Write("psg", <<f.data[p + 1], f.data[p + 2]>>)>>
        [] op = SCC_WRITE ->
             <<Write("scc", <<f.data[p + 1], f.data[p + 2], f.data[p + 3]>>)>>
        [] op = OPM_WRITE ->
             <<Write("opm", <<0, f.data[p + 1]>>),
               Write("opm", <<1, f.data[p + 2]>>)>>
        [] op = PCM_WRITE ->
             <<Write("pcm", <<f.data[p + 1], f.data[p + 2]>>)>>
        [] OTHER -> <<>>

CommandAt(f, p) ==
  [kind   |-> IF f.data[p] = END_DATA THEN "end" ELSE "step",
   next   |-> p + CommandLength(f, p),
   wait   |-> SamplesOf(f, p),
   writes |-> WritesOf(f, p)]

\* Header fields 0x34 and 0x1C hold offsets relative to themselves.
FirstCommand(f) == 52 + f.vgm_data_offset
LoopCommand(f) == IF f.loop_offset > 0 THEN 28 + f.loop_offset ELSE 0

\* The song that the writer of file f meant.
SongOf(f) ==
  [cmd   |-> [p \in f.marks |-> CommandAt(f, p)],
   first |-> FirstCommand(f),
   loop  |-> LoopCommand(f)]

PlayList(list) == [i \in 1..Len(list) |-> SongOf(list[i])]

(* The commands a song for this player is made of: the four chips' writes, *)
(* the waits, the end, and YM2612 writes without a wait (0x80).            *)
Playable == {PSG_WRITE, SCC_WRITE, OPM_WRITE, PCM_WRITE, WAIT_N, WAIT_60TH,
             WAIT_50TH, END_DATA, 128} \cup SHORT_WAITS

WellFormed(f) ==
  /\ FirstCommand(f) \in f.marks
  /\ f.loop_offset > 0 => LoopCommand(f) \in f.marks
  /\ \A p \in f.marks :
       /\ f.data[p] \in Playable
       /\ \A i \in 1..Operands(f.data[p]) : p + i \in DOMAIN f.data
       /\ f.data[p] # END_DATA => p + CommandLength(f, p) \in f.marks

\* Under which playback is faithful.  Files may still fail to load, and writes to
\* the audio stream may fail.
AllWellFormed == \A list \in FileLists : \A i \in 1..Len(list) : WellFormed(list[i])

(* The header's fields 0x18 and 0x20: the sum of all wait values, and of   *)
(* those from the loop's first command to the end.                         *)
Timed(f) ==
  /\ f.times[FirstCommand(f)] = 0
  /\ f.loop_offset > 0 => f.times[LoopCommand(f)] + f.loop_samples = f.total_samples
  /\ \A p \in f.marks :
       IF f.data[p] = END_DATA THEN f.times[p] = f.total_samples
       ELSE f.times[p + CommandLength(f, p)] = f.times[p] + SamplesOf(f, p)

AllTimed == \A list \in FileLists : \A i \in 1..Len(list) : Timed(list[i])

-----------------------------------------------------------------------------
Writes == [chip : Chips, args : Seq(Byte)]

\* What the chips can have been told.
Writings == Seq([write : Writes, time : Nat])

TypeOK ==
  /\ files \in FileLists
  /\ main \in {"open", "load", "start", "wait"}
  /\ sample_rate \in DeviceRates \cup {0}
  /\ status \in {"running", "exited", "panicked", "error"}
  /\ vgm \in 0..Len(files)
  /\ files_index \in 0..Len(files)
  /\ ic \in Writings
  /\ current_loop \in 0..LoopCount
  /\ vgm_position \in Nat
  /\ remaining_wait \in Nat /\ remaining_wait < 65536
  /\ played \in Nat
  /\ cb \in {"idle", "begin", "frames"}
  /\ frames_left \in 0..MaxFrames
  /\ frame_count \in 0..MaxFrames
  /\ frame \in 0..MaxFrames

(***************************************************************************)
(* The player implements the abstract play list: chopping the sound into   *)
(* callbacks, grants and frames neither loses, nor repeats, nor moves a    *)
(* sample or a register write with respect to each other, songs play in    *)
(* the order of the command line, each with freshly reset chips and with   *)
(* its loop section repeated -loop times.                                  *)
(***************************************************************************)
PB == INSTANCE Playback WITH
        SongLists <- {PlayList(list) : list \in FileLists},
        NoLoop <- 0,
        songs <- PlayList(files),
        song <- IF status = "exited" THEN Len(files) + 1 ELSE vgm,
        place <- vgm_position,
        loops <- current_loop,
        wait <- remaining_wait,
        heard <- played,
        chips <- ic

PlaysBack == PB!Spec

(***************************************************************************)
(* When nextVGM leaves a song, exactly the header's total_samples plus     *)
(* LoopCount times its loop_samples frames of it were rendered.            *)
(***************************************************************************)
SongLength ==
  [][vgm # 0 /\ vgm' # vgm =>
       played = song.total_samples
                + (IF song.loop_offset > 0
                   THEN LoopCount * song.loop_samples ELSE 0)]_vars

(***************************************************************************)
(* On files whose commands the player knows, nextStep never takes an       *)
(* operand for an opcode.                                                  *)
(***************************************************************************)
OnCommand == vgm # 0 => vgm_position \in song.marks

AtFetch ==
  /\ Running /\ cb = "frames" /\ frame < frame_count
  /\ remaining_wait = 0

(***************************************************************************)
(* On such files all bytes of a command are there whenever nextStep is     *)
(* about to execute it, loops included: no song makes data[position] of    *)
(* nextStep an index out of bounds.                                        *)
(***************************************************************************)
ReadsInside == AtFetch => InBounds

\* No command of the song writes what its chip does not take.
WritesAreTaken(f) ==
  \A p \in f.marks :
    /\ f.data[p] = PSG_WRITE => PsgTakes(f.data[p + 1])
    /\ f.data[p] = SCC_WRITE =>
         SccTakes(f.data[p + 1], f.data[p + 2], f.data[p + 3])

(***************************************************************************)
(* On such files nextStep panics for two reasons only: nextVGM cannot load *)
(* the next file, or one of the song's own commands is a write that its    *)
(* chip does not take (an index, a cast and an unreachable of              *)
(* writeRegister).  The fetches, the moves over the commands and the loops *)
(* never end the process.                                                  *)
(***************************************************************************)
PanicsAreKnown ==
  [][NextStep /\ status' = "panicked" =>
       EndSong \/ ~WritesAreTaken(song)]_vars

(***************************************************************************)
(* writeCallback stores a frame only inside the area that begin_write      *)
(* granted, and never asks for more than is left of the callback's budget. *)
(***************************************************************************)
InsideGrant ==
  cb = "frames" => /\ frame <= frame_count
                   /\ frame_count \in 1..frames_left

(***************************************************************************)
(* Whatever the bytes of a file, the interpreter cannot hang the audio     *)
(* thread: every play list comes to an end (process.exit), or the program  *)
(* stops with an error.                                                    *)
(***************************************************************************)
Terminates == <>(status # "running")
=============================================================================
