------------------------------ MODULE VgmFile ------------------------------
(***************************************************************************)
(* What nextVGM does with a file: openAndInflate of vgz.zig, which reads   *)
(* one that is gzipped or not, then VGM.init of vgm.zig, which parses the  *)
(* header and the GD3 tags.                                                *)
(*                                                                         *)
(* A file is a record: storage ("gzip", "broken" for a stream that begins  *)
(* as one and cannot be inflated, "plain" for anything else), stray (how   *)
(* many bytes are stored before the header: 0 or 2) and, of what is stored *)
(* behind those, size in bytes, matches (whether the bytes of the          *)
(* identification that it has are right), version, gd3 ("none", "beyond"   *)
(* its end or "inside"), gd3_matches, gd3_length in bytes, text (the       *)
(* 16-bit characters from there to its end) and clocks (what is stored     *)
(* where a chip's clock belongs: the dual bit, and whether the others hold *)
(* a frequency).                                                           *)
(***************************************************************************)
EXTENDS Integers, Sequences, FiniteSets

CONSTANTS
  Files,   \* the files to open
  NumTags  \* the names in tags: 11

IsStored(f) ==
  /\ f = [storage |-> f.storage, stray |-> f.stray, size |-> f.size,
          matches |-> f.matches, version |-> f.version, gd3 |-> f.gd3, gd3_matches |-> f.gd3_matches,
          gd3_length |-> f.gd3_length, text |-> f.text, clocks |-> f.clocks]
  /\ f.storage \in {"gzip", "broken", "plain"} /\ f.gd3 \in {"none", "beyond", "inside"}
  /\ f.stray \in {0, 2} /\ {f.matches, f.gd3_matches} \subseteq BOOLEAN
  /\ {f.size, f.version, f.gd3_length} \subseteq Nat
  /\ f.text \in Seq({f.text[k] : k \in DOMAIN f.text})

ASSUME VgmFileAssumption ==
  /\ NumTags \in Nat \ {0}
  /\ \A f \in Files : IsStored(f)

VARIABLES
  file,
  inflated, \* what openAndInflate returns
  step,     \* "open", "look", "header", "count", "fill", "convert" or "chips"
  outcome,  \* "none", "parsed", "panic" or an error
  tag, i, pos,
  lengths,  \* of the tags, counted by the first pass
  tags,     \* the arrays that the second pass fills
  chips, dual

file_vars == <<file, inflated, step, outcome, tag, i, pos, lengths, tags, chips, dual>>

FileChips == {"opm", "psg", "pcm", "scc"}
ClockAt == [opm |-> 48, psg |-> 116, pcm |-> 144, scc |-> 156]
Tags == 0..(NumTags - 1)
Nothing == "nothing"
NUL == "NUL"
Undefined == "undefined"  \* memory as heap.alloc returns it

FileInit ==
  /\ file \in Files
  /\ inflated = Nothing
  /\ step = "open" /\ outcome = "none"
  /\ tag = 0 /\ i = 0 /\ pos = 0
  /\ lengths = [t \in Tags |-> 0]
  /\ tags = [t \in Tags |-> <<>>]
  /\ chips = {} /\ dual = {}

At(here) == outcome = "none" /\ step = here

Goto(next) ==
  /\ step' = next
  /\ UNCHANGED <<file, inflated, outcome, tag, i, pos, lengths, tags, chips, dual>>

Stop(with) ==
  /\ outcome' = with
  /\ UNCHANGED <<file, inflated, step, tag, i, pos, lengths, tags, chips, dual>>

-----------------------------------------------------------------------------
(* openAndInflate *)

EndPos == file.stray + file.size

\* realpath and openFileAbsolute may fail.
Open ==
  /\ At("open")
  /\ \/ Stop("cannot open")
     \/ /\ file.storage = "plain" /\ EndPos = 0
        /\ Stop("FileEmpty")
     \/ /\ file.storage = "plain" => EndPos # 0
        /\ Goto("look")

\* Mutant: no seekTo(0).
StartOfStreamHere == 2

StartOfStream == 0

\* gzipStream and its reader need the stream's header.
Inflates(from) == file.storage = "gzip" /\ from = 0

Returns(bytes) ==
  /\ inflated' = bytes
  /\ step' = "header"
  /\ UNCHANGED <<file, outcome, tag, i, pos, lengths, tags, chips, dual>>

\* What is stored behind the first n bytes: the identification is there, or
\* the header has been cut or is still to come.
Behind(n) ==
  IF n = file.stray THEN file
  ELSE [file EXCEPT !.size = EndPos - n, !.matches = FALSE]

\* readByte of byte0 and byte1.
Look ==
  /\ At("look")
  /\ \/ /\ file.storage = "plain" /\ EndPos < 2
        /\ Stop("EndOfStream")
     \/ /\ file.storage = "plain" /\ EndPos >= 2
        /\ Returns(Behind(2))
     \/ /\ file.storage # "plain"
        /\ IF Inflates(StartOfStream) THEN Returns(Behind(0))
           ELSE Stop("not a stream")

-----------------------------------------------------------------------------
(* parseVgm *)

\* Identification, version and GD3 offset, as far as the file reaches.
ReadHeader ==
  /\ At("header")
  /\ \/ /\ ~inflated.matches /\ inflated.size > 0
        /\ Stop("InvalidVGMIdent")
     \/ /\ inflated.matches \/ inflated.size = 0
        /\ inflated.size < 12
        /\ Stop("panic")
     \/ /\ inflated.matches /\ inflated.size >= 12 /\ inflated.version < 336
        /\ Stop("InvalidVGMVersion")
     \/ /\ inflated.matches /\ inflated.size >= 12 /\ inflated.version >= 336
        /\ IF inflated.size < 24 \/ inflated.gd3 = "beyond" THEN Stop("panic")
           ELSE IF inflated.gd3 = "inside" /\ ~inflated.gd3_matches
           THEN Stop("InvalidGD3Ident")
           ELSE Goto(IF inflated.gd3 = "none" THEN "chips" ELSE "count")

-----------------------------------------------------------------------------
(* The tags: one pass counts the characters of each, one stores them.      *)

Char == inflated.text[(i \div 2) + 1]
CharIsThere == i \div 2 < Len(inflated.text)

\* Mutant: room for another NUL behind that of the file.
CountedTerminated == IF Char = NUL THEN 2 ELSE 1

CountedOnce == 1

CountChar ==
  /\ At("count") /\ i < inflated.gd3_length
  /\ IF CharIsThere /\ tag < NumTags
     THEN /\ lengths' = [lengths EXCEPT ![tag] = @ + CountedOnce]
          /\ tag' = IF Char = NUL THEN tag + 1 ELSE tag
          /\ i' = i + 2
          /\ UNCHANGED <<file, inflated, step, outcome, pos, tags, chips, dual>>
     ELSE Stop("panic")

Allocate ==
  /\ At("count") /\ i >= inflated.gd3_length
  /\ tags' = [t \in Tags |-> [k \in 1..lengths[t] |-> Undefined]]
  /\ tag' = 0 /\ i' = 0 /\ pos' = 0
  /\ step' = "fill"
  /\ UNCHANGED <<file, inflated, outcome, lengths, chips, dual>>

\* Mutant: pos is not reset.
PosAfterNUL == pos + 1

PosOfNextTag == 0

FillChar ==
  /\ At("fill") /\ i < inflated.gd3_length
  /\ IF CharIsThere /\ tag < NumTags /\ pos < Len(tags[tag])
     THEN /\ tags' = [tags EXCEPT ![tag][pos + 1] = Char]
          /\ tag' = IF Char = NUL THEN tag + 1 ELSE tag
          /\ pos' = IF Char = NUL THEN PosOfNextTag ELSE pos + 1
          /\ i' = i + 2
          /\ UNCHANGED <<file, inflated, step, outcome, lengths, chips, dual>>
     ELSE Stop("panic")

FillEnds ==
  /\ At("fill") /\ i >= inflated.gd3_length
  /\ Goto("convert")

\* utf16leToUtf8Alloc takes surrogates in pairs only.
IsUtf16(text) ==
  \A k \in 1..Len(text) :
    /\ text[k] = "high" => k < Len(text) /\ text[k + 1] = "low"
    /\ text[k] = "low" => k > 1 /\ text[k - 1] = "high"

Convert ==
  /\ At("convert")
  /\ IF \A t \in Tags : IsUtf16(tags[t])
     THEN Goto("chips")
     ELSE Stop("InvalidUtf16")

-----------------------------------------------------------------------------
Since == [opm |-> 336, psg |-> 337, pcm |-> 353, scc |-> 353]

\* The end of the fields that are read of this version's header.
HeaderEnd(version) ==
  CASE version >= 368 -> 192
    [] version >= 353 -> 160
    [] version >= 337 -> 128
    [] OTHER -> 56

\* Mutant: read from every file that is long enough.
StoredAnyway(chip) == ClockAt[chip] + 4 <= inflated.size

Stored(chip) == inflated.version >= Since[chip]

ReadChips ==
  /\ At("chips")
  /\ IF inflated.size < HeaderEnd(inflated.version) THEN Stop("panic")
     ELSE /\ chips' = {c \in FileChips : Stored(c) /\ inflated.clocks[c].hertz}
          /\ dual' = {c \in FileChips : Stored(c) /\ inflated.clocks[c].dual}
          /\ outcome' = "parsed"
          /\ UNCHANGED <<file, inflated, step, tag, i, pos, lengths, tags>>

FileNext ==
  \/ Open \/ Look
  \/ ReadHeader \/ CountChar \/ Allocate \/ FillChar \/ FillEnds \/ Convert
  \/ ReadChips

FileSpec == FileInit /\ [][FileNext]_file_vars

-----------------------------------------------------------------------------
(* Properties *)

\* The characters that the two passes read: the length in bytes may be odd.
NumChars == (file.gd3_length + 1) \div 2

Nuls(n) == {k \in 1..n : file.text[k] = NUL}

(***************************************************************************)
(* The second pass over the tags finds room for each character that the    *)
(* first one counted: it never stores one beyond an array's end, nor runs  *)
(* into anything else that the first pass has not run into.                *)
(***************************************************************************)
SecondPassFits == step = "fill" => outcome = "none"

(***************************************************************************)
(* When both passes are over no element of a tag is left as heap.alloc     *)
(* returned it, and the tags are the text that was read, cut behind every  *)
(* NUL and nowhere else.                                                   *)
(***************************************************************************)
TagsAreTheText ==
  step = "convert" =>
    \A k \in 1..NumChars :
      LET before == Nuls(k - 1)
          t == Cardinality(before)
          start == IF before = {} THEN 0
                   ELSE CHOOSE m \in before : \A n \in before : n <= m
      IN  /\ tags[t][k - start] = file.text[k]
          /\ file.text[k] = NUL \/ k = NumChars => Len(tags[t]) = k - start

(***************************************************************************)
(* A file that can be opened is parsed exactly if what is stored is sound  *)
(* (long enough for its version's header, with tags that end inside it, no *)
(* more than there are names for, and of valid text) and begins where      *)
(* openAndInflate goes on after the two bytes that it has looked at: a     *)
(* stream is inflated from its start, and any other file is read from its  *)
(* third byte.                                                             *)
(***************************************************************************)
Sound ==
  /\ file.matches /\ file.version >= 336
  /\ file.size >= HeaderEnd(file.version)
  /\ \/ file.gd3 = "none"
     \/ /\ file.gd3 = "inside" /\ file.gd3_matches
        /\ NumChars <= Len(file.text)
        /\ Cardinality(Nuls(NumChars - 1)) < NumTags
        /\ \A k \in 1..NumChars :
             /\ file.text[k] = "high" => k < NumChars /\ file.text[k + 1] = "low"
             /\ file.text[k] = "low" => k > 1 /\ file.text[k - 1] = "high"

ReadFromItsStart ==
  \/ file.storage = "gzip" /\ file.stray = 0
  \/ file.storage = "plain" /\ file.stray = 2

ParsedWhenSound ==
  /\ outcome = "parsed" => Sound /\ ReadFromItsStart
  /\ outcome \notin {"none", "cannot open", "parsed"} => ~(Sound /\ ReadFromItsStart)
=============================================================================
