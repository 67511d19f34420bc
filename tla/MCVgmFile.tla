----------------------------- MODULE MCVgmFile -----------------------------
(***************************************************************************)
(* Headers: every version that adds fields, cut at and before each field's *)
(* end, with every set of chips.  Texts: every text of up to four          *)
(* characters, with lengths that end before, at and after its end.  Files  *)
(* that are not gzip streams: too short to look at, to be cut, and whole.  *)
(* With and without two bytes before the header.                           *)
(***************************************************************************)
EXTENDS VgmFile

Clocks(on, doubled) ==
  [c \in FileChips |-> [hertz |-> c \in on, dual |-> doubled]]

Gzipped == [storage |-> "gzip", stray |-> 0, size |-> 256, matches |-> TRUE,
            version |-> 369, gd3 |-> "none",
            gd3_matches |-> TRUE, gd3_length |-> 0, text |-> <<>>,
            clocks |-> Clocks({"psg"}, FALSE)]

Headers ==
  {[Gzipped EXCEPT !.size = size, !.version = version,
                   !.clocks = Clocks(on, doubled)] :
     size \in {55, 56, 64, 127, 128, 159, 160, 191, 192},
     version \in {335, 336, 337, 352, 353, 367, 368, 369},
     on \in SUBSET FileChips, doubled \in BOOLEAN}
  \cup {[Gzipped EXCEPT !.size = size, !.matches = match] :
          size \in {0, 3, 11, 12, 23}, match \in BOOLEAN}
  \cup {[Gzipped EXCEPT !.gd3 = where, !.gd3_matches = match] :
          where \in {"inside", "beyond"}, match \in BOOLEAN}

Characters == {NUL, "a", "high", "low"}

Texts ==
  {[Gzipped EXCEPT !.gd3 = "inside", !.text = text, !.gd3_length = length] :
     text \in UNION {[1..n -> Characters] : n \in 0..4}, length \in 0..9}

Unzipped ==
  {[Gzipped EXCEPT !.storage = storage, !.stray = stray, !.size = size, !.matches = match] :
     storage \in {"gzip", "plain", "broken"}, stray \in {0, 2},
     size \in {0, 1, 2, 3, 11, 127, 256}, match \in BOOLEAN}
  \cup {[Gzipped EXCEPT !.storage = "plain", !.stray = stray, !.gd3 = "inside",
                        !.text = text, !.gd3_length = length] :
          stray \in {0, 2}, text \in [1..2 -> Characters], length \in 0..5}

MCFiles == Headers \cup Texts \cup Unzipped
=============================================================================
