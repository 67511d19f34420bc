----------------------------- MODULE MCRawBytes -----------------------------
(***************************************************************************)
(* Files whose data are arbitrary bytes, not commands: every string of     *)
(* none, one, four and six bytes over an end of data, a wait, a data block *)
(* and an unknown opcode, without a loop, with loops to the first and the  *)
(* second byte and with one beyond the end.                                *)
(***************************************************************************)
EXTENDS Player

Raw(bytes, loop_offset) ==
  [opened |-> TRUE, parsed |-> TRUE, chips |-> {"psg"}, dual |-> FALSE,
   vgm_data_offset |-> 12,
   loop_offset |-> loop_offset,
   data |-> [p \in 64..(63 + Len(bytes)) |-> bytes[p - 63]],
   marks |-> {}, times |-> [p \in {} |-> 0], total_samples |-> 0, loop_samples |-> 0]

Alphabet == {0, END_DATA, PCM_LOAD, 112}

MCLists == {<<Raw(bytes, at)>> :
              bytes \in UNION {[1..n -> Alphabet] : n \in {0, 1, 4, 6}},
              at \in {0, 36, 37, 42}}
=============================================================================
