------------------------------ MODULE MCPlayer ------------------------------
(***************************************************************************)
(* Play lists of well-formed files.  Tune has an introduction and a loop   *)
(* section with register writes on both sides of waits, Jingle has every   *)
(* other command and no loop, Silence loops without playing a single       *)
(* sample, Ticks waits for both fixed times.  PortWrite and NegativeCell   *)
(* hold a write that ends the process: to the fifteenth register of the    *)
(* PSG, and of a negative sample to a waveform of the SCC.                 *)
(***************************************************************************)
EXTENDS Player

ASSUME WellFormedAssumption == AllWellFormed /\ AllTimed

\* commands: the offset of each command and the samples before it.
File(cs, bytes, commands, loop_at, total, per_loop) ==
  [opened |-> TRUE, parsed |-> TRUE, chips |-> cs, dual |-> FALSE,
   vgm_data_offset |-> 12,
   loop_offset |-> IF loop_at = 0 THEN 0 ELSE 64 + loop_at - 28,
   data |-> [p \in 64..(63 + Len(bytes)) |-> bytes[p - 63]],
   marks |-> {64 + c[1] : c \in commands},
   times |-> [p \in {64 + c[1] : c \in commands} |->
                CHOOSE time \in 0..total : <<p - 64, time>> \in commands],
   total_samples |-> total, loop_samples |-> per_loop]

Tune == File({"psg", "scc"},
             <<PSG_WRITE, 7, 1, 113, SCC_WRITE, 2, 0, 9, WAIT_N, 3, 0,
               PSG_WRITE, 7, 2, 112, END_DATA>>,
             {<<0, 0>>, <<3, 0>>, <<4, 2>>, <<8, 2>>, <<11, 5>>, <<14, 5>>, <<15, 6>>},
             4, 6, 4)

Jingle == File({"opm", "pcm"},
               <<OPM_WRITE, 8, 120, WAIT_N, 0, 0, 112, 128, PCM_WRITE, 0, 2,
                 END_DATA>>,
               {<<0, 0>>, <<3, 0>>, <<6, 0>>, <<7, 1>>, <<8, 1>>, <<11, 1>>}, 0, 1, 0)

Silence == File({"psg"}, <<PSG_WRITE, 0, 0, END_DATA>>, {<<0, 0>>, <<3, 0>>},
                3, 0, 0)

Ticks == File({"psg"}, <<WAIT_60TH, PSG_WRITE, 0, 1, WAIT_50TH, END_DATA>>,
              {<<0, 0>>, <<1, 735>>, <<4, 735>>, <<5, 1617>>}, 0, 1617, 0)

PortWrite == File({"psg"}, <<112, PSG_WRITE, 14, 0, END_DATA>>,
                  {<<0, 0>>, <<1, 1>>, <<4, 1>>}, 1, 1, 0)

NegativeCell == File({"scc"}, <<SCC_WRITE, 0, 31, 128, END_DATA>>,
                     {<<0, 0>>, <<4, 0>>}, 0, 0, 0)

(* Lists that stop early: a file that cannot be read, one without a known  *)
(* chip, one with two of a kind.                                           *)
Unreadable == [Tune EXCEPT !.opened = FALSE]
Unparsable == [Tune EXCEPT !.parsed = FALSE]
Chipless == [Silence EXCEPT !.chips = {}]
DualChip == [Jingle EXCEPT !.dual = TRUE]

MCLists == {<<Tune, Jingle, Silence>>, <<Jingle, Tune, Tune>>,
            <<Silence, Ticks>>, <<>>}
           \cup {<<Silence, bad, Jingle>> :
                   bad \in {Unreadable, Unparsable, Chipless, DualChip,
                            PortWrite, NegativeCell}}
           \cup {<<bad>> : bad \in {Unreadable, Chipless}}
=============================================================================
