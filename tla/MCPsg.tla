------------------------------- MODULE MCPsg -------------------------------
(***************************************************************************)
(* Every shape, envelope periods of one and two steps, a write that leaves *)
(* the shape alone, the mixer, a channel on the envelope or a volume, and  *)
(* a register that the AY8910 has and the code has not.  Levels 0 to 3, a  *)
(* noise register of five bits, a clock below the rate and one above.      *)
(***************************************************************************)
EXTENDS Psg

Shapes == {<<13, s>> : s \in 0..15 \cup {255}}

MCWrites == Shapes \cup {<<11, 2>>, <<8, 2>>, <<8, 1>>, <<7, 1>>, <<14, 0>>}

\* Bound: what the chip owes to a clock that is too fast.
OwesLittle == x <= 2 * Rate
=============================================================================
