------------------------------- MODULE MCScc -------------------------------
(***************************************************************************)
(* Waveforms of two cells in four fractions of a position.  Two voices     *)
(* that are loud, silent, muted, halted, slow or fast; a write of the high *)
(* bits of a period; and writes that panic.                                *)
(***************************************************************************)
EXTENDS Scc

MCWrites ==
  {<<0, 0, 127>>, <<0, 0, 0>>, <<4, 9, 127>>,
   <<1, 0, 9>>, <<1, 0, 8>>, <<1, 1, 1>>, <<1, 8, 12>>,
   <<2, 0, 15>>, <<2, 4, 15>>, <<3, 0, 17>>, <<3, 0, 16>>,
   <<5, 0, 0>>, <<0, 0, 128>>, <<1, 10, 0>>, <<2, 5, 0>>, <<6, 0, 0>>}

MCStep == [p \in 0..4095 |-> IF p < 256 THEN 3 ELSE 1]
=============================================================================
