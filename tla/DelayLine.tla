----------------------------- MODULE DelayLine -----------------------------
(***************************************************************************)
(* What the filter of the PSG expects: the latest Length samples, newest   *)
(* first.  Batch of them come at a time.                                   *)
(***************************************************************************)
EXTENDS Integers

CONSTANTS Samples, Silence, Length, Batch

VARIABLE window

Init == window = [j \in 0..(Length - 1) |-> Silence]

Shift ==
  \E new \in [0..(Batch - 1) -> Samples] :
    window' = [j \in 0..(Length - 1) |->
                 IF j < Batch THEN new[j] ELSE window[j - Batch]]

Spec == Init /\ [][Shift]_window
=============================================================================
