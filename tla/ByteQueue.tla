----------------------------- MODULE ByteQueue -----------------------------
(***************************************************************************)
(* What a ring buffer promises: a fixed-size queue of bytes.  A put        *)
(* appends a batch that fits, a get takes a batch from the front, and      *)
(* clearing drops what was not yet taken.                                  *)
(***************************************************************************)
EXTENDS Integers, Sequences

CONSTANTS Bytes, Capacity

VARIABLES
  queue,  \* bytes put and not yet taken
  put,    \* the batch put last
  got     \* the batch taken last

vars == <<queue, put, got>>

Init == queue = <<>> /\ put = <<>> /\ got = <<>>

Put ==
  \E n \in 1..(Capacity - Len(queue)) : \E batch \in [1..n -> Bytes] :
    /\ put' = batch
    /\ queue' = queue \o batch
    /\ UNCHANGED got

Get ==
  \E n \in 1..Len(queue) :
    /\ got' = SubSeq(queue, 1, n)
    /\ queue' = SubSeq(queue, n + 1, Len(queue))
    /\ UNCHANGED put

Clear == queue' = <<>> /\ UNCHANGED <<put, got>>

Spec == Init /\ [][Put \/ Get \/ Clear]_vars
=============================================================================
