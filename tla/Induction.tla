----------------------------- MODULE Induction -----------------------------
(***************************************************************************)
(* Induction over data: a loop of the code is modelled as a recursive      *)
(* function, and these are the facts about them that proofs need.  The     *)
(* library's theorems say them of an operator; here the statement is a     *)
(* set, the numbers that it holds of.                                      *)
(***************************************************************************)
EXTENDS Integers, FiniteSetTheorems, TLAPS

(* A set that has 0 and every successor has every number, because the sets *)
(* 0..m of numbers up to one that is missing would have no least.          *)
LEMMA SetInduction ==
  ASSUME NEW T, 0 \in T, \A n \in Nat : n \in T => n + 1 \in T
  PROVE  Nat \subseteq T
<1> DEFINE Missing == {m \in Nat : m \notin T}
           Initials == {0..m : m \in Missing}
<1> SUFFICES ASSUME Missing # {} PROVE FALSE
  OBVIOUS
<1>1. Initials \subseteq FiniteSubsetsOf(Nat) /\ Initials # {}
  <2>1. ASSUME NEW m \in Missing PROVE 0..m \in FiniteSubsetsOf(Nat)
    BY FS_Interval DEF FiniteSubsetsOf
  <2> QED
    BY <2>1
<1>2. PICK s \in Initials : \A r \in Initials : <<r, s>> \notin StrictSubsetOrdering(Nat)
  <2> HIDE DEF Initials
  <2> QED
    BY <1>1, FS_StrictSubsetOrderingWellFounded, WFMin
<1>3. PICK m \in Missing : s = 0..m
  OBVIOUS
<1>4. m # 0 /\ m - 1 \in Missing
  OBVIOUS
<1>5. 0..(m - 1) \subseteq s /\ 0..(m - 1) # s
  <2>1. m \in s /\ m \notin 0..(m - 1)
    BY <1>3
  <2> QED
    BY <1>3, <2>1
<1>6. <<0..(m - 1), s>> \in StrictSubsetOrdering(Nat)
  BY <1>3, <1>5 DEF StrictSubsetOrdering
<1> QED
  BY <1>2, <1>4, <1>6

\* f is the function of a recursive definition on 0..n, next[i] a step of it.
Computes(f, n, base, next) ==
  f[0] = base /\ \A i \in 1..n : f[i] = next[i][f[i - 1]]

(* Such a function exists: the CHOOSE of a recursive definition has one to  *)
(* choose.                                                                 *)
LEMMA Recursion ==
  ASSUME NEW S, NEW n \in Nat, NEW base \in S, NEW next \in [1..n -> [S -> S]]
  PROVE  \E f \in [0..n -> S] : Computes(f, n, base, next)
<1> DEFINE Computed(m, f) == f[0] = base /\ \A i \in 1..m : f[i] = next[i][f[i - 1]]
           T == {m \in Nat : m <= n => \E f \in [0..m -> S] : Computed(m, f)}
<1>1. 0 \in T
  <2>1. /\ [i \in 0..0 |-> base] \in [0..0 -> S]
        /\ Computed(0, [i \in 0..0 |-> base])
    OBVIOUS
  <2> QED
    BY <2>1
<1>2. ASSUME NEW m \in Nat, m \in T PROVE m + 1 \in T
  <2> SUFFICES ASSUME m + 1 <= n PROVE \E f \in [0..(m + 1) -> S] : Computed(m + 1, f)
    OBVIOUS
  <2>1. PICK f \in [0..m -> S] : Computed(m, f)
    BY <1>2
  <2> DEFINE g == [i \in 0..(m + 1) |-> IF i <= m THEN f[i] ELSE next[i][f[i - 1]]]
  <2>2. next[m + 1][f[m]] \in S
    OBVIOUS
  <2>3. g \in [0..(m + 1) -> S]
    BY <2>2
  <2>4. Computed(m + 1, g)
    BY <2>1
  <2> QED
    BY <2>3, <2>4
<1>3. n \in T
  <2> HIDE DEF T
  <2> QED
    BY <1>1, <1>2, SetInduction
<1> QED
  BY <1>3 DEF Computes
=============================================================================
