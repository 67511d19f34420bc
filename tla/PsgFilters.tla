----------------------------- MODULE PsgFilters -----------------------------
(***************************************************************************)
(* The two filters behind the PSG of psg.zig, as playback runs them for    *)
(* every frame: process, which decimates, then removeDc.                   *)
(*                                                                         *)
(* FIRFilter: a call of process writes DECIMATE_FACTOR new samples in      *)
(* front of the old ones, newest first, so that x, a slice of twice the    *)
(* filter's size, moves towards the start of the buffer; decimate filters  *)
(* x and stores a copy of the new samples where the slice will find them   *)
(* after it has jumped back to the middle.                                 *)
(*                                                                         *)
(* DCFilter: subtracts the mean of the latest DC_FILTER_SIZE results.      *)
(* Samples and coefficients are integers here: what rounding leaves in the *)
(* running sum of floats is not modelled.                                  *)
(***************************************************************************)
EXTENDS Integers

CONSTANTS Samples, Silence, DECIMATE_FACTOR, FIR_SIZE, DC_FILTER_SIZE,
          Coefficients  \* of the taps

Blocks == FIR_SIZE \div DECIMATE_FACTOR

ASSUME FirAssumption ==
  /\ DECIMATE_FACTOR \in Nat \ {0}
  /\ FIR_SIZE \in Nat
  /\ FIR_SIZE = DECIMATE_FACTOR * Blocks /\ Blocks > 1
  /\ Silence \in Samples


VARIABLES output, index,
          filtered,  \* x, when decimate filters it
          delay, sum, dc_index,  \* of the DCFilter
          result  \* of both, times DC_FILTER_SIZE

filter_vars == <<output, index, filtered, delay, sum, dc_index, result>>

Cells == 0..(2 * FIR_SIZE - 1)
Taps == 0..(FIR_SIZE - 1)
New == 0..(DECIMATE_FACTOR - 1)
Ring == 0..(DC_FILTER_SIZE - 1)

ASSUME DcAssumption ==
  /\ DC_FILTER_SIZE \in Nat \ {0}
  /\ Samples \subseteq Int
  /\ Coefficients \in [Taps -> Int]

FilterInit ==
  /\ output = [c \in Cells |-> Silence]
  /\ index = 0
  /\ filtered = [j \in Taps |-> Silence]
  /\ delay = [c \in Ring |-> 0]
  /\ sum = 0 /\ dc_index = 0 /\ result = 0

\* Where the slice begins.
Start(ix) == FIR_SIZE - ix * DECIMATE_FACTOR

\* Mutants: one block more before the jump; none.
NextIndexLate == (index + 1) % Blocks
NextIndexNever == index + 1

NextIndex == (index + 1) % (Blocks - 1)

Written(new) ==
  [c \in Cells |-> IF c - Start(index) \in New THEN new[c - Start(index)]
                   ELSE output[c]]

\* decimate's loop: x[FIR_SIZE - DECIMATE_FACTOR + i] = x[i]
Copied(cells) ==
  LET behind == Start(index) + FIR_SIZE - DECIMATE_FACTOR
  IN  [c \in Cells |-> IF c - behind \in New THEN cells[Start(index) + (c - behind)]
                       ELSE cells[c]]

Process(new) ==
  /\ filtered' = [j \in Taps |-> Written(new)[Start(index) + j]]
  /\ output' = Copied(Written(new))
  /\ index' = NextIndex

\* f[0] + ... + f[n - 1], from left to right.
Total(f, n) ==
  LET partial[i \in 0..n] == IF i = 0 THEN 0 ELSE partial[i - 1] + f[i - 1]
  IN  partial[n]

Decimated(line) == Total([j \in Taps |-> Coefficients[j] * line[j]], FIR_SIZE)

\* Mutant: the ring is a cell shorter.
NextDcIndexShort == (dc_index + 1) % (DC_FILTER_SIZE - 1)

\* The mask's size is a power of two.
NextDcIndex == (dc_index + 1) % DC_FILTER_SIZE

\* Mutant: delay is overwritten before it is subtracted.
SumOfNew(y) == sum - y + y

SumWith(y) == sum - delay[dc_index] + y

RemoveDc(y) ==
  /\ sum' = SumWith(y)
  /\ delay' = [delay EXCEPT ![dc_index] = y]
  /\ result' = DC_FILTER_SIZE * y - sum'
  /\ dc_index' = NextDcIndex

FilterStep ==
  \E new \in [New -> Samples] : Process(new) /\ RemoveDc(Decimated(filtered'))

FilterSpec == FilterInit /\ [][FilterStep]_filter_vars
-----------------------------------------------------------------------------
FilterTypeOK ==
  /\ output \in [Cells -> Samples]
  /\ index \in 0..(Blocks - 2)
  /\ filtered \in [Taps -> Samples]

(***************************************************************************)
(* The filter always sees the latest FIR_SIZE samples in order, across the *)
(* jumps of the slice: no sample is lost, doubled or out of date.          *)
(***************************************************************************)
Line == INSTANCE DelayLine WITH
          window <- filtered, Length <- FIR_SIZE, Batch <- DECIMATE_FACTOR

IsDelayLine == Line!Spec

(***************************************************************************)
(* removeDc takes the mean of the latest DC_FILTER_SIZE results, whatever  *)
(* the ring's index has reached, so that a constant offset is gone after   *)
(* that many and stays away.                                               *)
(***************************************************************************)
Latest(n) == delay[(dc_index - 1 - n) % DC_FILTER_SIZE]

MeanIsRemoved ==
  result = DC_FILTER_SIZE * Latest(0) - Total(delay, DC_FILTER_SIZE)

(***************************************************************************)
(* The ring holds the latest results of the first filter, in order: the    *)
(* one that the sum loses is the oldest.                                   *)
(***************************************************************************)
Results == {Decimated(line) : line \in [Taps -> Samples]}

Mean == INSTANCE DelayLine WITH
          window <- [n \in Ring |-> Latest(n)], Samples <- Results,
          Silence <- 0, Length <- DC_FILTER_SIZE, Batch <- 1

IsRingOfResults == Mean!Spec

\* The samples that the next call will find behind its own.
Kept ==
  \A j \in 0..(FIR_SIZE - DECIMATE_FACTOR - 1) :
    output[Start(index) + DECIMATE_FACTOR + j] = filtered[j]

\* The copies it will find there after the jump.
Ahead ==
  \A j \in 0..(FIR_SIZE - Start(index) - 1) :
    output[Start(index) + FIR_SIZE + j] = filtered[j]

FilterInv == FilterTypeOK /\ Kept /\ Ahead
=============================================================================
