----------------------------- MODULE PsgProofs -----------------------------
(***************************************************************************)
(* What the AY8910's registers and counters keep to, for every table of    *)
(* levels, width of the noise register, clock and rate; and what the two   *)
(* filters behind it keep, for every size.                                 *)
(***************************************************************************)
EXTENDS Psg, PsgFilters, Induction, TLAPS

USE PsgAssumption DEF Channels, Registers, Levels

LEMMA Sizes ==
  /\ MaxVolume \in Nat /\ MaxVolume > 0 /\ NOISE_TOP \in Nat /\ NOISE_TOP > 0
  /\ Rate \in Nat /\ Rate > 0 /\ \A c \in Clocks : c \in Nat /\ c > 0
  /\ MaxLevel \in Nat /\ MaxLevel > 0 /\ Period \in Nat /\ Period = MaxLevel + 1
BY DEF MaxLevel, Period

Moves == {"slideUp", "slideDown", "holdTop", "holdBottom"}
Slides == {"slideUp", "slideDown"}

\* Which moves the table has for a shape's segments.
LEMMA Table ==
  ASSUME NEW shape \in 0..15
  PROVE  /\ Move(shape, 0) \in Slides
         /\ Move(shape, 1) \in Moves
         /\ Move(shape, 0) = "slideUp" <=> shape \in (4..7) \cup (12..15)
         /\ Move(shape, 1) = "slideUp" <=> shape \in {10, 12}
         /\ Move(shape, 1) = "slideDown" <=> shape \in {8, 14}
         /\ Move(shape, 1) = "holdTop" <=> shape \in {11, 13}
BY SMT DEF Move, Slides, Moves

LEMMA Bits ==
  ASSUME NEW shape \in 0..15
  PROVE  /\ Bit(shape, 8) = 1 <=> shape \in 8..15
         /\ Bit(shape, 4) = 1 <=> shape \in (4..7) \cup (12..15)
         /\ Bit(shape, 2) = 1 <=> shape \in {2, 3, 6, 7, 10, 11, 14, 15}
         /\ Bit(shape, 1) = 1 <=> shape \in {1, 3, 5, 7, 9, 11, 13, 15}
BY SMT DEF Bit

\* The level that a move has reached after so many steps of it.
Drawn(move, phase) ==
  IF move = "slideUp" THEN phase
  ELSE IF move = "slideDown" THEN MaxLevel - phase
  ELSE IF move = "holdTop" THEN MaxLevel
  ELSE 0

\* Which segment the envelope is in after n steps.
SegmentAt(shape, n) ==
  IF n < Period THEN 0
  ELSE IF n < 2 * Period THEN 1
  ELSE IF Move(shape, 1) \in Slides THEN 0 ELSE 1

PhaseAt(n) ==
  IF n < Period THEN n ELSE IF n < 2 * Period THEN n - Period ELSE n - 2 * Period

\* The bits mean what the table draws.
LEMMA TableDrawsShapes ==
  ASSUME NEW shape \in 0..15, NEW n \in 0..(3 * Period - 1)
  PROVE  ShapeLevel(shape, n) = Drawn(Move(shape, SegmentAt(shape, n)), PhaseAt(n))
<1>1. CASE n < Period
  <2>1. SegmentAt(shape, n) = 0 /\ PhaseAt(n) = n
    BY <1>1 DEF SegmentAt, PhaseAt
  <2> QED
    BY <1>1, <2>1, Sizes, Table, Bits, SMT DEF ShapeLevel, Drawn, Slides
<1>2. CASE n >= Period /\ n < 2 * Period
  <2>1. SegmentAt(shape, n) = 1 /\ PhaseAt(n) = n - Period
    BY <1>2, Sizes DEF SegmentAt, PhaseAt
  <2> QED
    BY <1>2, <2>1, Sizes, Table, Bits, SMT DEF ShapeLevel, Drawn, Moves
<1>3. CASE n >= 2 * Period
  <2>1. PhaseAt(n) = n - 2 * Period
    BY <1>3, Sizes DEF PhaseAt
  <2>2. CASE Move(shape, 1) \in Slides
    <3>1. SegmentAt(shape, n) = 0
      BY <1>3, <2>2, Sizes DEF SegmentAt
    <3> QED
      BY <1>3, <2>1, <2>2, <3>1, Sizes, Table, Bits, SMT DEF ShapeLevel, Drawn, Slides
  <2>3. CASE Move(shape, 1) \notin Slides
    <3>1. SegmentAt(shape, n) = 1
      BY <1>3, <2>3, Sizes DEF SegmentAt
    <3> QED
      BY <1>3, <2>1, <2>3, <3>1, Sizes, Table, Bits, SMT DEF ShapeLevel, Drawn, Slides, Moves
  <2> QED
    BY <2>2, <2>3
<1> QED
  BY <1>1, <1>2, <1>3, Sizes
-----------------------------------------------------------------------------
LEMMA Resets ==
  ASSUME NEW shape \in 0..15, NEW segment \in {0, 1}
  PROVE  /\ ResetLevel(shape, segment) \in Levels
         /\ ResetLevel(shape, segment) = Drawn(Move(shape, segment), 0)
BY Sizes, Table DEF ResetLevel, Drawn, Moves, Slides

\* A step of the history is one of the segment, or the next segment's first.
LEMMA Steps ==
  ASSUME NEW shape \in 0..15, NEW n \in 0..(3 * Period - 1), steps = n
  PROVE  /\ NextStep \in 0..(3 * Period - 1)
         /\ PhaseAt(n) \in Levels
         /\ PhaseAt(n) < MaxLevel =>
              /\ SegmentAt(shape, NextStep) = SegmentAt(shape, n)
              /\ PhaseAt(NextStep) = PhaseAt(n) + 1
         /\ PhaseAt(n) = MaxLevel =>
              /\ PhaseAt(NextStep) = 0
              /\ SegmentAt(shape, NextStep) =
                   IF Move(shape, SegmentAt(shape, n)) \in Slides
                   THEN 1 - SegmentAt(shape, n) ELSE SegmentAt(shape, n)
<1>1. NextStep \in 0..(3 * Period - 1) /\ PhaseAt(n) \in Levels
  BY Sizes DEF NextStep, PhaseAt
<1>2. ASSUME PhaseAt(n) < MaxLevel
      PROVE  /\ SegmentAt(shape, NextStep) = SegmentAt(shape, n)
             /\ PhaseAt(NextStep) = PhaseAt(n) + 1
  BY <1>2, Sizes DEF NextStep, PhaseAt, SegmentAt
<1>3. ASSUME PhaseAt(n) = MaxLevel
      PROVE  /\ PhaseAt(NextStep) = 0
             /\ SegmentAt(shape, NextStep) =
                  IF Move(shape, SegmentAt(shape, n)) \in Slides
                  THEN 1 - SegmentAt(shape, n) ELSE SegmentAt(shape, n)
  BY <1>3, Sizes, Table DEF NextStep, PhaseAt, SegmentAt
<1> QED
  BY <1>1, <1>2, <1>3

\* The envelope is where the history says.
Draws ==
  /\ envelope.segment = SegmentAt(envelope.shape, steps)
  /\ envelope.envelope = Drawn(Move(envelope.shape, envelope.segment), PhaseAt(steps))

LEMMA MovedDraws ==
  ASSUME NEW e \in [counter : Nat, envelope : Levels, shape : 0..15, segment : {0, 1}],
         NEW n \in 0..(3 * Period - 1), steps = n,
         e.segment = SegmentAt(e.shape, n),
         e.envelope = Drawn(Move(e.shape, e.segment), PhaseAt(n))
  PROVE  /\ Moved(e) \in [counter : Nat, envelope : Levels, shape : 0..15, segment : {0, 1}]
         /\ Moved(e).segment = SegmentAt(e.shape, NextStep)
         /\ Moved(e).envelope =
              Drawn(Move(e.shape, Moved(e).segment), PhaseAt(NextStep))
         /\ Moved(e).shape = e.shape
<1> DEFINE move == Move(e.shape, e.segment)
<1>1. /\ e.shape \in 0..15 /\ e.segment \in {0, 1} /\ e.envelope \in Levels
      /\ 1 - e.segment \in {0, 1}
  OBVIOUS
<1>2. move \in Moves
  BY <1>1, Table DEF Moves, Slides
<1>3. /\ PhaseAt(n) \in Levels
      /\ PhaseAt(n) < MaxLevel =>
           /\ SegmentAt(e.shape, NextStep) = e.segment
           /\ PhaseAt(NextStep) = PhaseAt(n) + 1
      /\ PhaseAt(n) = MaxLevel =>
           /\ PhaseAt(NextStep) = 0
           /\ SegmentAt(e.shape, NextStep) =
                IF move \in Slides THEN 1 - e.segment ELSE e.segment
  BY <1>1, Steps
<1>4. CASE move \in Slides /\ PhaseAt(n) = MaxLevel
  <2>1. Moved(e) = [e EXCEPT !.segment = 1 - e.segment,
                             !.envelope = ResetLevel(e.shape, 1 - e.segment)]
    BY <1>1, <1>4, Sizes DEF Moved, Drawn, Slides
  <2>2. /\ Moved(e).segment = 1 - e.segment /\ Moved(e).shape = e.shape
        /\ Moved(e).envelope = ResetLevel(e.shape, 1 - e.segment)
    BY <2>1
  <2>3. /\ ResetLevel(e.shape, 1 - e.segment) \in Levels
        /\ ResetLevel(e.shape, 1 - e.segment) = Drawn(Move(e.shape, 1 - e.segment), 0)
    BY <1>1, Resets
  <2>4. Moved(e) \in [counter : Nat, envelope : Levels, shape : 0..15, segment : {0, 1}]
    BY <1>1, <2>1, <2>3
  <2>5. SegmentAt(e.shape, NextStep) = 1 - e.segment /\ PhaseAt(NextStep) = 0
    BY <1>3, <1>4
  <2> QED
    BY <2>2, <2>3, <2>4, <2>5
<1>5. CASE move \in Slides /\ PhaseAt(n) < MaxLevel
  <2>1. Moved(e) = [e EXCEPT !.envelope = IF move = "slideUp" THEN @ + 1 ELSE @ - 1]
    BY <1>1, <1>3, <1>5, Sizes DEF Moved, Drawn, Slides
  <2>2. Moved(e).segment = e.segment /\ Moved(e).shape = e.shape
    BY <2>1
  <2>3. Moved(e).envelope = Drawn(move, PhaseAt(n) + 1)
    BY <1>1, <1>3, <1>5, <2>1, Sizes DEF Drawn, Slides
  <2>4. Moved(e).envelope \in Levels
    BY <1>1, <1>3, <1>5, <2>3, Sizes DEF Drawn, Slides
  <2> QED
    BY <1>3, <1>5, <2>1, <2>2, <2>3, <2>4
<1>6. CASE move \notin Slides
  <2>1. Moved(e) = e
    BY <1>2, <1>6 DEF Moved, Moves, Slides
  <2>2. SegmentAt(e.shape, NextStep) = e.segment
    BY <1>3, <1>6, Sizes
  <2>3. Drawn(move, PhaseAt(NextStep)) = Drawn(move, PhaseAt(n))
    BY <1>6 DEF Drawn, Slides
  <2> QED
    BY <2>1, <2>2, <2>3
<1> QED
  BY <1>3, <1>4, <1>5, <1>6, Sizes
-----------------------------------------------------------------------------
(***************************************************************************)
(* The inductive invariant: types, a noise register that is not 0, and an  *)
(* envelope in the segment and at the level that the history gives.        *)
(***************************************************************************)
IInv == Ranges /\ NoiseNeverStops /\ Draws

LEMMA DrawsItsShape == Ranges /\ Draws => EnvelopeHasItsShape
BY TableDrawsShapes DEF Ranges, Draws, EnvelopeHasItsShape

LEMMA InitInv == Init => IInv
<1> SUFFICES ASSUME Init PROVE IInv
  OBVIOUS
<1>1. /\ register \in Registers /\ failed \in BOOLEAN
      /\ tone \in [Channels -> [counter : Nat, tone : {0, 1}]]
      /\ noise \in [counter : Nat, noise : 0..(2 * NOISE_TOP - 1)] /\ step \in Clocks /\ x \in Nat
  <2>1. register \in Registers
    BY DEF Init
  <2>2. tone \in [Channels -> [counter : Nat, tone : {0, 1}]]
    BY DEF Init
  <2>3. noise \in [counter : Nat, noise : 0..(2 * NOISE_TOP - 1)]
    BY Sizes DEF Init
  <2> QED
    BY <2>1, <2>2, <2>3 DEF Init
<1>2. /\ envelope \in [counter : Nat, envelope : Levels, shape : 0..15, segment : {0, 1}]
      /\ steps \in 0..(3 * Period - 1)
  BY Sizes DEF Init
<1>3. Move(0, 0) = "slideDown"
  BY SMT DEF Move
<1>4. Draws
  BY Sizes, <1>3 DEF Init, Draws, SegmentAt, PhaseAt, Drawn
<1> QED
  BY <1>1, <1>2, <1>4 DEF Init, IInv, Ranges, NoiseNeverStops

LEMMA NoiseGoesOn ==
  ASSUME NEW n \in 1..(2 * NOISE_TOP - 1)
  PROVE  (n \div 2) + Feedback(n) * NOISE_TOP \in 1..(2 * NOISE_TOP - 1)
<1>1. Feedback(n) \in {0, 1} /\ (n = 1 => Feedback(n) = 1)
  BY SMT DEF Feedback
<1>2. n \div 2 \in Nat /\ n \div 2 < NOISE_TOP /\ (n > 1 => n \div 2 > 0)
  BY Sizes, SMT
<1>3. 0 * NOISE_TOP = 0 /\ 1 * NOISE_TOP = NOISE_TOP
  BY Sizes, SMT
<1>4. CASE Feedback(n) = 0
  <2>1. n > 1
    BY <1>1, <1>4, Sizes
  <2> QED
    BY <1>2, <1>3, <1>4, <2>1, Sizes
<1>5. CASE Feedback(n) = 1
  BY <1>2, <1>3, <1>5, Sizes
<1> QED
  BY <1>1, <1>4, <1>5

LEMMA WriteKeeps == IInv /\ WriteRegister => IInv'
<1> SUFFICES ASSUME IInv, WriteRegister PROVE IInv'
  OBVIOUS
<1> USE DEF IInv
<1>1. PICK w \in Writes :
        IF w[1] \notin DOMAIN register
        THEN failed' = TRUE /\ UNCHANGED <<register, envelope, steps>>
        ELSE /\ register' = [register EXCEPT ![w[1]] = w[2]]
             /\ IF register'[13] # 255
                THEN envelope' = Restarted(register'[13] % 16) /\ steps' = 0
                ELSE UNCHANGED <<envelope, steps>>
             /\ UNCHANGED failed
  BY DEF WriteRegister
<1>2. UNCHANGED <<tone, noise, step, x, span>>
  BY DEF WriteRegister
<1>3. w[2] \in 0..255
  OBVIOUS
<1>4. register' \in Registers /\ failed' \in BOOLEAN
  <2>1. register' = register \/ register' = [register EXCEPT ![w[1]] = w[2]]
    BY <1>1
  <2>2. register' \in Registers
    BY <1>3, <2>1 DEF Ranges
  <2>3. failed' = TRUE \/ failed' = failed
    BY <1>1
  <2> QED
    BY <2>2, <2>3 DEF Ranges
<1>5. CASE UNCHANGED <<envelope, steps>>
  BY <1>2, <1>4, <1>5 DEF Ranges, NoiseNeverStops, Draws
<1>6. CASE envelope' = Restarted(register'[13] % 16) /\ steps' = 0
  <2> DEFINE shape == register'[13] % 16
  <2>1. shape \in 0..15
    BY <1>4
  <2>2. ResetLevel(shape, 0) \in Levels /\ ResetLevel(shape, 0) = Drawn(Move(shape, 0), 0)
    BY <2>1, Resets
  <2>3. SegmentAt(shape, 0) = 0 /\ PhaseAt(0) = 0
    BY Sizes DEF SegmentAt, PhaseAt
  <2>4. /\ envelope'.counter = 0 /\ envelope'.envelope = ResetLevel(shape, 0)
        /\ envelope'.shape = shape /\ envelope'.segment = 0
        /\ envelope' = [counter |-> 0, envelope |-> ResetLevel(shape, 0),
                        shape |-> shape, segment |-> 0]
    BY <1>6 DEF Restarted
  <2>5. Draws'
    BY <1>6, <2>2, <2>3, <2>4 DEF Draws
  <2>6. Ranges'
    BY <1>2, <1>4, <1>6, <2>1, <2>2, <2>4, Sizes DEF Ranges
  <2> QED
    BY <1>2, <2>5, <2>6 DEF NoiseNeverStops
<1> QED
  BY <1>1, <1>5, <1>6

LEMMA IterateKeeps == IInv /\ Iterate => IInv'
<1> SUFFICES ASSUME IInv, Iterate PROVE IInv'
  OBVIOUS
<1> USE DEF IInv
<1>1. UNCHANGED <<register, failed, step>> /\ x' = Advance /\ x' \in Nat
  BY Sizes DEF Iterate, Advance, Due, Ranges
<1>4. span' \in [iterations : 0..Rate, updates : Nat]
  BY Sizes DEF Iterate, Counted, Ranges
<1>2. CASE ~Due
  BY <1>1, <1>2, <1>4 DEF Iterate, Ranges, NoiseNeverStops, Draws
<1>3. CASE Due
  <2>1. /\ noise' = UpdateNoise /\ envelope' = UpdateEnvelope
        /\ steps' = IF EnvelopeMoves THEN NextStep ELSE steps
        /\ tone' = [ch \in Channels |-> UpdateTone(ch)]
    BY <1>3 DEF Iterate
  <2>2. noise.noise \in 1..(2 * NOISE_TOP - 1) /\ noise.counter \in Nat
    BY Sizes DEF Ranges, NoiseNeverStops
  <2>3. noise' \in [counter : Nat, noise : 1..(2 * NOISE_TOP - 1)]
    BY <2>1, <2>2, NoiseGoesOn DEF UpdateNoise, Ranges
  <2>4. tone' \in [Channels -> [counter : Nat, tone : {0, 1}]]
    BY <2>1 DEF UpdateTone, Ranges
  <2>5. /\ envelope' \in [counter : Nat, envelope : Levels, shape : 0..15, segment : {0, 1}]
        /\ steps' \in 0..(3 * Period - 1) /\ Draws'
    <3>1. CASE ~EnvelopeMoves
      BY <2>1, <3>1 DEF UpdateEnvelope, Ranges, Draws
    <3>2. CASE EnvelopeMoves
      <4> DEFINE e == [envelope EXCEPT !.counter = 0]
      <4>1. /\ e \in [counter : Nat, envelope : Levels, shape : 0..15, segment : {0, 1}]
            /\ e.segment = envelope.segment /\ e.shape = envelope.shape
            /\ e.envelope = envelope.envelope
        BY DEF Ranges
      <4>2. steps \in 0..(3 * Period - 1) /\ e.segment = SegmentAt(e.shape, steps)
            /\ e.envelope = Drawn(Move(e.shape, e.segment), PhaseAt(steps))
        BY <4>1 DEF Ranges, Draws
      <4>3. envelope' = Moved(e) /\ steps' = NextStep
        BY <2>1, <3>2 DEF UpdateEnvelope
      <4> HIDE DEF e
      <4>4. /\ Moved(e) \in [counter : Nat, envelope : Levels, shape : 0..15, segment : {0, 1}]
            /\ Moved(e).segment = SegmentAt(e.shape, NextStep)
            /\ Moved(e).envelope =
                 Drawn(Move(e.shape, Moved(e).segment), PhaseAt(NextStep))
            /\ Moved(e).shape = e.shape
        BY <4>1, <4>2, MovedDraws
      <4>5. NextStep \in 0..(3 * Period - 1)
        BY <4>1, <4>2, Steps
      <4> QED
        BY <4>3, <4>4, <4>5 DEF Draws
    <3> QED
      BY <3>1, <3>2
  <2> QED
    BY <1>1, <1>4, <2>3, <2>4, <2>5, Sizes DEF Ranges, NoiseNeverStops
<1> QED
  BY <1>2, <1>3
-----------------------------------------------------------------------------
THEOREM InvHolds == Spec => []IInv
<1>1. IInv /\ [Next]_vars => IInv'
  <2>1. IInv /\ UNCHANGED vars => IInv'
    BY DEF IInv, Ranges, NoiseNeverStops, Draws, vars
  <2> QED
    BY <2>1, WriteKeeps, IterateKeeps DEF Next
<1> QED
  BY <1>1, InitInv, PTL DEF Spec

(***************************************************************************)
(* Registers, counters, levels and segments stay in their ranges, and the  *)
(* indices of dac_table in the table, whatever a file writes and however   *)
(* the clock relates to the sample rate.                                   *)
(***************************************************************************)
THEOREM PsgTypeCorrect == Spec => []TypeOK
<1>1. IInv => TypeOK
  <2> SUFFICES ASSUME IInv, NEW ch \in Channels PROVE Out(ch) \in Levels
    BY DEF TypeOK, IInv
  <2>1. register[8 + ch] \in 0..255 /\ envelope.envelope \in Levels
    BY DEF IInv, Ranges
  <2>2. volume(ch) \in 0..MaxVolume
    BY <2>1, Sizes DEF volume, Volumes
  <2>3. 0 \in Levels /\ 2 * volume(ch) + 1 \in Levels
    BY <2>2, Sizes DEF MaxLevel
  <2> QED
    BY <2>1, <2>3 DEF Out
<1> QED
  BY <1>1, InvHolds, PTL

(***************************************************************************)
(* The noise register never becomes 0.                                     *)
(***************************************************************************)
THEOREM NoiseGoesOnForever == Spec => []NoiseNeverStops
<1>1. IInv => NoiseNeverStops
  BY DEF IInv
<1> QED
  BY <1>1, InvHolds, PTL

(***************************************************************************)
(* The table of moves draws the sixteen shapes that their bits mean.       *)
(***************************************************************************)
THEOREM EnvelopeDrawsItsShape == Spec => []EnvelopeHasItsShape
<1>1. IInv => EnvelopeHasItsShape
  BY DrawsItsShape DEF IInv
<1> QED
  BY <1>1, InvHolds, PTL

\* Both sides of a division grow by a term.
LEMMA OneMore ==
  ASSUME NEW n \in Nat, NEW m \in Nat
  PROVE  (n + 1) * m = n * m + m
BY SMT

LEMMA Quotient ==
  ASSUME NEW c \in Nat, NEW rest \in Nat, NEW n \in Nat, rest < Rate,
         rest + n * Rate = Rate * c
  PROVE  n = c /\ rest = 0
<1> USE Sizes
<1>1. CASE n < c
  <2>1. PICK k \in Nat : c = n + 1 + k
    <3>1. c - n - 1 \in Nat
      BY <1>1
    <3> QED
      BY <3>1
  <2>2. Rate * c = n * Rate + Rate + k * Rate
    BY <2>1, SMT
  <2>3. k * Rate \in Nat /\ n * Rate \in Nat
    BY <2>1, SMT
  <2> QED
    BY <2>2, <2>3
<1>2. CASE n > c
  <2>1. PICK k \in Nat : n = c + 1 + k
    <3>1. n - c - 1 \in Nat
      BY <1>2
    <3> QED
      BY <3>1
  <2>2. n * Rate = Rate * c + Rate + k * Rate
    BY <2>1, SMT
  <2>3. k * Rate \in Nat /\ Rate * c \in Nat
    BY <2>1, SMT
  <2> QED
    BY <2>2, <2>3
<1>3. CASE n = c
  <2>1. n * Rate = Rate * c /\ n * Rate \in Nat
    BY <1>3, SMT
  <2> QED
    BY <1>3, <2>1
<1> QED
  BY <1>1, <1>2, <1>3

\* At a clock that is slow enough, less than an update is owed and all the others
\* have been made.  At a faster one each iteration has made one.
Paced ==
  IF step <= Rate
  THEN /\ x < Rate
       /\ x + span.updates * Rate = span.iterations * step
  ELSE span.updates = span.iterations

\* An iteration at a clock that is slow enough.
LEMMA KeepsPace ==
  ASSUME Ranges, Paced, Iterate, step <= Rate
  PROVE  /\ x' < Rate
         /\ x' + span'.updates * Rate = span'.iterations * step
<1>1. /\ x \in Nat /\ x < Rate /\ span.iterations \in Nat /\ span.updates \in Nat
      /\ step \in Nat /\ x + span.updates * Rate = span.iterations * step
  BY Sizes DEF Ranges, Paced
<1> DEFINE n == IF span.iterations = Rate THEN 0 ELSE span.iterations
           m == IF span.iterations = Rate THEN 0 ELSE span.updates
<1>2. n \in Nat /\ m \in Nat
  BY <1>1
<1>3. x + m * Rate = n * step
  <2>1. CASE span.iterations = Rate
    <3>1. x = 0 /\ n = 0 /\ m = 0
      BY <1>1, <2>1, Quotient
    <3>2. 0 * Rate = 0 /\ 0 * step = 0
      BY <1>1, Sizes, SMT
    <3> QED
      BY <3>1, <3>2
  <2>2. CASE span.iterations # Rate
    BY <1>1, <2>2
  <2> QED
    BY <2>1, <2>2
<1>4. x' = Advance /\ span'.iterations = n + 1
      /\ span'.updates = m + (IF Due THEN 1 ELSE 0)
  <2>1. x' = Advance /\ span' = Counted
    BY DEF Iterate
  <2> QED
    BY <2>1 DEF Counted
<1> HIDE DEF n, m
<1>5. (n + 1) * step = n * step + step /\ (m + 1) * Rate = m * Rate + Rate
  BY <1>1, <1>2, OneMore, Sizes
<1>6. n * step \in Nat /\ m * Rate \in Nat
  BY <1>1, <1>2, Sizes, SMT
<1>7. CASE Due
  <2>1. x' = x + step - Rate /\ span'.updates = m + 1 /\ x + step >= Rate
    BY <1>4, <1>7 DEF Advance, Due
  <2>2. x' + (m + 1) * Rate = (n + 1) * step
    BY <1>1, <1>3, <1>5, <1>6, <2>1, Sizes
  <2> QED
    BY <1>1, <1>4, <2>1, <2>2, Sizes
<1>8. CASE ~Due
  <2>1. x' = x + step /\ span'.updates = m /\ ~(x + step >= Rate)
    BY <1>2, <1>4, <1>8 DEF Advance, Due
  <2>2. x' + m * Rate = (n + 1) * step
    BY <1>1, <1>3, <1>5, <1>6, <2>1, Sizes
  <2> QED
    BY <1>1, <1>4, <2>1, <2>2, Sizes
<1> QED
  BY <1>7, <1>8

(***************************************************************************)
(* The chip runs at its clock if that is at most 64 times the sample rate, *)
(* and falls behind it by a known number of updates if it is not.          *)
(***************************************************************************)
THEOREM ClocksAreKept == Spec => []RunsAtItsClock
<1>1. Init => Paced
  BY Sizes, SMT DEF Init, Paced
<1>2. Ranges /\ Paced => RunsAtItsClock
  <2>1. ASSUME Ranges, Paced, span.iterations = Rate, step <= Rate
        PROVE  span.updates = step
    <3>1. /\ x \in Nat /\ x < Rate /\ span.updates \in Nat /\ step \in Nat
          /\ x + span.updates * Rate = Rate * step
      BY <2>1, Sizes DEF Ranges, Paced
    <3> QED
      BY <3>1, Quotient
  <2> QED
    BY <2>1 DEF RunsAtItsClock, Paced
<1>3. ASSUME Ranges, Paced, Iterate PROVE Paced'
  <2>1. step' = step
    BY <1>3 DEF Iterate
  <2>2. CASE step <= Rate
    BY <1>3, <2>1, <2>2, KeepsPace DEF Paced
  <2>3. CASE ~(step <= Rate)
    <3>1. span' = Counted /\ span.updates = span.iterations
      BY <1>3, <2>3 DEF Iterate, Paced
    <3>2. Due /\ span.iterations \in Nat
      BY <1>3, <2>3, Sizes DEF Ranges, Due
    <3>3. span'.updates = span'.iterations
      BY <3>1, <3>2 DEF Counted
    <3> QED
      BY <2>1, <2>3, <3>3 DEF Paced
  <2> QED
    BY <2>2, <2>3
<1>4. Ranges /\ Paced /\ [Next]_vars => Paced'
  <2>1. Ranges /\ Paced /\ WriteRegister => Paced'
    BY DEF WriteRegister, Paced
  <2> QED
    BY <1>3, <2>1 DEF Next, vars, Paced
<1>5. IInv => Ranges
  BY DEF IInv
<1> QED
  BY <1>1, <1>2, <1>4, <1>5, InvHolds, PTL DEF Spec

-----------------------------------------------------------------------------
(***************************************************************************)
(* PsgFilters: the first filter's buffer is a delay line for every size    *)
(* that is a multiple of the decimation factor, and the second's ring is   *)
(* one for every size.                                                     *)
(***************************************************************************)

HIDE PsgAssumption DEF Channels, Registers, Levels

LEMMA FilterSizes ==
  /\ DECIMATE_FACTOR \in Nat /\ DECIMATE_FACTOR > 0
  /\ Blocks \in Nat /\ Blocks > 1
  /\ FIR_SIZE \in Nat /\ FIR_SIZE >= 2 * DECIMATE_FACTOR
BY FirAssumption, SMT DEF Blocks

LEMMA Products ==
  ASSUME NEW b \in Nat, NEW d \in Nat, NEW k \in 0..(b - 2)
  PROVE  /\ k * d \in Nat /\ k * d <= b * d - 2 * d
         /\ (k + 1) * d = k * d + d
         /\ k = b - 2 => k * d = b * d - 2 * d
<1>1. PICK r \in Nat : k + r = b - 2
  OBVIOUS
<1>2. (k + r) * d = k * d + r * d /\ k * d \in Nat /\ r * d \in Nat
  BY SMT
<1>3. (b - 2) * d = b * d - 2 * d
  BY SMT
<1> QED
  BY <1>1, <1>2, <1>3, SMT

\* Where the slice lies, as linear facts.
LEMMA Starts ==
  ASSUME NEW k \in 0..(Blocks - 2)
  PROVE  /\ Start(k) \in Nat
         /\ 2 * DECIMATE_FACTOR <= Start(k) /\ Start(k) <= FIR_SIZE
         /\ Start(k + 1) = Start(k) - DECIMATE_FACTOR
         /\ Start(0) = FIR_SIZE
         /\ k = Blocks - 2 => Start(k) = 2 * DECIMATE_FACTOR
<1>1. FIR_SIZE = Blocks * DECIMATE_FACTOR
  BY FirAssumption, FilterSizes, SMT
<1>2. /\ k * DECIMATE_FACTOR \in Nat
      /\ k * DECIMATE_FACTOR <= FIR_SIZE - 2 * DECIMATE_FACTOR
      /\ (k + 1) * DECIMATE_FACTOR = k * DECIMATE_FACTOR + DECIMATE_FACTOR
      /\ k = Blocks - 2 => k * DECIMATE_FACTOR = FIR_SIZE - 2 * DECIMATE_FACTOR
  BY <1>1, FilterSizes, Products
<1>3. 0 * DECIMATE_FACTOR = 0
  BY FilterSizes
<1> QED
  BY <1>2, <1>3, FilterSizes DEF Start

LEMMA Wraps ==
  ASSUME NEW n \in Nat \ {0}, NEW k \in 0..(n - 1)
  PROVE  /\ (k + 1) % n \in 0..(n - 1)
         /\ k < n - 1 => (k + 1) % n = k + 1
         /\ k = n - 1 => (k + 1) % n = 0
  OBVIOUS

LEMMA IndexMoves ==
  ASSUME FilterTypeOK
  PROVE  /\ NextIndex \in 0..(Blocks - 2)
         /\ index < Blocks - 2 => NextIndex = index + 1
         /\ index = Blocks - 2 => NextIndex = 0
BY FilterSizes, Wraps DEF FilterTypeOK, NextIndex

LEMMA FilterInitInv == FilterInit => FilterInv
<1> SUFFICES ASSUME FilterInit PROVE FilterInv
  OBVIOUS
<1>1. FilterTypeOK
  BY FirAssumption, FilterSizes DEF FilterInit, FilterTypeOK
<1>2. Kept
  <2>1. Start(0) = FIR_SIZE
    BY FilterSizes, Starts
  <2> QED
    BY <2>1, FilterSizes DEF FilterInit, Kept, Cells, Taps
<1>3. Ahead
  <2>1. Start(0) = FIR_SIZE
    BY FilterSizes, Starts
  <2> QED
    BY <2>1, FilterSizes DEF FilterInit, Ahead
<1> QED
  BY <1>1, <1>2, <1>3 DEF FilterInv

-----------------------------------------------------------------------------
(* One call of process, with its new samples.                              *)

LEMMA ProcessShifts ==
  ASSUME FilterInv, NEW new \in [New -> Samples],
         filtered' = [j \in Taps |-> Written(new)[Start(index) + j]],
         output' = Copied(Written(new)),
         index' = NextIndex
  PROVE  /\ FilterTypeOK' /\ Kept' /\ Ahead'
         /\ filtered' = [j \in Taps |-> IF j < DECIMATE_FACTOR THEN new[j]
                                        ELSE filtered[j - DECIMATE_FACTOR]]
<1> USE FilterSizes
<1> DEFINE S == Start(index)
           D == DECIMATE_FACTOR
           W == Written(new)
<1>0. FilterTypeOK /\ Kept /\ Ahead
  BY DEF FilterInv
<1>1. S \in Nat /\ 2 * D <= S /\ S <= FIR_SIZE
  BY <1>0, Starts DEF FilterTypeOK
<1>2. \A c \in Cells : W[c] = IF c - S \in New THEN new[c - S] ELSE output[c]
  BY DEF Written
<1>3. W \in [Cells -> Samples]
  BY <1>0 DEF Written, FilterTypeOK
<1>4. \A j \in Taps : S + j \in Cells
  BY <1>1 DEF Taps, Cells
<1>5. filtered' = [j \in Taps |-> IF j < D THEN new[j] ELSE filtered[j - D]]
  <2>1. ASSUME NEW j \in Taps
        PROVE  W[S + j] = IF j < D THEN new[j] ELSE filtered[j - D]
    <3>1. CASE j < D
      <4>1. (S + j) - S = j /\ j \in New
        BY <3>1, <1>1 DEF New, Taps
      <4>2. S + j \in Cells
        BY <1>4
      <4>3. W[S + j] = new[j]
        BY <4>1, <4>2, <1>2
      <4> QED
        BY <3>1, <4>3
    <3>2. CASE ~(j < D)
      <4>1. W[S + j] = output[S + j]
        BY <3>2, <1>1, <1>2, <1>4 DEF New, Taps
      <4>2. output[S + D + (j - D)] = filtered[j - D]
        BY <3>2, <1>0 DEF Kept, Taps
      <4>3. S + D + (j - D) = S + j
        BY <1>1 DEF Taps
      <4> QED
        BY <3>2, <4>1, <4>2, <4>3
    <3> QED
      BY <3>1, <3>2
  <2> QED
    BY <2>1
<1>6. FilterTypeOK'
  <2>1. filtered' \in [Taps -> Samples]
    BY <1>3, <1>4
  <2>2. output' \in [Cells -> Samples]
    <3>1. \A c \in Cells : c - (S + FIR_SIZE - D) \in New =>
            S + (c - (S + FIR_SIZE - D)) \in Cells
      BY <1>1 DEF Cells, New
    <3> QED
      BY <3>1, <1>3 DEF Copied
  <2>3. index' \in 0..(Blocks - 2)
    BY <1>0, IndexMoves
  <2> QED
    BY <2>1, <2>2, <2>3 DEF FilterTypeOK
<1>7. Kept'
  <2> DEFINE behind == S + FIR_SIZE - D
  <2>1. \A c \in Cells : output'[c] = IF c - behind \in New
                                      THEN W[S + (c - behind)] ELSE W[c]
    BY DEF Copied
  <2> SUFFICES ASSUME NEW j \in 0..(FIR_SIZE - D - 1)
               PROVE  output'[Start(index') + D + j] = filtered'[j]
    BY DEF Kept
  <2>2. j \in Taps /\ filtered'[j] = W[S + j]
    BY DEF Taps
  <2>3. CASE index < Blocks - 2
    <3>1. Start(index') = S - D
      BY <2>3, <1>0, IndexMoves, Starts DEF FilterTypeOK
    <3> DEFINE c == S + j
    <3>2. Start(index') + D + j = c /\ c \in Cells
      BY <3>1, <1>1, <1>4, <2>2
    <3>3. c - behind \notin New
      BY <1>1 DEF New
    <3>4. output'[c] = W[c]
      BY <2>1, <3>2, <3>3
    <3> QED
      BY <2>2, <3>2, <3>4, Zenon
  <2>4. CASE index = Blocks - 2
    <3>1. Start(index') = FIR_SIZE /\ S = 2 * D
      BY <2>4, <1>0, IndexMoves, Starts DEF FilterTypeOK
    <3> DEFINE c == FIR_SIZE + D + j
    <3>2. c \in Cells /\ Start(index') + D + j = c /\ behind = FIR_SIZE + D
      BY <3>1, <1>1, <2>2 DEF Cells
    <3>3. CASE j < D
      <4>1. c - behind = j /\ j \in New
        BY <3>2, <3>3, <1>1, <2>2 DEF New, Taps
      <4>2. output'[c] = W[S + j]
        BY <4>1, <3>2, <2>1
      <4> QED
        BY <4>2, <3>2, <2>2, Zenon
    <3>4. CASE ~(j < D)
      <4>1. output'[c] = output[c]
        BY <3>1, <3>2, <3>4, <1>1, <1>2, <2>1 DEF New
      <4>2. j - D \in 0..(FIR_SIZE - S - 1)
        BY <3>1, <3>4
      <4>3. output[S + FIR_SIZE + (j - D)] = filtered[j - D]
        BY <4>2, <1>0 DEF Ahead
      <4>4. S + FIR_SIZE + (j - D) = c
        BY <3>1
      <4> QED
        BY <4>1, <4>3, <4>4, <3>2, <3>4, <1>5, <2>2
    <3> QED
      BY <3>3, <3>4
  <2> QED
    BY <1>0, <2>3, <2>4 DEF FilterTypeOK
<1>8. Ahead'
  <2> DEFINE behind == S + FIR_SIZE - D
  <2>1. \A c \in Cells : output'[c] = IF c - behind \in New
                                      THEN W[S + (c - behind)] ELSE W[c]
    BY DEF Copied
  <2> SUFFICES ASSUME NEW j \in 0..(FIR_SIZE - Start(index') - 1)
               PROVE  output'[Start(index') + FIR_SIZE + j] = filtered'[j]
    BY DEF Ahead
  <2>2. CASE index < Blocks - 2
    <3>1. Start(index') = S - D
      BY <2>2, <1>0, IndexMoves, Starts DEF FilterTypeOK
    <3> DEFINE c == behind + j
    <3>2. c \in Cells /\ Start(index') + FIR_SIZE + j = c /\ j \in Taps
      BY <3>1, <1>1 DEF Cells, Taps
    <3>3. CASE j < D
      <4>1. c - behind = j /\ j \in New
        BY <3>2, <3>3, <1>1 DEF New, Taps
      <4>2. output'[c] = W[S + j]
        BY <4>1, <3>2, <2>1
      <4>3. filtered'[j] = W[S + j]
        BY <3>2
      <4> QED
        BY <4>2, <4>3, <3>2
    <3>4. CASE ~(j < D)
      <4>1. output'[c] = output[c]
        BY <3>2, <3>4, <1>1, <1>2, <2>1 DEF New
      <4>2. j - D \in 0..(FIR_SIZE - S - 1)
        BY <3>1, <3>4, <1>1
      <4>3. output[S + FIR_SIZE + (j - D)] = filtered[j - D]
        BY <4>2, <1>0 DEF Ahead
      <4>4. S + FIR_SIZE + (j - D) = c
        BY <1>1
      <4> QED
        BY <4>1, <4>3, <4>4, <3>2, <3>4, <1>5
    <3> QED
      BY <3>3, <3>4
  <2>3. CASE index = Blocks - 2
    <3>1. Start(index') = FIR_SIZE
      BY <2>3, <1>0, IndexMoves, Starts DEF FilterTypeOK
    <3> QED
      BY <3>1
  <2> QED
    BY <1>0, <2>2, <2>3 DEF FilterTypeOK
<1> QED
  BY <1>5, <1>6, <1>7, <1>8

LEMMA FilterStepInv == FilterInv /\ [FilterStep]_filter_vars => FilterInv'
<1> SUFFICES ASSUME FilterInv, [FilterStep]_filter_vars PROVE FilterInv'
  OBVIOUS
<1>1. ASSUME NEW new \in [New -> Samples], Process(new)
      PROVE  FilterInv'
  BY <1>1, ProcessShifts DEF Process, FilterInv
<1>2. CASE UNCHANGED filter_vars
  BY <1>2 DEF filter_vars, FilterInv, FilterTypeOK, Kept, Ahead
<1> QED
  BY <1>1, <1>2 DEF FilterStep

(***************************************************************************)
(* The slice stays inside the buffer and the buffer full of samples.       *)
(***************************************************************************)
THEOREM BufferTypeCorrect == FilterSpec => []FilterTypeOK
<1>1. FilterInv => FilterTypeOK
  BY DEF FilterInv
<1> QED
  BY <1>1, FilterInitInv, FilterStepInv, PTL DEF FilterSpec

(***************************************************************************)
(* What decimate filters (psg.zig:309) is the line of the latest samples,  *)
(* for every size of filter and factor of decimation.                      *)
(***************************************************************************)
THEOREM FiltersLatestSamples == FilterSpec => IsDelayLine
<1>1. FilterInit => Line!Init
  BY DEF FilterInit, Line!Init, Taps
<1>2. FilterInv /\ [FilterStep]_filter_vars => [Line!Shift]_filtered
  <2> SUFFICES ASSUME FilterInv, [FilterStep]_filter_vars PROVE [Line!Shift]_filtered
    OBVIOUS
  <2>1. CASE FilterStep
    <3>1. PICK new \in [New -> Samples] :
            /\ filtered' = [j \in Taps |-> Written(new)[Start(index) + j]]
            /\ output' = Copied(Written(new))
            /\ index' = NextIndex
      BY <2>1 DEF FilterStep, Process
    <3>2. filtered' = [j \in Taps |-> IF j < DECIMATE_FACTOR THEN new[j]
                                      ELSE filtered[j - DECIMATE_FACTOR]]
      BY <3>1, ProcessShifts
    <3> QED
      BY <3>2 DEF Line!Shift, New, Taps
  <2>2. CASE UNCHANGED filter_vars
    BY <2>2 DEF filter_vars
  <2> QED
    BY <2>1, <2>2
<1> QED
  BY <1>1, <1>2, FilterInitInv, FilterStepInv, PTL DEF FilterSpec, IsDelayLine, Line!Spec

-----------------------------------------------------------------------------
(* The ring of the second filter *)

LEMMA Around ==
  ASSUME NEW n \in Nat \ {0}, NEW a \in Int, 0 - n <= a, a < n
  PROVE  a % n = IF a >= 0 THEN a ELSE a + n
OBVIOUS

LEMMA Behind ==
  ASSUME NEW n \in Nat \ {0}, NEW k \in 0..(n - 1), NEW j \in 0..(n - 1)
  PROVE  k - 1 - j \in Int /\ 0 - n <= k - 1 - j /\ k - 1 - j < n
OBVIOUS

DcTypeOK ==
  /\ dc_index \in Ring
  /\ DOMAIN delay = Ring /\ delay = [c \in Ring |-> delay[c]]

LEMMA DcIndexMoves ==
  ASSUME dc_index \in Ring
  PROVE  /\ NextDcIndex = IF dc_index = DC_FILTER_SIZE - 1 THEN 0 ELSE dc_index + 1
         /\ NextDcIndex \in Ring
<1>1. DC_FILTER_SIZE \in Nat \ {0} /\ dc_index \in 0..(DC_FILTER_SIZE - 1)
  BY DcAssumption DEF Ring
<1>2. /\ NextDcIndex \in 0..(DC_FILTER_SIZE - 1)
      /\ dc_index < DC_FILTER_SIZE - 1 => NextDcIndex = dc_index + 1
      /\ dc_index = DC_FILTER_SIZE - 1 => NextDcIndex = 0
  BY <1>1, Wraps DEF NextDcIndex
<1> QED
  BY <1>1, <1>2 DEF Ring

LEMMA InitDc == FilterInit => DcTypeOK
BY DcAssumption DEF FilterInit, DcTypeOK, Ring

LEMMA RemoveDcShifts ==
  ASSUME DcTypeOK, NEW y, RemoveDc(y)
  PROVE  /\ DcTypeOK'
         /\ \A n \in Ring : Latest(n)' = IF n < 1 THEN y ELSE Latest(n - 1)
<1> DEFINE N == DC_FILTER_SIZE
<1>1. N \in Nat \ {0} /\ dc_index \in 0..(N - 1) /\ Ring = 0..(N - 1)
  BY DcAssumption DEF DcTypeOK, Ring
<1>2. dc_index' = IF dc_index = N - 1 THEN 0 ELSE dc_index + 1
  BY DcIndexMoves DEF RemoveDc, DcTypeOK
<1>3. delay' = [delay EXCEPT ![dc_index] = y]
  BY DEF RemoveDc
<1>4. \A c \in Ring : delay'[c] = IF c = dc_index THEN y ELSE delay[c]
  BY <1>3 DEF DcTypeOK
<1>5. DcTypeOK'
  <2>1. dc_index' \in Ring
    BY <1>1, <1>2
  <2>2. /\ DOMAIN delay' = Ring
        /\ delay' = [c \in Ring |-> delay'[c]]
    BY <1>3 DEF DcTypeOK
  <2> QED
    BY <2>1, <2>2 DEF DcTypeOK, Ring
<1>6. ASSUME NEW n \in Ring
      PROVE  delay'[(dc_index' - 1 - n) % N]
               = IF n < 1 THEN y ELSE delay[(dc_index - 1 - (n - 1)) % N]
  <2>1. n \in 0..(N - 1) /\ dc_index' \in 0..(N - 1)
    BY <1>1, <1>2
  <2>2. PICK a \in Int : a = dc_index' - 1 - n /\ 0 - N <= a /\ a < N
    <3>1. /\ dc_index' - 1 - n \in Int
          /\ 0 - N <= dc_index' - 1 - n /\ dc_index' - 1 - n < N
      BY <1>1, <2>1, Behind
    <3> QED
      BY <3>1
  <2>3. a % N = IF a >= 0 THEN a ELSE a + N
    BY <1>1, <2>2, Around
  <2>4. a % N \in Ring
    BY <1>1, <2>2, <2>3
  <2>5. CASE n < 1
    <3>1. a % N = dc_index
      BY <1>1, <1>2, <2>1, <2>2, <2>3, <2>5
    <3> QED
      BY <1>4, <2>2, <2>4, <2>5, <3>1
  <2>6. CASE ~(n < 1)
    <3>1. PICK b \in Int : b = dc_index - 1 - (n - 1) /\ 0 - N <= b /\ b < N
      BY <1>1, <2>1, <2>6
    <3>2. b % N = IF b >= 0 THEN b ELSE b + N
      BY <1>1, <3>1, Around
    <3>3. a % N = b % N /\ a % N # dc_index
      BY <1>1, <1>2, <2>1, <2>2, <2>3, <2>6, <3>1, <3>2
    <3> QED
      BY <1>4, <2>2, <2>4, <2>6, <3>1, <3>3
  <2> QED
    BY <2>5, <2>6
<1> QED
  BY <1>5, <1>6 DEF Latest

Window == [n \in Ring |-> Latest(n)]

LEMMA RingStep ==
  ASSUME FilterInv, DcTypeOK, FilterStep
  PROVE  DcTypeOK' /\ Mean!Shift
<1>1. PICK new \in [New -> Samples] : Process(new) /\ RemoveDc(Decimated(filtered'))
  BY DEF FilterStep
<1>2. filtered' \in [Taps -> Samples]
  BY <1>1, ProcessShifts DEF Process, FilterTypeOK
<1>3. PICK y \in Results : y = Decimated(filtered')
  BY <1>2 DEF Results
<1>4. /\ DcTypeOK'
      /\ \A n \in Ring : Latest(n)' = IF n < 1 THEN y ELSE Latest(n - 1)
  BY <1>1, <1>3, RemoveDcShifts
<1> DEFINE before == [n \in Ring |-> Latest(n)]
           after == [n \in Ring |-> Latest(n)']
<1>5. after = [j \in Ring |-> IF j < 1 THEN [i \in 0..0 |-> y][j] ELSE before[j - 1]]
  <2>1. ASSUME NEW j \in Ring
        PROVE  Latest(j)' = IF j < 1 THEN [i \in 0..0 |-> y][j] ELSE before[j - 1]
    BY <1>4, DcAssumption DEF Ring
  <2> QED
    BY <2>1
<1>6. [i \in 0..0 |-> y] \in [0..(1 - 1) -> Results]
  OBVIOUS
<1>7. [n \in Ring |-> Latest(n)]' = after
  OBVIOUS
<1>8. Mean!Shift
  <2>1. \E new1 \in [0..(1 - 1) -> Results] :
          [n \in Ring |-> Latest(n)]'
            = [j \in Ring |-> IF j < 1 THEN new1[j] ELSE before[j - 1]]
    BY <1>5, <1>6, <1>7
  <2> QED
    BY <2>1 DEF Mean!Shift, Ring
<1> QED
  BY <1>4, <1>8

(***************************************************************************)
(* The mean that removeDc (psg.zig:177) takes is of the latest results of  *)
(* decimate, for every size of the ring: the result that its sum loses is  *)
(* the oldest.                                                             *)
(***************************************************************************)
THEOREM MeanOfLatestResults == FilterSpec => IsRingOfResults
<1>1. FilterInit => Mean!Init
  <2> SUFFICES ASSUME FilterInit PROVE Mean!Init
    OBVIOUS
  <2>1. ASSUME NEW n \in Ring PROVE Latest(n) = 0
    <3>1. (dc_index - 1 - n) % DC_FILTER_SIZE \in Ring
      BY DcAssumption DEF FilterInit, Ring
    <3> QED
      BY <3>1 DEF FilterInit, Latest
  <2> QED
    BY <2>1 DEF Mean!Init, Ring
<1>2. FilterInv /\ DcTypeOK /\ [FilterStep]_filter_vars => DcTypeOK' /\ [Mean!Shift]_Window
  <2> SUFFICES ASSUME FilterInv, DcTypeOK, [FilterStep]_filter_vars
               PROVE  DcTypeOK' /\ [Mean!Shift]_Window
    OBVIOUS
  <2>1. CASE FilterStep
    BY <2>1, RingStep
  <2>2. CASE UNCHANGED filter_vars
    BY <2>2 DEF filter_vars, DcTypeOK, Latest, Window
  <2> QED
    BY <2>1, <2>2
<1> QED
  BY <1>1, <1>2, InitDc, FilterInitInv, FilterStepInv, PTL
     DEF FilterSpec, IsRingOfResults, Mean!Spec, Window

-----------------------------------------------------------------------------
(* The running sum of the second filter *)

\* P are the partial sums of f.
Sums(f, n, P) == P[0] = 0 /\ \A i \in 1..n : P[i] = P[i - 1] + f[i - 1]

LEMMA TotalIsLast ==
  ASSUME NEW n \in Nat, NEW f, NEW P \in [0..n -> Int], Sums(f, n, P)
  PROVE  Total(f, n) = P[n]
<1> DEFINE Loop(q) == [i \in 0..n |-> IF i = 0 THEN 0 ELSE q[i - 1] + f[i - 1]]
           partial == CHOOSE q : q = Loop(q)
           T == {m \in Nat : m <= n => partial[m] = P[m]}
<1>1. P = Loop(P)
  BY DEF Sums
<1>2. partial = Loop(partial)
  <2> HIDE DEF Loop
  <2> QED
    BY <1>1
<1>3. Total(f, n) = partial[n]
  BY DEF Total
<1> HIDE DEF partial
<1>4. 0 \in T
  BY <1>2 DEF Sums
<1>5. ASSUME NEW m \in Nat, m \in T PROVE m + 1 \in T
  <2> SUFFICES ASSUME m + 1 <= n PROVE partial[m + 1] = P[m + 1]
    OBVIOUS
  <2>1. partial[m + 1] = partial[m] + f[m]
    BY <1>2
  <2>2. P[m + 1] = P[m] + f[m]
    BY DEF Sums
  <2> QED
    BY <1>5, <2>1, <2>2
<1>6. n \in T
  <2> HIDE DEF T
  <2> QED
    BY <1>4, <1>5, SetInduction
<1> QED
  BY <1>3, <1>6

LEMMA SumsExist ==
  ASSUME NEW n \in Nat, NEW f \in [0..(n - 1) -> Int]
  PROVE  \E P \in [0..n -> Int] : Sums(f, n, P)
<1> DEFINE next == [i \in 1..n |-> [s \in Int |-> s + f[i - 1]]]
           base == 0
<1>1. next \in [1..n -> [Int -> Int]] /\ base \in Int
  OBVIOUS
<1>2. \E P \in [0..n -> Int] : Computes(P, n, base, next)
  <2> HIDE DEF next, base
  <2> QED
    BY ONLY <1>1, n \in Nat, Recursion
<1>3. PICK P \in [0..n -> Int] : Computes(P, n, base, next)
  BY <1>2
<1>4. \A i \in 1..n : P[i - 1] \in Int
  OBVIOUS
<1> QED
  BY <1>3, <1>4 DEF Computes, Sums

LEMMA TotalIsInt ==
  ASSUME NEW n \in Nat, NEW f \in [0..(n - 1) -> Int]
  PROVE  Total(f, n) \in Int
BY SumsExist, TotalIsLast

LEMMA TotalOfZeros ==
  ASSUME NEW n \in Nat
  PROVE  Total([c \in 0..(n - 1) |-> 0], n) = 0
<1> DEFINE P == [i \in 0..n |-> 0]
<1>1. P \in [0..n -> Int] /\ Sums([c \in 0..(n - 1) |-> 0], n, P)
  BY DEF Sums
<1> QED
  BY <1>1, TotalIsLast

(* One term is replaced: the sums before it are the same, those behind it  *)
(* differ by what it does.                                                 *)
LEMMA TotalOfChanged ==
  ASSUME NEW n \in Nat, NEW f \in [0..(n - 1) -> Int], NEW k \in 0..(n - 1), NEW y \in Int
  PROVE  Total([f EXCEPT ![k] = y], n) = Total(f, n) - f[k] + y
<1> DEFINE g == [f EXCEPT ![k] = y]
<1>1. PICK P \in [0..n -> Int] : Sums(f, n, P)
  BY SumsExist
<1> DEFINE Q == [i \in 0..n |-> IF i <= k THEN P[i] ELSE P[i] - f[k] + y]
<1>2. Q \in [0..n -> Int]
  OBVIOUS
<1>3. Sums(g, n, Q)
  <2>1. Q[0] = 0
    BY <1>1 DEF Sums
  <2>2. ASSUME NEW i \in 1..n PROVE Q[i] = Q[i - 1] + g[i - 1]
    <3>1. P[i] = P[i - 1] + f[i - 1] /\ P[i - 1] \in Int /\ P[i] \in Int /\ i - 1 \in 0..n
      BY <1>1 DEF Sums
    <3>2. f[k] \in Int /\ f[i - 1] \in Int
      OBVIOUS
    <3>3. g[i - 1] = IF i - 1 = k THEN y ELSE f[i - 1]
      OBVIOUS
    <3>4. /\ Q[i] = IF i <= k THEN P[i] ELSE P[i] - f[k] + y
          /\ Q[i - 1] = IF i - 1 <= k THEN P[i - 1] ELSE P[i - 1] - f[k] + y
      BY <3>1
    <3> HIDE DEF Q, g
    <3>5. CASE i <= k
      <4>1. i - 1 <= k /\ i - 1 # k
        BY <3>5
      <4> QED
        BY <3>1, <3>3, <3>4, <3>5, <4>1
    <3>6. CASE i - 1 = k
      <4>1. i - 1 <= k /\ ~(i <= k) /\ f[i - 1] = f[k]
        BY <3>6
      <4>2. Q[i] = P[i] - f[k] + y /\ Q[i - 1] = P[i - 1] /\ g[i - 1] = y
        BY <3>3, <3>4, <3>6, <4>1
      <4> QED
        BY <3>1, <3>2, <4>1, <4>2
    <3>7. CASE i - 1 > k
      <4>1. ~(i - 1 <= k) /\ ~(i <= k) /\ i - 1 # k
        BY <3>7
      <4>2. Q[i] = P[i] - f[k] + y /\ Q[i - 1] = P[i - 1] - f[k] + y
            /\ g[i - 1] = f[i - 1]
        BY <3>3, <3>4, <4>1
      <4> QED
        BY <3>1, <3>2, <4>2
    <3> QED
      BY <3>5, <3>6, <3>7
  <2> QED
    BY <2>1, <2>2 DEF Sums
<1>4. Total(f, n) = P[n] /\ Total(g, n) = Q[n]
  <2> HIDE DEF Q, g
  <2> QED
    BY <1>1, <1>2, <1>3, TotalIsLast
<1> QED
  BY <1>4

\* removeDc's sum is that of its ring.
SumInv ==
  /\ delay \in [Ring -> Int] /\ dc_index \in Ring
  /\ sum = Total(delay, DC_FILTER_SIZE)
  /\ MeanIsRemoved

LEMMA InitSum == FilterInit => SumInv
<1> SUFFICES ASSUME FilterInit PROVE SumInv
  OBVIOUS
<1>1. DC_FILTER_SIZE \in Nat /\ 0 \in Ring
  BY DcAssumption DEF Ring
<1>2. delay \in [Ring -> Int] /\ dc_index \in Ring
  BY <1>1 DEF FilterInit
<1>3. Total(delay, DC_FILTER_SIZE) = 0
  BY <1>1, TotalOfZeros DEF FilterInit, Ring
<1>4. Latest(0) = 0
  <2>1. (dc_index - 1 - 0) % DC_FILTER_SIZE \in Ring
    BY DcAssumption DEF FilterInit, Ring
  <2> QED
    BY <2>1 DEF FilterInit, Latest
<1> QED
  BY <1>1, <1>2, <1>3, <1>4 DEF FilterInit, SumInv, MeanIsRemoved

LEMMA DecimatedIsInt ==
  ASSUME NEW line \in [Taps -> Samples]
  PROVE  Decimated(line) \in Int
<1>1. \A j \in Taps : Coefficients[j] \in Int /\ line[j] \in Int
  BY DcAssumption
<1>2. [j \in Taps |-> Coefficients[j] * line[j]] \in [0..(FIR_SIZE - 1) -> Int]
  BY <1>1 DEF Taps
<1> QED
  BY <1>2, FirAssumption, TotalIsInt DEF Decimated

LEMMA RemoveDcSums ==
  ASSUME SumInv, DcTypeOK, NEW y \in Int, RemoveDc(y)
  PROVE  SumInv'
<1>1. DC_FILTER_SIZE \in Nat /\ 0 \in Ring
  BY DcAssumption DEF Ring
<1>2. delay' = [delay EXCEPT ![dc_index] = y]
      /\ result' = DC_FILTER_SIZE * y - sum' /\ sum' = sum - delay[dc_index] + y
  BY DEF RemoveDc, SumWith
<1>3. delay' \in [Ring -> Int] /\ dc_index' \in Ring
  BY <1>2, RemoveDcShifts DEF SumInv, DcTypeOK
<1>4. sum' = Total(delay', DC_FILTER_SIZE)
  BY <1>1, <1>2, TotalOfChanged DEF SumInv, Ring
<1>5. Latest(0)' = y
  BY <1>1, RemoveDcShifts
<1> QED
  BY <1>2, <1>3, <1>4, <1>5 DEF SumInv, MeanIsRemoved

LEMMA FilterStepSums ==
  FilterInv /\ DcTypeOK /\ SumInv /\ [FilterStep]_filter_vars => SumInv'
<1> SUFFICES ASSUME FilterInv, DcTypeOK, SumInv, [FilterStep]_filter_vars
             PROVE  SumInv'
  OBVIOUS
<1>1. CASE FilterStep
  <2>1. PICK new \in [New -> Samples] : Process(new) /\ RemoveDc(Decimated(filtered'))
    BY <1>1 DEF FilterStep
  <2>2. filtered' \in [Taps -> Samples]
    BY <2>1, ProcessShifts DEF Process, FilterTypeOK
  <2> QED
    BY <2>1, <2>2, DecimatedIsInt, RemoveDcSums
<1>2. CASE UNCHANGED filter_vars
  BY <1>2 DEF filter_vars, SumInv, MeanIsRemoved, Latest
<1> QED
  BY <1>1, <1>2

(***************************************************************************)
(* removeDc (psg.zig:414) subtracts the mean of its ring from the latest   *)
(* result, for every size of the filters, samples and coefficients: the    *)
(* running sum never drifts from the sum of what the ring holds.           *)
(***************************************************************************)
THEOREM SumIsOfRing == FilterSpec => []MeanIsRemoved
<1>1. FilterInv /\ DcTypeOK /\ [FilterStep]_filter_vars => DcTypeOK'
  BY RingStep DEF filter_vars, DcTypeOK
<1>2. SumInv => MeanIsRemoved
  BY DEF SumInv
<1> QED
  BY <1>1, <1>2, InitDc, InitSum, FilterInitInv, FilterStepInv, FilterStepSums, PTL
     DEF FilterSpec
=============================================================================
