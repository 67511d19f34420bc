-------------------------------- MODULE Psg --------------------------------
(***************************************************************************)
(* psg.zig: registers, counters and envelope of the AY8910 emulation.      *)
(* writeRegister sets periods, volumes and mixer bits from the registers   *)
(* each time, so that they are operators on the registers here.  process   *)
(* adds step to x in every iteration and updates the chip when x reaches   *)
(* 1; both are counted in units of 1 / Rate.  The filters are PsgFilters.  *)
(***************************************************************************)
EXTENDS Integers

CONSTANTS
  Writes,     \* the <<offset, data>> that commands write
  MaxVolume,  \* 15
  NOISE_TOP,  \* 1 << 16, the top bit of the noise register
  Clocks,     \* of the chip, as headers have it
  Rate        \* sample_rate * 8 * DECIMATE_FACTOR

ASSUME PsgAssumption ==
  /\ Writes \subseteq (0..255) \X (0..255)
  /\ {MaxVolume, NOISE_TOP, Rate} \cup Clocks \subseteq Nat \ {0}

VARIABLES
  register, failed,
  tone,      \* per channel, counter and tone
  noise,     \* counter and noise
  envelope,  \* counter, envelope, shape and segment
  step, x,
  steps,     \* history: how often the envelope has moved since its restart
  span       \* history: the iterations of the current span, the updates in it

vars == <<register, failed, tone, noise, envelope, step, x, steps, span>>

Channels == 0..2
MaxLevel == 2 * MaxVolume + 1
Volumes == MaxVolume + 1

Bit(n, weight) == (n \div weight) % 2
AtLeastOne(n) == IF n = 0 THEN 1 ELSE n

tone_period(ch) == AtLeastOne((256 * register[2 * ch + 1] + register[2 * ch]) % 4096)
noise_period == register[6] % 32
envelope_period == AtLeastOne(256 * register[12] + register[11])
t_off(ch) == Bit(register[7], 2^ch)
n_off(ch) == Bit(register[7], 2^(ch + 3))
e_on(ch) == register[8 + ch] \div Volumes # 0
volume(ch) == register[8 + ch] % Volumes

\* table[shape][segment]
Move(shape, segment) ==
  IF segment = 0
  THEN IF shape \in (4..7) \cup (12..15) THEN "slideUp" ELSE "slideDown"
  ELSE CASE shape \in {10, 12} -> "slideUp"
         [] shape \in {8, 14} -> "slideDown"
         [] shape \in {11, 13} -> "holdTop"
         [] OTHER -> "holdBottom"

ResetLevel(shape, segment) ==
  IF Move(shape, segment) \in {"slideDown", "holdTop"} THEN MaxLevel ELSE 0

Init ==
  /\ register = [r \in 0..13 |-> 0] /\ failed = FALSE
  /\ tone = [ch \in Channels |-> [counter |-> 0, tone |-> 0]]
  /\ noise = [counter |-> 0, noise |-> 1]
  /\ envelope = [counter |-> 0, envelope |-> 0, shape |-> 0, segment |-> 0]
  /\ step \in Clocks /\ x = 0
  /\ steps = MaxLevel
  /\ span = [iterations |-> 0, updates |-> 0]

-----------------------------------------------------------------------------
\* Mutant: the segment is not reset.
RestartedInSegment(shape) ==
  [counter |-> 0, envelope |-> ResetLevel(shape, envelope.segment), shape |-> shape,
   segment |-> envelope.segment]

Restarted(shape) ==
  [counter |-> 0, envelope |-> ResetLevel(shape, 0), shape |-> shape, segment |-> 0]

\* Every write, to whichever register, restarts the envelope with the shape
\* in register 13, unless that is 255.
WriteRegister ==
  /\ ~failed
  /\ \E w \in Writes :
       IF w[1] \notin DOMAIN register
       THEN failed' = TRUE /\ UNCHANGED <<register, envelope, steps>>
       ELSE /\ register' = [register EXCEPT ![w[1]] = w[2]]
            /\ IF register'[13] # 255
               THEN envelope' = Restarted(register'[13] % 16) /\ steps' = 0
               ELSE UNCHANGED <<envelope, steps>>
            /\ UNCHANGED failed
  /\ UNCHANGED <<tone, noise, step, x, span>>

UpdateTone(ch) ==
  IF tone[ch].counter + 1 >= tone_period(ch)
  THEN [counter |-> 0, tone |-> 1 - tone[ch].tone]
  ELSE [tone[ch] EXCEPT !.counter = @ + 1]

\* Mutant: without the tap on bit 0.
FeedbackOneTap(n) == (n \div 8) % 2

\* bit0x3
Feedback(n) == (n + (n \div 8)) % 2

UpdateNoise ==
  IF noise.counter + 1 >= 2 * noise_period
  THEN [counter |-> 0,
        noise |-> (noise.noise \div 2) + Feedback(noise.noise) * NOISE_TOP]
  ELSE [noise EXCEPT !.counter = @ + 1]

\* Mutant: the level may go one beyond the top.
MovedBeyond(e) ==
  IF Move(e.shape, e.segment) = "slideUp" /\ e.envelope <= MaxLevel
  THEN [e EXCEPT !.envelope = @ + 1]
  ELSE e

\* slideUp, slideDown, holdTop, holdBottom
Moved(e) ==
  LET move == Move(e.shape, e.segment)
      other == 1 - e.segment
  IN  IF \/ move = "slideUp" /\ e.envelope + 1 > MaxLevel
         \/ move = "slideDown" /\ e.envelope - 1 < 0
      THEN [e EXCEPT !.segment = other, !.envelope = ResetLevel(e.shape, other)]
      ELSE [e EXCEPT !.envelope = CASE move = "slideUp" -> @ + 1
                                    [] move = "slideDown" -> @ - 1
                                    [] OTHER -> @]

EnvelopeMoves == envelope.counter + 1 >= envelope_period

UpdateEnvelope ==
  IF EnvelopeMoves THEN Moved([envelope EXCEPT !.counter = 0])
  ELSE [envelope EXCEPT !.counter = @ + 1]

\* Counted up to the third sweep, then round and round the last two.
Period == MaxLevel + 1
NextStep == IF steps = 3 * Period - 1 THEN Period ELSE steps + 1

Due == x + step >= Rate

\* Mutant: what is left behind an update is dropped.
AdvanceDropping == IF Due THEN 0 ELSE x + step

Advance == IF Due THEN x + step - Rate ELSE x + step

\* A span is Rate iterations: eight seconds, in which the clock ticks eight
\* times step and the chip, which divides it by eight, is due step times.
Counted ==
  LET so_far == IF span.iterations = Rate THEN [iterations |-> 0, updates |-> 0]
                ELSE span
  IN  [iterations |-> so_far.iterations + 1,
       updates |-> so_far.updates + (IF Due THEN 1 ELSE 0)]

\* One iteration of process's loop.
Iterate ==
  /\ ~failed
  /\ x' = Advance /\ span' = Counted
  /\ IF Due
     THEN /\ noise' = UpdateNoise
          /\ envelope' = UpdateEnvelope
          /\ steps' = IF EnvelopeMoves THEN NextStep ELSE steps
          /\ tone' = [ch \in Channels |-> UpdateTone(ch)]
     ELSE UNCHANGED <<noise, envelope, steps, tone>>
  /\ UNCHANGED <<register, failed, step>>

Next == WriteRegister \/ Iterate

Spec == Init /\ [][Next]_vars
-----------------------------------------------------------------------------
\* The index into dac_table.
Out(ch) ==
  LET audible == /\ tone[ch].tone = 1 \/ t_off(ch) = 1
                 /\ noise.noise % 2 = 1 \/ n_off(ch) = 1
  IN  IF ~audible THEN 0
      ELSE IF e_on(ch) THEN envelope.envelope ELSE 2 * volume(ch) + 1

-----------------------------------------------------------------------------
(* Properties *)

Levels == 0..MaxLevel
Registers == [0..13 -> 0..255]

Ranges ==
  /\ register \in Registers /\ failed \in BOOLEAN
  /\ tone \in [Channels -> [counter : Nat, tone : {0, 1}]]
  /\ noise \in [counter : Nat, noise : 0..(2 * NOISE_TOP - 1)]
  /\ envelope \in [counter : Nat, envelope : Levels, shape : 0..15, segment : {0, 1}]
  /\ step \in Clocks /\ x \in Nat
  /\ steps \in 0..(3 * Period - 1)
  /\ span \in [iterations : 0..Rate, updates : Nat]

\* And what the channels take from dac_table is there (psg.zig:158).
TypeOK == Ranges /\ \A ch \in Channels : Out(ch) \in Levels

(***************************************************************************)
(* The noise register, 17 bits fed back by an exclusive or, never becomes  *)
(* 0, a value it would never leave again.                                  *)
(***************************************************************************)
NoiseNeverStops == noise.noise # 0

(***************************************************************************)
(* The four bits of an AY8910's envelope shape, from the top: continue,    *)
(* attack, alternate and hold.  The table of two moves per shape, run by   *)
(* the segments, draws what they mean, each sweep in Period steps.         *)
(***************************************************************************)
ShapeLevel(shape, n) ==
  LET continue == Bit(shape, 8) = 1
      attack == Bit(shape, 4) = 1
      alternate == Bit(shape, 2) = 1
      hold == Bit(shape, 1) = 1
      sweep == IF n < Period THEN 0 ELSE IF n < 2 * Period THEN 1 ELSE 2
      phase == n - sweep * Period
      rising == attack # (alternate /\ sweep = 1)
  IN  IF sweep = 0 \/ (continue /\ ~hold)
      THEN IF rising THEN phase ELSE MaxLevel - phase
      ELSE IF continue /\ attack # alternate THEN MaxLevel ELSE 0

EnvelopeHasItsShape == envelope.envelope = ShapeLevel(envelope.shape, steps)

(***************************************************************************)
(* vgmspec171.txt:183 calls the header's field the "Input clock rate in Hz *)
(* for the AY8910 chip": over each span the chip is updated exactly as     *)
(* often as that clock makes it due, whatever is written in between.  A    *)
(* clock of more than 64 times the sample rate is the exception: the chip  *)
(* falls behind it, as it is updated in every iteration and no more.       *)
(***************************************************************************)
RunsAtItsClock ==
  span.iterations = Rate =>
    span.updates = IF step <= Rate THEN step ELSE Rate
=============================================================================
