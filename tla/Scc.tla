-------------------------------- MODULE Scc --------------------------------
(***************************************************************************)
(* scc.zig: the five voices of the K051649 emulation, from the writes to   *)
(* its ports up to the sample.  Every voice repeats a waveform of WaveSize *)
(* cells; counter is the position in it, with its fraction, and only its   *)
(* remainder by the length of the waveform is kept here: the masks of      *)
(* setFrequency and update read nothing above it.                          *)
(***************************************************************************)
EXTENDS Integers

UpTo(n) == 0..n
Between(m, n) == m..n

CONSTANTS
  Writes,    \* the <<port, register, data>> that commands write
  WaveSize,  \* 32
  Fraction,  \* 1 << FREQ_BITS
  Step       \* per period, what update adds to the counter

ASSUME SccAssumption ==
  /\ Writes \subseteq UpTo(255) \X UpTo(255) \X UpTo(255)
  /\ {WaveSize, Fraction} \subseteq Nat \ {0}
  /\ Step \in [UpTo(4095) -> Nat]

VARIABLES
  period, counter, waveform, volume, mute, output,  \* of each voice
  sample,  \* Chip.output
  failed

vars == <<period, counter, waveform, volume, mute, output, sample, failed>>

VOICES == 5
AMP_LOOKUP == VOICES * 256
DEF_GAIN == 8

Voices == 0..(VOICES - 1)
Cells == 0..(WaveSize - 1)
Positions == UpTo(WaveSize * Fraction - 1)

Init ==
  /\ period = [v \in Voices |-> 0] /\ counter = [v \in Voices |-> 0]
  /\ waveform = [v \in Voices |-> [c \in Cells |-> 0]]
  /\ volume = [v \in Voices |-> 0] /\ mute = [v \in Voices |-> 0]
  /\ output = [v \in Voices |-> 0]
  /\ sample = 0
  /\ failed = FALSE

-----------------------------------------------------------------------------
\* Mutant: the narrowing to i8 passes every byte.
NarrowAll(data) == TRUE

\* @intCast(i8, data)
Narrows(data) == data < 128

\* Ports 0 and 4; the branch for shared RAM is under port = 0, and asks for
\* a port of 0x60 or more.
SetWaveform(port, register, data) ==
  LET v == register \div WaveSize
  IN  /\ port \in {0, 4} /\ v \in Voices /\ Narrows(data)
      /\ waveform' = [waveform EXCEPT ![v][register % WaveSize] = data]
      /\ UNCHANGED <<period, counter, volume, mute>>

\* Mutant: the complement of the mask.
KeptStarted(count) == count % Fraction

\* counter &= 0xFFFF0000
Kept(count) == count - (count % Fraction)

SetFrequency(port, register, data) ==
  LET v == register \div 2
  IN  /\ port = 1 /\ v \in Voices
      /\ period' = [period EXCEPT ![v] =
           IF register % 2 = 1 THEN (@ % 256) + 256 * (data % 16)
           ELSE @ - (@ % 256) + data]
      /\ counter' = [counter EXCEPT ![v] = Kept(@)]
      /\ UNCHANGED <<waveform, volume, mute>>

SetVolume(port, register, data) ==
  LET v == register % 8
  IN  /\ port = 2 /\ v \in Voices
      /\ volume' = [volume EXCEPT ![v] = data % 16]
      /\ UNCHANGED <<period, counter, waveform, mute>>

SetMute(port, register, data) ==
  /\ port = 3
  /\ mute' = [v \in Voices |-> (data \div 2^v) % 2]
  /\ UNCHANGED <<period, counter, waveform, volume>>

Test(port, register, data) ==
  /\ port = 5
  /\ UNCHANGED <<period, counter, waveform, volume, mute>>

\* An index out of bounds, a byte that i8 cannot hold, or unreachable.
Panics(port, register, data) ==
  \/ port \in {0, 4} /\ (register \div WaveSize \notin Voices \/ ~Narrows(data))
  \/ port = 1 /\ register \div 2 \notin Voices
  \/ port = 2 /\ register % 8 \notin Voices
  \/ port > 5

WriteRegister ==
  /\ ~failed
  /\ \E w \in Writes :
       \/ /\ SetWaveform(w[1], w[2], w[3]) \/ SetFrequency(w[1], w[2], w[3])
             \/ SetVolume(w[1], w[2], w[3]) \/ SetMute(w[1], w[2], w[3])
             \/ Test(w[1], w[2], w[3])
          /\ UNCHANGED failed
       \/ /\ Panics(w[1], w[2], w[3])
          /\ failed' = TRUE
          /\ UNCHANGED <<period, counter, waveform, volume, mute>>
  /\ UNCHANGED <<output, sample>>

-----------------------------------------------------------------------------
Halted(v) == period[v] < 9

Advanced(v) == (counter[v] + Step[period[v]]) % (WaveSize * Fraction)

\* Mutant: without the shift.
LoudnessUnscaled(v, position) ==
  waveform[v][position \div Fraction] * (volume[v] * mute[v])

Loudness(v, position) ==
  (waveform[v][position \div Fraction] * (volume[v] * mute[v])) \div 8

\* A halted voice keeps the output that it had.
Update ==
  /\ counter' = [v \in Voices |-> IF Halted(v) THEN counter[v] ELSE Advanced(v)]
  /\ output' = [v \in Voices |->
       IF Halted(v) THEN output[v] ELSE Loudness(v, Advanced(v))]

amp_table(i) ==
  LET Value(n) == (n * DEF_GAIN * 16) \div VOICES
      Capped(n) == IF Value(n) > 32767 THEN 32767 ELSE Value(n)
  IN  IF i < AMP_LOOKUP THEN -Capped(AMP_LOOKUP - i) ELSE Capped(i - AMP_LOOKUP)

mixer == output[0] + output[1] + output[2] + output[3] + output[4]

Process ==
  /\ ~failed
  /\ Update
  /\ sample' = amp_table(AMP_LOOKUP + mixer')
  /\ UNCHANGED <<period, waveform, volume, mute, failed>>

Next == WriteRegister \/ Process

Spec == Init /\ [][Next]_vars
-----------------------------------------------------------------------------
I8 == Between(-128, 127)

\* The types of Channel: what setWaveform narrows is an i8.
TypeOK ==
  /\ period \in [Voices -> UpTo(4095)]
  /\ counter \in [Voices -> Positions]
  /\ waveform \in [Voices -> [Cells -> I8]]
  /\ volume \in [Voices -> UpTo(15)] /\ mute \in [Voices -> {0, 1}]
  /\ output \in [Voices -> Int]
  /\ sample \in Between(-32767, 32767)
  /\ failed \in BOOLEAN

(***************************************************************************)
(* process indexes amp_table, of 2 * AMP_LOOKUP + 1 entries, with the sum  *)
(* of five voices, of which some may still repeat what they put out when   *)
(* their period, volume and waveform were others.                          *)
(***************************************************************************)
MixerInTable == AMP_LOOKUP + mixer \in UpTo(2 * AMP_LOOKUP)

(***************************************************************************)
(* "Behaviour according to openMSX" (scc.zig:126): a new frequency drops   *)
(* the fraction of the position but not the position, so that none moves   *)
(* a voice within its waveform.                                            *)
(***************************************************************************)
PositionKept ==
  [][period' # period =>
       \A v \in Voices : counter'[v] \div Fraction = counter[v] \div Fraction]_vars
=============================================================================
