----------------------------- MODULE SccProofs -----------------------------
(***************************************************************************)
(* The SCC's mixer stays in its table, and its voices keep their place,    *)
(* for every length of waveform, fraction and table of steps.              *)
(***************************************************************************)
EXTENDS Scc, TLAPS

LEMMA DivMod ==
  ASSUME NEW f \in Nat \ {0}, NEW c \in Nat
  PROVE  c \div f \in Nat /\ c % f \in 0..(f - 1) /\ c = f * (c \div f) + (c % f)
BY SMT

LEMMA Product ==
  ASSUME NEW a \in Nat, NEW b \in Nat
  PROVE  a * b \in Nat
BY SMT

LEMMA Monotone ==
  ASSUME NEW f \in Nat, NEW a \in Nat, NEW b \in Nat, a >= b
  PROVE  f * a >= f * b
<1>1. PICK d \in Nat : a = b + d
  <2>1. a - b \in Nat /\ a = b + (a - b)
    OBVIOUS
  <2> QED
    BY <2>1
<1>2. f * (b + d) = f * b + f * d /\ f * b \in Nat /\ f * d \in Nat
  BY SMT
<1> QED
  BY <1>1, <1>2, SMT

LEMMA Commutes ==
  ASSUME NEW a \in Nat, NEW b \in Nat
  PROVE  a * b = b * a
BY SMT

LEMMA Quotients ==
  ASSUME NEW w \in Nat \ {0}, NEW f \in Nat \ {0}, NEW c \in 0..(w * f - 1)
  PROVE  c \div f \in 0..(w - 1)
<1>1. c \in Nat /\ c < w * f
  <2>1. w * f \in Nat
    BY Product
  <2> QED
    BY <2>1
<1>2. PICK q \in Nat, r \in 0..(f - 1) : q = c \div f /\ c = f * q + r
  BY <1>1, DivMod
<1>3. ASSUME q >= w PROVE FALSE
  <2>1. f * q >= f * w /\ f * w = w * f /\ f * q \in Nat /\ f * w \in Nat
    BY <1>3, Monotone, Commutes, Product
  <2> QED
    BY <1>1, <1>2, <2>1
<1> QED
  BY <1>2, <1>3

LEMMA Bounds ==
  ASSUME NEW n \in Nat, NEW k
  PROVE  k \in UpTo(n) <=> k \in Nat /\ k <= n
BY DEF UpTo

LEMMA Louds ==
  ASSUME NEW a \in UpTo(127), NEW b \in UpTo(15), NEW m \in {0, 1}
  PROVE  (a * (b * m)) \div 8 \in UpTo(238)
<1>1. a \in Nat /\ a <= 127 /\ b * m \in Nat /\ b * m <= 15
  <2>1. a \in Nat /\ a <= 127 /\ b \in Nat /\ b <= 15
    BY Bounds
  <2> QED
    BY <2>1, SMT
<1>2. a * (b * m) <= 127 * 15 /\ a * (b * m) \in Nat
  <2>1. a * (b * m) <= a * 15 /\ a * (b * m) \in Nat
    BY <1>1, Monotone, Product
  <2> QED
    BY <1>1, <2>1
<1>3. (a * (b * m)) \div 8 \in Nat /\ (a * (b * m)) \div 8 <= 238
  BY <1>2, SMT
<1> QED
  BY <1>3, Bounds

LEMMA QuotientOfMultiple ==
  ASSUME NEW f \in Nat \ {0}, NEW k \in Nat
  PROVE  (f * k) \div f = k
BY SMT

\* What is left without the remainder has the same quotient.
LEMMA WithoutRemainder ==
  ASSUME NEW f \in Nat \ {0}, NEW c \in Nat
  PROVE  c - (c % f) \in 0..c /\ (c - (c % f)) \div f = c \div f
<1>1. PICK q \in Nat, r \in 0..(f - 1) :
        q = c \div f /\ r = c % f /\ c = f * q + r
  BY DivMod
<1>2. f * q \in Nat /\ (f * q) \div f = q
  BY Product, QuotientOfMultiple
<1> QED
  BY <1>1, <1>2

-----------------------------------------------------------------------------
\* The two ways that setFrequency puts a byte into a period.
LEMMA Nibbles ==
  ASSUME NEW p \in UpTo(4095), NEW d \in UpTo(255)
  PROVE  (p % 256) + 256 * (d % 16) \in UpTo(4095) /\ p - (p % 256) + d \in UpTo(4095)
<1>1. p \in Nat /\ p <= 4095 /\ d \in Nat /\ d <= 255
  BY Bounds
<1> DEFINE hi == p \div 256
           lo == p % 256
<1>2. hi \in Nat /\ lo \in Nat /\ p = 256 * hi + lo /\ lo <= 255 /\ hi <= 15
  BY <1>1, SMT
<1>3. d % 16 \in Nat /\ d % 16 <= 15
  BY <1>1, SMT
<1> HIDE DEF hi, lo
<1>4. /\ lo + 256 * (d % 16) \in Nat /\ lo + 256 * (d % 16) <= 4095
      /\ p - lo + d \in Nat /\ p - lo + d <= 4095
  BY <1>1, <1>2, <1>3
<1> QED
  BY <1>4, Bounds DEF lo

LEMMA LowBits ==
  ASSUME NEW d \in UpTo(255)
  PROVE  d % 16 \in UpTo(15) /\ \A v \in 0..4 : (d \div 2^v) % 2 \in {0, 1}
<1>1. d \in Nat
  BY Bounds
<1>2. d % 16 \in Nat /\ d % 16 <= 15
  BY <1>1, SMT
<1>3. 2^0 = 1 /\ 2^1 = 2 /\ 2^2 = 4 /\ 2^3 = 8 /\ 2^4 = 16
  BY SMT
<1>4. ASSUME NEW v \in 0..4
      PROVE  (d \div 2^v) % 2 \in {0, 1}
  <2>1. 2^v \in Nat \ {0}
    <3>1. CASE v = 0
      BY <1>3, <3>1
    <3>2. CASE v = 1
      BY <1>3, <3>2
    <3>3. CASE v = 2
      BY <1>3, <3>3
    <3>4. CASE v = 3
      BY <1>3, <3>4
    <3>5. CASE v = 4
      BY <1>3, <3>5
    <3> QED
      BY <3>1, <3>2, <3>3, <3>4, <3>5
  <2>2. d \div 2^v \in Nat
    BY <1>1, <2>1, DivMod
  <2>3. \A n \in Nat : n % 2 \in {0, 1}
    BY SMT
  <2> QED
    BY <2>2, <2>3
<1> QED
  BY <1>2, <1>4, Bounds

LEMMA FiveVoices == Voices = 0..4
BY DEF Voices, VOICES

LEMMA Sizes == WaveSize \in Nat \ {0} /\ Fraction \in Nat \ {0}
BY SccAssumption

LEMMA Lengths == WaveSize * Fraction \in Nat \ {0}
<1>1. WaveSize * Fraction >= WaveSize * 1 /\ WaveSize * Fraction \in Nat
  BY Sizes, Monotone, Product
<1> QED
  BY <1>1, Sizes

LEMMA PositionsAreNumbers == 0 \in Positions /\ Positions \subseteq Nat
<1> DEFINE n == WaveSize * Fraction
<1>1. n \in Nat \ {0} /\ Positions = 0..(n - 1)
  BY Lengths DEF Positions, UpTo
<1> HIDE DEF n
<1> QED
  BY <1>1

LEMMA Below ==
  ASSUME NEW c \in Positions, NEW d \in 0..c
  PROVE  d \in Positions
<1> DEFINE n == WaveSize * Fraction
<1>1. n \in Nat \ {0} /\ c \in 0..(n - 1)
  BY Lengths DEF Positions, UpTo
<1> HIDE DEF n
<1>2. d \in 0..(n - 1)
  BY <1>1
<1> QED
  BY <1>2 DEF n, Positions, UpTo

LEMMA Keeps ==
  ASSUME NEW c \in Positions
  PROVE  Kept(c) \in Positions /\ Kept(c) \div Fraction = c \div Fraction
<1>1. Kept(c) \in 0..c /\ Kept(c) \div Fraction = c \div Fraction
  BY Sizes, PositionsAreNumbers, WithoutRemainder DEF Kept
<1> QED
  BY <1>1, Below

-----------------------------------------------------------------------------
(***************************************************************************)
(* The inductive invariant: outputs, also those of voices that have since  *)
(* been halted, are at most what the loudest voice puts out.  Of the i8    *)
(* cells, setWaveform fills only the half that @intCast takes.             *)
(***************************************************************************)
Unsigned == waveform \in [Voices -> [Cells -> UpTo(127)]]

Quiet == output \in [Voices -> UpTo(238)]

IInv == TypeOK /\ Unsigned /\ Quiet

LEMMA Ranges ==
  ASSUME NEW m \in Int, NEW n \in Int, NEW k
  PROVE  k \in Between(m, n) <=> k \in Int /\ m <= k /\ k <= n
BY DEF Between

LEMMA Narrow ==
  ASSUME NEW w \in [Voices -> [Cells -> UpTo(127)]]
  PROVE  w \in [Voices -> [Cells -> I8]]
<1>1. ASSUME NEW n \in UpTo(127) PROVE n \in I8
  <2>1. n \in Nat /\ n <= 127
    BY Bounds
  <2> QED
    BY <2>1, Ranges DEF I8
<1> QED
  BY <1>1

LEMMA Samples == UpTo(32767) \subseteq Between(-32767, 32767)
<1> SUFFICES ASSUME NEW n \in UpTo(32767) PROVE n \in Between(-32767, 32767)
  OBVIOUS
<1>1. n \in Nat /\ n <= 32767
  BY Bounds
<1> QED
  BY <1>1, Ranges

LEMMA Sums ==
  ASSUME Quiet
  PROVE  mixer \in Nat /\ mixer <= 1190
<1>1. \A v \in 0..4 : output[v] \in Nat /\ output[v] <= 238
  BY FiveVoices, Bounds DEF Quiet
<1> QED
  BY <1>1 DEF mixer

LEMMA TableOfSums ==
  ASSUME NEW m \in Nat
  PROVE  amp_table(AMP_LOOKUP + m) \in UpTo(32767)
<1>1. AMP_LOOKUP = 1280 /\ DEF_GAIN = 8
  BY DEF AMP_LOOKUP, DEF_GAIN, VOICES
<1>2. amp_table(AMP_LOOKUP + m) \in Nat /\ amp_table(AMP_LOOKUP + m) <= 32767
  BY <1>1, SMT DEF amp_table, VOICES
<1> QED
  BY <1>2, Bounds

LEMMA Zeros ==
  /\ 0 \in UpTo(4095) /\ 0 \in UpTo(127) /\ 0 \in UpTo(15)
  /\ 0 \in UpTo(238) /\ 0 \in UpTo(32767) /\ 0 \in Positions
BY Bounds, PositionsAreNumbers

LEMMA InitInv == Init => IInv
<1> SUFFICES ASSUME Init PROVE IInv
  OBVIOUS
<1>1. /\ period \in [Voices -> UpTo(4095)] /\ counter \in [Voices -> Positions]
      /\ volume \in [Voices -> UpTo(15)] /\ mute \in [Voices -> {0, 1}]
      /\ output \in [Voices -> UpTo(238)] /\ output \in [Voices -> Int]
  BY Zeros DEF Init
<1>2. waveform \in [Voices -> [Cells -> UpTo(127)]]
  BY Zeros DEF Init
<1>3. sample \in UpTo(32767) /\ failed \in BOOLEAN
  <2>1. sample \in UpTo(32767)
    BY Zeros DEF Init
  <2>2. failed \in BOOLEAN
    BY DEF Init
  <2> QED
    BY <2>1, <2>2
<1> QED
  BY <1>1, <1>2, <1>3, Narrow, Samples DEF IInv, TypeOK, Unsigned, Quiet

LEMMA SetKeeps ==
  ASSUME TypeOK, Unsigned, NEW port, NEW register \in UpTo(255), NEW data \in UpTo(255),
         \/ SetWaveform(port, register, data) \/ SetFrequency(port, register, data)
         \/ SetVolume(port, register, data) \/ SetMute(port, register, data)
         \/ Test(port, register, data)
  PROVE  /\ period' \in [Voices -> UpTo(4095)]
         /\ counter' \in [Voices -> Positions]
         /\ waveform' \in [Voices -> [Cells -> UpTo(127)]]
         /\ volume' \in [Voices -> UpTo(15)] /\ mute' \in [Voices -> {0, 1}]
<1>1. CASE SetWaveform(port, register, data)
  <2>1. register \div WaveSize \in Voices /\ data \in UpTo(127)
    BY <1>1, Bounds DEF SetWaveform, Narrows
  <2>2. register % WaveSize \in Cells
    <3>1. register \in Nat
      BY Bounds
    <3> QED
      BY <3>1, DivMod, Sizes DEF Cells
  <2>3. waveform' \in [Voices -> [Cells -> UpTo(127)]]
    BY <1>1, <2>1, <2>2 DEF SetWaveform, Unsigned
  <2> QED
    BY <1>1, <2>3 DEF SetWaveform, TypeOK
<1>2. CASE SetFrequency(port, register, data)
  <2>1. ASSUME NEW p \in UpTo(4095)
        PROVE  (p % 256) + 256 * (data % 16) \in UpTo(4095)
    BY Nibbles
  <2>2. ASSUME NEW p \in UpTo(4095)
        PROVE  p - (p % 256) + data \in UpTo(4095)
    BY Nibbles
  <2>3. period' \in [Voices -> UpTo(4095)]
    BY <1>2, <2>1, <2>2 DEF SetFrequency, TypeOK
  <2>4. \A c \in Positions : Kept(c) \in Positions
    BY Keeps
  <2>5. counter' \in [Voices -> Positions]
    BY <1>2, <2>4 DEF SetFrequency, TypeOK
  <2> QED
    BY <1>2, <2>3, <2>5 DEF SetFrequency, TypeOK, Unsigned
<1>3. CASE SetVolume(port, register, data)
  <2>1. volume' \in [Voices -> UpTo(15)]
    BY <1>3, LowBits DEF SetVolume, TypeOK
  <2> QED
    BY <1>3, <2>1 DEF SetVolume, TypeOK, Unsigned
<1>4. CASE SetMute(port, register, data)
  <2>1. \A v \in Voices : (data \div 2^v) % 2 \in {0, 1}
    BY LowBits, FiveVoices
  <2>2. mute' \in [Voices -> {0, 1}]
    BY <1>4, <2>1 DEF SetMute, TypeOK
  <2> QED
    BY <1>4, <2>2 DEF SetMute, TypeOK, Unsigned
<1>5. CASE Test(port, register, data)
  BY <1>5 DEF Test, TypeOK, Unsigned
<1> QED
  BY <1>1, <1>2, <1>3, <1>4, <1>5

LEMMA WriteKeeps == IInv /\ WriteRegister => IInv'
<1> SUFFICES ASSUME IInv, WriteRegister PROVE IInv'
  OBVIOUS
<1>1. PICK w \in Writes :
        \/ /\ SetWaveform(w[1], w[2], w[3]) \/ SetFrequency(w[1], w[2], w[3])
              \/ SetVolume(w[1], w[2], w[3]) \/ SetMute(w[1], w[2], w[3])
              \/ Test(w[1], w[2], w[3])
           /\ UNCHANGED failed
        \/ /\ Panics(w[1], w[2], w[3])
           /\ failed' = TRUE
           /\ UNCHANGED <<period, counter, waveform, volume, mute>>
  BY DEF WriteRegister
<1>2. w[2] \in UpTo(255) /\ w[3] \in UpTo(255)
  BY SccAssumption
<1>3. /\ period' \in [Voices -> UpTo(4095)]
      /\ counter' \in [Voices -> Positions]
      /\ waveform' \in [Voices -> [Cells -> UpTo(127)]]
      /\ volume' \in [Voices -> UpTo(15)] /\ mute' \in [Voices -> {0, 1}]
  <2>1. CASE UNCHANGED <<period, counter, waveform, volume, mute>>
    BY <2>1 DEF IInv, TypeOK, Unsigned
  <2>2. CASE \/ SetWaveform(w[1], w[2], w[3]) \/ SetFrequency(w[1], w[2], w[3])
             \/ SetVolume(w[1], w[2], w[3]) \/ SetMute(w[1], w[2], w[3])
             \/ Test(w[1], w[2], w[3])
    <3>1. TypeOK /\ Unsigned
      BY DEF IInv
    <3> QED
      BY <1>2, <2>2, <3>1, SetKeeps
  <2> QED
    BY <1>1, <2>1, <2>2
<1>4. failed' \in BOOLEAN
  <2>1. failed' = failed \/ failed' = TRUE
    BY <1>1
  <2>2. failed \in BOOLEAN
    BY DEF IInv, TypeOK
  <2> QED
    BY <2>1, <2>2
<1> QED
  BY <1>3, <1>4, Narrow DEF WriteRegister, IInv, TypeOK, Unsigned, Quiet

LEMMA AdvancedIsPosition ==
  ASSUME TypeOK, NEW v \in Voices
  PROVE  Advanced(v) \in Positions
<1>1. counter[v] \in Nat /\ period[v] \in UpTo(4095)
  <2>1. counter[v] \in Positions
    BY DEF TypeOK
  <2>2. period[v] \in UpTo(4095)
    BY DEF TypeOK
  <2>3. counter[v] \in Nat
    BY <2>1, PositionsAreNumbers
  <2> QED
    BY <2>2, <2>3
<1>2. Step[period[v]] \in Nat
  BY <1>1, SccAssumption
<1>3. counter[v] + Step[period[v]] \in Nat
  BY <1>1, <1>2
<1> QED
  BY <1>3, Lengths, DivMod DEF Advanced, Positions, UpTo

LEMMA LoudnessIsBounded ==
  ASSUME TypeOK, Unsigned, NEW v \in Voices, NEW c \in Positions
  PROVE  Loudness(v, c) \in UpTo(238)
<1>1. c \div Fraction \in Cells
  BY Sizes, Quotients DEF Positions, Cells, UpTo
<1>2. /\ waveform[v][c \div Fraction] \in UpTo(127)
      /\ volume[v] \in UpTo(15) /\ mute[v] \in {0, 1}
  BY <1>1 DEF TypeOK, Unsigned
<1> QED
  BY <1>2, Louds DEF Loudness

LEMMA ProcessKeeps == IInv /\ Process => IInv'
<1> SUFFICES ASSUME IInv, Process PROVE IInv'
  OBVIOUS
<1>1. \A v \in Voices : Advanced(v) \in Positions /\ Loudness(v, Advanced(v)) \in UpTo(238)
  BY AdvancedIsPosition, LoudnessIsBounded DEF IInv
<1>2. /\ counter' \in [Voices -> Positions]
      /\ output' \in [Voices -> UpTo(238)]
  BY <1>1 DEF Process, Update, IInv, TypeOK, Quiet
<1>3. output' \in [Voices -> Nat] /\ output' \in [Voices -> Int]
  BY <1>2, Bounds
<1>4. mixer' \in Nat
  <2>1. \A v \in 0..4 : output'[v] \in Nat
    BY <1>3, FiveVoices
  <2> QED
    BY <2>1 DEF mixer
<1>5. sample' \in UpTo(32767)
  BY <1>4, TableOfSums DEF Process
<1> QED
  BY <1>2, <1>3, <1>5, Samples DEF Process, IInv, TypeOK, Unsigned, Quiet

THEOREM InvHolds == Spec => []IInv
<1>1. IInv /\ UNCHANGED vars => IInv'
  BY DEF IInv, TypeOK, Unsigned, Quiet, vars
<1> QED
  BY <1>1, InitInv, WriteKeeps, ProcessKeeps, PTL DEF Spec, Next

(***************************************************************************)
(* Every cell, position, volume and output stays in its range, whatever is *)
(* written.  They would overflow if @intCast passed every byte.            *)
(***************************************************************************)
THEOREM SccTypeCorrect == Spec => []TypeOK
<1>1. IInv => TypeOK
  BY DEF IInv
<1> QED
  BY <1>1, InvHolds, PTL

(***************************************************************************)
(* process never indexes amp_table beyond its ends.                        *)
(***************************************************************************)
THEOREM MixerStaysInTable == Spec => []MixerInTable
<1>1. IInv => MixerInTable
  <2> SUFFICES ASSUME Quiet PROVE MixerInTable
    BY DEF IInv
  <2>1. mixer \in Nat /\ mixer <= 1190
    BY Sums
  <2>2. AMP_LOOKUP = 1280
    BY DEF AMP_LOOKUP, VOICES
  <2>3. AMP_LOOKUP + mixer \in Nat /\ AMP_LOOKUP + mixer <= 2 * AMP_LOOKUP
        /\ 2 * AMP_LOOKUP \in Nat
    BY <2>1, <2>2
  <2> QED
    BY <2>3, Bounds DEF MixerInTable
<1> QED
  BY <1>1, InvHolds, PTL

(***************************************************************************)
(* A new period leaves every voice where it is in its waveform.            *)
(***************************************************************************)
THEOREM FrequencyKeepsPosition == Spec => PositionKept
<1> DEFINE Stays == \A v \in Voices : counter'[v] \div Fraction = counter[v] \div Fraction
<1>1. TypeOK /\ [Next]_vars => (period' # period => Stays)
  <2> SUFFICES ASSUME TypeOK, Next, period' # period PROVE Stays
    BY DEF vars
  <2>1. PICK w \in Writes : SetFrequency(w[1], w[2], w[3])
    BY DEF Next, WriteRegister, SetWaveform, SetVolume, SetMute, Test, Process
  <2>2. ASSUME NEW v \in Voices
        PROVE  counter'[v] \div Fraction = counter[v] \div Fraction
    <3>1. counter[v] \in Positions
      BY DEF TypeOK
    <3>2. counter'[v] = Kept(counter[v]) \/ counter'[v] = counter[v]
      BY <2>1 DEF SetFrequency, TypeOK
    <3> QED
      BY <3>1, <3>2, Keeps
  <2> QED
    BY <2>2
<1>2. TypeOK /\ [Next]_vars => [period' # period => Stays]_vars
  BY <1>1
<1> QED
  BY <1>2, SccTypeCorrect, PTL DEF Spec, PositionKept
=============================================================================
