---------------------------- MODULE DummyProofs ----------------------------
(***************************************************************************)
(* The output stream of the dummy backend and its ring buffer, whose       *)
(* counts are right for every capacity, every width of the offsets and     *)
(* every interleaving of the two threads, as long as the buffer is not     *)
(* cleared while another thread reads.  No write overruns the ring buffer  *)
(* of a stream, and the stream keeps what soundio.h promises, for every    *)
(* capacity and frame size.                                                *)
(***************************************************************************)
EXTENDS RingBuffer, DummyOutStream, SequenceTheorems, TLAPS

-----------------------------------------------------------------------------
(* RingBuffer *)

ClearsAlone == "clears" \notin Uses

(* Unsigned subtraction counts the bytes between two offsets, across the   *)
(* wrap of the offsets.                                                    *)
LEMMA MinusRange ==
  ASSUME NEW x \in Offsets, NEW y \in Offsets
  PROVE  Minus(x, y) \in Nat /\ Minus(x, y) < OffsetModulus
BY RingBufferAssumption DEF Minus, Offsets

LEMMA MinusSelf ==
  ASSUME NEW x \in Offsets PROVE Minus(x, x) = 0
BY RingBufferAssumption DEF Minus, Offsets

LEMMA WriteGrows ==
  ASSUME NEW x \in Offsets, NEW y \in Offsets, NEW n \in Nat,
         Minus(x, y) + n < OffsetModulus
  PROVE  Plus(x, n) \in Offsets /\ Minus(Plus(x, n), y) = Minus(x, y) + n
BY RingBufferAssumption DEF Minus, Plus, Offsets

LEMMA ReadShrinks ==
  ASSUME NEW x \in Offsets, NEW y \in Offsets, NEW n \in Nat, n <= Minus(x, y)
  PROVE  Plus(y, n) \in Offsets /\ Minus(x, Plus(y, n)) = Minus(x, y) - n
BY RingBufferAssumption DEF Minus, Plus, Offsets

LEMMA CountOf ==
  ASSUME NEW x \in Offsets, NEW y \in Offsets, Minus(x, y) <= Capacity
  PROVE  Count(x, y) = Minus(x, y) /\ Sound(Count(x, y))
BY RingBufferAssumption, MinusRange DEF Count, Sound

(* Fewer filled bytes leave no less room.                                  *)
LEMMA RoomGrows ==
  ASSUME NEW filled \in Nat, NEW fewer \in Nat, fewer <= filled,
         NEW n \in Nat, n <= Capacity - filled
  PROVE  n <= Capacity - fewer
BY RingBufferAssumption

\* The bytes the writer believes are filled: never fewer than are.
Believed == Minus(write_offset, w_read)

Counts ==
  /\ Filled <= Capacity
  /\ w_pc \in {"free_count", "assert"} => Filled <= Believed /\ Believed <= Capacity
  /\ w_pc = "copy" => Len(w_bytes) <= w_free /\ w_free <= Capacity - Filled
  /\ w_pc # "copy" => w_bytes = <<>>
  /\ r_pc \in {"fill_count", "assert"} => r_read = read_offset
  /\ r_pc = "copy" => Len(r_bytes) <= r_fill /\ r_fill <= Filled
  /\ r_pc # "copy" => r_bytes = <<>>

\* One thread does one thing at a time; a clear meets no reader.
Turns ==
  /\ ~Concurrent => w_pc = "idle" \/ r_pc = "idle"
  /\ w_pc = "clear" => Clears /\ w_read = read_offset

BufferInv == BufferTypeOK /\ AssertionsHold /\ Counts /\ Turns

LEMMA InitCounts == BufferInit => BufferInv
<1> SUFFICES ASSUME BufferInit PROVE BufferInv  OBVIOUS
<1>1. 0 \in Offsets /\ 0 \in 0..Capacity
  BY RingBufferAssumption DEF Offsets
<1>2. Filled = 0
  BY <1>1, MinusSelf DEF BufferInit, Filled
<1>3. BufferTypeOK
  <2>1. r_bytes \in Seq(Bytes) /\ Len(r_bytes) = 0
    BY DEF BufferInit
  <2>2. 0 <= Capacity
    BY RingBufferAssumption
  <2>3. memory \in [0..(Capacity - 1) -> Bytes] /\ failed \in BOOLEAN
    BY DEF BufferInit
  <2> QED  BY <1>1, <2>1, <2>2, <2>3 DEF BufferInit, BufferTypeOK
<1>4. Counts
  BY <1>2, RingBufferAssumption DEF BufferInit, Counts
<1> QED  BY <1>3, <1>4 DEF BufferInit, BufferInv, AssertionsHold, Turns, Concurrent

LEMMA WriterCounts ==
  ASSUME ClearsAlone, BufferInv, Writer, UNCHANGED use
  PROVE  BufferInv'
<1> USE RingBufferAssumption DEF BufferInv, AssertionsHold, WriterTurn, Turns, Concurrent, Clears
<1>0. /\ write_offset \in Offsets /\ read_offset \in Offsets /\ w_read \in Offsets
      /\ Filled \in Nat /\ Filled < OffsetModulus
  BY MinusRange DEF BufferTypeOK, Filled
<1>1. CASE FreeCountBegins \/ WriteAssertBegins \/ ClearBegins
  BY <1>0, <1>1
     DEF FreeCountBegins, WriteAssertBegins, ClearBegins, WriterLoadsRead,
         BufferTypeOK, Counts, Filled, Believed, reader_vars
<1>2. CASE FreeCountEnds
  <2>1. Believed <= Capacity /\ Filled <= Believed /\ Believed \in Nat
    BY <1>0, <1>2, MinusRange DEF FreeCountEnds, Counts, Believed
  <2>2. Count(write_offset, w_read) = Believed /\ Sound(Believed)
    BY <1>0, <2>1, CountOf DEF Believed
  <2> QED
    BY <1>0, <1>2, <2>1, <2>2
       DEF FreeCountEnds, BufferTypeOK, Counts, Filled, Believed, reader_vars
<1>3. CASE CopyIn
  <2>1. PICK byte \in Bytes :
          /\ memory' = [memory EXCEPT ![Cell(write_offset, Len(w_bytes))] = byte]
          /\ w_bytes' = Append(w_bytes, byte)
    BY <1>3 DEF CopyIn
  <2>2. w_bytes' \in Seq(Bytes) /\ Len(w_bytes') = Len(w_bytes) + 1
    BY <2>1 DEF BufferTypeOK
  <2>3. memory' \in [0..(Capacity - 1) -> Bytes]
    BY <2>1 DEF BufferTypeOK
  <2> QED
    BY <1>0, <1>3, <2>2, <2>3
       DEF CopyIn, BufferTypeOK, Counts, Filled, Believed, reader_vars
<1>4. CASE AdvanceWrite
  <2>1. Len(w_bytes) \in Nat /\ Len(w_bytes) <= Capacity - Filled
    BY <1>0, <1>4 DEF AdvanceWrite, BufferTypeOK, Counts
  <2>2. Filled + Len(w_bytes) < OffsetModulus
    BY <1>0, <2>1
  <2>3. write_offset' \in Offsets /\ Filled' = Filled + Len(w_bytes)
    BY <1>0, <1>4, <2>1, <2>2, WriteGrows DEF AdvanceWrite, Filled
  <2> QED
    BY <1>0, <1>4, <2>1, <2>3
       DEF AdvanceWrite, BufferTypeOK, Counts, Believed, reader_vars
<1>5. CASE WriteAssertEnds
  <2>1. Sound(Count(write_offset, w_read))
    BY <1>0, <1>5, CountOf DEF WriteAssertEnds, Counts, Believed
  <2> QED
    BY <1>5, <2>1
       DEF WriteAssertEnds, BufferTypeOK, Counts, Filled, Believed, reader_vars
<1>6. CASE ClearEnds
  <2>1. write_offset' = read_offset /\ read_offset' = read_offset
        /\ r_pc = "idle"
    BY <1>6 DEF ClearEnds, ClearsAlone, BufferTypeOK
  <2>2. Filled' = 0
    BY <1>0, <2>1, MinusSelf DEF Filled
  <2> QED
    BY <1>0, <1>6, <2>1, <2>2
       DEF ClearEnds, BufferTypeOK, Counts, Believed, reader_vars
<1> QED
  BY <1>1, <1>2, <1>3, <1>4, <1>5, <1>6 DEF Writer

LEMMA ReaderCounts ==
  ASSUME ClearsAlone, BufferInv, Reader, UNCHANGED use
  PROVE  BufferInv'
<1> USE RingBufferAssumption DEF BufferInv, AssertionsHold, ReaderTurn, Turns, Concurrent, Clears
<1>0. /\ write_offset \in Offsets /\ read_offset \in Offsets
      /\ w_read \in Offsets /\ r_read \in Offsets
      /\ Filled \in Nat /\ Filled < OffsetModulus
  BY MinusRange DEF BufferTypeOK, Filled
<1>1. CASE FillCountBegins \/ ReadAssertBegins
  BY <1>0, <1>1
     DEF FillCountBegins, ReadAssertBegins, ReaderLoadsRead, BufferTypeOK, Counts,
         Filled, Believed, writer_vars
<1>2. CASE FillCountEnds
  <2>1. Count(write_offset, r_read) = Filled /\ Sound(Filled)
    BY <1>0, <1>2, CountOf DEF FillCountEnds, Counts, Filled
  <2> QED
    BY <1>0, <1>2, <2>1
       DEF FillCountEnds, BufferTypeOK, Counts, Filled, Believed, writer_vars
<1>3. CASE CopyOut
  <2>1. Cell(read_offset, Len(r_bytes)) \in 0..(Capacity - 1)
    BY <1>0, <1>3 DEF CopyOut, Cell, Mirrored, BufferTypeOK, Counts, Offsets
  <2>2. r_bytes' \in Seq(Bytes) /\ Len(r_bytes') = Len(r_bytes) + 1
    BY <1>3, <2>1 DEF CopyOut, BufferTypeOK
  <2> QED
    BY <1>0, <1>3, <2>2
       DEF CopyOut, BufferTypeOK, Counts, Filled, Believed, writer_vars
<1>4. CASE AdvanceRead
  <2>1. Len(r_bytes) \in Nat /\ Len(r_bytes) <= Filled
    BY <1>0, <1>4 DEF AdvanceRead, BufferTypeOK, Counts
  <2>2. read_offset' \in Offsets /\ Filled' = Filled - Len(r_bytes)
    BY <1>0, <1>4, <2>1, ReadShrinks DEF AdvanceRead, Filled
  <2>3. /\ r_bytes' = <<>> /\ r_pc' = "advanced" /\ Len(r_bytes') = 0
        /\ UNCHANGED <<write_offset, memory, failed, w_pc, w_read, w_free,
                       w_bytes, r_read, r_fill>>
    BY <1>4 DEF AdvanceRead, writer_vars
  <2>4. BufferTypeOK'
    <3>1. r_bytes' \in Seq(Bytes) /\ Len(r_bytes') <= Capacity
      BY <2>3, RingBufferAssumption
    <3>2. /\ failed' \in BOOLEAN
          /\ memory' \in [0..(Capacity - 1) -> Bytes]
          /\ w_bytes' \in Seq(Bytes) /\ Len(w_bytes') <= Capacity
      BY <2>3 DEF BufferTypeOK
    <3>3. /\ write_offset' \in Offsets /\ w_read' \in Offsets /\ r_read' \in Offsets
          /\ w_pc' \in {"idle", "free_count", "copy", "advanced", "assert", "clear"}
          /\ r_pc' \in {"idle", "fill_count", "copy", "advanced", "assert"}
          /\ w_free' \in 0..Capacity /\ r_fill' \in 0..Capacity
      BY <2>3 DEF BufferTypeOK
    <3>4. use' \in Uses
      BY DEF BufferTypeOK
    <3> QED  BY <2>2, <3>1, <3>2, <3>3, <3>4 DEF BufferTypeOK
  <2>5. Filled' <= Filled /\ Believed' = Believed /\ Believed \in Nat
    <3>1. Filled' <= Filled
      BY <1>0, <2>1, <2>2
    <3>2. Believed' = Believed
      BY <2>3 DEF Believed
    <3>3. Believed \in Nat
      BY <1>0, MinusRange DEF Believed
    <3> QED  BY <3>1, <3>2, <3>3
  <2>6. Counts'
    <3>1. Filled' \in Nat /\ Filled' <= Capacity
      BY <1>0, <2>1, <2>2 DEF Counts
    <3>2. w_pc' = "copy" => Len(w_bytes') <= w_free' /\ w_free' <= Capacity - Filled'
      <4>1. w_free \in Nat /\ Filled \in Nat /\ Filled' <= Filled
        BY <1>0, <2>5 DEF BufferTypeOK
      <4>2. w_pc = "copy" => Len(w_bytes) <= w_free /\ w_free <= Capacity - Filled
        BY DEF Counts
      <4>3. w_free <= Capacity - Filled => w_free <= Capacity - Filled'
        BY <3>1, <4>1, RoomGrows
      <4> QED  BY <2>3, <4>2, <4>3
    <3>3. w_pc' \in {"free_count", "assert"} =>
            Filled' <= Believed' /\ Believed' <= Capacity
      BY <1>0, <2>3, <2>5, <3>1 DEF Counts
    <3> QED
      BY <2>3, <3>1, <3>2, <3>3 DEF Counts
  <2>7. Turns'
    <3>1. w_pc # "clear"
      BY <1>4 DEF AdvanceRead, ClearsAlone, BufferTypeOK
    <3> QED  BY <1>4, <2>3, <3>1 DEF AdvanceRead
  <2> QED
    BY <1>4, <2>3, <2>4, <2>6, <2>7 DEF AdvanceRead
<1>5. CASE ReadAssertEnds
  <2>1. Sound(Count(write_offset, r_read))
    BY <1>0, <1>5, CountOf DEF ReadAssertEnds, Counts, Filled
  <2> QED
    BY <1>5, <2>1
       DEF ReadAssertEnds, BufferTypeOK, Counts, Filled, Believed, writer_vars
<1> QED
  BY <1>1, <1>2, <1>3, <1>4, <1>5 DEF Reader

LEMMA CountsInvariant == ASSUME ClearsAlone PROVE BufferSpec => []BufferInv
<1>1. BufferInv /\ [BufferNext]_buffer_vars => BufferInv'
  <2>1. BufferInv /\ UNCHANGED buffer_vars => BufferInv'
    BY DEF buffer_vars, history, writer_vars, reader_vars, BufferInv, BufferTypeOK, AssertionsHold,
           Counts, Turns, Filled, Believed, Concurrent, Clears
  <2> QED  BY <2>1, WriterCounts, ReaderCounts DEF BufferNext
<1> QED  BY <1>1, InitCounts, PTL DEF BufferSpec

(* No assertion of ring_buffer.c fails.                                    *)
THEOREM NoAssertionFails == ASSUME ClearsAlone PROVE BufferSpec => []AssertionsHold
BY CountsInvariant, PTL DEF BufferInv

(* What writer and reader believe they may copy, they may.                 *)
THEOREM EstimatesAreSafe == ASSUME ClearsAlone PROVE BufferSpec => []SafeEstimates
<1>1. BufferInv => SafeEstimates
  BY DEF BufferInv, Counts, SafeEstimates
<1> QED  BY <1>1, CountsInvariant, PTL

-----------------------------------------------------------------------------
(* The bytes *)

\* Offsets modulo the capacity do not jump where the offsets wrap.
CapacityDivides == \E m \in Nat : OffsetModulus = Capacity * m

LEMMA ModOf ==
  ASSUME NEW c \in Nat \ {0}, NEW q \in Int, NEW r \in 0..(c - 1)
  PROVE  (c * q + r) % c = r
OBVIOUS

LEMMA Distributes ==
  ASSUME NEW c \in Nat, NEW k \in Int, NEW m \in Int
  PROVE  c * (k - m) = c * k - c * m /\ c * k \in Int /\ c * m \in Int
OBVIOUS

LEMMA PositionOf ==
  ASSUME NEW x \in Nat
  PROVE  x % Capacity \in 0..(Capacity - 1)
BY RingBufferAssumption

\* The cells behind an offset are those of the capacity, each once.
LEMMA CellsOf ==
  ASSUME NEW x \in Nat, NEW i \in 0..(Capacity - 1)
  PROVE  Cell(x, i) \in 0..(Capacity - 1)
BY PositionOf, RingBufferAssumption DEF Cell, Mirrored

LEMMA CellsDiffer ==
  ASSUME NEW x \in Nat, NEW i \in 0..(Capacity - 1), NEW j \in 0..(Capacity - 1),
         Cell(x, i) = Cell(x, j)
  PROVE  i = j
<1>1. PICK p \in 0..(Capacity - 1) : p = x % Capacity
  BY PositionOf
<1> QED
  BY <1>1, RingBufferAssumption DEF Cell, Mirrored

\* Advancing moves the position by as many cells, around the end of both.
LEMMA PositionMoves ==
  ASSUME CapacityDivides, NEW x \in Offsets, NEW n \in 0..Capacity
  PROVE  Plus(x, n) % Capacity = Mirrored((x % Capacity) + n)
<1> DEFINE C == Capacity
<1>1. PICK m \in Nat : OffsetModulus = C * m
  BY DEF CapacityDivides
<1>2. C \in Nat \ {0} /\ x \in Nat /\ n \in 0..C
  BY RingBufferAssumption DEF Offsets
<1> HIDE DEF C
<1>3. PICK q \in Nat, p \in 0..(C - 1) : x = C * q + p /\ p = x % C
  <2>1. x \div C \in Nat /\ x % C \in 0..(C - 1) /\ x = C * (x \div C) + (x % C)
    BY <1>2
  <2> QED
    BY <2>1
<1> DEFINE wraps == p + n >= C
           k == IF wraps THEN q + 1 ELSE q
           r == IF wraps THEN p + n - C ELSE p + n
<1>4. k \in Nat /\ r \in 0..(C - 1) /\ x + n = C * k + r
  <2>1. C * q \in Nat /\ C * (q + 1) = C * q + C
    BY <1>2, <1>3
  <2>2. CASE wraps
    <3>1. p + n - C \in 0..(C - 1) /\ x + n = (C * q + C) + (p + n - C)
      BY <1>2, <1>3, <2>1, <2>2
    <3> QED
      BY <1>3, <2>1, <2>2, <3>1
  <2>3. CASE ~wraps
    <3>1. p + n \in 0..(C - 1) /\ x + n = C * q + (p + n)
      BY <1>2, <1>3, <2>1, <2>3
    <3> QED
      BY <1>3, <2>3, <3>1
  <2> QED
    BY <2>2, <2>3
<1> HIDE DEF k, r
<1>5. (x + n) % C = r
  <2>1. k \in Int /\ r \in 0..(C - 1) /\ C \in Nat \ {0}
    BY <1>2, <1>4
  <2>2. (C * k + r) % C = r
    BY <2>1, ModOf
  <2> QED
    BY <1>4, <2>2
<1>6. (x + n - C * m) % C = r
  <2>1. C * (k - m) = C * k - C * m /\ C * m \in Int /\ C * k \in Int
    BY <1>1, <1>2, <1>4, Distributes
  <2>2. x + n - C * m = C * (k - m) + r
    <3>1. x + n - C * m = C * k - C * m + r
      BY <1>2, <1>4, <2>1
    <3> QED
      BY <2>1, <3>1
  <2>3. (C * (k - m) + r) % C = r
    <3>1. k - m \in Int
      BY <1>1, <1>4
    <3> QED
      BY <1>2, <1>4, <3>1, ModOf
  <2> QED
    BY <2>2, <2>3
<1>7. Plus(x, n) \in {x + n, x + n - C * m}
  BY <1>1 DEF Plus
<1> QED
  <2>1. Plus(x, n) % C = r
    BY <1>5, <1>6, <1>7
  <2>2. r = Mirrored((x % C) + n)
    BY <1>2, <1>3 DEF r, C, Mirrored
  <2> QED
    BY <2>1, <2>2 DEF C

LEMMA CellsMove ==
  ASSUME CapacityDivides, NEW x \in Offsets, NEW n \in Nat, NEW i \in Nat, n + i < Capacity
  PROVE  Cell(Plus(x, n), i) = Cell(x, n + i)
<1>1. Capacity \in Nat \ {0} /\ x \in Nat /\ n \in 0..Capacity
  BY RingBufferAssumption DEF Offsets
<1>2. PICK p \in 0..(Capacity - 1) : p = x % Capacity
  BY <1>1, PositionOf
<1>3. Plus(x, n) % Capacity = Mirrored(p + n)
  BY <1>1, <1>2, PositionMoves
<1> QED
  BY <1>1, <1>2, <1>3 DEF Cell, Mirrored

\* The writer begins where the filled bytes end.
LEMMA WriterCells ==
  ASSUME CapacityDivides, BufferTypeOK, NEW i \in Nat, Filled + i < Capacity
  PROVE  Cell(write_offset, i) = Cell(read_offset, Filled + i)
<1>1. /\ write_offset \in Offsets /\ read_offset \in Offsets
      /\ Filled \in Nat
  BY MinusRange DEF BufferTypeOK, Filled
<1>2. write_offset = Plus(read_offset, Filled)
  BY <1>1, RingBufferAssumption DEF Filled, Minus, Plus, Offsets
<1> QED
  BY <1>1, <1>2, CellsMove

\* What the two threads have copied so far, and not yet advanced over.
InFlight ==
  /\ \A i \in 1..Len(w_bytes) : w_bytes[i] = memory[Cell(write_offset, i - 1)]
  /\ \A i \in 1..Len(r_bytes) : r_bytes[i] = memory[Cell(read_offset, i - 1)]

LEMMA InFlightStep ==
  ASSUME CapacityDivides, BufferInv, InFlight, [BufferNext]_buffer_vars
  PROVE  InFlight'
<1> USE DEF BufferInv, InFlight
<1>1. /\ write_offset \in Nat /\ read_offset \in Nat
      /\ Filled \in Nat /\ Filled <= Capacity /\ Capacity \in Nat \ {0}
      /\ w_bytes \in Seq(Bytes) /\ r_bytes \in Seq(Bytes)
      /\ Len(w_bytes) \in Nat /\ Len(r_bytes) \in Nat
  <2>1. write_offset \in Offsets /\ read_offset \in Offsets
        /\ w_bytes \in Seq(Bytes) /\ r_bytes \in Seq(Bytes)
    BY DEF BufferTypeOK
  <2>2. write_offset \in Nat /\ read_offset \in Nat /\ Capacity \in Nat \ {0}
    BY <2>1, RingBufferAssumption DEF Offsets
  <2>3. Filled \in Nat
    BY <2>1, MinusRange DEF Filled
  <2>4. Filled <= Capacity
    BY DEF Counts
  <2>5. Len(w_bytes) \in Nat /\ Len(r_bytes) \in Nat
    BY <2>1, LenProperties
  <2> QED
    BY <2>1, <2>2, <2>3, <2>4, <2>5
<1>2. CASE CopyIn
  <2>1. PICK byte \in Bytes :
          /\ memory' = [memory EXCEPT ![Cell(write_offset, Len(w_bytes))] = byte]
          /\ w_bytes' = Append(w_bytes, byte)
    BY <1>2 DEF CopyIn
  <2>2. UNCHANGED <<write_offset, read_offset, r_bytes>>
    BY <1>2 DEF CopyIn, reader_vars
  <2> DEFINE k == Len(w_bytes)
             cell == Cell(write_offset, k)
  <2>3. k \in Nat /\ Filled + k < Capacity
    BY <1>1, <1>2 DEF CopyIn, Counts, BufferTypeOK
  <2>4. /\ cell \in 0..(Capacity - 1)
        /\ memory' = [memory EXCEPT ![cell] = byte]
    <3>1. k \in 0..(Capacity - 1)
      BY <1>1, <2>3
    <3>2. cell \in 0..(Capacity - 1)
      BY <1>1, <3>1, CellsOf
    <3> QED
      BY <2>1, <3>2
  <2>5. memory \in [0..(Capacity - 1) -> Bytes]
    BY DEF BufferTypeOK
  <2>6. ASSUME NEW i \in 1..(k + 1)
        PROVE  w_bytes'[i] = memory'[Cell(write_offset, i - 1)]
    <3>1. CASE i = k + 1
      <4>1. w_bytes'[i] = byte /\ Cell(write_offset, i - 1) = cell
        BY <1>1, <2>1, <3>1
      <4> QED
        BY <2>4, <2>5, <4>1
    <3>2. CASE i # k + 1
      <4>1. i \in 1..k /\ i - 1 \in 0..(Capacity - 1) /\ k \in 0..(Capacity - 1)
        BY <1>1, <2>3, <3>2
      <4>2. Cell(write_offset, i - 1) # cell
        BY <1>1, <4>1, CellsDiffer
      <4>3. Cell(write_offset, i - 1) \in 0..(Capacity - 1)
        BY <1>1, <4>1, CellsOf
      <4>4. memory'[Cell(write_offset, i - 1)] = memory[Cell(write_offset, i - 1)]
        BY <2>4, <2>5, <4>2, <4>3
      <4>5. w_bytes'[i] = w_bytes[i]
        BY <1>1, <2>1, <4>1
      <4> QED
        BY <4>1, <4>4, <4>5
    <3> QED
      BY <3>1, <3>2
  <2>7. ASSUME NEW i \in 1..Len(r_bytes)
        PROVE  r_bytes[i] = memory'[Cell(read_offset, i - 1)]
    <3>1. Len(r_bytes) <= Filled
      BY <1>1 DEF Counts, BufferTypeOK
    <3>2. i - 1 \in 0..(Capacity - 1) /\ i - 1 # Filled + k /\ Filled + k \in 0..(Capacity - 1)
      BY <1>1, <2>3, <3>1
    <3>3. cell = Cell(read_offset, Filled + k)
      BY <2>3, WriterCells
    <3>4. Cell(read_offset, i - 1) # cell /\ Cell(read_offset, i - 1) \in 0..(Capacity - 1)
      BY <1>1, <3>2, <3>3, CellsDiffer, CellsOf
    <3>5. memory'[Cell(read_offset, i - 1)] = memory[Cell(read_offset, i - 1)]
      BY <2>4, <2>5, <3>4
    <3> QED
      BY <3>5
  <2>8. Len(w_bytes)' = k + 1
    BY <1>1, <2>1
  <2>9. \A i \in 1..Len(w_bytes') : w_bytes'[i] = memory'[Cell(write_offset', i - 1)]
    BY <2>2, <2>6, <2>8
  <2>10. \A i \in 1..Len(r_bytes') : r_bytes'[i] = memory'[Cell(read_offset', i - 1)]
    BY <2>2, <2>7
  <2>11. \A i : Cell(write_offset, i)' = Cell(write_offset', i)
                /\ Cell(read_offset, i)' = Cell(read_offset', i)
    BY DEF Cell, Mirrored
  <2> QED
    BY <2>9, <2>10, <2>11
<1>3. CASE CopyOut
  <2>1. /\ r_bytes' = Append(r_bytes, memory[Cell(read_offset, Len(r_bytes))])
        /\ UNCHANGED <<write_offset, read_offset, memory, w_bytes>>
    BY <1>3 DEF CopyOut, writer_vars
  <2>2. Len(r_bytes') = Len(r_bytes) + 1
    BY <1>1, <2>1
  <2>3. ASSUME NEW i \in 1..(Len(r_bytes) + 1)
        PROVE  r_bytes'[i] = memory[Cell(read_offset, i - 1)]
    <3>1. CASE i = Len(r_bytes) + 1
      <4>1. i - 1 = Len(r_bytes)
        BY <1>1, <3>1
      <4> QED
        BY <1>1, <2>1, <3>1, <4>1
    <3>2. CASE i # Len(r_bytes) + 1
      <4>1. i \in 1..Len(r_bytes) /\ r_bytes'[i] = r_bytes[i]
        BY <1>1, <2>1, <3>2
      <4> QED
        BY <4>1
    <3> QED
      BY <3>1, <3>2
  <2> QED
    BY <2>1, <2>2, <2>3 DEF Cell
<1>4. CASE AdvanceWrite
  <2>1. w_bytes' = <<>> /\ UNCHANGED <<read_offset, memory, r_bytes>>
    BY <1>4 DEF AdvanceWrite, reader_vars
  <2> QED
    BY <2>1 DEF Cell
<1>5. CASE AdvanceRead
  <2>1. r_bytes' = <<>> /\ UNCHANGED <<write_offset, memory, w_bytes>>
    BY <1>5 DEF AdvanceRead, writer_vars
  <2> QED
    BY <2>1 DEF Cell
<1>6. CASE ClearEnds
  <2>1. w_bytes = <<>> /\ UNCHANGED <<read_offset, memory, w_bytes, r_bytes>>
    BY <1>6 DEF ClearEnds, Counts, reader_vars
  <2> QED
    BY <2>1 DEF Cell
<1>7. CASE \/ FreeCountBegins \/ FreeCountEnds \/ WriteAssertBegins \/ WriteAssertEnds
           \/ ClearBegins \/ FillCountBegins \/ FillCountEnds \/ ReadAssertBegins
           \/ ReadAssertEnds \/ UNCHANGED buffer_vars
  <2>1. UNCHANGED <<write_offset, read_offset, memory, w_bytes, r_bytes>>
    BY <1>7 DEF FreeCountBegins, FreeCountEnds, WriteAssertBegins, WriteAssertEnds,
         ClearBegins, WriterLoadsRead, FillCountBegins, FillCountEnds, ReadAssertBegins,
         ReadAssertEnds, ReaderLoadsRead, writer_vars, reader_vars, buffer_vars
  <2> QED
    BY <2>1 DEF Cell
<1> QED
  BY <1>2, <1>3, <1>4, <1>5, <1>6, <1>7 DEF BufferNext, Writer, Reader

LEMMA InFlightInvariant ==
  ASSUME ClearsAlone, CapacityDivides
  PROVE  BufferSpec => []InFlight
<1>1. BufferInit => InFlight
  BY DEF BufferInit, InFlight
<1> QED
  BY <1>1, InFlightStep, CountsInvariant, PTL DEF BufferSpec

-----------------------------------------------------------------------------
(* The buffer as a queue *)

\* The n bytes behind an offset.
Contents(m, x, n) == [i \in 1..n |-> m[Cell(x, i - 1)]]

Memories == [0..(Capacity - 1) -> Bytes]

LEMMA ContentsOf ==
  ASSUME NEW m \in Memories, NEW x \in Nat, NEW n \in 0..Capacity
  PROVE  /\ Contents(m, x, n) \in Seq(Bytes)
         /\ Len(Contents(m, x, n)) = n
         /\ \A i \in 1..n : Contents(m, x, n)[i] = m[Cell(x, i - 1)]
<1>1. n \in Nat /\ n <= Capacity /\ Capacity \in Nat
  BY RingBufferAssumption
<1>2. ASSUME NEW i \in 1..n PROVE m[Cell(x, i - 1)] \in Bytes
  <2>1. i - 1 \in 0..(Capacity - 1)
    BY <1>1
  <2>2. Cell(x, i - 1) \in 0..(Capacity - 1)
    BY <2>1, CellsOf
  <2> QED
    BY <2>2 DEF Memories
<1>3. Contents(m, x, n) \in [1..n -> Bytes]
  BY <1>2 DEF Contents
<1>4. Contents(m, x, n) \in Seq(Bytes)
  BY <1>1, <1>3, SeqDef
<1>5. Len(Contents(m, x, n)) = n
  <2>1. DOMAIN Contents(m, x, n) = 1..n
    BY <1>3
  <2>2. /\ Len(Contents(m, x, n)) \in Nat
        /\ DOMAIN Contents(m, x, n) = 1..Len(Contents(m, x, n))
    BY <1>4, LenProperties
  <2> QED
    BY <1>1, <2>1, <2>2
<1> QED
  BY <1>4, <1>5 DEF Contents

\* A batch copied behind the contents becomes their end.
LEMMA PutContents ==
  ASSUME CapacityDivides, NEW m \in Memories, NEW x \in Offsets, NEW n \in Nat,
         NEW batch \in Seq(Bytes), n + Len(batch) <= Capacity,
         \A i \in 1..Len(batch) : batch[i] = m[Cell(Plus(x, n), i - 1)]
  PROVE  Contents(m, x, n + Len(batch)) = Contents(m, x, n) \o batch
<1> DEFINE k == Len(batch)
           before == Contents(m, x, n)
           after == Contents(m, x, n + k)
<1>1. k \in Nat /\ x \in Nat /\ Capacity \in Nat \ {0}
  BY LenProperties, RingBufferAssumption DEF Offsets
<1>2. n \in 0..Capacity /\ n + k \in 0..Capacity
  BY <1>1
<1>3. /\ before \in Seq(Bytes) /\ Len(before) = n
      /\ \A i \in 1..n : before[i] = m[Cell(x, i - 1)]
  BY <1>1, <1>2, ContentsOf
<1>4. /\ after \in Seq(Bytes) /\ Len(after) = n + k
      /\ \A i \in 1..(n + k) : after[i] = m[Cell(x, i - 1)]
  BY <1>1, <1>2, ContentsOf
<1> HIDE DEF before, after
<1>5. /\ before \o batch \in Seq(Bytes)
      /\ Len(before \o batch) = n + k
      /\ \A i \in 1..(n + k) :
           (before \o batch)[i] = IF i <= n THEN before[i] ELSE batch[i - n]
  BY <1>3, ConcatProperties
<1>6. ASSUME NEW i \in 1..(n + k) PROVE after[i] = (before \o batch)[i]
  <2>1. CASE i <= n
    <3>1. i \in 1..n
      BY <1>1, <2>1
    <3> QED
      BY <1>3, <1>4, <1>5, <2>1, <3>1
  <2>2. CASE ~(i <= n)
    <3>1. i - n \in 1..k /\ i - n - 1 \in Nat /\ n + (i - n - 1) = i - 1
          /\ n + (i - n - 1) < Capacity
      BY <1>1, <1>2, <2>2
    <3>2. PICK j \in Nat : j = i - n - 1
      BY <3>1
    <3>3. Cell(Plus(x, n), j) = Cell(x, n + j)
      BY <3>1, <3>2, CellsMove
    <3>4. batch[i - n] = m[Cell(Plus(x, n), j)]
      BY <3>1, <3>2
    <3>5. (before \o batch)[i] = batch[i - n]
      BY <1>5, <2>2
    <3>6. after[i] = m[Cell(x, n + j)]
      BY <1>4, <3>1, <3>2
    <3> QED
      BY <3>3, <3>4, <3>5, <3>6
  <2> QED
    BY <2>1, <2>2
<1>7. after = before \o batch
  BY <1>4, <1>5, <1>6, SeqEqual
<1> QED
  BY <1>7 DEF before, after

\* What is left behind the bytes taken.
LEMMA GetContents ==
  ASSUME CapacityDivides, NEW m \in Memories, NEW x \in Offsets,
         NEW n \in 0..Capacity, NEW k \in 1..n
  PROVE  SubSeq(Contents(m, x, n), k + 1, n) = Contents(m, Plus(x, k), n - k)
<1> DEFINE before == Contents(m, x, n)
           after == Contents(m, Plus(x, k), n - k)
           rest == SubSeq(before, k + 1, n)
<1>1. /\ x \in Nat /\ Capacity \in Nat \ {0} /\ n \in Nat /\ k \in Nat /\ k <= n
      /\ n <= Capacity /\ n - k \in 0..Capacity
  BY RingBufferAssumption DEF Offsets
<1>2. Plus(x, k) \in Nat
  BY <1>1, RingBufferAssumption DEF Plus
<1>3. /\ before \in Seq(Bytes) /\ Len(before) = n
      /\ \A i \in 1..n : before[i] = m[Cell(x, i - 1)]
  BY <1>1, ContentsOf
<1>4. /\ after \in Seq(Bytes) /\ Len(after) = n - k
      /\ \A i \in 1..(n - k) : after[i] = m[Cell(Plus(x, k), i - 1)]
  BY <1>1, <1>2, ContentsOf
<1> HIDE DEF before, after
<1>5. /\ rest \in Seq(Bytes) /\ Len(rest) = n - k
      /\ \A i \in 1..(n - k) : rest[i] = before[k + i]
  <2>1. \A i \in (k + 1)..n : before[i] \in Bytes
    <3>1. \A i \in 1..n : before[i] \in Bytes
      BY <1>3, ElementOfSeq
    <3> QED
      BY <1>1, <3>1
  <2>2. /\ rest \in Seq(Bytes)
        /\ Len(rest) = IF k + 1 <= n THEN n - (k + 1) + 1 ELSE 0
        /\ \A i \in 1..(n - (k + 1) + 1) : rest[i] = before[(k + 1) + i - 1]
    <3>1. k + 1 \in Int /\ n \in Int
      BY <1>1
    <3> QED
      BY <2>1, <3>1, SubSeqProperties
  <2> HIDE DEF rest
  <2>3. k + 1 <= n \/ n - k = 0
    BY <1>1
  <2>4. n - (k + 1) + 1 = n - k
    BY <1>1
  <2>5. Len(rest) = n - k
    BY <2>2, <2>3, <2>4
  <2>6. ASSUME NEW i \in 1..(n - k) PROVE rest[i] = before[k + i]
    <3>1. (k + 1) + i - 1 = k + i
      BY <1>1
    <3>2. i \in 1..(n - (k + 1) + 1)
      BY <2>4
    <3>3. rest[i] = before[(k + 1) + i - 1]
      BY <2>2, <3>2
    <3> QED
      BY <3>1, <3>3
  <2> QED
    BY <2>2, <2>5, <2>6
<1> HIDE DEF rest
<1>6. ASSUME NEW i \in 1..(n - k) PROVE rest[i] = after[i]
  <2>1. PICK j \in Nat : j = i - 1
    BY <1>1
  <2>2. /\ k + j < Capacity /\ k + j = (k + i) - 1 /\ k + i \in 1..n
    BY <1>1, <2>1
  <2>3. Cell(Plus(x, k), j) = Cell(x, k + j)
    BY <1>1, <2>1, <2>2, CellsMove
  <2>4. rest[i] = m[Cell(x, k + j)]
    <3>1. rest[i] = before[k + i]
      BY <1>5
    <3>2. before[k + i] = m[Cell(x, (k + i) - 1)]
      BY <1>3, <2>2
    <3> QED
      BY <2>2, <3>1, <3>2
  <2>5. after[i] = m[Cell(Plus(x, k), j)]
    BY <1>4, <2>1
  <2> QED
    BY <2>3, <2>4, <2>5
<1>7. rest = after
  BY <1>4, <1>5, <1>6, SeqEqual
<1> QED
  BY <1>7 DEF rest, before, after

\* A byte copied behind the contents is not one of them.
LEMMA CopyContents ==
  ASSUME NEW m \in Memories, NEW x \in Nat, NEW j \in 0..(Capacity - 1),
         NEW n \in 0..j, NEW byte \in Bytes
  PROVE  Contents([m EXCEPT ![Cell(x, j)] = byte], x, n) = Contents(m, x, n)
<1>1. ASSUME NEW i \in 1..n
      PROVE  [m EXCEPT ![Cell(x, j)] = byte][Cell(x, i - 1)] = m[Cell(x, i - 1)]
  <2>1. i - 1 \in 0..(Capacity - 1) /\ i - 1 # j
    BY RingBufferAssumption
  <2>2. Cell(x, i - 1) # Cell(x, j) /\ Cell(x, i - 1) \in 0..(Capacity - 1)
    BY <2>1, CellsDiffer, CellsOf
  <2> QED
    BY <2>2 DEF Memories
<1> QED
  BY <1>1 DEF Contents

TheQueue == Contents(memory, read_offset, Filled)

QueueUnchanged == UNCHANGED <<TheQueue, put, got>>

LEMMA InitQueue == BufferInit => Queue!Init
<1> SUFFICES ASSUME BufferInit PROVE Queue!Init  OBVIOUS
<1>1. Filled = 0 /\ memory \in Memories
  BY MinusSelf, RingBufferAssumption DEF BufferInit, Filled, Offsets, Memories
<1>2. TheQueue \in Seq(Bytes) /\ Len(TheQueue) = 0
  BY <1>1, ContentsOf, RingBufferAssumption DEF TheQueue, BufferInit
<1>3. TheQueue = <<>>
  BY <1>2, EmptySeq
<1> QED
  BY <1>3 DEF BufferInit, Queue!Init, TheQueue, Contents

LEMMA QueueStep ==
  ASSUME ClearsAlone, CapacityDivides, BufferInv, InFlight, [BufferNext]_buffer_vars
  PROVE  \/ Queue!Put \/ Queue!Get \/ Queue!Clear
         \/ QueueUnchanged
<1>1. /\ write_offset \in Offsets /\ read_offset \in Offsets
      /\ read_offset \in Nat /\ Capacity \in Nat \ {0}
      /\ memory \in Memories
      /\ w_bytes \in Seq(Bytes) /\ r_bytes \in Seq(Bytes)
  BY RingBufferAssumption DEF BufferInv, BufferTypeOK, Offsets, Memories
<1>2. Filled \in 0..Capacity
  <2>1. Filled \in Nat
    BY <1>1, MinusRange DEF Filled
  <2>2. Filled <= Capacity
    BY DEF BufferInv, Counts
  <2> QED
    BY <1>1, <2>1, <2>2
<1>3. /\ TheQueue \in Seq(Bytes) /\ Len(TheQueue) = Filled
      /\ \A i \in 1..Filled : TheQueue[i] = memory[Cell(read_offset, i - 1)]
  BY <1>1, <1>2, ContentsOf DEF TheQueue
<1>4. TheQueue' = Contents(memory', read_offset', Filled')
  BY DEF TheQueue, Contents, Cell, Mirrored
<1>5. Len(w_bytes) \in Nat /\ Len(r_bytes) \in Nat
  BY <1>1, LenProperties
<1>6. CASE AdvanceWrite
  <2>1. /\ put' = w_bytes /\ w_bytes # <<>>
        /\ write_offset' = Plus(write_offset, Len(w_bytes))
        /\ UNCHANGED <<read_offset, memory, got>>
    BY <1>6 DEF AdvanceWrite
  <2>2. Len(w_bytes) \in 1..(Capacity - Filled)
    <3>1. w_pc = "copy" /\ w_free \in Nat
      BY <1>6 DEF AdvanceWrite, BufferInv, BufferTypeOK
    <3>2. Len(w_bytes) <= w_free /\ w_free <= Capacity - Filled
      BY <3>1 DEF BufferInv, Counts
    <3>3. Len(w_bytes) # 0
      BY <1>1, <2>1, EmptySeq
    <3> QED
      BY <1>1, <1>2, <1>5, <3>1, <3>2, <3>3
  <2>3. Filled' = Filled + Len(w_bytes)
    <3>1. Filled + Len(w_bytes) < OffsetModulus
      BY <1>1, <1>2, <2>2, RingBufferAssumption
    <3> QED
      BY <1>1, <1>5, <2>1, <3>1, WriteGrows DEF Filled
  <2>4. write_offset = Plus(read_offset, Filled)
    BY <1>1, RingBufferAssumption DEF Filled, Minus, Plus, Offsets
  <2>5. TheQueue' = TheQueue \o w_bytes
    <3>1. \A i \in 1..Len(w_bytes) :
            w_bytes[i] = memory[Cell(Plus(read_offset, Filled), i - 1)]
      BY <2>4 DEF InFlight
    <3>2. Filled + Len(w_bytes) <= Capacity /\ Filled \in Nat
      BY <1>1, <1>2, <1>5, <2>2
    <3>3. Contents(memory, read_offset, Filled + Len(w_bytes))
            = Contents(memory, read_offset, Filled) \o w_bytes
      BY <1>1, <3>1, <3>2, PutContents
    <3> QED
      BY <1>4, <2>1, <2>3, <3>3 DEF TheQueue
  <2>6. w_bytes \in [1..Len(w_bytes) -> Bytes]
    BY <1>1, LenProperties
  <2>7. \E n \in 1..(Capacity - Len(TheQueue)) : \E batch \in [1..n -> Bytes] :
          put' = batch /\ TheQueue' = TheQueue \o batch /\ UNCHANGED got
    BY <1>3, <2>1, <2>2, <2>5, <2>6
  <2> QED
    BY <2>7 DEF Queue!Put, TheQueue, Contents
<1>7. CASE AdvanceRead
  <2>1. /\ got' = r_bytes /\ r_bytes # <<>>
        /\ read_offset' = Plus(read_offset, Len(r_bytes))
        /\ UNCHANGED <<write_offset, memory, put>>
    BY <1>7 DEF AdvanceRead
  <2>2. Len(r_bytes) \in 1..Filled
    <3>1. r_pc = "copy" /\ r_fill \in Nat
      BY <1>7 DEF AdvanceRead, BufferInv, BufferTypeOK
    <3>2. Len(r_bytes) <= r_fill /\ r_fill <= Filled
      BY <3>1 DEF BufferInv, Counts
    <3>3. Len(r_bytes) # 0
      BY <1>1, <2>1, EmptySeq
    <3> QED
      BY <1>1, <1>2, <1>5, <3>1, <3>2, <3>3
  <2>3. Filled' = Filled - Len(r_bytes)
    BY <1>1, <1>5, <2>1, <2>2, ReadShrinks DEF Filled
  <2>4. TheQueue' = SubSeq(TheQueue, Len(r_bytes) + 1, Len(TheQueue))
    <3>1. SubSeq(Contents(memory, read_offset, Filled), Len(r_bytes) + 1, Filled)
            = Contents(memory, Plus(read_offset, Len(r_bytes)), Filled - Len(r_bytes))
      BY <1>1, <1>2, <2>2, GetContents
    <3> QED
      BY <1>3, <1>4, <2>1, <2>3, <3>1 DEF TheQueue
  <2>5. r_bytes = SubSeq(TheQueue, 1, Len(r_bytes))
    <3>1. PICK n \in 1..Filled : n = Len(r_bytes)
      BY <2>2
    <3>2. \A i \in 1..n : TheQueue[i] \in Bytes
      BY <1>2, <1>3, <3>1, ElementOfSeq
    <3>3. /\ SubSeq(TheQueue, 1, n) \in Seq(Bytes)
          /\ Len(SubSeq(TheQueue, 1, n)) = IF 1 <= n THEN n - 1 + 1 ELSE 0
          /\ \A i \in 1..(n - 1 + 1) : SubSeq(TheQueue, 1, n)[i] = TheQueue[1 + i - 1]
      BY <1>2, <3>1, <3>2, SubSeqProperties
    <3>4. ASSUME NEW i \in 1..n PROVE r_bytes[i] = SubSeq(TheQueue, 1, n)[i]
      <4>1. i \in 1..(n - 1 + 1) /\ 1 + i - 1 = i /\ i \in 1..Filled
        BY <1>2, <3>1
      <4>2. SubSeq(TheQueue, 1, n)[i] = TheQueue[i]
        BY <3>3, <4>1
      <4>3. TheQueue[i] = memory[Cell(read_offset, i - 1)]
        BY <1>3, <4>1
      <4>4. r_bytes[i] = memory[Cell(read_offset, i - 1)]
        BY <3>1 DEF InFlight
      <4> QED
        BY <4>2, <4>3, <4>4
    <3>5. Len(SubSeq(TheQueue, 1, n)) = n
      BY <1>2, <3>1, <3>3
    <3> QED
      BY <1>1, <3>1, <3>3, <3>4, <3>5, SeqEqual
  <2>6. \E n \in 1..Len(TheQueue) :
          /\ got' = SubSeq(TheQueue, 1, n)
          /\ TheQueue' = SubSeq(TheQueue, n + 1, Len(TheQueue))
          /\ UNCHANGED put
    BY <1>3, <2>1, <2>2, <2>4, <2>5
  <2> QED
    BY <2>6 DEF Queue!Get, TheQueue, Contents
<1>8. CASE ClearEnds
  <2>1. write_offset' = read_offset /\ UNCHANGED <<read_offset, memory, put, got>>
    BY <1>8 DEF ClearEnds, BufferInv, Turns, history
  <2>2. Filled' = 0
    BY <1>1, <2>1, MinusSelf DEF Filled
  <2>3. Contents(memory, read_offset, 0) \in Seq(Bytes)
        /\ Len(Contents(memory, read_offset, 0)) = 0
    BY <1>1, ContentsOf
  <2>4. TheQueue' = <<>>
    BY <1>4, <2>1, <2>2, <2>3, EmptySeq
  <2> QED
    BY <2>1, <2>4 DEF Queue!Clear, TheQueue, Contents
<1>9. CASE CopyIn
  <2>1. PICK byte \in Bytes :
          memory' = [memory EXCEPT ![Cell(write_offset, Len(w_bytes))] = byte]
    BY <1>9 DEF CopyIn
  <2>2. UNCHANGED <<write_offset, read_offset, put, got>>
    BY <1>9 DEF CopyIn, history
  <2>3. Filled + Len(w_bytes) < Capacity
    <3>1. w_pc = "copy" /\ w_free \in Nat /\ Len(w_bytes) < w_free
      BY <1>9 DEF CopyIn, BufferInv, BufferTypeOK
    <3>2. w_free <= Capacity - Filled
      BY <3>1 DEF BufferInv, Counts
    <3> QED
      BY <1>1, <1>2, <1>5, <3>1, <3>2
  <2>4. Cell(write_offset, Len(w_bytes)) = Cell(read_offset, Filled + Len(w_bytes))
    BY <1>5, <2>3, WriterCells DEF BufferInv
  <2>5. PICK j \in 0..(Capacity - 1) : j = Filled + Len(w_bytes) /\ Filled \in 0..j
    BY <1>1, <1>2, <1>5, <2>3
  <2>6. Contents([memory EXCEPT ![Cell(read_offset, j)] = byte], read_offset, Filled)
          = Contents(memory, read_offset, Filled)
    BY <1>1, <2>5, CopyContents
  <2>7. Filled' = Filled
    BY <2>2 DEF Filled
  <2> QED
    BY <1>4, <2>1, <2>2, <2>4, <2>5, <2>6, <2>7 DEF TheQueue, QueueUnchanged
<1>10. CASE \/ FreeCountBegins \/ FreeCountEnds \/ WriteAssertBegins \/ WriteAssertEnds
            \/ ClearBegins \/ FillCountBegins \/ FillCountEnds \/ CopyOut
            \/ ReadAssertBegins \/ ReadAssertEnds \/ UNCHANGED buffer_vars
  <2>1. UNCHANGED <<write_offset, read_offset, memory, put, got>>
    BY <1>10 DEF FreeCountBegins, FreeCountEnds, WriteAssertBegins, WriteAssertEnds,
         ClearBegins, WriterLoadsRead, FillCountBegins, FillCountEnds, CopyOut,
         ReadAssertBegins, ReadAssertEnds, ReaderLoadsRead, history, buffer_vars
  <2>2. Filled' = Filled
    BY <2>1 DEF Filled
  <2> QED
    BY <1>4, <2>1, <2>2 DEF TheQueue, QueueUnchanged
<1> QED
  BY <1>6, <1>7, <1>8, <1>9, <1>10 DEF BufferNext, Writer, Reader

(* Every buffer whose capacity divides the offsets' range is a queue of    *)
(* bytes: the batches come out as they were put in, in order, each once,   *)
(* whatever the two threads do between the loads, the copies and the       *)
(* advances.                                                               *)
THEOREM BytesAreQueued ==
  ASSUME ClearsAlone, CapacityDivides
  PROVE  BufferSpec => IsQueue
<1>1. BufferInv /\ InFlight /\ [BufferNext]_buffer_vars
        => [Queue!Put \/ Queue!Get \/ Queue!Clear]_Queue!vars
  <2>1. QueueUnchanged => UNCHANGED Queue!vars
    BY DEF QueueUnchanged, TheQueue, Contents, Queue!vars
  <2> QED
    BY <2>1, QueueStep
<1> QED
  BY <1>1, InitQueue, CountsInvariant, InFlightInvariant, PTL
     DEF BufferSpec, IsQueue, Queue!Spec

-----------------------------------------------------------------------------
(* DummyOutStream *)

(* Whole frames of a number of bytes take no more than those bytes.        *)
LEMMA FramesFit ==
  ASSUME NEW bytes \in Nat
  PROVE  Frames(bytes) \in Nat /\ Frames(bytes) * BytesPerFrame <= bytes
BY DummyAssumption DEF Frames

(* Fewer bytes hold no more frames.                                        *)
LEMMA FramesGrow ==
  ASSUME NEW b \in Nat, NEW c \in Nat, b <= c
  PROVE  Frames(b) <= Frames(c)
BY DummyAssumption DEF Frames

LEMMA MoreFramesTakeMore ==
  ASSUME NEW m \in Nat, NEW n \in Nat, m <= n
  PROVE  /\ m * BytesPerFrame \in Nat
         /\ m * BytesPerFrame <= n * BytesPerFrame
BY DummyAssumption

\* A callback is begun only while it runs, and runs only in a started stream.
Order ==
  /\ begun => pc = "callback"
  /\ stream \in {"created", "failed", "opened"} => pc = "none"

IInv == TypeOK /\ GrantFits /\ Order

LEMMA InitGrants == Init => IInv
<1> SUFFICES ASSUME Init PROVE IInv  OBVIOUS
<1>1. Frames(CapacityBytes) \in Nat /\ CapacityBytes \in Nat /\ MaxDue \in Nat
  BY DummyAssumption, FramesFit
<1>2. TypeOK
  <2>1. 0 \in 0..CapacityBytes /\ 0 \in 0..Frames(CapacityBytes) /\ 0 \in 0..MaxDue
    BY <1>1
  <2> QED  BY <2>1 DEF Init, TypeOK, FlagsOK, CountsOK
<1> QED  BY <1>2 DEF Init, IInv, GrantFits, Order

(* What the client's own thread does touches none of the counts.           *)
LEMMA ClientGrants ==
  ASSUME IInv, Client
  PROVE  IInv'
<1> USE DEF IInv
<1>1. UNCHANGED <<fill_bytes, frames_left, write_frame_count, begun, restarts, due,
                  since>>
  BY DEF Client, Open, Start, Pause, ClearBuffer, Destroy, Join, thread_vars
<1>2. CASE Start
  BY <1>1, <1>2 DEF Start, TypeOK, FlagsOK, CountsOK, GrantFits, Order
<1>3. CASE Open \/ Pause \/ ClearBuffer
  BY <1>1, <1>3
     DEF Open, Pause, ClearBuffer, InUse, TypeOK, FlagsOK, CountsOK, GrantFits, Order, client_vars,
         thread_vars
<1>4. CASE Destroy \/ Join
  BY <1>1, <1>4
     DEF Destroy, Join, InUse, TypeOK, FlagsOK, CountsOK, GrantFits, Order, thread_vars
<1> QED
  BY <1>2, <1>3, <1>4 DEF Client

(* The thread asks the callback for frames there is room for.              *)
LEMMA AskGrants ==
  ASSUME TypeOK, Order, ~begun, stream \notin {"created", "failed", "opened"},
         UNCHANGED stream,
         NEW bytes \in 0..CapacityBytes, NEW frames, NEW restart \in BOOLEAN,
         frames = Frames(CapacityBytes - bytes),
         fill_bytes' \in 0..bytes, due' \in 0..MaxDue,
         UNCHANGED <<abort_flag, pause_requested>>,
         clear_buffer_flag' \in BOOLEAN,
         Ask(frames, restart)
  PROVE  IInv'
<1>1. /\ CapacityBytes - bytes \in Nat /\ CapacityBytes - bytes <= CapacityBytes
      /\ CapacityBytes \in Nat
  BY DummyAssumption
<1>2. /\ frames \in Nat /\ frames * BytesPerFrame <= CapacityBytes - bytes
      /\ frames * BytesPerFrame \in Nat
      /\ frames <= Frames(CapacityBytes) /\ Frames(CapacityBytes) \in Nat
  BY <1>1, FramesFit, FramesGrow, MoreFramesTakeMore
<1>3. GrantFits'
  <2>1. fill_bytes' + frames * BytesPerFrame <= CapacityBytes
    BY <1>1, <1>2
  <2> QED  BY <2>1 DEF Ask, GrantFits
<1>4. TypeOK'
  <2>1. frames_left' \in 0..Frames(CapacityBytes)
    BY <1>2 DEF Ask
  <2>2. fill_bytes' \in 0..CapacityBytes
    BY <1>1
  <2>3. pc' \in {"call", "check"} /\ UNCHANGED <<write_frame_count, begun, since>>
        /\ restarts' = restart
    BY DEF Ask
  <2> QED  BY <2>1, <2>2, <2>3 DEF TypeOK, FlagsOK, CountsOK
<1>5. Order'
  BY DEF Ask, Order
<1> QED  BY <1>3, <1>4, <1>5 DEF IInv

LEMMA ThreadGrants ==
  ASSUME IInv, Thread
  PROVE  IInv'
<1> USE DEF IInv
<1>0. CapacityBytes \in Nat /\ fill_bytes \in 0..CapacityBytes
      /\ Frames(CapacityBytes) \in Nat
  BY DummyAssumption, FramesFit DEF TypeOK, FlagsOK, CountsOK
<1>1. CASE First
  <2>1. /\ UNCHANGED <<stream, abort_flag, pause_requested, clear_buffer_flag,
                       fill_bytes>>
        /\ due' = 0
        /\ Ask(free_frames, TRUE)
    BY <1>1 DEF First, client_vars
  <2>2. fill_bytes' \in 0..fill_bytes /\ due' \in 0..MaxDue
    BY <1>0, <2>1, DummyAssumption
  <2>3. clear_buffer_flag' \in BOOLEAN
    BY <2>1 DEF TypeOK, FlagsOK
  <2>4. ~begun /\ stream \notin {"created", "failed", "opened"}
    BY <1>1 DEF First, Order
  <2> QED  BY <1>0, <2>1, <2>2, <2>3, <2>4, AskGrants DEF free_frames
<1>2. CASE CheckAbort \/ TimedWait \/ CheckPause \/ Call
  <2>1. /\ UNCHANGED <<stream, fill_bytes, frames_left, write_frame_count, begun,
                       restarts, pause_requested, clear_buffer_flag>>
        /\ due' \in {due, since} /\ since' \in {0, since}
        /\ abort_flag' \in {abort_flag, TRUE}
        /\ pc \in {"check", "wait", "pause?", "call"}
        /\ pc' \in {"wait", "exited", "woken", "check", "consume", "callback"}
        /\ pc' = "callback" => pc = "call"
    BY <1>2 DEF CheckAbort, TimedWait, CheckPause, Call, client_vars
  <2>2. FlagsOK'
    BY <2>1 DEF TypeOK, FlagsOK
  <2>3. CountsOK'
    BY <2>1, DummyAssumption DEF TypeOK, CountsOK
  <2> QED  BY <2>1, <2>2, <2>3 DEF TypeOK, GrantFits, Order
<1>3. CASE CheckClear
  <2>1. CASE clear_buffer_flag
    <3>1. pc' = "pause?" /\ clear_buffer_flag' = TRUE
          /\ UNCHANGED <<client_vars, pause_requested, fill_bytes, frames_left,
                         write_frame_count, begun, restarts, due, since>>
      BY <1>3, <2>1 DEF CheckClear
    <3>2. pc = "woken"
      BY <1>3 DEF CheckClear
    <3> QED  BY <3>1, <3>2 DEF TypeOK, FlagsOK, CountsOK, GrantFits, Order, client_vars
  <2>2. CASE ~clear_buffer_flag
    <3>1. Frames(CapacityBytes) = Frames(CapacityBytes - 0)
      BY <1>0
    <3>2. /\ UNCHANGED <<stream, abort_flag, pause_requested>>
          /\ clear_buffer_flag' = TRUE
          /\ fill_bytes' = 0 /\ due' = 0
          /\ Ask(Frames(CapacityBytes), TRUE)
      BY <1>3, <2>2 DEF CheckClear, client_vars
    <3>3. fill_bytes' \in 0..0 /\ due' \in 0..MaxDue /\ 0 \in 0..CapacityBytes
      BY <1>0, <3>2, DummyAssumption
    <3>4. ~begun /\ stream \notin {"created", "failed", "opened"}
      BY <1>3 DEF CheckClear, Order
    <3> QED  BY <3>1, <3>2, <3>3, <3>4, AskGrants
  <2> QED  BY <2>1, <2>2
<1>4. CASE Consume
  <2> DEFINE fill_frames == Frames(fill_bytes)
             underflow == due > fill_frames
             n == IF underflow THEN fill_frames ELSE due
  <2>1. fill_frames \in Nat /\ fill_frames * BytesPerFrame <= fill_bytes
    BY <1>0, FramesFit
  <2>2. due \in 0..MaxDue /\ MaxDue \in Nat
    BY DummyAssumption DEF TypeOK, FlagsOK, CountsOK
  <2>3. n \in Nat /\ n <= fill_frames /\ underflow \in BOOLEAN
    BY <2>1, <2>2
  <2>4. /\ fill_bytes' = fill_bytes - n * BytesPerFrame
        /\ due' = IF underflow THEN 0 ELSE due - n
        /\ Ask(free_frames, underflow)
        /\ UNCHANGED <<stream, abort_flag, pause_requested, clear_buffer_flag>>
    BY <1>4 DEF Consume, client_vars
  <2>5. fill_bytes' \in 0..fill_bytes
    <3>1. n * BytesPerFrame \in Nat /\ n * BytesPerFrame <= fill_bytes
      <4> HIDE DEF n, fill_frames
      <4> QED  BY <1>0, <2>1, <2>3, MoreFramesTakeMore, DummyAssumption
    <3> HIDE DEF n
    <3> QED  BY <1>0, <2>4, <3>1
  <2>6. due' \in 0..MaxDue
    BY <2>1, <2>2, <2>4
  <2>7. clear_buffer_flag' \in BOOLEAN
    BY <2>4 DEF TypeOK, FlagsOK, CountsOK
  <2>8. ~begun /\ stream \notin {"created", "failed", "opened"}
    BY <1>4 DEF Consume, Order
  <2> HIDE DEF underflow
  <2> QED
    BY <1>0, <2>3, <2>4, <2>5, <2>6, <2>7, <2>8, AskGrants DEF free_frames
<1>5. CASE BeginWrite
  BY <1>0, <1>5 DEF BeginWrite, TypeOK, FlagsOK, CountsOK, GrantFits, Order, client_vars
<1>6. CASE EndWrite
  <2>1. /\ frames_left \in Nat /\ write_frame_count \in Nat
        /\ write_frame_count <= frames_left
        /\ fill_bytes + frames_left * BytesPerFrame <= CapacityBytes
    BY <1>0, <1>6 DEF EndWrite, TypeOK, FlagsOK, CountsOK, GrantFits
  <2>2. /\ frames_left' \in Nat /\ frames_left' <= frames_left
        /\ fill_bytes' + frames_left' * BytesPerFrame
             = fill_bytes + frames_left * BytesPerFrame
    BY <1>0, <1>6, <2>1, DummyAssumption DEF EndWrite
  <2>3. fill_bytes' \in 0..CapacityBytes
    BY <1>0, <1>6, <2>1, <2>2, MoreFramesTakeMore, DummyAssumption DEF EndWrite
  <2>4. /\ pc = "callback" /\ begun' = FALSE
        /\ UNCHANGED <<client_vars, clear_buffer_flag, pause_requested, pc,
                       write_frame_count, restarts, due, since>>
    BY <1>6 DEF EndWrite
  <2>5. TypeOK'
    <3>1. FlagsOK'
      BY <2>4 DEF TypeOK, FlagsOK, client_vars
    <3>2. CountsOK'
      BY <1>0, <2>1, <2>2, <2>3, <2>4 DEF TypeOK, CountsOK
    <3> QED  BY <3>1, <3>2 DEF TypeOK
  <2>6. GrantFits'
    BY <2>1, <2>2, <2>4 DEF GrantFits
  <2> QED
    BY <2>4, <2>5, <2>6 DEF Order, client_vars
<1>7. CASE Return
  BY <1>7, DummyAssumption DEF Return, TypeOK, FlagsOK, CountsOK, GrantFits, Order, client_vars
<1> QED
  BY <1>1, <1>2, <1>3, <1>4, <1>5, <1>6, <1>7 DEF Thread, Callback

LEMMA GrantsInvariant == Spec => []IInv
<1>1. IInv /\ [Next]_vars => IInv'
  <2>1. IInv /\ Tick => IInv'
    BY DummyAssumption
       DEF IInv, Tick, TypeOK, FlagsOK, CountsOK, GrantFits, Order, client_vars
  <2>2. IInv /\ UNCHANGED vars => IInv'
    BY DEF vars, client_vars, thread_vars, IInv, TypeOK, FlagsOK, CountsOK, GrantFits, Order
  <2> QED  BY <2>1, <2>2, ClientGrants, ThreadGrants DEF Next
<1> QED  BY <1>1, InitGrants, PTL DEF Spec

(* Every variable keeps its type: no count goes below 0 or beyond the      *)
(* buffer.                                                                 *)
THEOREM CountsInRange == Spec => []TypeOK
BY GrantsInvariant, PTL DEF IInv

(* What write_callback may still write fits into the ring buffer.          *)
THEOREM NoOverrun == Spec => []GrantFits
BY GrantsInvariant, PTL DEF IInv

-----------------------------------------------------------------------------
(* The promises of soundio.h *)

\* A thread that runs belongs to a stream that is not destroyed.
Alive ==
  /\ begun => write_frame_count > 0
  /\ pc = "call" => frames_left > 0
  /\ pc \notin {"none", "exited"} => stream \in {"started", "joining"}

LEMMA AliveInvariant == Spec => []Alive
<1>1. Init => Alive
  BY DEF Init, Alive
<1>2. TypeOK /\ Order /\ Alive /\ [Next]_vars => Alive'
  <2> SUFFICES ASSUME TypeOK, Order, Alive, [Next]_vars
               PROVE  Alive'
    OBVIOUS
  <2>1. CASE Client
    BY <2>1 DEF Client, Open, Start, Pause, ClearBuffer, Destroy, Join, InUse, Order,
         Alive, client_vars, thread_vars
  <2>2. CASE First \/ CheckAbort \/ TimedWait \/ CheckClear
    BY <2>2 DEF First, CheckAbort, TimedWait, CheckClear, Ask, Order, Alive, client_vars
  <2>3. CASE CheckPause \/ Call \/ Return \/ Tick
    BY <2>3 DEF CheckPause, Call, Return, Tick, Order, Alive, client_vars
  <2>4. CASE Consume
    <3>1. pc = "consume" /\ ~begun
      BY <2>4 DEF Consume, Order
    <3>2. /\ UNCHANGED <<stream, begun>> /\ frames_left' = free_frames
          /\ pc' = IF free_frames > 0 THEN "call" ELSE "check"
      BY <2>4 DEF Consume, Ask, client_vars
    <3> QED
      BY <3>1, <3>2 DEF Alive
  <2>5. CASE BeginWrite
    BY <2>5 DEF BeginWrite, Alive, client_vars, TypeOK, CountsOK
  <2>6. CASE EndWrite
    BY <2>6 DEF EndWrite, Alive, client_vars
  <2>7. CASE UNCHANGED vars
    BY <2>7 DEF vars, client_vars, thread_vars, Alive
  <2> QED
    BY <2>1, <2>2, <2>3, <2>4, <2>5, <2>6, <2>7 DEF Next, Thread, Callback
<1> QED
  BY <1>1, <1>2, GrantsInvariant, PTL DEF Spec, IInv

\* So many frames more, so many frames counted more.
LEMMA FramesAdd ==
  ASSUME NEW bytes \in Nat, NEW k \in Nat
  PROVE  /\ k * BytesPerFrame \in Nat
         /\ Frames(bytes + k * BytesPerFrame) = Frames(bytes) + k
<1> DEFINE q == bytes \div BytesPerFrame
           r == bytes % BytesPerFrame
           B == BytesPerFrame
<1>1. B \in Nat \ {0}
  BY DummyAssumption
<1>2. q \in Nat /\ r \in 0..(B - 1) /\ bytes = B * q + r
  BY <1>1
<1> HIDE DEF q, r, B
<1>3. k * B \in Nat /\ B * q \in Nat
  BY <1>1, <1>2
<1>4. bytes + k * B = B * (q + k) + r
  BY <1>1, <1>2, <1>3
<1>5. (B * (q + k) + r) \div B = q + k
  BY <1>1, <1>2
<1> QED
  BY <1>3, <1>4, <1>5 DEF q, B, Frames

LEMMA NoFrames == Frames(0) = 0
BY DummyAssumption DEF Frames

\* What the buffer holds and what may be written are within its frames.
LEMMA RoomLeft ==
  ASSUME TypeOK, GrantFits, pc \in {"call", "callback"}
  PROVE  Frames(fill_bytes) + frames_left <= Frames(CapacityBytes)
<1>1. /\ fill_bytes \in Nat /\ frames_left \in Nat /\ CapacityBytes \in Nat
      /\ fill_bytes + frames_left * BytesPerFrame <= CapacityBytes
  BY DummyAssumption, FramesFit DEF TypeOK, CountsOK, GrantFits
<1>2. /\ frames_left * BytesPerFrame \in Nat
      /\ Frames(fill_bytes + frames_left * BytesPerFrame) = Frames(fill_bytes) + frames_left
  BY <1>1, FramesAdd
<1> QED
  BY <1>1, <1>2, FramesGrow

LEMMA ClientPromised ==
  ASSUME TypeOK, Order, Alive, Client
  PROVE  Promised!Next \/ UNCHANGED Promised!vars
<1> USE NoFrames
<1>1. CASE Open
  <2>1. stream = "created" /\ pc = "none" /\ ~begun /\ stream' \in {"opened", "failed"}
        /\ clear_buffer_flag' = TRUE /\ UNCHANGED <<pc, fill_bytes, begun, frames_left,
                                                    write_frame_count>>
    BY <1>1 DEF Open, Order, thread_vars
  <2>2. CASE stream' = "opened"
    BY <2>1, <2>2 DEF Promised!Next, Promised!Open
  <2>3. CASE stream' = "failed"
    BY <2>1, <2>3 DEF Promised!vars
  <2> QED
    BY <2>1, <2>2, <2>3
<1>2. CASE Start
  <2>1. stream = "opened" /\ pc = "none" /\ ~begun
        /\ ((stream' = "started" /\ pc' = "first") \/ UNCHANGED <<stream, pc>>)
        /\ UNCHANGED <<clear_buffer_flag, fill_bytes, begun, frames_left, write_frame_count>>
    BY <1>2 DEF Start, Order
  <2> QED
    BY <2>1 DEF Promised!Next, Promised!Start, Promised!vars
<1>3. CASE Pause
  BY <1>3 DEF Pause, Promised!vars, client_vars, thread_vars
<1>4. CASE ClearBuffer
  BY <1>4 DEF ClearBuffer, InUse, Promised!Next, Promised!RequestClear, client_vars,
       thread_vars
<1>5. CASE Destroy
  <2>1. UNCHANGED <<clear_buffer_flag, pc, fill_bytes, begun, frames_left,
                    write_frame_count>>
    BY <1>5 DEF Destroy, thread_vars
  <2>2. CASE stream = "started"
    BY <1>5, <2>1, <2>2 DEF Destroy, Promised!vars
  <2>3. CASE stream # "started"
    <3>1. pc = "none" /\ ~begun /\ stream' = "destroyed"
          /\ stream \in {"created", "failed", "opened"}
      BY <1>5, <2>3 DEF Destroy, InUse, Order
    <3> QED
      BY <2>1, <3>1 DEF Promised!Next, Promised!Destroy
  <2> QED
    BY <2>2, <2>3
<1>6. CASE Join
  <2>1. stream = "joining" /\ pc = "exited" /\ ~begun /\ stream' = "destroyed"
        /\ UNCHANGED <<clear_buffer_flag, pc, fill_bytes, begun, frames_left,
                       write_frame_count>>
    BY <1>6 DEF Join, Order, thread_vars
  <2> QED
    BY <2>1 DEF Promised!Next, Promised!Destroy
<1> QED
  BY <1>1, <1>2, <1>3, <1>4, <1>5, <1>6 DEF Client

\* The steps of the thread that the client does not hear of.
LEMMA SilentStep ==
  ASSUME TypeOK, Order, Alive,
         First \/ CheckAbort \/ TimedWait \/ CheckPause \/ Tick \/ UNCHANGED vars
  PROVE  UNCHANGED Promised!vars
<1>1. UNCHANGED <<stream, clear_buffer_flag, fill_bytes, write_frame_count, begun>>
  BY DEF First, CheckAbort, TimedWait, CheckPause, Tick, Ask, vars, client_vars, thread_vars
<1>2. \/ pc # "callback" /\ pc' # "callback"
      \/ UNCHANGED <<pc, frames_left>>
  BY DEF First, CheckAbort, TimedWait, CheckPause, Tick, Ask, vars, thread_vars
<1> QED
  BY <1>1, <1>2 DEF Promised!vars

LEMMA ClearPromised ==
  ASSUME TypeOK, Order, Alive, CheckClear
  PROVE  Promised!Next \/ UNCHANGED Promised!vars
<1>1. /\ pc = "woken" /\ ~begun /\ stream \in {"started", "joining"}
      /\ clear_buffer_flag' = TRUE /\ UNCHANGED stream
  BY DEF CheckClear, Order, Alive, client_vars
<1>2. CASE clear_buffer_flag
  BY <1>1, <1>2 DEF CheckClear, Promised!vars
<1>3. CASE ~clear_buffer_flag
  <2>1. /\ fill_bytes' = 0 /\ UNCHANGED <<begun, write_frame_count>>
        /\ pc' \in {"call", "check"}
    BY <1>3 DEF CheckClear, Ask
  <2> QED
    BY <1>1, <1>3, <2>1, NoFrames DEF Promised!Next, Promised!Clear
<1> QED
  BY <1>2, <1>3

LEMMA ConsumePromised ==
  ASSUME TypeOK, Order, Alive, Consume
  PROVE  Promised!Next \/ UNCHANGED Promised!vars
<1>1. /\ pc = "consume" /\ ~begun /\ stream \in {"started", "joining"}
      /\ pc' \in {"call", "check"}
      /\ UNCHANGED <<stream, begun, write_frame_count, clear_buffer_flag>>
  BY DEF Consume, Ask, Order, Alive, client_vars
<1>2. fill_bytes \in Nat /\ due \in Nat
  BY DummyAssumption DEF TypeOK, CountsOK
<1>3. /\ Frames(fill_bytes) \in Nat
      /\ Frames(fill_bytes) * BytesPerFrame <= fill_bytes
  BY <1>2, FramesFit
<1>4. PICK n \in 0..Frames(fill_bytes) :
        n <= due /\ fill_bytes' = fill_bytes - n * BytesPerFrame
  <2> DEFINE n == IF due > Frames(fill_bytes) THEN Frames(fill_bytes) ELSE due
  <2>1. n \in 0..Frames(fill_bytes) /\ n <= due
    BY <1>2, <1>3
  <2>2. fill_bytes' = fill_bytes - n * BytesPerFrame
    BY DEF Consume
  <2> QED
    BY <2>1, <2>2
<1>5. Frames(fill_bytes) = Frames(fill_bytes') + n
  <2>1. n * BytesPerFrame \in Nat /\ n * BytesPerFrame <= fill_bytes
    <3>1. /\ n * BytesPerFrame \in Nat
          /\ n * BytesPerFrame <= Frames(fill_bytes) * BytesPerFrame
          /\ Frames(fill_bytes) * BytesPerFrame \in Nat
      BY <1>3, MoreFramesTakeMore
    <3> QED
      BY <1>2, <1>3, <3>1
  <2>2. fill_bytes' \in Nat /\ fill_bytes = fill_bytes' + n * BytesPerFrame
    BY <1>2, <1>4, <2>1
  <2> QED
    BY <2>2, FramesAdd
<1>6. CASE n = 0
  <2>1. Frames(fill_bytes') = Frames(fill_bytes)
    BY <1>2, <1>4, <1>6, DummyAssumption
  <2> QED
    BY <1>1, <2>1 DEF Promised!vars, Frames
<1>7. CASE n # 0
  <2>1. /\ n \in 1..Frames(fill_bytes) /\ n \in 1..due
        /\ Frames(fill_bytes') = Frames(fill_bytes) - n
    <3>1. Frames(fill_bytes') \in Nat
      <4>1. fill_bytes' \in Nat
        BY <1>2, <1>3, <1>4, MoreFramesTakeMore, DummyAssumption
      <4> QED
        BY <4>1, FramesFit
    <3> QED
      BY <1>2, <1>3, <1>4, <1>5, <1>7, <3>1
  <2>2. n <= Frames(fill_bytes)
    BY <1>3, <2>1
  <2>3. Promised!Play
    BY <1>1, <2>1, <2>2 DEF Promised!Play, Frames
  <2> QED
    BY <2>3 DEF Promised!Next
<1> QED
  BY <1>6, <1>7

LEMMA CallPromised ==
  ASSUME TypeOK, GrantFits, Order, Alive, Call
  PROVE  Promised!Call
<1>1. /\ pc = "call" /\ pc' = "callback" /\ ~begun /\ stream \in {"started", "joining"}
      /\ UNCHANGED <<stream, clear_buffer_flag, fill_bytes, frames_left,
                     write_frame_count, begun>>
  BY DEF Call, Order, Alive, client_vars
<1>2. frames_left \in 1..(Frames(CapacityBytes) - Frames(fill_bytes))
  <2>1. Frames(fill_bytes) \in Nat /\ Frames(CapacityBytes) \in Nat
    BY FramesFit, DummyAssumption DEF TypeOK, CountsOK
  <2> QED
    BY <1>1, <2>1, RoomLeft DEF Alive, TypeOK, CountsOK
<1> QED
  BY <1>1, <1>2 DEF Promised!Call

LEMMA CallbackPromised ==
  ASSUME TypeOK, GrantFits, Order, Alive, Callback
  PROVE  Promised!Next
<1>1. /\ pc = "callback" /\ stream \in {"started", "joining"}
      /\ UNCHANGED <<stream, clear_buffer_flag>>
  BY DEF Callback, BeginWrite, EndWrite, Return, Alive, client_vars
<1>2. CASE BeginWrite
  BY <1>1, <1>2 DEF BeginWrite, Promised!Next, Promised!Begin
<1>3. CASE EndWrite
  <2>1. write_frame_count \in Nat /\ fill_bytes \in Nat /\ write_frame_count > 0
    BY <1>3, DummyAssumption, FramesFit DEF EndWrite, TypeOK, CountsOK, Alive
  <2>2. Frames(fill_bytes') = Frames(fill_bytes) + write_frame_count
    BY <1>3, <2>1, FramesAdd DEF EndWrite
  <2>3. /\ begun /\ begun' = FALSE /\ UNCHANGED pc
        /\ frames_left' = frames_left - write_frame_count
    BY <1>3 DEF EndWrite
  <2>4. Promised!End
    BY <1>1, <2>1, <2>2, <2>3 DEF Promised!End, Frames
  <2> QED
    BY <2>4 DEF Promised!Next
<1>4. CASE Return
  BY <1>1, <1>4 DEF Return, Promised!Next, Promised!Return
<1> QED
  BY <1>2, <1>3, <1>4 DEF Callback

(* The dummy stream implements what soundio.h promises of an output stream, *)
(* for every capacity, frame size and lateness: no callback once destroy    *)
(* has returned, no frame asked for without room, none that leaves the      *)
(* buffer before its time has come but by a clear that was asked for.       *)
THEOREM PromisesAreKept == Spec => KeepsPromises
<1>1. Init => Promised!Init
  BY NoFrames DEF Init, Promised!Init
<1>2. IInv /\ Alive /\ [Next]_vars => [Promised!Next]_(Promised!vars)
  <2> SUFFICES ASSUME IInv, Alive, [Next]_vars
               PROVE  Promised!Next \/ UNCHANGED Promised!vars
    OBVIOUS
  <2>1. Promised!Call => Promised!Next
    BY DEF Promised!Next
  <2> QED
    BY <2>1, ClientPromised, SilentStep, ClearPromised, ConsumePromised, CallPromised,
       CallbackPromised DEF IInv, Next, Thread
<1> QED
  BY <1>1, <1>2, GrantsInvariant, AliveInvariant, PTL DEF Spec, KeepsPromises, Promised!Spec
=============================================================================
