----------------------------- MODULE RingBuffer -----------------------------
(***************************************************************************)
(* lib/libsoundio/ring_buffer.c: a lock-free ring buffer of one writer and *)
(* one reader.  The offsets are unsigned longs that only grow, modulo      *)
(* OffsetModulus; each atomic access is a step of its own, and so is each  *)
(* byte copied to or from the mirrored memory.                             *)
(*                                                                         *)
(* The client asks for free_count or fill_count, copies at most as many    *)
(* bytes, and advances.  A buffer has one of three uses: two threads write *)
(* and read, and none clears ("threads"); one thread writes, reads and     *)
(* clears in turns ("turns"), as the playback thread of dummy.c; two       *)
(* threads write and read, and the writer clears ("clears").               *)
(***************************************************************************)
EXTENDS Integers, Sequences

CONSTANTS Bytes, Capacity, OffsetModulus, Uses

ASSUME RingBufferAssumption ==
  /\ Capacity \in Nat \ {0}
  /\ OffsetModulus \in Nat
  /\ 2 * Capacity < OffsetModulus
  /\ Uses \subseteq {"threads", "turns", "clears"}

VARIABLES
  use,
  write_offset, read_offset,  \* the atomics
  memory,                     \* the cells; the mapping mirrors them
  failed,                     \* an assert has ended the process
  w_pc, w_read, w_free, w_bytes,  \* the writer: where it is, the read_offset it
                              \* loaded, how much it may write, what it wrote
  r_pc, r_read, r_fill, r_bytes,  \* the reader, and the bytes it copied
  put, got                    \* history: the batches that writer and reader
                              \* advanced over

writer_vars == <<w_pc, w_read, w_free, w_bytes>>
reader_vars == <<r_pc, r_read, r_fill, r_bytes>>
history == <<put, got>>
buffer_vars == <<use, write_offset, read_offset, memory, failed, writer_vars,
                 reader_vars, history>>

Concurrent == use # "turns"
Clears == use # "threads"

\* Unsigned arithmetic on offsets: x + n and x - y modulo OffsetModulus.
Plus(x, n) == IF x + n < OffsetModulus THEN x + n ELSE x + n - OffsetModulus
Minus(x, y) == IF x >= y THEN x - y ELSE x - y + OffsetModulus

\* write_offset - read_offset as a signed int
Count(w, r) ==
  IF 2 * Minus(w, r) < OffsetModulus THEN Minus(w, r)
  ELSE Minus(w, r) - OffsetModulus

\* The memory is mapped twice, the second mapping behind the first.
Mirrored(address) ==
  IF address < Capacity THEN address ELSE address - Capacity

\* Byte i behind write_ptr or read_ptr.
Cell(offset, i) == Mirrored((offset % Capacity) + i)

BufferInit ==
  /\ use \in Uses
  /\ write_offset = 0 /\ read_offset = 0
  /\ memory \in [0..(Capacity - 1) -> Bytes]
  /\ failed = FALSE
  /\ w_pc = "idle" /\ w_read = 0 /\ w_free = 0 /\ w_bytes = <<>>
  /\ r_pc = "idle" /\ r_read = 0 /\ r_fill = 0 /\ r_bytes = <<>>
  /\ put = <<>> /\ got = <<>>

WriterTurn == ~failed /\ (Concurrent \/ r_pc = "idle")
ReaderTurn == ~failed /\ (Concurrent \/ w_pc = "idle")

\* fill_count's assertions on the count it returns
Sound(count) == count >= 0 /\ count <= Capacity

-----------------------------------------------------------------------------
(* The writer *)

WriterLoadsRead(from, to) ==
  /\ WriterTurn /\ w_pc = from
  /\ w_read' = read_offset
  /\ w_pc' = to
  /\ UNCHANGED <<write_offset, read_offset, memory, failed, w_free, w_bytes,
                 reader_vars, history>>

FreeCountBegins == WriterLoadsRead("idle", "free_count")

\* Mutant: capacity instead of free_count.
FreeCountEndsFull ==
  /\ WriterTurn /\ w_pc = "free_count"
  /\ LET count == Count(write_offset, w_read)
     IN  /\ failed' = ~Sound(count)
         /\ w_free' = Capacity
  /\ w_pc' = "copy"
  /\ UNCHANGED <<write_offset, read_offset, memory, w_read, w_bytes,
                 reader_vars, history>>

FreeCountEnds ==
  /\ WriterTurn /\ w_pc = "free_count"
  /\ LET count == Count(write_offset, w_read)
     IN  /\ failed' = ~Sound(count)
         /\ w_free' = Capacity - count
         /\ w_pc' = IF count = Capacity THEN "idle" ELSE "copy"
  /\ UNCHANGED <<write_offset, read_offset, memory, w_read, w_bytes,
                 reader_vars, history>>

CopyIn ==
  /\ WriterTurn /\ w_pc = "copy"
  /\ Len(w_bytes) < w_free
  /\ \E byte \in Bytes :
       /\ memory' = [memory EXCEPT ![Cell(write_offset, Len(w_bytes))] = byte]
       /\ w_bytes' = Append(w_bytes, byte)
  /\ UNCHANGED <<write_offset, read_offset, failed, w_pc, w_read, w_free,
                 reader_vars, history>>

\* Mutant: publishes the bytes before the last one is copied.
AdvanceWriteEarly ==
  /\ WriterTurn /\ w_pc = "copy"
  /\ w_bytes # <<>>
  /\ write_offset' = Plus(write_offset,
                          IF Len(w_bytes) < w_free THEN Len(w_bytes) + 1
                          ELSE Len(w_bytes))
  /\ put' = w_bytes
  /\ w_bytes' = <<>>
  /\ w_pc' = "advanced"
  /\ UNCHANGED <<read_offset, memory, failed, w_read, w_free, reader_vars, got>>

AdvanceWrite ==
  /\ WriterTurn /\ w_pc = "copy"
  /\ w_bytes # <<>>
  /\ write_offset' = Plus(write_offset, Len(w_bytes))
  /\ put' = w_bytes
  /\ w_bytes' = <<>>
  /\ w_pc' = "advanced"
  /\ UNCHANGED <<read_offset, memory, failed, w_read, w_free, reader_vars, got>>

\* The assertion that follows the advance, in two loads.
WriteAssertBegins == WriterLoadsRead("advanced", "assert")

WriteAssertEnds ==
  /\ WriterTurn /\ w_pc = "assert"
  /\ failed' = ~Sound(Count(write_offset, w_read))
  /\ w_pc' = "idle"
  /\ UNCHANGED <<write_offset, read_offset, memory, w_read, w_free, w_bytes,
                 reader_vars, history>>

ClearBegins == Clears /\ WriterLoadsRead("idle", "clear")

\* Mutant: starts over at offset 0.
ClearEndsAtZero ==
  /\ WriterTurn /\ w_pc = "clear"
  /\ write_offset' = 0
  /\ w_pc' = "idle"
  /\ UNCHANGED <<read_offset, memory, failed, w_read, w_free, w_bytes,
                 reader_vars, history>>

ClearEnds ==
  /\ WriterTurn /\ w_pc = "clear"
  /\ write_offset' = w_read
  /\ w_pc' = "idle"
  /\ UNCHANGED <<read_offset, memory, failed, w_read, w_free, w_bytes,
                 reader_vars, history>>

-----------------------------------------------------------------------------
(* The reader *)

ReaderLoadsRead(from, to) ==
  /\ ReaderTurn /\ r_pc = from
  /\ r_read' = read_offset
  /\ r_pc' = to
  /\ UNCHANGED <<write_offset, read_offset, memory, failed, writer_vars,
                 r_fill, r_bytes, history>>

FillCountBegins == ReaderLoadsRead("idle", "fill_count")

\* Mutant: one byte more than there is.
FillCountEndsBeyond ==
  /\ ReaderTurn /\ r_pc = "fill_count"
  /\ LET count == Count(write_offset, r_read)
     IN  /\ failed' = ~Sound(count)
         /\ r_fill' = count + 1
  /\ r_pc' = "copy"
  /\ UNCHANGED <<write_offset, read_offset, memory, writer_vars, r_read,
                 r_bytes, history>>

FillCountEnds ==
  /\ ReaderTurn /\ r_pc = "fill_count"
  /\ LET count == Count(write_offset, r_read)
     IN  /\ failed' = ~Sound(count)
         /\ r_fill' = count
         /\ r_pc' = IF count = 0 THEN "idle" ELSE "copy"
  /\ UNCHANGED <<write_offset, read_offset, memory, writer_vars, r_read,
                 r_bytes, history>>

CopyOut ==
  /\ ReaderTurn /\ r_pc = "copy"
  /\ Len(r_bytes) < r_fill
  /\ r_bytes' = Append(r_bytes, memory[Cell(read_offset, Len(r_bytes))])
  /\ UNCHANGED <<write_offset, read_offset, memory, failed, writer_vars, r_pc,
                 r_read, r_fill, history>>

AdvanceRead ==
  /\ ReaderTurn /\ r_pc = "copy"
  /\ r_bytes # <<>>
  /\ read_offset' = Plus(read_offset, Len(r_bytes))
  /\ got' = r_bytes
  /\ r_bytes' = <<>>
  /\ r_pc' = "advanced"
  /\ UNCHANGED <<write_offset, memory, failed, writer_vars, r_read, r_fill, put>>

ReadAssertBegins == ReaderLoadsRead("advanced", "assert")

ReadAssertEnds ==
  /\ ReaderTurn /\ r_pc = "assert"
  /\ failed' = ~Sound(Count(write_offset, r_read))
  /\ r_pc' = "idle"
  /\ UNCHANGED <<write_offset, read_offset, memory, writer_vars, r_read,
                 r_fill, r_bytes, history>>

-----------------------------------------------------------------------------
Writer ==
  \/ FreeCountBegins \/ FreeCountEnds \/ CopyIn \/ AdvanceWrite
  \/ WriteAssertBegins \/ WriteAssertEnds \/ ClearBegins \/ ClearEnds

Reader ==
  \/ FillCountBegins \/ FillCountEnds \/ CopyOut \/ AdvanceRead
  \/ ReadAssertBegins \/ ReadAssertEnds

BufferNext == (Writer \/ Reader) /\ UNCHANGED use

BufferSpec == BufferInit /\ [][BufferNext]_buffer_vars

-----------------------------------------------------------------------------
Offsets == 0..(OffsetModulus - 1)

BufferTypeOK ==
  /\ use \in Uses
  /\ write_offset \in Offsets /\ read_offset \in Offsets
  /\ w_read \in Offsets /\ r_read \in Offsets
  /\ memory \in [0..(Capacity - 1) -> Bytes]
  /\ failed \in BOOLEAN
  /\ w_pc \in {"idle", "free_count", "copy", "advanced", "assert", "clear"}
  /\ r_pc \in {"idle", "fill_count", "copy", "advanced", "assert"}
  /\ w_free \in 0..Capacity /\ r_fill \in 0..Capacity
  /\ w_bytes \in Seq(Bytes) /\ Len(w_bytes) <= Capacity
  /\ r_bytes \in Seq(Bytes) /\ Len(r_bytes) <= Capacity

(***************************************************************************)
(* ring_buffer.c:71 and 72: no call of fill_count, neither the client's    *)
(* nor the one after each advance, computes a count outside 0..capacity,   *)
(* although it loads the two offsets one after the other.                  *)
(***************************************************************************)
AssertionsHold == ~failed

Filled == Minus(write_offset, read_offset)

(***************************************************************************)
(* A count may be old by the time it is used, but errs on the safe side:   *)
(* what the writer copies fits, what the reader copies was written.        *)
(***************************************************************************)
SafeEstimates ==
  /\ Filled <= Capacity
  /\ w_pc = "copy" => Len(w_bytes) <= w_free /\ w_free <= Capacity - Filled
  /\ r_pc = "copy" => Len(r_bytes) <= r_fill /\ r_fill <= Filled

(***************************************************************************)
(* The buffer is a first-in first-out queue of bytes: the reader gets what *)
(* was written, in order, each byte once, and no byte that is still being  *)
(* copied in.                                                              *)
(***************************************************************************)
Queue == INSTANCE ByteQueue WITH
           queue <- [i \in 1..Filled |-> memory[Cell(read_offset, i - 1)]]

IsQueue == Queue!Spec
=============================================================================
