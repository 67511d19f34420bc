\* Writer and reader on two threads, or on one that clears; offsets of three
\* bits.
CONSTANTS
  Bytes = {0, 1}
  Capacity = 2
  OffsetModulus = 8
  Uses = {"threads", "turns"}
SPECIFICATION BufferSpec
INVARIANTS
  AssertionsHold
  SafeEstimates
PROPERTIES
  IsQueue
