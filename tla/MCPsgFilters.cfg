\* Three blocks of two samples and a ring of four; the code has 24 of 8 and 1024.
CONSTANTS
  Samples = {0, 1}
  Silence = 0
  DECIMATE_FACTOR = 2
  FIR_SIZE = 6
  DC_FILTER_SIZE = 4
  Coefficients <- MCCoefficients
SPECIFICATION FilterSpec
INVARIANTS
  MeanIsRemoved
PROPERTIES
  IsDelayLine
  IsRingOfResults
