CONSTANTS
  Writes <- MCWrites
  MaxVolume = 1
  NOISE_TOP = 16
  Clocks = {2, 4}
  Rate = 3
SPECIFICATION Spec
CONSTRAINT OwesLittle
INVARIANTS
  TypeOK
  NoiseNeverStops
  EnvelopeHasItsShape
  RunsAtItsClock
\* A panic stops the player.
CHECK_DEADLOCK FALSE
