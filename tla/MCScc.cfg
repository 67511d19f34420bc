CONSTANTS
  Writes <- MCWrites
  WaveSize = 2
  Fraction = 4
  Step <- MCStep
SPECIFICATION Spec
INVARIANTS
  TypeOK
  MixerInTable
PROPERTIES
  PositionKept
\* A panic stops the player.
CHECK_DEADLOCK FALSE
