\* Three frames of two bytes in a buffer of seven bytes.
CONSTANTS
  CapacityBytes = 7
  BytesPerFrame = 2
  MaxDue = 4
SPECIFICATION FairSpec
INVARIANTS
  TypeOK
  GrantFits
PROPERTIES
  KeepsPromises
  ClearIsServed
  DestroyReturns
CHECK_DEADLOCK FALSE
