SPECIFICATION FairSpec
CONSTANTS
  NDevices = 2
  MaxChanges = 2
  Sinks = {1}
  CoreAudioChanges = 1
PROPERTIES
  KeepsPromises
  ClientIsUpToDate
  CallsReturn
CHECK_DEADLOCK FALSE
