SPECIFICATION FairSpec
CONSTANTS
  Room = 4
  PeriodSize = 2
  MaxInterruptions = 3
PROPERTIES
  OutStreamsKeepPromises
  InStreamsKeepPromises
  CallsReturn
CHECK_DEADLOCK FALSE
