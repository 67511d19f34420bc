\* A list that is published between the two flushes of wait_events.
SPECIFICATION QuietSpec
CONSTANTS
  NDevices = 1
  MaxChanges = 1
  Sinks = {1}
  CoreAudioChanges = 1
PROPERTIES
  EventsEndTheWait
CHECK_DEADLOCK FALSE
