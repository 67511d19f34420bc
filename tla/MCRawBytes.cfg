\* No string of bytes can hang the audio thread.
CONSTANTS
  FileLists <- MCLists
  LoopCount = 1
  DeviceRates = {44100}
  DeviceLayouts = {2}
  MaxFrames = 1
  WriteErrors = {}
SPECIFICATION FairSpec
PROPERTIES
  Terminates
