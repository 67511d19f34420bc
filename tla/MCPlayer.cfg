\* All callback sizes up to MaxFrames and all partial grants; streams that
\* fail and devices that do not fit.
CONSTANTS
  FileLists <- MCLists
  LoopCount = 2
  DeviceRates = {22050, 44100, 48000}
  DeviceLayouts = {1, 2}
  MaxFrames = 3
  WriteErrors = {"Streaming", "Underflow"}
SPECIFICATION FairSpec
INVARIANTS
  TypeOK
  InsideGrant
  OnCommand
  ReadsInside
PROPERTIES
  PlaysBack
  PanicsAreKnown
  SongLength
  Terminates
