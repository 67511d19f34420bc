SPECIFICATION Spec
CONSTANTS
  available_backends <- MCBackends
  Devices <- MCDevices
  NoDevice = NoDevice
  capability <- MCCapability
  Handles = {h1, h2}
  OutStreams = {o1}
  InStreams = {i1}
  Asked <- MCAsked
CONSTRAINT LostLittle
SYMMETRY HandlesAreAlike
INVARIANTS
  RefsAreHeld
  CountsAreUnshared
  NothingLeftBehind
  OpensAsPromised
CHECK_DEADLOCK FALSE
