CONSTANTS
  Connects = {c1, c2}
  Devices = {A, B}
  Modes = {"code"}
  FairPlay = {}
  Old = Old
  None = None

SPECIFICATION Spec
SYMMETRY Symmetry

PROPERTIES
  PairingsAreKept

CHECK_DEADLOCK FALSE
