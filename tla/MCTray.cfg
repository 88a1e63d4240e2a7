CONSTANTS
  Workers = {w1, w2}
  Devices = {A}
  None = None

SPECIFICATION FairSpec

INVARIANTS
  NothingLeftBehind
  OnlyTheUserStops
  MenuTellsTheTruth

PROPERTIES
  SelectionsGoOn

CHECK_DEADLOCK FALSE
