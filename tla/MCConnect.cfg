CONSTANTS
  Connects = {c1, c2}
  Devices = {A}
  Modes = {"auto", "force", "code"}
  FairPlay = {A}
  Old = Old
  None = None

SPECIFICATION Spec
SYMMETRY Symmetry

INVARIANTS
  NoStaleAnswers
  StoredIsAccepted
  BackoffOnlyByTypo

PROPERTY
  IsPairedChannel

CHECK_DEADLOCK FALSE
