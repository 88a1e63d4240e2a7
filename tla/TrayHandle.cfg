CONSTANTS
  Workers = {w1, w2}
  Devices = {A}
  None = None

SPECIFICATION Spec

INVARIANTS
  HandleOfTheRunning

CHECK_DEADLOCK FALSE
