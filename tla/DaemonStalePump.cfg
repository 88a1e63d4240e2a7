\* A pump thread outlives its capture and meets the next one.
SPECIFICATION Spec
CONSTANTS
  None = None
  Targets = {t1, t2}
  Workers = {w1, w2, w3}
SYMMETRY Symmetry
PROPERTY
  PumpStopsItsOwn
