\* The portal takes the screen away while a receiver is mirrored to.
SPECIFICATION FairSpec
CONSTANTS
  None = None
  Targets = {t1}
  Workers = {w1, w2}
PROPERTY
  EndedCaptureStopsStreams
