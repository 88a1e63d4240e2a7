\* The capture has an end here, and so have the threads.
CHECK_DEADLOCK FALSE
CONSTANTS
  Spf = 2
  Depth = 3
  RtpMod = 15
  SeqMod = 4
  Targets = {1, 5}
  Floor = 4
  Reported = {0, 7}
  Samples = 15
  Backlog = 2
  SizeBits = 24
  Bytes = {1, 254}
  FrameSizes = {0, 1, 2}

SPECIFICATION Spec

INVARIANTS
  OneTimeline
  SentTwice
  NonceForOneFrame
  FramesAreVerbatim

PROPERTIES
  SyncsAreTrue
  ResendsComeInTime
