\* Two mirrors, room for two chunks in each channel and four chunks: a channel
\* fills up, the pump blocks on it, and more data is still to come.
\* The system stops once the capture is over and every sink is done with.
CHECK_DEADLOCK FALSE
SPECIFICATION FairSpec
CONSTANTS
  None = None
  Sinks = {s1, s2}
  Cap = 2
  Parts = 2
  Chunks = 4
INVARIANTS
  Gapless
PROPERTIES
  IsTee
  EndReachesEveryReader
  PumpComesBack
