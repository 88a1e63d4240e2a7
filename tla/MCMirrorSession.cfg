CONSTANTS
  Threads = {"accept", "ntp", "event", "data", "heartbeat", "audio", "sync"}
  Together = {{"accept", "ntp"}, {"event", "audio", "sync"}, {"data", "heartbeat"}}
  Clients = {"menu", "click"}
  MuteAudio = FALSE
  CallerStops = TRUE

SPECIFICATION FairSpec

INVARIANTS
  MutedMeansMuted
  TeardownIsLast

PROPERTIES
  StoppedSessionEnds
