CONSTANTS
  Threads = {"accept", "ntp", "event", "data", "heartbeat", "audio", "sync"}
  Together = {{"accept","ntp","event"},{"data","audio","sync"},{"heartbeat","event"}}
  Clients = {"menu", "click"}
  MuteAudio = FALSE
  CallerStops = TRUE

SPECIFICATION FairSpec

INVARIANTS
  MutedMeansMuted
  TeardownIsLast

PROPERTIES
  StoppedSessionEnds
