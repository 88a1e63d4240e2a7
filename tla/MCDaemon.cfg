\* Two receivers and two connects, which may be for different receivers or
\* for one, whose earlier worker is still around.  No symmetry: it is unsound
\* for liveness.
SPECIFICATION FairSpec
CONSTANTS
  None = None
  Targets = {t1, t2}
  Workers = {w1, w2}
INVARIANTS
  NoIdleCapture
  EveryMirrorCanBeStopped
  PinRequiredIsReal
  StreamingIsReal
  NoDeadEntry
PROPERTIES
  IsSharedCapture
  AnsweredOnce
  StoppedCaptureFreesWorkers
