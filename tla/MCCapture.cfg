\* A capture that has failed or was dropped does nothing more.
CHECK_DEADLOCK FALSE
CONSTANTS
  Displays = {"test", "wayland", "x11", "none"}
  Modes = {"auto", "nvenc", "vulkan", "vaapi", "none"}
  Parts = 2
  Chunks = 3
  MinWidth = 640
  Monitors <- MCMonitors
  Sizes <- MCSizes
  Heights = {0, 1, 719, 1080}
  Underscans = {0, 1, 5, 7, 15, 25, 26}
  MaxOutputs = 2

SPECIFICATION FairSpec

INVARIANTS
  NothingRunsUnowned
  PortalOutlivesPipeline
  HardwareHasProved
  RetuneIsRestart
  FramesFit
  CropIsMonitor

PROPERTIES
  IsScreenStream
  StopEndsRead
