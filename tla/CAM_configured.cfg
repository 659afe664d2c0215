\* The image of camera_init, in proportion, and a memory that makes the master wait.
SPECIFICATION FairSpec
CONSTANTS
  buffer_numwords = 3
  BAYER_LINE = 4
  ROW_END = 15
  NoColor <- MCNoColor
  FRAME_COLORS = 4
  CAM_BASE = 0
  MaxCaptures = 1
  PollRace = FALSE
  SENSOR_COLUMNS = 4
  SENSOR_ROWS = 4
  HBLANK = 1
  MinWait = 2
  Prompt = FALSE
  MaxResets = 0
PROPERTY
  CaptureReturns
