\* The pulse may come while the program polls.
SPECIFICATION FairSpec
CONSTANTS
  buffer_numwords = 3
  BAYER_LINE = 4
  ROW_END = 15
  NoColor <- MCNoColor
  FRAME_COLORS = 4
  CAM_BASE = 0
  MaxCaptures = 1
  PollRace = TRUE
  SENSOR_COLUMNS = 4
  SENSOR_ROWS = 4
  HBLANK = 1
  MinWait = 0
  Prompt = TRUE
  MaxResets = 0
PROPERTY
  CaptureReturns
