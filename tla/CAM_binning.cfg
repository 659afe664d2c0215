\* Rows of the length camera_init configures: as long as the level that ends a line.
SPECIFICATION Spec
CONSTANTS
  buffer_numwords = 3
  BAYER_LINE = 4
  ROW_END = 15
  NoColor <- MCNoColor
  FRAME_COLORS = 4
  CAM_BASE = 0
  MaxCaptures = 1
  PollRace = FALSE
  SENSOR_COLUMNS = 4
  SENSOR_ROWS = 4
  HBLANK = 1
  MinWait = 2
  Prompt = FALSE
  MaxResets = 0
INVARIANT
  WholeCells
