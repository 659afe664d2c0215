\* Two captures of a frame of four colors, rows of one line.
SPECIFICATION FairSpec
CONSTANTS
  buffer_numwords = 3
  BAYER_LINE = 4
  ROW_END = 15
  NoColor <- MCNoColor
  FRAME_COLORS = 4
  CAM_BASE = 0
  MaxCaptures = 2
  PollRace = FALSE
  SENSOR_COLUMNS = 8
  SENSOR_ROWS = 4
  HBLANK = 2
  MinWait = 2
  Prompt = FALSE
  MaxResets = 1
INVARIANTS
  TypeOK
  WholeCells
  BayerInStep
  NoBufferUnderflow
  WritesStayInFrame
PROPERTIES
  StopLosesNothing
  StoreSpec
