\* One capture of the image of camera_init, in proportion, then its display.
SPECIFICATION FairSpec
CONSTANTS
  buffer_numwords = 3
  BAYER_LINE = 4
  ROW_END = 15
  NoColor <- MCNoColor
  FRAME_COLORS = 8
  CAM_BASE = 0
  SENSOR_COLUMNS = 4
  SENSOR_ROWS = 8
  HBLANK = 1
  MinWait = 0
  Prompt = TRUE
  WORD_LENGTH = 8
  REG_BURST_TOT = 2
  lpm_numwords = 4
  almost_full_value = 3
  Gap = 6
  MaxPending = 1
  HiZ = HiZ
  NoPixel = 1
  Commands <- MCCommands
  DataWords <- MCDataWords
  MaxResets = 1
INVARIANTS
  ShownIsCaptured
PROPERTIES
  FrameIsStored
  MemoryStill
  ImageIsShown
