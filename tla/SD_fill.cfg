\* A frame of six words.
SPECIFICATION Spec
CONSTANTS
  IMG_WORD_LEN = 6
  HPS_0_BRIDGES_BASE = 0
  RED = RED
  GREEN = GREEN
  BLUE = BLUE
  Colors = {RED, GREEN, BLUE}
  Image = Image
  Blank = Blank
INVARIANTS FrameIsFilled
