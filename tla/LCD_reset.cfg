\* A reset of the board while the DMA reads a frame.
SPECIFICATION FairSpec
CONSTANTS
  IMG_WORD_LEN = 4
  WORD_LENGTH = 8
  REG_BURST_TOT = 2
  lpm_numwords = 4
  almost_full_value = 3
  Gap = 6
  AnyReset = TRUE
  MaxResets = 1
  MaxPending = 1
  HiZ = HiZ
  NoPixel = 1
  StartAddresses <- MCOneAddress
  Commands <- MCNoWords
  DataWords <- MCNoWords
PROPERTIES
  DisplayCompletes
