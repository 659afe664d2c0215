\* The controller driven by the program, frames of six words.
SPECIFICATION FairSpec
CONSTANTS
  IMG_WORD_LEN = 6
  WORD_LENGTH = 8
  REG_BURST_TOT = 2
  lpm_numwords = 4
  almost_full_value = 3
  Gap = 6
  AnyReset = FALSE
  MaxResets = 1
  MaxPending = 2
  HiZ = HiZ
  NoPixel = 1
  StartAddresses <- MCStartAddresses
  Commands <- MCCommands
  DataWords <- MCDataWords
INVARIANTS
  TypeOK
  ReservedSpace
  NoUnderflow
  PulsesHeard
  ReadsStayInFrame
PROPERTIES
  RequestHeld
  WriteCycle
  NothingDiscarded
  StreamSpec
  EveryWordArrives
  DisplayCompletes
