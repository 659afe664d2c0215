\* Calls in any order, geometries at the bounds and beyond.
SPECIFICATION FairSpec
CONSTANTS
  PIX_DEPTH = 3
  MAX_WIDTH = 3
  MAX_HEIGHT = 2
  Arguments <- MCArguments
  Gap = 1
INVARIANTS TypeOK ConfigureResult CommandsObeyed
PROPERTIES VideoSpec FrameCompletes
