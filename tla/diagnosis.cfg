SPECIFICATION Spec

CONSTANTS
  SampleWords = 28
  Samples     = 2
  IndexMod    = 65536
  PCFiles     <- MCPCFiles
  DDUFiles    <- MCDDUFiles
  Numbers     = {0, 2, 5}
  Modes       = {"print", "analysis", "count"}
  Masks       <- MCMasks
  MaxWords    = 200
  NoEntry     = 65535

INVARIANTS
  EachEventHasCode

CHECK_DEADLOCK FALSE
