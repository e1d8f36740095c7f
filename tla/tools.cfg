SPECIFICATION Spec

CONSTANTS
  SampleWords = 28
  Samples     = 2
  IndexMod    = 65536
  PCFiles     <- MCPCFiles
  DDUFiles    <- MCDDUFiles
  Numbers     = {0, 2, 5}
  Modes       = {"print", "analysis", "count"}
  Masks       <- MCMasks
  MaxWords    = 110
  NoEntry     = 65535

INVARIANTS
  FoundAsWritten
  ReportIsTrue
  PrintShowsAll

CHECK_DEADLOCK FALSE
