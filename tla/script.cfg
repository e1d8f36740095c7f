SPECIFICATION FairSpec

CONSTANTS
  cfeb1    = cfeb1
  cfeb2    = cfeb2
  NoNumber = NoNumber
  Cfebs    <- MCCfebs
  Scripts  <- MCScripts
  Repeats  = {0, 1, 2}
  Slots    = {1, 2}
  UIntSize = 4

INVARIANTS
  TypeOK
  LoopsNest
  SlotsAsWritten
  RunsAsWritten

PROPERTIES
  RunEnds
