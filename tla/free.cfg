SPECIFICATION FairSpec

CONSTANTS
  DataSize   = 4
  MaxPacket  = 2
  MaxEvent   = 2
  TailPos    = 0
  RingSize   = 6
  LoopMod    = 8
  CPUs       = {c1}
  None       = None
  Lens       = {1, 2}
  MinLen     = 1
  Spill      = 0
  CtrMod     = 4
  EventSizes = 2
  MaxSent    = 4
  MaxLost    = 0
  MaxResets  = 1
  MaySwitch  = TRUE
  IdleLimit  = 0
  Pace       = "free"
  Resetter   = "other"
  Quiet      = FALSE

CONSTRAINT Bounded

INVARIANTS
  TypeOK

PROPERTIES
  Settles
  TakesIntact
  NoAlarmWithoutRace

CHECK_DEADLOCK FALSE
