SPECIFICATION FairSpec

CONSTANTS
  DataSize   = 9
  MaxPacket  = 3
  MaxEvent   = 4
  TailPos    = 2
  RingSize   = 9
  LoopMod    = 8
  CPUs       = {c1}
  None       = None
  Lens       = {1, 2}
  MinLen     = 1
  Spill      = 1
  CtrMod     = 4
  EventSizes = 4
  MaxSent    = 5
  MaxLost    = 1
  MaxResets  = 0
  MaySwitch  = FALSE
  IdleLimit  = 0
  Pace       = "samelap"
  Resetter   = "self"
  Quiet      = TRUE

INVARIANTS
  InOrder
  NoFalseAlarm
  DamagedEventsAreWithheld
  GoodEventsAreKept
  DataIntact
  BufferInBounds

PROPERTIES
  Delivered

CHECK_DEADLOCK FALSE
