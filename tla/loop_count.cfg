SPECIFICATION Spec

CONSTANTS
  DataSize   = 4
  MaxPacket  = 2
  MaxEvent   = 2
  TailPos    = 0
  RingSize   = 5
  LoopMod    = 2
  CPUs       = {c1}
  None       = None
  Lens       = {1, 2}
  MinLen     = 1
  Spill      = 0
  CtrMod     = 8
  EventSizes = 2
  MaxSent    = 6
  MaxLost    = 0
  MaxResets  = 0
  MaySwitch  = FALSE
  IdleLimit  = 0
  Pace       = "samelap"
  Resetter   = "self"
  Quiet      = TRUE

PROPERTY
  AlarmsAreTrue

CHECK_DEADLOCK FALSE
