SPECIFICATION Spec

CONSTANTS
  DataSize   = 10
  MaxPacket  = 3
  MaxEvent   = 4
  TailPos    = 1
  RingSize   = 11
  LoopMod    = 8
  CPUs       = {c1}
  None       = None
  Lens       = {1, 2}
  MinLen     = 1
  Spill      = 1
  CtrMod     = 4
  EventSizes = 4
  MaxSent    = 5
  MaxLost    = 1
  MaxResets  = 1
  MaySwitch  = FALSE
  IdleLimit  = 0
  Pace       = "ahead"
  Resetter   = "self"
  Quiet      = TRUE

INVARIANTS
  CleanEventsAreWhole

PROPERTIES
  StreamSpec

CHECK_DEADLOCK FALSE
