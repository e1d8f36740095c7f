SPECIFICATION DriverSpec

CONSTANTS
  DataSize   = 6
  MaxPacket  = 3
  MaxEvent   = 3
  TailPos    = 1
  RingSize   = 4
  LoopMod    = 4
  CPUs       = {c1, c2}
  None       = None
  Lens       = {1, 2}
  MinLen     = 1
  Spill      = 1
  CtrMod     = 2
  EventSizes = 4
  MaxSent    = 3
  MaxLost    = 1
  MaxResets  = 1
  MaySwitch  = TRUE

SYMMETRY Symmetry

CONSTRAINT Bounded

INVARIANTS
  HookTypeOK
  EntriesDescribeData
  GapsAreFlagged

CHECK_DEADLOCK FALSE
