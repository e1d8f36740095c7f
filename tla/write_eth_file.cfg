SPECIFICATION Spec

CONSTANTS
  DataSize   = 5
  MaxPacket  = 2
  MaxEvent   = 2
  TailPos    = 1
  RingSize   = 6
  LoopMod    = 8
  CPUs       = {c1}
  None       = None
  Lens       = {1, 2}
  MinLen     = 1
  Spill      = 0
  CtrMod     = 8
  EventSizes = 4
  MaxSent    = 4
  MaxLost    = 0
  MaxResets  = 1
  MaySwitch  = FALSE
  Garbage    = TRUE

INVARIANT
  FileIsTheData

CHECK_DEADLOCK FALSE
