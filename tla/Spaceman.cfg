SPECIFICATION Spec
CONSTANTS
  Image <- AnyImage
  BlocksPerChunk = 12
  ChunksPerCib = 2
  CibsPerCab = 2
  RingCopies = 3
  ZoneAlign = 2
  Tier2Base = 64
  AddrMod = 128
  CountMod = 32
INVARIANTS QueuesAccepted DevicesAccepted BitmapsAccepted PoolAccepted
  NoFalseAlarm
PROPERTY Terminates
