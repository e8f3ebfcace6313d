SPECIFICATION Spec
CONSTANTS
  Image <- AnyImage
  Lookups <- SomeLookups
  BlockSize = 112
  MaxName = 3
  MaxDepth = 4
INVARIANTS OrderAccepted SpaceAccepted QueryFinds NoFalseAlarm
PROPERTY Terminates
