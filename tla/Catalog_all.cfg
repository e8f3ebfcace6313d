SPECIFICATION Spec
CONSTANTS
  Ids = {1, 2, 3, 5, 7, 16, 17, 18, 19, 20}
  NextObjId = 20
  Encrypted = TRUE
  PreallocFlag = FALSE
  Volume <- AnyVolume
  LeafBreaks = {TRUE, FALSE}
  Buckets = 4
  CountMod = 4
INVARIANTS TreeAccepted SiblingsAccepted InodesAccepted StreamsAccepted 
  NoFalseAlarmWithoutData
