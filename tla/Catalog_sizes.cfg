SPECIFICATION Spec
CONSTANTS
  Ids = {1, 2, 3, 5, 7, 16, 17, 18, 19, 20}
  NextObjId = 20
  Encrypted = TRUE
  PreallocFlag = FALSE
  Volume <- StatVolume
  LeafBreaks = {FALSE}
  Buckets = 4
  CountMod = 4
INVARIANT NoFalseAlarm
