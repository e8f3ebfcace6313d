SPECIFICATION Spec
CONSTANTS
  d1 = d1
  d2 = d2
  d3 = d3
  inode = inode
  xattr = xattr
  NoOwner = NoOwner
  DevBlocks = 4
  Reserved = {0}
  MaxAddr = 5
  RefMod = 3
  ScanLimit = 2
  Dstreams = {d1}
  DOwner <- OwnIds
  DType <- SameType
  LeafBreaks = {FALSE}
  MaxSnaps = 2
  MaxRecords = 2
  MaxLen = 3
  MaxRefcnt = 1
  MaxListed = 1
  MaxNodes = 1
INVARIANTS ExtentsDisjoint TableMatchesBitmap
PROPERTIES NoFalseAlarm ImplementsBlockRefs CountsTrusted
