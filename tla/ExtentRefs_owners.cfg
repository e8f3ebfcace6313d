SPECIFICATION FairSpec
CONSTANTS
  d1 = d1
  d2 = d2
  d3 = d3
  inode = inode
  xattr = xattr
  NoOwner = NoOwner
  DevBlocks = 4
  Reserved = {0}
  MaxAddr = 4
  RefMod = 4
  ScanLimit = 2
  Dstreams = {d1, d2, d3}
  DOwner <- CloneAndXattr
  DType <- MixedTypes
  LeafBreaks = {FALSE}
  MaxSnaps = 0
  MaxRecords = 1
  MaxLen = 3
  MaxRefcnt = 2
  MaxListed = 1
  MaxNodes = 0
INVARIANT TypeOK
PROPERTIES NoFalseAlarm CountsTrusted Terminates
