SPECIFICATION Spec
CONSTANTS
  d1 = d1
  d2 = d2
  d3 = d3
  inode = inode
  xattr = xattr
  NoOwner = NoOwner
  DevBlocks = 4
  Reserved = {0}
  MaxAddr = 6
  RefMod = 4
  ScanLimit = 2
  Dstreams = {d1, d2}
  DOwner <- OwnIds
  DType <- SameType
  LeafBreaks = {FALSE}
  MaxSnaps = 0
  MaxRecords = 2
  MaxLen = 3
  MaxRefcnt = 2
  MaxListed = 2
  MaxNodes = 0
SYMMETRY Symmetry
PROPERTY AcceptedCountsAreReal
