----------------------------- MODULE MkfsLayout -----------------------------
(***************************************************************************)
(* Where mkapfs puts everything: the checkpoint areas, the fixed objects   *)
(* after them, the bitmaps of the internal pool and the pool itself        *)
(* (mkapfs/mkapfs.h, mkapfs/spaceman.c and set_ephemeral_bnos()).          *)
(*                                                                         *)
(* p stands for the global struct parameters after complete_parameters():  *)
(* the blocks of both devices, and whether a tier 2 device was given.      *)
(***************************************************************************)
EXTENDS Integers

DivRoundUp(a, b) == (a + b - 1) \div b
RoundUp(a, b) == DivRoundUp(a, b) * b
LeastOf(a, b) == IF a < b THEN a ELSE b
\* Division in C: towards zero.
TruncDiv(a, b) == IF a >= 0 THEN a \div b ELSE -((-a) \div b)

(* The only block size, and what depends on it. *)
BlockSize == 4096
BlocksPerChunk == 8 * BlockSize           \* one bitmap block for each chunk
ChunksPerCib == (BlockSize - 40) \div 32
CibsPerCab == (BlockSize - 40) \div 8
MinBlocks == (512 * 1024) \div BlockSize  \* the smallest device allowed

BlockCount(p) == p.main + p.tier2

-----------------------------------------------------------------------------
(* The checkpoint areas. *)

\* Both areas grow with the container, in steps: n is its block count.
DescBlocksFor(n) ==
  IF n < 131072 THEN 8
  ELSE IF n < 262144 THEN 12
  ELSE IF n < 13107200 THEN 20 + (60 * ((n - 262144) \div 131072)) \div 23
  ELSE 280

HalfGigs(n) == n \div 131072

DataBlocksFor(n) ==
  IF n < 4545 THEN 52
  ELSE IF n < 13633 THEN 124
  ELSE IF n < 36353 THEN 160 + 36 * ((n - 13633) \div 4544)
  ELSE IF n < 131777 THEN 308 + 4 * ((n - 36353) \div 4544)
  ELSE IF n < 262144 THEN 648 + 4 * ((n - 131777) \div 4544)
  ELSE IF n = 262144 THEN 992
  ELSE IF n < 1048576
  THEN LET off == HalfGigs(n - 262144)
       IN  1248 + 488 * off + 4 * TruncDiv(n - (261280 + off * 131776), 2272)
  ELSE IF n < 4063232 THEN 4112 + 256 * HalfGigs(n - 1048576)
  ELSE IF n < 13107200 THEN 10000 + 256 * HalfGigs(n - 4063232)
  ELSE 27672

\* Mutant: the first interval is forgotten.
DataBlocksNoFirst(p) ==
  IF BlockCount(p) < 4545 THEN 124 ELSE DataBlocksFor(BlockCount(p))

CpointDescBlocks(p) == DescBlocksFor(BlockCount(p))
CpointDataBlocks(p) == DataBlocksFor(BlockCount(p))

CpointDescBase == 1
CpointDataBase(p) == CpointDescBase + CpointDescBlocks(p)
CpointEnd(p) == CpointDataBase(p) + CpointDataBlocks(p)
IpBmapBase(p) == CpointEnd(p) + 10

-----------------------------------------------------------------------------
(* calculate_dev_info() *)

ChunkCount(n) == DivRoundUp(n, BlocksPerChunk)
CibCount(n) == DivRoundUp(ChunkCount(n), ChunksPerCib)
CabCount(n) ==
  LET cabs == DivRoundUp(CibCount(n), CibsPerCab) IN IF cabs = 1 THEN 0 ELSE cabs

\* The blocks of the spaceman structures of a device of n blocks.
InfoBlocks(n) == ChunkCount(n) + CibCount(n) + CabCount(n)

-----------------------------------------------------------------------------
(* set_spaceman_info() *)

IpBlocks(p) == (InfoBlocks(p.main) + InfoBlocks(p.tier2)) * 3
IpBmSize(p) == DivRoundUp(IpBlocks(p), BlocksPerChunk)
IpBmapBlocks(p) == 16 * IpBmSize(p)
IpBase(p) == IpBmapBase(p) + IpBmapBlocks(p)

UsedBlocksEnd(p) == IpBase(p) + IpBlocks(p)
UsedChunksEnd(p) == DivRoundUp(UsedBlocksEnd(p), BlocksPerChunk)
Tier2UsedEnd(p) == IF p.fusion THEN 1 ELSE 0   \* both in blocks and in chunks

MainChunkBmap(p) == IpBase(p)
MainCibNext(p) == MainChunkBmap(p) + 1   \* mutant: one bitmap block
MainCib(p) == MainChunkBmap(p) + UsedChunksEnd(p)
MainCab(p) == MainCib(p) + CibCount(p.main)
Tier2ChunkBmap(p) == MainCab(p) + CabCount(p.main)
Tier2Cib(p) == Tier2ChunkBmap(p) + Tier2UsedEnd(p)
Tier2Cab(p) == Tier2Cib(p) + CibCount(p.tier2)
PoolEnd(p) == Tier2Cab(p) + CabCount(p.tier2)

(* Offsets of the arrays that follow the fixed fields of the spaceman. *)
BitmapXidOff == 336
BmAddrOff(p) == BitmapXidOff + 8 * IpBmSize(p)
BmFreeNextOff(p) == BmAddrOff(p) + RoundUp(2 * IpBmSize(p), 8)
MainAddrOff(p) == BmFreeNextOff(p) + 2 * IpBmapBlocks(p)
AddrCount(n) == IF CabCount(n) > 0 THEN CabCount(n) ELSE CibCount(n)
Tier2AddrOff(p) == MainAddrOff(p) + 8 * AddrCount(p.main)

SpacemanSize(p) ==
  RoundUp(8 * (AddrCount(p.main) + AddrCount(p.tier2)) + MainAddrOff(p), BlockSize)

\* The free bitmap blocks of the internal pool, as a list in an array: each
\* slot has the next one, or 0xFFFF (make_ip_bm_free_next()).
IpFreeNext(p) ==
  [i \in 0 .. (IpBmapBlocks(p) - 1) |->
     IF i < IpBmSize(p) \/ i = IpBmapBlocks(p) - 1 THEN 65535 ELSE i + 1]

-----------------------------------------------------------------------------
(* set_ephemeral_bnos() *)

ReaperBno(p) == CpointDataBase(p)
SpacemanBno(p) == ReaperBno(p) + 1
SpacemanBlkcnt(p) == SpacemanSize(p) \div BlockSize
IpFreeQueueBno(p) == SpacemanBno(p) + SpacemanBlkcnt(p)
EphBlkcnt(p) == SpacemanBlkcnt(p) + 3 + (IF p.fusion THEN 2 ELSE 0)

-----------------------------------------------------------------------------
(* Guards that lead to fatal(). *)

\* complete_parameters(); an empty tier 2 device goes through.
BadSizes(p) == p.main < MinBlocks \/ (p.tier2 # 0 /\ p.tier2 < MinBlocks)

\* set_spaceman_info(), calculate_dev_info() and set_ephemeral_bnos().
TooBig(p) ==
  \/ CabCount(p.main) > 1000 \/ CabCount(p.tier2) > 1000
  \/ IpBlocks(p) > p.main \div 2
EphTooBig(p) == EphBlkcnt(p) >= CpointDataBlocks(p) \div 4

-----------------------------------------------------------------------------
(* count_used_blocks_in_chunk() on the main device. *)

FirstChunkAll(p) == IpBlocks(p)   \* mutant: the pool never leaves the chunk

\* What the first chunk has of the internal pool.  The difference is unsigned: if
\* the pool begins after the first chunk it is larger than any pool.
FirstChunkIpBlocks(p) ==
  IF IpBase(p) > BlocksPerChunk THEN IpBlocks(p)
  ELSE LeastOf(IpBlocks(p), BlocksPerChunk - IpBase(p))

MainUsedInChunk(p, c) ==
  IF c >= UsedChunksEnd(p) THEN 0
  ELSE IF c = 0
  THEN 1 + CpointDescBlocks(p) + CpointDataBlocks(p) + 2 + 6 + IpBmapBlocks(p)
         + (IF p.fusion THEN 2 ELSE 0) + FirstChunkIpBlocks(p)
  ELSE IF c # UsedChunksEnd(p) - 1 THEN BlocksPerChunk
  ELSE (IpBlocks(p) - FirstChunkIpBlocks(p)) % BlocksPerChunk

\* The same on the tier 2 device, which only has a superblock.
Tier2UsedInChunk(p, c) == IF c >= Tier2UsedEnd(p) THEN 0 ELSE 1

\* The ranges that make_main_alloc_bitmap() marks, as <<first block, blocks>>.
FusionMarks(p) ==
  IF p.fusion THEN {<<CpointEnd(p) + 8, 1>>, <<CpointEnd(p) + 9, 1>>} ELSE {}
MainMarks(p) ==
  {<<0, 1>>, <<CpointDescBase, CpointDescBlocks(p)>>,
   <<CpointDataBase(p), CpointDataBlocks(p)>>,
   <<CpointEnd(p), 2>>, <<CpointEnd(p) + 2, 6>>,
   <<IpBmapBase(p), IpBmapBlocks(p)>>, <<IpBase(p), IpBlocks(p)>>}
  \cup FusionMarks(p)

\* Mutant: the cib address blocks are forgotten.
IpMarksNoCabs(p) ==
  {<<MainCib(p) - IpBase(p), CibCount(p.main)>>,
   <<Tier2Cib(p) - IpBase(p), CibCount(p.tier2)>>,
   <<MainChunkBmap(p) - IpBase(p), UsedChunksEnd(p)>>,
   <<Tier2ChunkBmap(p) - IpBase(p), Tier2UsedEnd(p)>>}

\* The ranges that make_ip_bitmap() marks, relative to the pool.
IpMarks(p) ==
  {<<MainCab(p) - IpBase(p), CabCount(p.main)>>,
   <<Tier2Cab(p) - IpBase(p), CabCount(p.tier2)>>,
   <<MainCib(p) - IpBase(p), CibCount(p.main)>>,
   <<Tier2Cib(p) - IpBase(p), CibCount(p.tier2)>>,
   <<MainChunkBmap(p) - IpBase(p), UsedChunksEnd(p)>>,
   <<Tier2ChunkBmap(p) - IpBase(p), Tier2UsedEnd(p)>>}
=============================================================================
