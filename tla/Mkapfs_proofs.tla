---------------------------- MODULE Mkapfs_proofs ----------------------------
(***************************************************************************)
(* Proofs about mkapfs, for every size of the devices.                     *)
(***************************************************************************)
EXTENDS Mkapfs, TLAPS

-----------------------------------------------------------------------------
(* The layout. *)

\* Rounding up, for the three divisors that are used.
LEMMA RoundUpFacts ==
  ASSUME NEW a \in Nat
  PROVE  /\ DivRoundUp(a, BlocksPerChunk) \in Nat
         /\ DivRoundUp(a, BlocksPerChunk) * BlocksPerChunk >= a
         /\ a > 0 => (DivRoundUp(a, BlocksPerChunk) - 1) * BlocksPerChunk < a
         /\ a = 0 => DivRoundUp(a, BlocksPerChunk) = 0
         /\ DivRoundUp(a, ChunksPerCib) \in Nat
         /\ DivRoundUp(a, ChunksPerCib) * ChunksPerCib >= a
         /\ a > 0 => (DivRoundUp(a, ChunksPerCib) - 1) * ChunksPerCib < a
         /\ a = 0 => DivRoundUp(a, ChunksPerCib) = 0
         /\ DivRoundUp(a, CibsPerCab) \in Nat
         /\ DivRoundUp(a, CibsPerCab) * CibsPerCab >= a
         /\ a > 0 => (DivRoundUp(a, CibsPerCab) - 1) * CibsPerCab < a
         /\ a = 0 => DivRoundUp(a, CibsPerCab) = 0
<1>1. BlocksPerChunk = 32768 /\ ChunksPerCib = 126 /\ CibsPerCab = 507
  BY DEF BlocksPerChunk, ChunksPerCib, CibsPerCab, BlockSize
<1>2. QED
  BY <1>1 DEF DivRoundUp

\* The same for chunks, with the number written out.
LEMMA ChunkRounding ==
  ASSUME NEW a \in Nat
  PROVE  /\ DivRoundUp(a, BlocksPerChunk) \in Nat
         /\ DivRoundUp(a, BlocksPerChunk) * 32768 >= a
         /\ a > 0 => (DivRoundUp(a, BlocksPerChunk) - 1) * 32768 < a
         /\ a = 0 => DivRoundUp(a, BlocksPerChunk) = 0
<1>1. BlocksPerChunk = 32768
  BY SMT DEF BlocksPerChunk, BlockSize
<1>2. QED
  BY <1>1, RoundUpFacts

\* The bounds of cpoint_desc_blocks().
LEMMA DescBlocks ==
  ASSUME NEW n \in Nat
  PROVE  /\ DescBlocksFor(n) \in Nat /\ DescBlocksFor(n) >= 8 /\ DescBlocksFor(n) <= 280
         /\ 32 * DescBlocksFor(n) <= 256 + n
  BY SMT DEF DescBlocksFor

\* The bounds of cpoint_data_blocks(): in each interval it grows slower than the
\* container.
LEMMA DataBlocks ==
  ASSUME NEW n \in Nat
  PROVE  /\ DataBlocksFor(n) \in Nat /\ DataBlocksFor(n) >= 52 /\ DataBlocksFor(n) <= 27672
         /\ 32 * DataBlocksFor(n) <= 1664 + n
<1>1. CASE n <= 262144
  <2>1. CASE n < 13633
    BY <1>1, <2>1, SMT DEF DataBlocksFor
  <2>2. CASE n >= 13633 /\ n < 36353
    BY <1>1, <2>2, SMT DEF DataBlocksFor
  <2>3. CASE n >= 36353 /\ n < 131777
    BY <1>1, <2>3, SMT DEF DataBlocksFor
  <2>4. CASE n >= 131777 /\ n < 262144
    BY <1>1, <2>4, SMT DEF DataBlocksFor
  <2>5. CASE n = 262144
    BY <1>1, <2>5, SMT DEF DataBlocksFor
  <2>6. QED
    BY <1>1, <2>1, <2>2, <2>3, <2>4, <2>5
<1>2. CASE n > 262144 /\ n < 1048576
  <2> DEFINE off == HalfGigs(n - 262144)
             rest == n - (261280 + off * 131776)
  <2>1. off \in Int /\ 0 <= off /\ off <= 5 /\ off * 131072 <= n - 262144 /\ n - 262144 < (off + 1) * 131072
    BY <1>2 DEF HalfGigs
  <2>2. rest \in Int /\ -3000 <= rest /\ rest <= 140000
    BY <2>1
  <2> HIDE DEF off, rest
  <2>3. /\ TruncDiv(rest, 2272) \in Int
        /\ -1 <= TruncDiv(rest, 2272) /\ TruncDiv(rest, 2272) <= 62
    BY <2>2 DEF TruncDiv
  <2>4. DataBlocksFor(n) = 1248 + 488 * off + 4 * TruncDiv(rest, 2272)
    BY <1>2 DEF DataBlocksFor, off, rest
  <2>5. QED
    BY <1>2, <2>1, <2>3, <2>4, SMT
<1>3. CASE n >= 1048576
  <2>1. CASE n < 4063232
    BY <1>3, <2>1, SMT DEF DataBlocksFor, HalfGigs
  <2>2. CASE n >= 4063232 /\ n < 13107200
    <3> DEFINE off == HalfGigs(n - 4063232)
    <3>1. off \in Int /\ 0 <= off /\ off <= 68
      BY <2>2, SMT DEF HalfGigs
    <3>2. DataBlocksFor(n) = 10000 + 256 * off
      BY <1>3, <2>2, SMT DEF DataBlocksFor
    <3>3. QED
      BY <2>2, <3>1, <3>2, SMT
  <2>3. CASE n >= 13107200
    <3>1. /\ ~(n < 4545) /\ ~(n < 13633) /\ ~(n < 36353) /\ ~(n < 131777)
          /\ ~(n < 262144) /\ n # 262144 /\ ~(n < 1048576) /\ ~(n < 4063232)
          /\ ~(n < 13107200)
      BY <2>3, SMT
    <3>2. DataBlocksFor(n) = 27672
      BY <3>1, SMTT(20) DEF DataBlocksFor
    <3>3. QED
      BY <2>3, <3>2, SMT
  <2>4. QED
    BY <1>3, <2>1, <2>2, <2>3
<1>4. QED
  BY <1>1, <1>2, <1>3

\* The counts of calculate_dev_info() are numbers.
LEMMA InfoCounts ==
  ASSUME NEW n \in Nat
  PROVE  /\ ChunkCount(n) \in Nat /\ CibCount(n) \in Nat /\ CabCount(n) \in Nat
         /\ InfoBlocks(n) \in Nat /\ AddrCount(n) \in Nat
         /\ ChunkCount(n) + CibCount(n) + CabCount(n) = InfoBlocks(n)
<1>1. ChunkCount(n) \in Nat
  BY RoundUpFacts DEF ChunkCount
<1>2. CibCount(n) \in Nat
  BY <1>1, RoundUpFacts DEF CibCount
<1>3. CabCount(n) \in Nat
  BY <1>2, RoundUpFacts DEF CabCount
<1>4. QED
  BY <1>1, <1>2, <1>3 DEF InfoBlocks, AddrCount

\* The numbers of set_spaceman_info() and their bounds.
LEMMA Quantities ==
  ASSUME NEW p \in Param
  PROVE  /\ CpointDescBlocks(p) \in Nat /\ CpointDescBlocks(p) >= 8
         /\ CpointDescBlocks(p) <= 280
         /\ CpointDataBlocks(p) \in Nat /\ CpointDataBlocks(p) >= 52
         /\ CpointDataBlocks(p) <= 27672
         /\ IpBlocks(p) = 3 * (InfoBlocks(p.main) + InfoBlocks(p.tier2))
         /\ IpBlocks(p) \in Nat /\ IpBmSize(p) \in Nat /\ IpBase(p) \in Nat
         /\ UsedBlocksEnd(p) \in Nat /\ UsedChunksEnd(p) \in Nat
         /\ UsedChunksEnd(p) * BlocksPerChunk >= UsedBlocksEnd(p)
         /\ Tier2UsedEnd(p) \in Nat
         /\ SpacemanBlkcnt(p) \in Nat
<1>1. /\ CpointDescBlocks(p) \in Nat /\ CpointDescBlocks(p) >= 8
      /\ CpointDescBlocks(p) <= 280
      /\ CpointDataBlocks(p) \in Nat /\ CpointDataBlocks(p) >= 52
      /\ CpointDataBlocks(p) <= 27672
  <2>1. BlockCount(p) \in Nat
    BY DEF BlockCount, Param
  <2>2. QED
    BY <2>1, DescBlocks, DataBlocks DEF CpointDescBlocks, CpointDataBlocks
<1>2. p.main \in Nat /\ p.tier2 \in Nat
  BY DEF Param
<1>3. /\ IpBlocks(p) \in Nat
      /\ IpBlocks(p) = 3 * (InfoBlocks(p.main) + InfoBlocks(p.tier2))
  <2>1. InfoBlocks(p.main) \in Nat /\ InfoBlocks(p.tier2) \in Nat
    BY <1>2, InfoCounts
  <2>2. QED
    BY <2>1 DEF IpBlocks
<1>4. IpBmSize(p) \in Nat
  BY <1>3, RoundUpFacts DEF IpBmSize
<1>5. IpBase(p) \in Nat
  BY <1>1, <1>4 DEF IpBase, IpBmapBase, IpBmapBlocks, CpointEnd, CpointDataBase,
                    CpointDescBase
<1>6. UsedBlocksEnd(p) \in Nat
  BY <1>3, <1>5 DEF UsedBlocksEnd
<1>7. /\ UsedChunksEnd(p) \in Nat
      /\ UsedChunksEnd(p) * BlocksPerChunk >= UsedBlocksEnd(p)
  BY <1>6, RoundUpFacts DEF UsedChunksEnd
<1>8. SpacemanBlkcnt(p) \in Nat
  <2> DEFINE bytes == 8 * (AddrCount(p.main) + AddrCount(p.tier2)) + MainAddrOff(p)
  <2>1. RoundUp(2 * IpBmSize(p), 8) \in Nat
    BY <1>4 DEF RoundUp, DivRoundUp
  <2>2. bytes \in Nat
    <3>1. AddrCount(p.main) \in Nat /\ AddrCount(p.tier2) \in Nat
      BY <1>2, InfoCounts
    <3>2. MainAddrOff(p) \in Nat
      BY <1>4, <2>1
         DEF MainAddrOff, BmFreeNextOff, BmAddrOff, BitmapXidOff, IpBmapBlocks
    <3>3. QED
      BY <3>1, <3>2
  <2> HIDE DEF bytes
  <2>3. RoundUp(bytes, 4096) \div 4096 \in Nat
    BY <2>2 DEF RoundUp, DivRoundUp
  <2>4. SpacemanSize(p) = RoundUp(bytes, 4096)
    BY DEF SpacemanSize, BlockSize, bytes
  <2>5. QED
    BY <2>3, <2>4 DEF SpacemanBlkcnt, BlockSize
<1>9. QED
  BY <1>1, <1>3, <1>4, <1>5, <1>6, <1>7, <1>8 DEF Tier2UsedEnd

(***************************************************************************)
(* The areas of the objects follow each other in four zones: the first     *)
(* blocks, the checkpoint data, the fixed objects and the internal pool.   *)
(***************************************************************************)
HeadZone == {"block_zero", "map_block", "checkpoint"}
DataZone == {"reaper", "spaceman", "ip_queue", "main_queue", "tier2_queue", "wbc_state"}
FixedZone == {"omap", "volume", "middle_tree", "ip_bitmaps"}

IsRange(r) == r \in Nat \X Nat /\ r = <<r[1], r[2]>>

\* Each object lies in its zone.
LEMMA AreaZones ==
  ASSUME NEW p \in Param, ~EphTooBig(p)
  PROVE  LET a == Area(p)
             data == CpointDataBase(p)
             end == CpointEnd(p)
             base == IpBase(p)
         IN  /\ data \in Nat /\ end \in Nat /\ base \in Nat /\ data <= end /\ end <= base
             /\ \A o \in HeadZone : IsRange(a[o]) /\ a[o][1] + a[o][2] <= data
             /\ \A o \in DataZone : IsRange(a[o]) /\ data <= a[o][1] /\ a[o][1] + a[o][2] <= end
             /\ \A o \in FixedZone : IsRange(a[o]) /\ end <= a[o][1] /\ a[o][1] + a[o][2] <= base
             /\ \A o \in PoolObjects : /\ IsRange(a[o]) /\ base <= a[o][1]
                                       /\ a[o][1] + a[o][2] <= PoolEnd(p)
<1> DEFINE a == Area(p)
           data == CpointDataBase(p)
           end == CpointEnd(p)
           base == IpBase(p)
<1>1. /\ data \in Nat /\ end \in Nat /\ base \in Nat
      /\ data >= 9 /\ end = data + CpointDataBlocks(p) /\ data <= end /\ end <= base
      /\ IpBmapBase(p) = end + 10 /\ base = end + 10 + IpBmapBlocks(p)
      /\ IpBmapBlocks(p) \in Nat /\ SpacemanBlkcnt(p) \in Nat
      /\ UsedChunksEnd(p) \in Nat /\ Tier2UsedEnd(p) \in Nat
  BY Quantities DEF IpBase, IpBmapBase, IpBmapBlocks, CpointEnd, CpointDataBase,
                    CpointDescBase
<1>2. data + SpacemanBlkcnt(p) + 5 <= end
  <2>1. EphBlkcnt(p) \in Nat /\ EphBlkcnt(p) >= SpacemanBlkcnt(p) + 3
    BY <1>1 DEF EphBlkcnt
  <2>2. EphBlkcnt(p) < CpointDataBlocks(p) \div 4 /\ CpointDataBlocks(p) \in Nat
    BY <2>1, Quantities DEF EphTooBig
  <2>3. QED
    BY <1>1, <2>1, <2>2
<1>3. \A o \in HeadZone : IsRange(a[o]) /\ a[o][1] + a[o][2] <= data
  BY <1>1 DEF HeadZone, Area, CpointDescBase, IsRange
<1>4. \A o \in DataZone : IsRange(a[o]) /\ data <= a[o][1] /\ a[o][1] + a[o][2] <= end
  BY <1>1, <1>2 DEF DataZone, Area, IpFreeQueueBno, SpacemanBno, ReaperBno, IsRange
<1>5. \A o \in FixedZone : IsRange(a[o]) /\ end <= a[o][1] /\ a[o][1] + a[o][2] <= base
  BY <1>1 DEF FixedZone, Area, IsRange
<1>6. /\ CibCount(p.main) \in Nat /\ CabCount(p.main) \in Nat
      /\ CibCount(p.tier2) \in Nat /\ CabCount(p.tier2) \in Nat
  BY InfoCounts DEF Param
<1>7. \A o \in PoolObjects : IsRange(a[o]) /\ base <= a[o][1]
  BY <1>1, <1>6 DEF PoolObjects, Area, MainChunkBmap, MainCib, MainCab, Tier2ChunkBmap,
                    Tier2Cib, Tier2Cab, IsRange
<1>8. \A o \in PoolObjects : a[o][1] + a[o][2] <= PoolEnd(p)
  BY <1>1, <1>6 DEF PoolObjects, Area, MainChunkBmap, MainCib, MainCab, Tier2ChunkBmap,
                    Tier2Cib, Tier2Cab, PoolEnd
<1>9. QED
  BY <1>1, <1>3, <1>4, <1>5, <1>7, <1>8

\* No two objects have a block in common.
LEMMA AreaDisjoint ==
  ASSUME NEW p \in Param, ~EphTooBig(p)
  PROVE  /\ \A o \in MainObjects : IsRange(Area(p)[o])
         /\ \A o1, o2 \in MainObjects : o1 # o2 => ~Meet(Area(p)[o1], Area(p)[o2])
<1> DEFINE a == Area(p)
           data == CpointDataBase(p)
           end == CpointEnd(p)
           base == IpBase(p)
<1>1. /\ data \in Nat /\ end \in Nat /\ base \in Nat /\ data <= end /\ end <= base
      /\ IpBmapBase(p) = end + 10 /\ IpBmapBlocks(p) \in Nat /\ SpacemanBlkcnt(p) \in Nat
      /\ UsedChunksEnd(p) \in Nat /\ Tier2UsedEnd(p) \in Nat
  BY AreaZones, Quantities DEF IpBmapBase, IpBmapBlocks
<1>3. \A o \in HeadZone : IsRange(a[o]) /\ a[o][1] + a[o][2] <= data
  BY AreaZones
<1>4. \A o \in DataZone : IsRange(a[o]) /\ data <= a[o][1] /\ a[o][1] + a[o][2] <= end
  BY AreaZones
<1>5. \A o \in FixedZone : IsRange(a[o]) /\ end <= a[o][1] /\ a[o][1] + a[o][2] <= base
  BY AreaZones
<1>6. /\ CibCount(p.main) \in Nat /\ CabCount(p.main) \in Nat
      /\ CibCount(p.tier2) \in Nat /\ CabCount(p.tier2) \in Nat
  BY InfoCounts DEF Param
<1>7. \A o \in PoolObjects : IsRange(a[o]) /\ base <= a[o][1]
  BY AreaZones
<1>8. \A o1, o2 \in HeadZone : o1 # o2 => ~Meet(a[o1], a[o2])
  BY DEF HeadZone, Area, Meet, CpointDescBase
<1>9. \A o1, o2 \in DataZone : o1 # o2 => ~Meet(a[o1], a[o2])
  BY <1>1 DEF DataZone, Area, Meet, IpFreeQueueBno, SpacemanBno, ReaperBno
<1>10. \A o1, o2 \in FixedZone : o1 # o2 => ~Meet(a[o1], a[o2])
  BY <1>1 DEF FixedZone, Area, Meet
<1>11. \A o1, o2 \in PoolObjects : o1 # o2 => ~Meet(a[o1], a[o2])
  BY <1>1, <1>6 DEF PoolObjects, Area, Meet, MainChunkBmap, MainCib, MainCab,
                    Tier2ChunkBmap, Tier2Cib, Tier2Cab
<1>12. MainObjects = HeadZone \cup DataZone \cup FixedZone \cup PoolObjects
  BY DEF MainObjects, HeadZone, DataZone, FixedZone, PoolObjects
<1> HIDE DEF a, data, end, base
<1>13. ASSUME NEW o1 \in MainObjects, NEW o2 \in MainObjects, o1 # o2
       PROVE  ~Meet(a[o1], a[o2])
  <2> DEFINE Apart(S, T) == \A u \in S, v \in T : ~Meet(a[u], a[v]) /\ ~Meet(a[v], a[u])
  <2>1. Apart(HeadZone, DataZone)
    BY <1>1, <1>3, <1>4 DEF Meet, IsRange
  <2>2. Apart(HeadZone, FixedZone)
    BY <1>1, <1>3, <1>5 DEF Meet, IsRange
  <2>3. Apart(HeadZone, PoolObjects)
    BY <1>1, <1>3, <1>7 DEF Meet, IsRange
  <2>4. Apart(DataZone, FixedZone)
    BY <1>1, <1>4, <1>5 DEF Meet, IsRange
  <2>5. Apart(DataZone, PoolObjects)
    BY <1>1, <1>4, <1>7 DEF Meet, IsRange
  <2>6. Apart(FixedZone, PoolObjects)
    BY <1>1, <1>5, <1>7 DEF Meet, IsRange
  <2>7. QED
    BY <2>1, <2>2, <2>3, <2>4, <2>5, <2>6, <1>8, <1>9, <1>10, <1>11, <1>12, <1>13, Zenon
<1>14. \A o \in MainObjects : IsRange(a[o])
  BY <1>3, <1>4, <1>5, <1>7, <1>12
<1>15. QED
  BY <1>13, <1>14 DEF a

\* The chunk-info blocks cover the device, and their address blocks cover them.
LEMMA CibFacts ==
  ASSUME NEW n \in Nat
  PROVE  /\ CibCount(n) * CibBlocks >= n
         /\ n > 0 => (CibCount(n) - 1) * CibBlocks < n
         /\ n = 0 => CibCount(n) = 0
         /\ CabCount(n) > 0 => /\ CabCount(n) * CibsPerCab >= CibCount(n)
                               /\ (CabCount(n) - 1) * CibsPerCab < CibCount(n)
<1>1. BlocksPerChunk = 32768 /\ ChunksPerCib = 126 /\ CibsPerCab = 507
      /\ CibBlocks = 4128768
  BY DEF BlocksPerChunk, ChunksPerCib, CibsPerCab, BlockSize, CibBlocks
<1>2. /\ ChunkCount(n) \in Nat /\ ChunkCount(n) * 32768 >= n
      /\ n > 0 => (ChunkCount(n) - 1) * 32768 < n
      /\ n = 0 => ChunkCount(n) = 0
  BY <1>1, RoundUpFacts DEF ChunkCount
<1>3. /\ CibCount(n) \in Nat /\ CibCount(n) * 126 >= ChunkCount(n)
      /\ ChunkCount(n) > 0 => (CibCount(n) - 1) * 126 < ChunkCount(n)
      /\ ChunkCount(n) = 0 => CibCount(n) = 0
  <2> DEFINE c == ChunkCount(n)
  <2>1. c \in Nat
    BY <1>2
  <2>2. CibCount(n) = DivRoundUp(c, ChunksPerCib)
    BY DEF CibCount
  <2> HIDE DEF c
  <2>3. /\ DivRoundUp(c, ChunksPerCib) \in Nat
        /\ DivRoundUp(c, ChunksPerCib) * ChunksPerCib >= c
        /\ c > 0 => (DivRoundUp(c, ChunksPerCib) - 1) * ChunksPerCib < c
        /\ c = 0 => DivRoundUp(c, ChunksPerCib) = 0
    BY <2>1, RoundUpFacts
  <2>4. QED
    BY <1>1, <2>2, <2>3, SMT DEF c
<1>4. CabCount(n) > 0 => /\ CabCount(n) * 507 >= CibCount(n)
                         /\ (CabCount(n) - 1) * 507 < CibCount(n)
  BY <1>1, <1>3, RoundUpFacts DEF CabCount
<1>5. QED
  BY <1>1, <1>2, <1>3, <1>4, SMT

\* Everything that mkapfs writes for a single device fits in it.
LEMMA SingleDeviceFits ==
  ASSUME NEW p \in Param, p.tier2 = 0, ~p.fusion, p.main >= 128
  PROVE  UsedBlocksEnd(p) <= p.main /\ PoolEnd(p) <= UsedBlocksEnd(p)
<1> DEFINE n == p.main
           c == ChunkCount(n)
<1>1. n \in Nat /\ BlockCount(p) = n
  BY DEF Param, BlockCount
<1>2. /\ CpointDescBlocks(p) \in Nat /\ CpointDataBlocks(p) \in Nat
      /\ 32 * CpointDescBlocks(p) <= 256 + n /\ 32 * CpointDataBlocks(p) <= 1664 + n
  <2> HIDE DEF n
  <2>1. DescBlocksFor(n) \in Nat /\ 32 * DescBlocksFor(n) <= 256 + n
    BY <1>1, DescBlocks, SMT
  <2>2. DataBlocksFor(n) \in Nat /\ 32 * DataBlocksFor(n) <= 1664 + n
    BY <1>1, DataBlocks, SMT
  <2>3. QED
    BY <1>1, <2>1, <2>2 DEF CpointDescBlocks, CpointDataBlocks
<1>3. BlocksPerChunk = 32768 /\ ChunksPerCib = 126 /\ CibsPerCab = 507
  BY SMT DEF BlocksPerChunk, ChunksPerCib, CibsPerCab, BlockSize
<1>4. /\ c \in Nat /\ c >= 1 /\ (c - 1) * 32768 < n /\ c * 32768 >= n
  <2>1. /\ c \in Nat /\ (n > 0 => (c - 1) * 32768 < n) /\ c * 32768 >= n
    <3> HIDE DEF n
    <3>1. QED
      BY <1>1, ChunkRounding, SMT DEF ChunkCount
  <2>2. QED
    BY <1>1, <2>1, SMT
<1>5. CibCount(n) \in Nat /\ CibCount(n) >= 1 /\ CibCount(n) <= c
  <2> HIDE DEF c
  <2>1. /\ DivRoundUp(c, ChunksPerCib) \in Nat
        /\ DivRoundUp(c, ChunksPerCib) * ChunksPerCib >= c
        /\ c > 0 => (DivRoundUp(c, ChunksPerCib) - 1) * ChunksPerCib < c
    BY <1>4, RoundUpFacts
  <2>2. CibCount(n) = DivRoundUp(c, ChunksPerCib)
    BY DEF CibCount, c
  <2>3. QED
    BY <1>3, <1>4, <2>1, <2>2, SMT
<1>6. CabCount(n) \in Nat /\ CabCount(n) <= c
  <2> DEFINE b == CibCount(n)
  <2>1. b \in Nat /\ b >= 1 /\ b <= c
    BY <1>5
  <2>2. CabCount(n) = 0 \/ CabCount(n) = DivRoundUp(b, CibsPerCab)
    BY DEF CabCount
  <2> HIDE DEF b
  <2>3. /\ DivRoundUp(b, CibsPerCab) \in Nat
        /\ b > 0 => (DivRoundUp(b, CibsPerCab) - 1) * CibsPerCab < b
    BY <2>1, RoundUpFacts
  <2> HIDE DEF c
  <2>4. QED
    BY <1>3, <1>4, <2>1, <2>2, <2>3, SMT
<1>7. ChunkCount(0) = 0 /\ CibCount(0) = 0 /\ CabCount(0) = 0
  <2>1. /\ DivRoundUp(0, BlocksPerChunk) = 0 /\ DivRoundUp(0, ChunksPerCib) = 0
        /\ DivRoundUp(0, CibsPerCab) = 0
    BY RoundUpFacts
  <2>2. QED
    BY <2>1 DEF ChunkCount, CibCount, CabCount
<1>8. IpBlocks(p) = 3 * (c + CibCount(n) + CabCount(n))
  BY <1>4, <1>5, <1>6, <1>7, SMT DEF IpBlocks, InfoBlocks
<1>9. IpBlocks(p) \in Nat /\ IpBlocks(p) <= 9 * c
  BY <1>4, <1>5, <1>6, <1>8, SMT
<1>10. /\ IpBmSize(p) \in Nat
       /\ IpBlocks(p) > 0 => (IpBmSize(p) - 1) * 32768 < IpBlocks(p)
       /\ IpBlocks(p) = 0 => IpBmSize(p) = 0
  <2> DEFINE b == IpBlocks(p)
  <2>1. b \in Nat /\ IpBmSize(p) = DivRoundUp(b, BlocksPerChunk)
    BY <1>9 DEF IpBmSize
  <2> HIDE DEF b
  <2>2. /\ DivRoundUp(b, BlocksPerChunk) \in Nat
        /\ b > 0 => (DivRoundUp(b, BlocksPerChunk) - 1) * 32768 < b
        /\ b = 0 => DivRoundUp(b, BlocksPerChunk) = 0
    BY <2>1, ChunkRounding, SMT
  <2>3. QED
    BY <2>1, <2>2 DEF b
<1>11. /\ IpBase(p) = 11 + CpointDescBlocks(p) + CpointDataBlocks(p) + 16 * IpBmSize(p)
       /\ UsedBlocksEnd(p) = IpBase(p) + IpBlocks(p)
  BY <1>2, <1>10, SMT DEF IpBase, IpBmapBase, IpBmapBlocks, CpointEnd, CpointDataBase,
                          CpointDescBase, UsedBlocksEnd
<1> HIDE DEF c, n
<1>12. UsedBlocksEnd(p) <= n
  BY <1>1, <1>2, <1>4, <1>9, <1>10, <1>11, SMTT(30) DEF n
<1>13. UsedChunksEnd(p) \in Nat /\ UsedChunksEnd(p) <= c
  <2> DEFINE b == UsedBlocksEnd(p)
             u == UsedChunksEnd(p)
  <2>1. b \in Nat /\ u = DivRoundUp(b, BlocksPerChunk) /\ b <= n
    BY <1>12, Quantities DEF UsedChunksEnd
  <2> HIDE DEF b, u
  <2>2. /\ u \in Nat
        /\ b > 0 => (u - 1) * 32768 < b
        /\ b = 0 => u = 0
    BY <2>1, ChunkRounding, SMT
  <2>3. u \in Nat /\ u <= c
    BY <1>1, <1>4, <2>1, <2>2, SMT
  <2>4. QED
    BY <2>3 DEF u
<1>14. PoolEnd(p) = IpBase(p) + UsedChunksEnd(p) + CibCount(n) + CabCount(n)
  <2>1. IpBase(p) \in Nat
    BY Quantities
  <2>2. QED
    BY <1>5, <1>6, <1>7, <1>13, <2>1, SMT
       DEF n, PoolEnd, Tier2Cab, Tier2Cib, Tier2ChunkBmap, MainCab, MainCib, MainChunkBmap,
           Tier2UsedEnd
<1>15. PoolEnd(p) <= UsedBlocksEnd(p)
  <2>1. IpBase(p) \in Nat
    BY Quantities
  <2>2. QED
    BY <2>1, <1>4, <1>5, <1>6, <1>8, <1>11, <1>13, <1>14, SMT
<1>16. QED
  BY <1>12, <1>15 DEF n

-----------------------------------------------------------------------------
(* The invariant is inductive. *)

\* The size of an object is a number.
LEMMA AreaSizes ==
  ASSUME NEW p \in Param, NEW o \in MainObjects
  PROVE  Area(p)[o][2] \in Nat
<1>1. p.main \in Nat /\ p.tier2 \in Nat
  BY DEF Param
<1>2. /\ CibCount(p.main) \in Nat /\ CabCount(p.main) \in Nat
      /\ CibCount(p.tier2) \in Nat /\ CabCount(p.tier2) \in Nat
  BY <1>1, InfoCounts
<1>3. /\ SpacemanBlkcnt(p) \in Nat /\ IpBmapBlocks(p) \in Nat
      /\ UsedChunksEnd(p) \in Nat /\ Tier2UsedEnd(p) \in Nat
  BY Quantities DEF IpBmapBlocks
<1>4. QED
  BY <1>2, <1>3 DEF MainObjects, PoolObjects, Area

\* Writing objects whole stays in their areas and leaves the others alone.
LEMMA WholeFacts ==
  ASSUME Inv, NEW os
  PROVE  /\ Whole(os) \in [Objects -> Nat]
         /\ \A o \in MainObjects : Whole(os)[o] <= Area(param)[o][2]
         /\ \A o \in Objects \ os : Whole(os)[o] = disk[o]
<1>1. "tier2_super" \notin MainObjects /\ Objects = MainObjects \cup {"tier2_super"}
  BY DEF MainObjects, PoolObjects, Objects
<1>2. \A o \in MainObjects : Area(param)[o][2] \in Nat
  BY AreaSizes DEF Inv
<1>3. /\ disk \in [Objects -> Nat]
      /\ \A o \in MainObjects : disk[o] <= Area(param)[o][2]
  BY DEF Inv, DiskOK
<1>4. QED
  BY <1>1, <1>2, <1>3 DEF Whole

\* Nothing is written at the start.
LEMMA InitInv == Init => Inv
<1> SUFFICES ASSUME Init PROVE Inv
  OBVIOUS
<1>1. /\ req \in Requests /\ param \in Param /\ disk \in [Objects -> Nat]
      /\ loop \in Loop
  BY RequestsAssumption DEF Init, Param, Loop, NoLoop
<1>2. DiskOK
  <2>1. \A o \in MainObjects : Area(param)[o][2] \in Nat /\ o \in Objects
    BY <1>1, AreaSizes DEF Objects
  <2>2. "tier2_super" \in Objects
    BY DEF Objects
  <2>3. QED
    BY <2>1, <2>2 DEF DiskOK, Init
<1>3. GuardsOK
  <2>1. \A o \in MainObjects : disk[o] = 0
    BY DEF Init, Objects
  <2>2. "block_zero" \in MainObjects
    BY DEF MainObjects
  <2>3. QED
    BY <2>1, <2>2 DEF GuardsOK, Init, Guarded
<1>4. LoopOK
  BY DEF LoopOK, Init, Cibs, Cabs, Objects, MainObjects, PoolObjects
<1>5. QED
  BY <1>1, <1>2, <1>3, <1>4 DEF Inv

\* A step after the loops that leaves the parameters alone.
LEMMA LaterStep ==
  ASSUME Inv, pc \in Guarded,
         pc' \in (Guarded \cup {"fatal"}) \ {"spaceman", "device", "chunks"},
         UNCHANGED <<req, param, loop>>, disk' \in [Objects -> Nat],
         \A o \in MainObjects : disk'[o] <= Area(param)[o][2],
         disk'["tier2_super"] > 0 \/ pc' = "tier2" => param.fusion
  PROVE  Inv'
<1>1. Accepted' = Accepted /\ EphTooBig(param)' = EphTooBig(param)
      /\ TooBig(param)' = TooBig(param)
  BY DEF Accepted
<1>2. ~EphTooBig(param) /\ ~TooBig(param) /\ Accepted
  BY DEF Inv, GuardsOK
<1>3. DiskOK'
  BY DEF Inv, DiskOK
<1>4. GuardsOK'
  BY <1>1, <1>2 DEF GuardsOK, Guarded
<1>5. LoopOK'
  BY DEF LoopOK, Guarded
<1>6. QED
  BY <1>3, <1>4, <1>5 DEF Inv
\* The updates of the loop variables keep their types.
LEMMA LoopUpdates ==
  ASSUME NEW l \in Loop, NEW c \in Nat, NEW e \in Nat
  PROVE  [l EXCEPT !.cib = c, !.start = e] \in Loop /\ [l EXCEPT !.cab = c, !.cib = e] \in Loop
<1>1. [l EXCEPT !.cib = c, !.start = e] \in Loop
  BY ZenonT(30) DEF Loop
<1>2. [l EXCEPT !.cab = c, !.cib = e] \in Loop
  BY ZenonT(30) DEF Loop
<1>3. QED
  BY <1>1, <1>2

\* What the invariant says inside the loops of make_single_device().
LoopAt ==
  LET d == loop.dev
      n == DevBlocks(d)
  IN  /\ d \in {"main", "tier2"} /\ n \in Nat
      /\ loop.cib \in Nat /\ loop.cab \in Nat
      /\ CibBlocks = 4128768 /\ CibsPerCab = 507
      /\ CibCount(n) \in Nat /\ CabCount(n) \in Nat
      /\ disk \in [Objects -> Nat]
      /\ d = "main" => disk["tier2_cibs"] = 0 /\ disk["tier2_cabs"] = 0
      /\ disk[Cibs(d)] = loop.cib /\ disk[Cabs(d)] = loop.cab
      /\ loop.cib <= CibCount(n) /\ loop.cab <= CabCount(n)
      /\ loop.start = LeastOf(loop.cib * CibBlocks, n)
      /\ CabCount(n) > 0 => loop.cib <= loop.cab * CibsPerCab

\* The part of the invariant that is about the loops.
LEMMA LoopFacts == Inv /\ pc \in {"device", "chunks"} => LoopAt
<1> SUFFICES ASSUME Inv, pc \in {"device", "chunks"} PROVE LoopAt
  OBVIOUS
<1>1. loop.dev \in {"main", "tier2"} /\ loop.cib \in Nat /\ loop.cab \in Nat
  BY DEF Inv, Loop
<1>2. DevBlocks(loop.dev) \in Nat
  BY <1>1 DEF Inv, Param, DevBlocks
<1>3. /\ CibCount(DevBlocks(loop.dev)) \in Nat /\ CabCount(DevBlocks(loop.dev)) \in Nat
  BY <1>2, InfoCounts
<1>4. CibBlocks = 4128768 /\ CibsPerCab = 507
  BY SMT DEF BlocksPerChunk, ChunksPerCib, CibsPerCab, BlockSize, CibBlocks
<1>5. QED
  BY <1>1, <1>2, <1>3, <1>4 DEF LoopAt, Inv, LoopOK

\* The objects that the loops write.
LEMMA LoopObjects ==
  ASSUME NEW d \in {"main", "tier2"}
  PROVE  /\ Cibs(d) \in MainObjects /\ Cabs(d) \in MainObjects /\ Cibs(d) # Cabs(d)
         /\ Area(param)[Cibs(d)][2] = CibCount(DevBlocks(d))
         /\ Area(param)[Cabs(d)][2] = CabCount(DevBlocks(d))
         /\ Cibs(d) # "block_zero" /\ Cabs(d) # "block_zero"
         /\ d = "main" => /\ Cibs(d) # "tier2_cibs" /\ Cibs(d) # "tier2_cabs"
                          /\ Cabs(d) # "tier2_cibs" /\ Cabs(d) # "tier2_cabs"
<1>1. CASE d = "main"
  BY <1>1 DEF Cibs, Cabs, MainObjects, PoolObjects, Area, DevBlocks
<1>2. CASE d = "tier2"
  BY <1>2 DEF Cibs, Cabs, MainObjects, PoolObjects, Area, DevBlocks
<1>3. QED
  BY <1>1, <1>2

\* The cibs end where the device does.
LEMMA MoreCibsFact ==
  LoopAt => LET n == DevBlocks(loop.dev)
            IN  /\ loop.start # n => loop.cib < CibCount(n)
                /\ loop.start = n => loop.cib = CibCount(n)
                /\ MoreCibs => loop.cib < CibCount(n)
<1> SUFFICES ASSUME LoopAt
             PROVE  LET n == DevBlocks(loop.dev)
                    IN  /\ loop.start # n => loop.cib < CibCount(n)
                        /\ loop.start = n => loop.cib = CibCount(n)
                        /\ MoreCibs => loop.cib < CibCount(n)
  OBVIOUS
<1> DEFINE n == DevBlocks(loop.dev)
<1>1. /\ n \in Nat /\ loop.cib \in Nat /\ CibCount(n) \in Nat /\ CabCount(n) \in Nat
      /\ loop.cib <= CibCount(n) /\ CibBlocks = 4128768
      /\ loop.start = LeastOf(loop.cib * CibBlocks, n)
  BY DEF LoopAt
<1>2. /\ CibCount(n) * CibBlocks >= n
      /\ n > 0 => (CibCount(n) - 1) * CibBlocks < n
      /\ n = 0 => CibCount(n) = 0
  BY <1>1, CibFacts
<1>3. MoreCibs => loop.cib < CibCount(n) \/ loop.start # n
  BY <1>1 DEF MoreCibs
<1> HIDE DEF n
<1>4. loop.start # n => loop.cib < CibCount(n)
  BY <1>1, <1>2, SMT DEF LeastOf
<1>5. loop.start = n => loop.cib = CibCount(n)
  BY <1>1, <1>2, SMT DEF LeastOf
<1>6. QED
  BY <1>3, <1>4, <1>5 DEF n

\* Every step keeps the inductive invariant.
LEMMA NextInv == Inv /\ [Next]_vars => Inv'
<1> SUFFICES ASSUME Inv, [Next]_vars PROVE Inv'
  OBVIOUS
<1> USE DEF Inv
<1>1. CASE CompleteParameters
  <2>1. disk' = disk /\ loop' = loop /\ req' = req /\ pc = "params"
    BY <1>1 DEF CompleteParameters, Fatal
  <2>2. loop = NoLoop /\ \A d \in {"main", "tier2"} : disk[Cibs(d)] = 0 /\ disk[Cabs(d)] = 0
    BY <2>1 DEF LoopOK
  <2>3. \A o \in MainObjects : disk[o] = 0
    BY <2>1 DEF GuardsOK
  <2>4. CASE Fatal
    <3>1. GuardsOK'
      BY <2>1, <2>3, <2>4 DEF GuardsOK, Fatal, Guarded, MainObjects
    <3>2. DiskOK' /\ LoopOK'
      BY <2>1, <2>4 DEF DiskOK, LoopOK, Fatal
    <3>3. QED
      BY <3>1, <3>2, <2>4 DEF Fatal
  <2>5. CASE pc' = "super"
    <3> DEFINE tier2Limit == IF req.fusion THEN req.tier2Dev ELSE 0
    <3>1. /\ param' = [param EXCEPT !.main = IF @ = 0 THEN req.mainDev ELSE @,
                                    !.tier2 = IF @ = 0 THEN tier2Limit ELSE @]
          /\ ~(param'.tier2 > tier2Limit) /\ ~BadSizes(param')
      BY <1>1, <2>5 DEF CompleteParameters, Fatal
    <3>2. /\ req.mainDev \in Nat /\ tier2Limit \in Nat
          /\ req.fusion \in BOOLEAN
      BY RequestsAssumption
    <3>3. param' \in Param /\ param'.fusion = req.fusion
      BY <3>1, <3>2 DEF Param, DiskOK
    <3>4. ~req.fusion => param'.tier2 = 0
      BY <3>1, <3>2, <3>3 DEF Param
    <3>5. Accepted'
      BY <3>1, <3>3, <3>4 DEF Accepted
    <3>6. GuardsOK'
      BY <2>1, <2>3, <2>5, <3>5 DEF GuardsOK, Guarded
    <3>7. \A o \in MainObjects : Area(param')[o][2] \in Nat
      BY <3>3, AreaSizes
    <3>8. DiskOK'
      BY <2>1, <2>3, <2>5, <3>3, <3>7 DEF DiskOK
    <3>9. LoopOK'
      BY <2>1, <2>2, <2>5 DEF LoopOK, Cibs, Cabs
    <3>10. QED
      BY <2>1, <3>3, <3>6, <3>8, <3>9
  <2>6. QED
    BY <1>1, <2>4, <2>5 DEF CompleteParameters
<1>2. CASE MakeSuper
  <2>1. /\ pc = "super" /\ pc' \in {"fatal", "info"} /\ disk' = Whole({"block_zero"})
        /\ UNCHANGED <<req, param, loop>>
    BY <1>2 DEF MakeSuper
  <2>2. /\ disk' \in [Objects -> Nat]
        /\ \A o \in MainObjects : disk'[o] <= Area(param)[o][2]
        /\ \A o \in Objects \ {"block_zero"} : disk'[o] = disk[o]
    BY <2>1, WholeFacts
  <2>3. GuardsOK'
    BY <2>1, <2>2 DEF GuardsOK, Guarded, Accepted, Objects
  <2>4. DiskOK'
    BY <2>1, <2>2 DEF DiskOK, Objects, MainObjects, PoolObjects
  <2>5. \A d \in {"main", "tier2"} : disk'[Cibs(d)] = disk[Cibs(d)] /\ disk'[Cabs(d)] = disk[Cabs(d)]
    BY <2>2 DEF Cibs, Cabs, Objects, MainObjects, PoolObjects
  <2>6. LoopOK'
    BY <2>1, <2>5 DEF LoopOK, Cibs, Cabs
  <2>7. QED
    BY <2>1, <2>2, <2>3, <2>4, <2>6
<1>3. CASE SetInfo
  <2>1. /\ pc = "info" /\ UNCHANGED <<req, param, disk, loop>>
        /\ \/ pc' = "fatal"
           \/ pc' = "spaceman" /\ ~TooBig(param) /\ ~EphTooBig(param)
    BY <1>3 DEF SetInfo, Fatal
  <2>2. GuardsOK'
    BY <2>1 DEF GuardsOK, Guarded, Accepted
  <2>3. DiskOK' /\ LoopOK'
    BY <2>1 DEF DiskOK, LoopOK, Cibs, Cabs
  <2>4. QED
    BY <2>1, <2>2, <2>3
<1>4. CASE BeginSpaceman
  <2>1. /\ pc = "spaceman" /\ pc' = "device" /\ disk' = Whole({"spaceman"})
        /\ UNCHANGED <<req, param, loop>>
    BY <1>4 DEF BeginSpaceman
  <2>2. /\ disk' \in [Objects -> Nat]
        /\ \A o \in MainObjects : disk'[o] <= Area(param)[o][2]
        /\ \A o \in Objects \ {"spaceman"} : disk'[o] = disk[o]
    BY <2>1, WholeFacts
  <2>3. GuardsOK'
    BY <2>1, <2>2 DEF GuardsOK, Guarded, Accepted
  <2>4. DiskOK'
    BY <2>1, <2>2 DEF DiskOK, Objects, MainObjects, PoolObjects
  <2>5. /\ loop' = NoLoop
        /\ disk'["main_cibs"] = 0 /\ disk'["main_cabs"] = 0
        /\ disk'["tier2_cibs"] = 0 /\ disk'["tier2_cabs"] = 0
    BY <2>1, <2>2 DEF LoopOK, Cibs, Cabs, Objects, MainObjects, PoolObjects
  <2>6. param.main \in Nat /\ CibCount(param.main) \in Nat /\ CabCount(param.main) \in Nat
    BY InfoCounts DEF Param
  <2>7. /\ LeastOf(0, param.main) = 0 /\ 0 * CibBlocks = 0 /\ 0 * CibsPerCab = 0
    BY <2>6, SMT DEF LeastOf, CibBlocks, BlocksPerChunk, ChunksPerCib, CibsPerCab, BlockSize
  <2>8. LoopOK'
    <3>1. /\ loop'.dev = "main" /\ loop'.cib = 0 /\ loop'.cab = 0 /\ loop'.start = 0
          /\ DevBlocks(loop.dev)' = param.main
      BY <2>1, <2>5 DEF NoLoop, DevBlocks
    <3>2. Cibs(loop.dev)' = "main_cibs" /\ Cabs(loop.dev)' = "main_cabs"
      BY <3>1 DEF Cibs, Cabs
    <3>3. QED
      BY <2>1, <2>5, <2>6, <2>7, <3>1, <3>2, SMT DEF LoopOK
  <2>9. QED
    BY <2>1, <2>2, <2>3, <2>4, <2>8
<1>5. CASE BeginDevice
  <2>1. /\ pc = "device" /\ pc' = "chunks" /\ UNCHANGED <<req, param, disk, loop>>
    BY <1>5 DEF BeginDevice
  <2>2. GuardsOK'
    BY <2>1 DEF GuardsOK, Guarded, Accepted
  <2>3. DiskOK'
    BY <2>1 DEF DiskOK
  <2>4. LoopOK'
    BY <2>1 DEF LoopOK, Cibs, Cabs, DevBlocks
  <2>5. QED
    BY <2>1, <2>2, <2>3, <2>4
<1>6. CASE MakeCib
  <2> DEFINE d == loop.dev
             n == DevBlocks(d)
  <2>1. /\ pc = "chunks" /\ pc' = "chunks" /\ UNCHANGED <<req, param>> /\ MoreCibs
        /\ disk' = [disk EXCEPT ![Cibs(d)] = loop.cib + 1]
        /\ loop' = [loop EXCEPT !.cib = @ + 1,
                       !.start = LeastOf(loop.start + ChunksPerCib * BlocksPerChunk, n)]
    BY <1>6 DEF MakeCib
  <2>2. LoopAt
    BY <2>1, LoopFacts
  <2>3. loop.cib < CibCount(n)
    BY <2>1, <2>2, MoreCibsFact DEF LoopAt
  <2>4. /\ loop'.dev = d /\ loop'.cab = loop.cab /\ loop'.cib = loop.cib + 1
        /\ loop'.start = LeastOf(loop.start + CibBlocks, n) /\ DevBlocks(loop.dev)' = n
    BY <2>1 DEF Loop, CibBlocks, DevBlocks
  <2>5. /\ loop'.start = LeastOf((loop.cib + 1) * CibBlocks, n) /\ loop'.start \in Nat
    <3>1. CibBlocks = 4128768 /\ n \in Nat /\ loop.cib \in Nat
          /\ loop.start = LeastOf(loop.cib * CibBlocks, n)
      BY <2>2 DEF LoopAt
    <3>2. QED
      BY <2>4, <3>1, SMT DEF LeastOf
  <2>6. loop' \in Loop
    <3> DEFINE e == LeastOf(loop.start + ChunksPerCib * BlocksPerChunk, n)
    <3>1. e \in Nat
      BY <2>4, <2>5 DEF CibBlocks
    <3>2. loop' = [loop EXCEPT !.cib = loop.cib + 1, !.start = e] /\ loop \in Loop
      BY <2>1
    <3>3. loop.cib + 1 \in Nat
      BY <2>2 DEF LoopAt
    <3> HIDE DEF e
    <3>4. QED
      BY <3>1, <3>2, <3>3, LoopUpdates
  <2>7. /\ Cibs(d) \in MainObjects /\ Cabs(d) \in MainObjects /\ Cibs(d) # Cabs(d)
        /\ Area(param)[Cibs(d)][2] = CibCount(n)
        /\ Cibs(d) # "block_zero"
        /\ d = "main" => Cibs(d) # "tier2_cibs" /\ Cibs(d) # "tier2_cabs"
    BY <2>2, LoopObjects DEF LoopAt
  <2>8. /\ disk' \in [Objects -> Nat] /\ disk'[Cibs(d)] = loop.cib + 1
        /\ \A o \in Objects \ {Cibs(d)} : disk'[o] = disk[o]
    BY <2>1, <2>2, <2>7 DEF Objects, LoopAt
  <2>9. DiskOK'
    <3>1. \A o \in MainObjects : disk'[o] <= Area(param)[o][2]
      BY <2>2, <2>3, <2>7, <2>8 DEF DiskOK, Objects, LoopAt
    <3>2. disk'["tier2_super"] = disk["tier2_super"]
      BY <2>7, <2>8 DEF Objects, MainObjects, PoolObjects
    <3>3. QED
      BY <2>1, <3>1, <3>2 DEF DiskOK
  <2>10. GuardsOK'
    BY <2>1 DEF GuardsOK, Guarded, Accepted
  <2>11. /\ disk'[Cabs(d)] = disk[Cabs(d)]
         /\ d = "main" => disk'["tier2_cibs"] = 0 /\ disk'["tier2_cabs"] = 0
    BY <2>2, <2>7, <2>8 DEF LoopAt, Objects, MainObjects, PoolObjects
  <2>12. CabCount(n) > 0 => loop.cib + 1 <= loop.cab * CibsPerCab
    BY <2>1, <2>2 DEF MoreCibs, LoopAt
  <2>13. LoopOK'
    <3>1. Cibs(loop.dev)' = Cibs(d) /\ Cabs(loop.dev)' = Cabs(d)
      BY <2>4
    <3>2. /\ disk'[Cibs(d)] = loop'.cib /\ disk'[Cabs(d)] = loop'.cab
          /\ loop'.cib <= CibCount(n) /\ loop'.cab <= CabCount(n)
          /\ loop'.start = LeastOf(loop'.cib * CibBlocks, n)
          /\ CabCount(n) > 0 => loop'.cib <= loop'.cab * CibsPerCab
      BY <2>2, <2>3, <2>4, <2>5, <2>8, <2>11, <2>12 DEF LoopAt
    <3> HIDE DEF d, n
    <3>3. QED
      BY <2>1, <2>4, <2>11, <3>1, <3>2 DEF LoopOK
  <2>14. QED
    BY <2>1, <2>6, <2>8, <2>9, <2>10, <2>13
<1>7. CASE MakeCab
  <2> DEFINE d == loop.dev
             n == DevBlocks(d)
  <2>1. /\ pc = "chunks" /\ pc' = "chunks" /\ UNCHANGED <<req, param>> /\ ~MoreCibs
        /\ loop.cab < CabCount(n)
        /\ disk' = [disk EXCEPT ![Cabs(d)] = loop.cab + 1]
        /\ loop' = [loop EXCEPT !.cab = @ + 1, !.cib = loop.cab * CibsPerCab]
    BY <1>7 DEF MakeCab
  <2>2. LoopAt
    BY <2>1, LoopFacts
  <2>3. loop.cab * CibsPerCab = loop.cib
    <3>1. /\ n \in Nat /\ loop.cib \in Nat /\ loop.cab \in Nat /\ CibsPerCab = 507
          /\ CibCount(n) \in Nat /\ CabCount(n) \in Nat
          /\ CabCount(n) > 0 => loop.cib <= loop.cab * CibsPerCab
      BY <2>2 DEF LoopAt
    <3>2. CabCount(n) > 0 => (CabCount(n) - 1) * CibsPerCab < CibCount(n)
      BY <3>1, CibFacts
    <3>3. loop.cib < loop.cab * CibsPerCab => loop.start = n
      BY <2>1, <3>1 DEF MoreCibs
    <3>4. loop.start = n => loop.cib = CibCount(n)
      BY <2>2, MoreCibsFact
    <3> HIDE DEF n
    <3>5. QED
      BY <2>1, <3>1, <3>2, <3>3, <3>4, SMT
  <2>4. /\ loop'.dev = d /\ loop'.cab = loop.cab + 1 /\ loop'.cib = loop.cib
        /\ loop'.start = loop.start /\ DevBlocks(loop.dev)' = n /\ loop' \in Loop
    <3>1. loop' = [loop EXCEPT !.cab = loop.cab + 1, !.cib = loop.cib] /\ loop \in Loop
      BY <2>1, <2>3
    <3>2. /\ loop'.dev = d /\ loop'.cab = loop.cab + 1 /\ loop'.cib = loop.cib
          /\ loop'.start = loop.start
      BY <3>1 DEF Loop
    <3>3. loop.cab + 1 \in Nat /\ loop.cib \in Nat
      BY <2>2 DEF LoopAt
    <3>4. loop' \in Loop
      BY <3>1, <3>3, LoopUpdates
    <3>5. QED
      BY <2>1, <3>2, <3>4 DEF DevBlocks
  <2>5. /\ Cibs(d) \in MainObjects /\ Cabs(d) \in MainObjects /\ Cibs(d) # Cabs(d)
        /\ Area(param)[Cabs(d)][2] = CabCount(n)
        /\ d = "main" => Cabs(d) # "tier2_cibs" /\ Cabs(d) # "tier2_cabs"
    BY <2>2, LoopObjects DEF LoopAt
  <2>6. /\ disk' \in [Objects -> Nat] /\ disk'[Cabs(d)] = loop.cab + 1
        /\ \A o \in Objects \ {Cabs(d)} : disk'[o] = disk[o]
    BY <2>1, <2>2, <2>5 DEF Objects, LoopAt
  <2>7. DiskOK'
    <3>1. \A o \in MainObjects : disk'[o] <= Area(param)[o][2]
      BY <2>1, <2>2, <2>5, <2>6 DEF DiskOK, Objects, LoopAt
    <3>2. disk'["tier2_super"] = disk["tier2_super"]
      BY <2>5, <2>6 DEF Objects, MainObjects, PoolObjects
    <3>3. QED
      BY <2>1, <3>1, <3>2 DEF DiskOK
  <2>8. GuardsOK'
    BY <2>1 DEF GuardsOK, Guarded, Accepted
  <2>9. /\ disk'[Cibs(d)] = disk[Cibs(d)]
        /\ d = "main" => disk'["tier2_cibs"] = 0 /\ disk'["tier2_cabs"] = 0
    BY <2>2, <2>5, <2>6 DEF LoopAt, Objects, MainObjects, PoolObjects
  <2>10. LoopOK'
    <3>1. Cibs(loop.dev)' = Cibs(d) /\ Cabs(loop.dev)' = Cabs(d)
      BY <2>4
    <3>2. loop.cib <= (loop.cab + 1) * CibsPerCab
      BY <2>2, <2>3 DEF LoopAt
    <3>3. /\ disk'[Cibs(d)] = loop'.cib /\ disk'[Cabs(d)] = loop'.cab
          /\ loop'.cib <= CibCount(n) /\ loop'.cab <= CabCount(n)
          /\ loop'.start = LeastOf(loop'.cib * CibBlocks, n)
          /\ CabCount(n) > 0 => loop'.cib <= loop'.cab * CibsPerCab
      BY <2>1, <2>2, <2>4, <2>6, <2>9, <3>2 DEF LoopAt
    <3> HIDE DEF d, n
    <3>4. QED
      BY <2>1, <2>4, <2>9, <3>1, <3>3 DEF LoopOK
  <2>11. QED
    BY <2>1, <2>4, <2>6, <2>7, <2>8, <2>10
<1>8. CASE EndDevice
  <2>1. /\ pc = "chunks" /\ UNCHANGED <<req, param, disk>>
        /\ \/ loop.dev = "main" /\ loop' = [NoLoop EXCEPT !.dev = "tier2"] /\ pc' = "device"
           \/ loop.dev = "tier2" /\ loop' = NoLoop /\ pc' = "queues"
    BY <1>8 DEF EndDevice
  <2>2. LoopAt
    BY <2>1, LoopFacts
  <2>3. loop' \in Loop
    BY <2>1 DEF Loop, NoLoop
  <2>4. GuardsOK'
    BY <2>1 DEF GuardsOK, Guarded, Accepted
  <2>5. DiskOK'
    BY <2>1 DEF DiskOK
  <2>6. LoopOK'
    <3>1. CASE pc' = "queues"
      BY <3>1 DEF LoopOK
    <3>2. CASE pc' = "device"
      <4>1. /\ loop'.dev = "tier2" /\ loop'.cib = 0 /\ loop'.cab = 0 /\ loop'.start = 0
            /\ disk'["tier2_cibs"] = 0 /\ disk'["tier2_cabs"] = 0
        BY <2>1, <2>2, <3>2 DEF NoLoop, LoopAt
      <4>2. /\ Cibs(loop.dev)' = "tier2_cibs" /\ Cabs(loop.dev)' = "tier2_cabs"
            /\ DevBlocks(loop.dev)' = param.tier2
        BY <2>1, <4>1 DEF Cibs, Cabs, DevBlocks
      <4>3. /\ param.tier2 \in Nat
            /\ CibCount(param.tier2) \in Nat /\ CabCount(param.tier2) \in Nat
        BY InfoCounts DEF Param
      <4>4. LeastOf(0, param.tier2) = 0 /\ 0 * CibBlocks = 0 /\ 0 * CibsPerCab = 0
        BY <2>2, <4>3, SMT DEF LeastOf, LoopAt
      <4>5. QED
        BY <2>1, <3>2, <4>1, <4>2, <4>3, <4>4, SMT DEF LoopOK
    <3>3. QED
      BY <2>1, <3>1, <3>2
  <2>7. QED
    BY <2>1, <2>3, <2>4, <2>5, <2>6
<1>9. CASE MakeFreeQueues
  <2>1. /\ pc = "queues" /\ pc' = "pool" /\ disk' = Whole({"ip_queue", "main_queue"} \cup
                        IF param.fusion THEN {"tier2_queue"} ELSE {})
        /\ UNCHANGED <<req, param, loop>>
    BY <1>9 DEF MakeFreeQueues
  <2>2. /\ disk' \in [Objects -> Nat]
        /\ \A o \in MainObjects : disk'[o] <= Area(param)[o][2]
        /\ disk'["tier2_super"] = disk["tier2_super"]
    BY <2>1, WholeFacts DEF Objects, MainObjects, PoolObjects
  <2>3. QED
    BY <2>1, <2>2, LaterStep DEF Guarded, DiskOK
<1>10. CASE MakeInternalPool
  <2>1. /\ pc = "pool" /\ pc' = "bitmaps" /\ disk' = Whole({"ip_bitmaps"})
        /\ UNCHANGED <<req, param, loop>>
    BY <1>10 DEF MakeInternalPool
  <2>2. /\ disk' \in [Objects -> Nat]
        /\ \A o \in MainObjects : disk'[o] <= Area(param)[o][2]
        /\ disk'["tier2_super"] = disk["tier2_super"]
    BY <2>1, WholeFacts DEF Objects, MainObjects, PoolObjects
  <2>3. QED
    BY <2>1, <2>2, LaterStep DEF Guarded, DiskOK
<1>11. CASE MakeBitmaps
  <2>1. /\ pc = "bitmaps" /\ pc' = "objects" /\ disk' = Whole({"main_bitmap"} \cup
                        IF param.fusion THEN {"tier2_bitmap"} ELSE {})
        /\ UNCHANGED <<req, param, loop>>
    BY <1>11 DEF MakeBitmaps
  <2>2. /\ disk' \in [Objects -> Nat]
        /\ \A o \in MainObjects : disk'[o] <= Area(param)[o][2]
        /\ disk'["tier2_super"] = disk["tier2_super"]
    BY <2>1, WholeFacts DEF Objects, MainObjects, PoolObjects
  <2>3. QED
    BY <2>1, <2>2, LaterStep DEF Guarded, DiskOK
<1>12. CASE MakeObjects
  <2>1. /\ pc = "objects" /\ pc' = "volume" /\ disk' = Whole({"reaper", "omap"} \cup
                        IF param.fusion THEN {"middle_tree", "wbc_state"} ELSE {})
        /\ UNCHANGED <<req, param, loop>>
    BY <1>12 DEF MakeObjects
  <2>2. /\ disk' \in [Objects -> Nat]
        /\ \A o \in MainObjects : disk'[o] <= Area(param)[o][2]
        /\ disk'["tier2_super"] = disk["tier2_super"]
    BY <2>1, WholeFacts DEF Objects, MainObjects, PoolObjects
  <2>3. QED
    BY <2>1, <2>2, LaterStep DEF Guarded, DiskOK
<1>13. CASE MakeVolume
  <2>1. /\ pc = "volume" /\ UNCHANGED <<req, param, loop>>
        /\ \/ disk' = [disk EXCEPT !.volume = 1] /\ pc' = "fatal"
           \/ disk' = Whole({"volume"}) /\ pc' = "seal"
    BY <1>13 DEF MakeVolume
  <2>2. /\ disk' \in [Objects -> Nat]
        /\ \A o \in MainObjects : disk'[o] <= Area(param)[o][2]
        /\ disk'["tier2_super"] = disk["tier2_super"]
    <3>1. CASE pc' = "fatal"
      <4>1. /\ "volume" \in MainObjects /\ "tier2_super" \notin MainObjects
            /\ Objects = MainObjects \cup {"tier2_super"}
        BY DEF MainObjects, PoolObjects, Objects
      <4>2. Area(param)["volume"][2] = 6
        BY DEF Area
      <4>3. QED
        BY <2>1, <3>1, <4>1, <4>2 DEF DiskOK
    <3>2. CASE pc' = "seal"
      BY <2>1, <3>2, WholeFacts DEF Objects, MainObjects, PoolObjects
    <3>3. QED
      BY <2>1, <3>1, <3>2
  <2>3. QED
    BY <2>1, <2>2, LaterStep DEF Guarded, DiskOK
<1>14. CASE SealSuper \/ WipeDescriptors
  <2>1. /\ pc \in {"seal", "wipe"} /\ pc' \in {"wipe", "map"}
        /\ UNCHANGED <<req, param, disk, loop>>
    BY <1>14 DEF SealSuper, WipeDescriptors
  <2>2. QED
    BY <2>1, LaterStep DEF Guarded, DiskOK
<1>15. CASE MakeCpointMapBlock \/ MakeCpointSuperblock
  <2>1. /\ \/ pc = "map" /\ pc' = "checkpoint" /\ disk' = Whole({"map_block"})
           \/ /\ pc = "checkpoint" /\ disk' = Whole({"checkpoint"})
              /\ pc' = IF param.fusion THEN "tier2" ELSE "done"
        /\ UNCHANGED <<req, param, loop>>
    BY <1>15 DEF MakeCpointMapBlock, MakeCpointSuperblock
  <2>2. /\ disk' \in [Objects -> Nat]
        /\ \A o \in MainObjects : disk'[o] <= Area(param)[o][2]
        /\ disk'["tier2_super"] = disk["tier2_super"]
    BY <2>1, WholeFacts DEF Objects, MainObjects, PoolObjects
  <2>3. QED
    BY <2>1, <2>2, LaterStep DEF Guarded, DiskOK
<1>16. CASE MakeTier2Super
  <2>1. /\ pc = "tier2" /\ pc' = "done" /\ disk' = Whole({"tier2_super"})
        /\ UNCHANGED <<req, param, loop>>
    BY <1>16 DEF MakeTier2Super
  <2>2. /\ disk' \in [Objects -> Nat]
        /\ \A o \in MainObjects : disk'[o] <= Area(param)[o][2]
    BY <2>1, WholeFacts
  <2>3. param.fusion
    BY <2>1 DEF DiskOK
  <2>4. QED
    BY <2>1, <2>2, <2>3, LaterStep DEF Guarded
<1>17. CASE UNCHANGED vars
  BY <1>17 DEF vars, DiskOK, GuardsOK, Accepted, LoopOK, DevBlocks
<1>18. QED
  BY <1>1, <1>2, <1>3, <1>4, <1>5, <1>6, <1>7, <1>8, <1>9, <1>10, <1>11, <1>12, <1>13,
     <1>14, <1>15, <1>16, <1>17 DEF Next, Exited

-----------------------------------------------------------------------------
(* Theorems. *)

\* mkapfs: the inductive invariant holds in every state of every run, for all
\* sizes of the devices.
THEOREM Invariance == Spec => []Inv
<1>1. Init => Inv
  BY InitInv
<1>2. Inv /\ [Next]_vars => Inv'
  BY NextInv
<1>3. QED
  BY <1>1, <1>2, PTL DEF Spec

\* What is written of an object is the start of its area.
LEMMA WriteFacts ==
  ASSUME Inv, NEW o \in MainObjects
  PROVE  Written[o] = <<Area(param)[o][1], disk[o]>> /\ disk[o] \in Nat
         /\ disk[o] <= Area(param)[o][2]
  BY DEF Inv, DiskOK, Written, Objects

\* The invariant keeps the objects apart.
LEMMA InvNoClobber == Inv => NoClobber
<1> SUFFICES ASSUME Inv, NEW o1 \in MainObjects, NEW o2 \in MainObjects, o1 # o2,
                    Meet(Written[o1], Written[o2])
             PROVE  FALSE
  BY DEF NoClobber
<1> DEFINE a == Area(param)
<1>1. /\ Written[o1] = <<a[o1][1], disk[o1]>> /\ disk[o1] \in Nat /\ disk[o1] <= a[o1][2]
      /\ Written[o2] = <<a[o2][1], disk[o2]>> /\ disk[o2] \in Nat /\ disk[o2] <= a[o2][2]
  BY WriteFacts
<1> HIDE DEF a
<1>2. disk[o1] > 0 /\ disk[o2] > 0
  BY <1>1 DEF Meet
<1>3. ~EphTooBig(param)
  <2>1. \E o \in MainObjects \ {"block_zero"} : disk[o] # 0
    BY <1>1, <1>2
  <2>2. QED
    BY <2>1 DEF Inv, GuardsOK
<1>4. /\ a[o1] \in Nat \X Nat /\ a[o2] \in Nat \X Nat /\ ~Meet(a[o1], a[o2])
  BY <1>3, AreaDisjoint DEF a, Inv, IsRange
<1>5. QED
  BY <1>1, <1>4 DEF Meet

\* mkapfs never writes two objects to the same block, whatever the sizes of the
\* devices and wherever the program is (or is stopped): set_spaceman_info() and
\* set_ephemeral_bnos() leave each object an area of its own.
THEOREM NothingClobbered == Spec => []NoClobber
  BY Invariance, InvNoClobber, PTL

\* A device ends when its last block is described.
LEMMA EndCovered ==
  Inv /\ EndDevice => /\ loop.start = DevBlocks(loop.dev)
                      /\ disk[Cibs(loop.dev)] = CibCount(DevBlocks(loop.dev))
                      /\ disk[Cabs(loop.dev)] = CabCount(DevBlocks(loop.dev))
<1> SUFFICES ASSUME Inv, EndDevice
             PROVE  /\ loop.start = DevBlocks(loop.dev)
                    /\ disk[Cibs(loop.dev)] = CibCount(DevBlocks(loop.dev))
                    /\ disk[Cabs(loop.dev)] = CabCount(DevBlocks(loop.dev))
  OBVIOUS
<1> DEFINE n == DevBlocks(loop.dev)
<1>1. pc = "chunks" /\ ~MoreCibs /\ loop.cab = CabCount(n)
  BY DEF EndDevice
<1>2. LoopAt
  BY <1>1, LoopFacts
<1>3. /\ n \in Nat /\ loop.cib \in Nat /\ CibCount(n) \in Nat /\ CabCount(n) \in Nat
      /\ loop.cib <= CibCount(n) /\ CibBlocks = 4128768 /\ CibsPerCab = 507
      /\ disk[Cibs(loop.dev)] = loop.cib /\ disk[Cabs(loop.dev)] = loop.cab
  BY <1>2 DEF LoopAt
<1>4. loop.start # n => loop.cib < CibCount(n)
  BY <1>2, MoreCibsFact
<1>5. loop.start = n => loop.cib = CibCount(n)
  BY <1>2, MoreCibsFact
<1>6. \/ CabCount(n) = 0 /\ ~(loop.cib < CibCount(n))
      \/ CabCount(n) > 0 /\ (loop.start = n \/ ~(loop.cib < loop.cab * CibsPerCab))
  BY <1>1, <1>3 DEF MoreCibs
<1>7. CabCount(n) > 0 => CabCount(n) * CibsPerCab >= CibCount(n)
  BY <1>3, CibFacts
<1> HIDE DEF n
<1>8. ~(loop.cib < CibCount(n))
  BY <1>1, <1>3, <1>5, <1>6, <1>7, SMT
<1>9. QED
  BY <1>1, <1>3, <1>4, <1>5, <1>8 DEF n

\* make_single_device() describes every block of each device, with exactly the
\* chunk-info blocks and cib address blocks that the spaceman announces, for all
\* sizes, those that need cib address blocks included.
THEOREM EveryBlockDescribed == Spec => DevicesCovered
<1>1. Inv /\ [Next]_vars =>
        [EndDevice => /\ loop.start = DevBlocks(loop.dev)
                      /\ disk[Cibs(loop.dev)] = CibCount(DevBlocks(loop.dev))
                      /\ disk[Cabs(loop.dev)] = CabCount(DevBlocks(loop.dev))]_vars
  BY EndCovered
<1>2. QED
  BY <1>1, Invariance, PTL DEF Spec, DevicesCovered

\* A single device has room for the layout.
LEMMA InvInDevice == Inv /\ ~req.fusion => WritesInDevice
<1> SUFFICES ASSUME Inv, ~req.fusion PROVE WritesInDevice
  OBVIOUS
<1>1. param \in Param /\ ~param.fusion /\ param.main \in Nat /\ param.tier2 \in Nat
  BY DEF Inv, DiskOK, Param
<1>2. disk["tier2_super"] <= param.tier2
  BY <1>1 DEF Inv, DiskOK, Objects
<1>3. ASSUME NEW o \in MainObjects, disk[o] > 0
      PROVE  Within(Written[o], <<0, param.main>>)
  <2> DEFINE a == Area(param)
  <2>1. Written[o] = <<a[o][1], disk[o]>> /\ disk[o] \in Nat /\ disk[o] <= a[o][2]
    BY WriteFacts
  <2>2. Accepted
    BY <1>3, <2>1, SMT DEF Inv, GuardsOK
  <2>3. param.main >= 128 /\ param.tier2 = 0
    BY <1>1, <2>2, SMT DEF Accepted, BadSizes, MinBlocks, BlockSize
  <2>4. CASE o = "block_zero"
    <3>1. a[o] = <<0, 1>>
      BY <2>4 DEF Area
    <3>2. QED
      BY <1>1, <2>1, <2>3, <3>1 DEF Within
  <2>5. CASE o # "block_zero"
    <3>1. ~EphTooBig(param)
      <4>1. \E x \in MainObjects \ {"block_zero"} : disk[x] # 0
        BY <1>3, <2>1, <2>5
      <4>2. QED
        BY <4>1 DEF Inv, GuardsOK
    <3>2. /\ UsedBlocksEnd(param) <= param.main /\ PoolEnd(param) <= UsedBlocksEnd(param)
          /\ UsedBlocksEnd(param) = IpBase(param) + IpBlocks(param)
          /\ IpBlocks(param) \in Nat /\ UsedBlocksEnd(param) \in Nat
      BY <1>1, <2>3, SingleDeviceFits, Quantities DEF UsedBlocksEnd
    <3>3. PoolEnd(param) \in Nat
      <4>1. /\ CibCount(param.main) \in Nat /\ CabCount(param.main) \in Nat
            /\ CibCount(param.tier2) \in Nat /\ CabCount(param.tier2) \in Nat
        BY <1>1, InfoCounts
      <4>2. QED
        BY <1>1, <4>1, Quantities DEF PoolEnd, Tier2Cab, Tier2Cib, Tier2ChunkBmap, MainCab,
                                 MainCib, MainChunkBmap
    <3>4. o \in HeadZone \cup DataZone \cup FixedZone \cup PoolObjects
      BY DEF MainObjects, HeadZone, DataZone, FixedZone, PoolObjects
    <3>5. IsRange(a[o]) /\ a[o][1] + a[o][2] <= param.main
      <4> HIDE DEF a
      <4>1. /\ CpointDataBase(param) \in Nat /\ CpointEnd(param) \in Nat
            /\ IpBase(param) \in Nat /\ CpointDataBase(param) <= CpointEnd(param)
            /\ CpointEnd(param) <= IpBase(param)
            /\ \A x \in HeadZone : IsRange(a[x]) /\ a[x][1] + a[x][2] <= CpointDataBase(param)
            /\ \A x \in DataZone : IsRange(a[x]) /\ a[x][1] + a[x][2] <= CpointEnd(param)
            /\ \A x \in FixedZone : IsRange(a[x]) /\ a[x][1] + a[x][2] <= IpBase(param)
            /\ \A x \in PoolObjects : IsRange(a[x]) /\ a[x][1] + a[x][2] <= PoolEnd(param)
        BY <1>1, <3>1, AreaZones DEF a
      <4>2. QED
        BY <1>1, <3>2, <3>3, <3>4, <4>1, SMT DEF IsRange
    <3> HIDE DEF a
    <3>6. QED
      BY <1>1, <2>1, <3>5, SMT DEF Within, IsRange
  <2>6. QED
    BY <2>4, <2>5
<1>4. QED
  BY <1>2, <1>3 DEF WritesInDevice

\* The same, from the requests.
LEMMA SingleStays ==
  (\A r \in Requests : ~r.fusion) => (Inv => WritesInDevice)
  BY InvInDevice DEF Inv

\* Without a tier 2 device, mkapfs never writes past the end of the device: the
\* layout fits in every device that complete_parameters() accepts.
THEOREM SingleDeviceInBounds ==
  (\A r \in Requests : ~r.fusion) => (Spec => []WritesInDevice)
<1> SUFFICES ASSUME \A r \in Requests : ~r.fusion PROVE Spec => []WritesInDevice
  OBVIOUS
<1>1. Inv => WritesInDevice
  BY SingleStays
<1>2. QED
  BY <1>1, Invariance, PTL
=============================================================================
