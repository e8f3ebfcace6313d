------------------------------ MODULE Spaceman ------------------------------
(***************************************************************************)
(* How apfsck checks the space manager (apfsck/spaceman.c): the allocation *)
(* zones, the chunk-info blocks of each device with the bitmaps they point *)
(* to, the three free queues, the internal pool with its ring of bitmaps   *)
(* and the free list through it, and last the comparison of the bitmaps on *)
(* disk with the blocks apfsck has seen in use.                            *)
(*                                                                         *)
(* One action is one structure on disk, or one iteration of a loop over    *)
(* it.  The space manager is chosen in Init.  report() exits: it is the    *)
(* step to pc = "reported".  The options -u and -w are off.                *)
(***************************************************************************)
EXTENDS Integers, Sequences, FiniteSets, FiniteSetsExt, SequencesExt, Functions, Parameters

CONSTANTS
  Image(_),       \* may this space manager be on disk, with this rest of the container?
  BlocksPerChunk, \* sm_blocks_per_chunk: the bits of a block
  ChunksPerCib, CibsPerCab,
  RingCopies,     \* 16, APFS_SPACEMAN_IP_BM_TX_MULTIPLIER
  ZoneAlign,      \* s_blocksize, as the unit of allocation zones
  Tier2Base,      \* APFS_FUSION_TIER2_DEVICE_BYTE_ADDR, in blocks
  AddrMod,        \* 2^64: sums of block numbers wrap here
  CountMod        \* 2^32: counts of blocks in a chunk wrap here

INVALID == -1     \* APFS_SPACEMAN_IP_BM_INDEX_INVALID

ASSUME SpacemanAssumption ==
  /\ {BlocksPerChunk, ChunksPerCib, CibsPerCab, RingCopies, ZoneAlign} \subseteq Nat \ {0}
  /\ Tier2Base \in Nat /\ AddrMod \in Nat /\ Tier2Base < AddrMod
  /\ CountMod \in Nat /\ BlocksPerChunk < CountMod

Devs == {"main", "tier2"}
Queues == {"ip", "main", "tier2"}

VARIABLES
  img,      \* what is on disk
  pc,
  at,       \* positions in the loops: zone, device, cab, cib, chunk, record, ring block
  start,    \* first block of the next chunk
  seen_xid, \* latest transaction in the chunk-info block and in the cib address block
  meas,     \* struct spaceman_device: what was counted for each device
  bits,     \* sm_bitmap: the bitmaps read, as sets of blocks of each device
  used,     \* s_main_bitmap and s_tier2_bitmap
  pool,     \* s_ip_bitmap
  zones,    \* alloc_zone_list
  fq,       \* struct free_queue: counts of the queue being parsed
  walk      \* locals of check_ip_free_next() and parse_ip_bitmap_list()

vars == <<img, pc, at, start, seen_xid, meas, bits, used, pool, zones, fq, walk>>

-----------------------------------------------------------------------------
(* Helpers of the code. *)

CeilDiv(a, b) == (a + b - 1) \div b
Wrap(n) == n % AddrMod

\* block_in_ip()
block_in_ip(bno) == bno >= img.ip_base /\ bno < img.ip_base + img.ip_count

\* range_in_ip(): whether the range is in the pool; one that is only in part
\* in it is reported.
LastBlock(paddr, length) == Wrap(paddr + length - 1)
OverrunsIp(paddr, length) == block_in_ip(paddr) # block_in_ip(LastBlock(paddr, length))

\* bmap_mark_as_used() on the bitmap of the pool, and the checks before it.
IpBlocks(paddr, length) == {b - img.ip_base : b \in paddr .. (paddr + length - 1)}
CanMarkIp(paddr, length) ==
  /\ block_in_ip(paddr) /\ ~OverrunsIp(paddr, length)
  /\ IpBlocks(paddr, length) \cap pool = {}

\* container_bmap_mark_as_used(): the device is found by the address.
DevOf(paddr) == IF paddr >= Tier2Base THEN "tier2" ELSE "main"
DevAddr(paddr) == IF paddr >= Tier2Base THEN paddr - Tier2Base ELSE paddr
DevBlocks(paddr, length) == DevAddr(paddr) .. (DevAddr(paddr) + length - 1)
\* Mutant: a block in use may be used again.
CanMarkTwice(paddr, length) ==
  /\ Wrap(DevAddr(paddr) + length) <= img.max[DevOf(paddr)]
  /\ Wrap(DevAddr(paddr) + length) >= DevAddr(paddr)
CanMark(paddr, length) ==
  /\ Wrap(DevAddr(paddr) + length) <= img.max[DevOf(paddr)]
  /\ Wrap(DevAddr(paddr) + length) >= DevAddr(paddr)
  /\ DevBlocks(paddr, length) \cap used[DevOf(paddr)] = {}
Marked(paddr, length) == [used EXCEPT ![DevOf(paddr)] = @ \cup DevBlocks(paddr, length)]

NoMeas == [chunks |-> 0, cibs |-> 0, blocks |-> 0, free |-> 0]
NoFq == [count |-> 0, oldest |-> 0]
NoPlace == [dev |-> "main", zone |-> 1, cab |-> 1, cib |-> 1, chunk |-> 1, rec |-> 1, queue |-> "ip"]

\* What can be on disk: fields are unsigned and have their width, a bitmap block
\* has as many bits as a chunk has blocks, the blocks of the ring exist, and
\* what is in use lies on its device.  No device reaches the address where the
\* second one begins, or the last block numbers.
Address == 0..(AddrMod - 1)
ChunkInfo == [xid : Nat, addr : Nat, count : Nat, free : 0..(CountMod - 1), bitmap : Nat]
QueueRecord == [xid : Nat, paddr : Address, length : Address]
ZoneRecord == [id : Nat, cur : Nat \X Nat, prev : Seq(Nat \X Nat), prev_index : Nat]
OnDisk(i) ==
  /\ {i.ip_base, i.ip_count, i.bm_base, i.bm_count} \subseteq Address
  /\ {i.bm_size, i.xid, i.sb_xid, i.block_count, i.free_head, i.free_tail} \subseteq Nat
  /\ i.max \in [Devs -> Nat] /\ i.max["main"] <= Tier2Base
  /\ Tier2Base + i.max["tier2"] + BlocksPerChunk <= AddrMod
  /\ DOMAIN i.before = Devs /\ \A d \in Devs : i.before[d] \subseteq 0..(i.max[d] - 1)
  /\ i.zones \in [Devs -> Seq(ZoneRecord) \ {<<>>}]
  /\ i.dev \in [Devs -> [blocks : Nat, chunks : Nat, cibs : Nat, cabs : Nat, free : Nat, addr : Seq(Nat)]]
  /\ \A b \in DOMAIN i.cab : i.cab[b] \in [index : Nat, xid : Nat, cibs : Seq(Nat)]
  /\ \A b \in DOMAIN i.cib : i.cib[b] \in [index : Nat, xid : Nat, chunks : Seq(ChunkInfo)]
  /\ \A b \in DOMAIN i.bitmap : i.bitmap[b] \subseteq 0..(BlocksPerChunk - 1)
  /\ i.fq \in [Queues -> [count : Nat, oldest : Nat, nodes : Nat, limit : Nat, recs : Seq(QueueRecord)]]
  /\ i.free_next \in Seq(Nat \cup {INVALID}) /\ i.ip_bitmaps \in Seq(Nat) /\ i.bm_xids \in Seq(Nat)
  /\ \A off \in 0..(i.bm_count - 1) :
       off \in DOMAIN i.ring /\ i.ring[off] \subseteq 0..(BlocksPerChunk - 1)

Init ==
  /\ Image(img) /\ OnDisk(img)
  /\ pc = "header" /\ at = NoPlace /\ start = 0 /\ seen_xid = [cib |-> 0, cab |-> 0]
  /\ meas = [d \in Devs |-> NoMeas] /\ bits = [d \in Devs |-> {}]
  /\ used = img.before /\ pool = {}
  /\ zones = {} /\ fq = NoFq
  /\ walk = [curr |-> 0, next |-> 0, free |-> 0, taken |-> {}]

Report ==
  /\ pc' = "reported"
  /\ UNCHANGED <<img, at, start, seen_xid, meas, bits, used, pool, zones, fq, walk>>

\* A check of the code: report() unless ok, and go on with the step otherwise.
Check(ok, step) == (ok /\ step) \/ (~ok /\ Report)

-----------------------------------------------------------------------------
(* check_spaceman(), up to the devices. *)

\* The object was read; the counts of the header must be the only possible ones.
HeaderOK ==
  /\ img.bm_size = CeilDiv(img.ip_count, BlocksPerChunk)
  /\ img.per_chunk = BlocksPerChunk /\ img.per_cib = ChunksPerCib /\ img.per_cab = CibsPerCab

ReadHeader ==
  /\ pc = "header"
  /\ Check(img.bm_size = CeilDiv(img.ip_count, BlocksPerChunk),
           /\ pc' = IF img.versioned THEN "zone" ELSE "counts"
           /\ UNCHANGED <<img, at, start, seen_xid, meas, bits, used, pool, zones, fq, walk>>)

\* check_alloc_zone_sanity()
ZoneSane(z) == z[1] % ZoneAlign = 0 /\ z[2] % ZoneAlign = 0 /\ z[1] < z[2]

\* check_new_alloc_zone(): against the zones of the device listed so far.
NewZoneOK(id, z) ==
  /\ ZoneSane(z)
  /\ \A o \in zones : o.id # id /\ ~(z[1] < o.end /\ z[2] > o.start)

\* check_prev_alloc_zones()
PrevZonesOK(az) ==
  /\ az.prev_index <= Len(az.prev)
  /\ \A j \in DOMAIN az.prev :
       IF az.prev_index = 0 THEN az.prev[j] = <<0, 0>>
       ELSE IF az.prev[j] = <<0, 0>> THEN j # az.prev_index
       ELSE ZoneSane(az.prev[j])

\* One allocation zone of check_spaceman_datazone(); the list is freed after
\* the last one of a device.
CheckZone ==
  /\ pc = "zone"
  /\ LET d == at.dev
         az == img.zones[d][at.zone]
         more == at.zone < Len(img.zones[d])
         list == IF az.id = 0 THEN zones
                 ELSE zones \cup {[id |-> az.id, start |-> az.cur[1], end |-> az.cur[2]]}
     IN  Check(/\ IF az.id # 0 THEN NewZoneOK(az.id, az.cur) ELSE az.cur = <<0, 0>>
               /\ PrevZonesOK(az),
               /\ at' = [at EXCEPT !.zone = IF more THEN @ + 1 ELSE 1,
                                   !.dev = IF ~more /\ d = "main" THEN "tier2"
                                           ELSE IF more THEN d ELSE "main"]
               /\ zones' = IF more THEN list ELSE {}
               /\ pc' = IF ~more /\ d = "tier2" THEN "counts" ELSE "zone"
               /\ UNCHANGED <<img, start, seen_xid, meas, bits, used, pool, fq, walk>>)

\* parse_spaceman_chunk_counts()
CheckCounts ==
  /\ pc = "counts"
  /\ Check(HeaderOK,
           /\ pc' = "device"
           /\ UNCHANGED <<img, at, start, seen_xid, meas, bits, used, pool, zones, fq, walk>>)

-----------------------------------------------------------------------------
(* parse_spaceman_device() *)

Raw == img.dev[at.dev]

\* Cib address blocks are not used unless one can be filled.
CabsFor(cibs) == LET n == CeilDiv(cibs, CibsPerCab) IN IF n = 1 THEN 0 ELSE n

DeviceOK(raw, max) ==
  /\ raw.blocks <= max
  /\ raw.chunks = CeilDiv(raw.blocks, BlocksPerChunk)
  /\ raw.cibs = CeilDiv(raw.chunks, ChunksPerCib)
  /\ raw.cabs = CabsFor(raw.cibs)

StartDevice ==
  /\ pc = "device"
  /\ Check(DeviceOK(Raw, img.max[at.dev]),
           /\ start' = 0 /\ at' = [at EXCEPT !.cab = 1, !.cib = 1, !.chunk = 1]
           /\ pc' = IF Raw.cabs > 0 THEN "cab" ELSE IF Raw.cibs > 0 THEN "cib" ELSE "device_end"
           /\ UNCHANGED <<img, seen_xid, meas, bits, used, pool, zones, fq, walk>>)

\* The cib address block at the place reached, and the chunk-info block:
\* listed in it, or in the space manager if there are no such blocks.
Cab == img.cab[Raw.addr[at.cab]]
CibList == IF Raw.cabs > 0 THEN Cab.cibs ELSE Raw.addr
Cib == img.cib[CibList[at.cib]]
CibIndex == (IF Raw.cabs > 0 THEN CibsPerCab * (at.cab - 1) ELSE 0) + at.cib - 1
\* The loop over cibs ends after the count of the cab, or of the space manager.
CibTotal == IF Raw.cabs > 0 THEN Len(Cab.cibs) ELSE Raw.cibs

\* spaceman_val_from_off() and read_object(): the address can be read, it is
\* in the pool, and nothing else uses the block.
AddrOK(list, i) == i <= Len(list)

\* parse_cib_addr_block(), before its loop.
CabHeaderOK(cab, index, last) ==
  /\ cab.xid <= img.xid /\ cab.index = index
  /\ Len(cab.cibs) \in 1..CibsPerCab
  /\ last \/ Len(cab.cibs) = CibsPerCab

ReadCab ==
  /\ pc = "cab"
  /\ Check(/\ AddrOK(Raw.addr, at.cab)
           /\ Raw.addr[at.cab] \in DOMAIN img.cab
           /\ CanMarkIp(Raw.addr[at.cab], 1)
           /\ CabHeaderOK(Cab, at.cab - 1, at.cab = Raw.cabs),
           /\ pool' = pool \cup IpBlocks(Raw.addr[at.cab], 1)
           /\ meas' = [meas EXCEPT ![at.dev].cibs = @ + Len(Cab.cibs)]
           /\ seen_xid' = [seen_xid EXCEPT !.cab = 0]
           /\ at' = [at EXCEPT !.cib = 1] /\ pc' = "cib"
           /\ UNCHANGED <<img, start, bits, used, zones, fq, walk>>)

\* parse_chunk_info_block(), before its loop.
CibHeaderOK(cib, index, last) ==
  /\ cib.xid <= img.xid /\ cib.index = index
  /\ Len(cib.chunks) \in 1..ChunksPerCib
  /\ last \/ Len(cib.chunks) = ChunksPerCib

ReadCib ==
  /\ pc = "cib"
  /\ Check(/\ AddrOK(CibList, at.cib)
           /\ CibList[at.cib] \in DOMAIN img.cib
           /\ CanMarkIp(CibList[at.cib], 1)
           /\ CibHeaderOK(Cib, CibIndex, CibIndex = Raw.cibs - 1),
           /\ pool' = pool \cup IpBlocks(CibList[at.cib], 1)
           /\ meas' = [meas EXCEPT ![at.dev].chunks = @ + Len(Cib.chunks)]
           /\ seen_xid' = [seen_xid EXCEPT !.cib = 0]
           /\ at' = [at EXCEPT !.chunk = 1] /\ pc' = "chunk"
           /\ UNCHANGED <<img, start, bits, used, zones, fq, walk>>)

\* The bits of a chunk's bitmap; none if it has no bitmap block.
ChunkBits(c) == IF c.bitmap = 0 \/ c.bitmap \notin DOMAIN img.bitmap THEN {} ELSE img.bitmap[c.bitmap]

\* parse_chunk_info(): sizes.
ChunkSizeOK(c, last) == c.count \in 1..BlocksPerChunk /\ (last \/ c.count = BlocksPerChunk)

\* Mutant: the free count is not compared with the bitmap.
ChunkUncounted(c) ==
  /\ c.addr = start /\ start % BlocksPerChunk = 0 /\ start < img.block_count
  /\ c.bitmap # 0 => CanMarkIp(c.bitmap, 1)
  /\ c.xid \in 1..Cib.xid
\* count_chunk_free(): the bits of the whole bitmap block are taken from the
\* count of the chunk, those past the end of a short chunk too.  The int that
\* results is compared with a u32, so that a negative one wraps.
count_chunk_free(c) == (c.count - Cardinality(ChunkBits(c))) % CountMod
\* parse_chunk_info() and read_chunk_bitmap(): the rest.
ChunkOK(c) ==
  /\ c.addr = start /\ start % BlocksPerChunk = 0 /\ start < img.block_count
  /\ c.bitmap # 0 => CanMarkIp(c.bitmap, 1)
  /\ c.free = count_chunk_free(c)
  /\ c.xid \in 1..Cib.xid

IsLastChunk == CibIndex = Raw.cibs - 1 /\ at.chunk = Len(Cib.chunks)

ReadChunk ==
  /\ pc = "chunk"
  /\ LET c == Cib.chunks[at.chunk]
         more == at.chunk < Len(Cib.chunks)
     IN  Check(ChunkSizeOK(c, IsLastChunk) /\ ChunkOK(c),
               /\ bits' = [bits EXCEPT ![at.dev] = @ \cup {start + b : b \in ChunkBits(c)}]
               /\ pool' = IF c.bitmap = 0 THEN pool ELSE pool \cup IpBlocks(c.bitmap, 1)
               /\ meas' = [meas EXCEPT ![at.dev].blocks = @ + c.count, ![at.dev].free = @ + c.free]
               /\ start' = start + c.count
               /\ seen_xid' = [seen_xid EXCEPT !.cib = Max({@, c.xid})]
               /\ at' = IF more THEN [at EXCEPT !.chunk = @ + 1] ELSE at
               /\ pc' = IF more THEN "chunk" ELSE "cib_end"
               /\ UNCHANGED <<img, used, zones, fq, walk>>)

\* The bitmap of a chunk past the last of the device is read into memory that
\* was not allocated for it: the program may as well end here.
ReadChunkPastEnd ==
  /\ pc = "chunk" /\ start \div BlocksPerChunk >= Raw.chunks
  /\ Cib.chunks[at.chunk].bitmap # 0
  /\ pc' = "crashed"
  /\ UNCHANGED <<img, at, start, seen_xid, meas, bits, used, pool, zones, fq, walk>>

\* The end of parse_chunk_info_block(), and what its callers do after it.
EndCib ==
  /\ pc = "cib_end"
  /\ LET more == at.cib < CibTotal
     IN  Check(/\ Cib.xid = seen_xid.cib
               /\ Raw.cabs > 0 => Cib.xid <= Cab.xid,
               /\ seen_xid' = [seen_xid EXCEPT !.cab = Max({@, Cib.xid})]
               /\ at' = IF more THEN [at EXCEPT !.cib = @ + 1] ELSE at
               /\ pc' = IF more THEN "cib" ELSE IF Raw.cabs > 0 THEN "cab_end" ELSE "device_end"
               /\ UNCHANGED <<img, start, meas, bits, used, pool, zones, fq, walk>>)

\* The end of parse_cib_addr_block().
EndCab ==
  /\ pc = "cab_end"
  /\ LET more == at.cab < Raw.cabs
     IN  Check(Cab.xid = seen_xid.cab,
               /\ at' = IF more THEN [at EXCEPT !.cab = @ + 1] ELSE at
               /\ pc' = IF more THEN "cab" ELSE "device_end"
               /\ UNCHANGED <<img, start, seen_xid, meas, bits, used, pool, zones, fq, walk>>)

\* The end of parse_spaceman_device(), and for the second device the total of
\* both in check_spaceman().
TotalsOK(m) ==
  /\ Raw.cabs > 0 => Raw.cibs = m.cibs
  /\ Raw.chunks = m.chunks /\ Raw.blocks = m.blocks /\ Raw.free = m.free

EndDevice ==
  /\ pc = "device_end"
  /\ Check(/\ TotalsOK(meas[at.dev])
           /\ at.dev = "tier2" => img.block_count = img.dev["main"].blocks + img.dev["tier2"].blocks,
           /\ at' = [at EXCEPT !.dev = IF @ = "main" THEN "tier2" ELSE "main"]
           /\ pc' = IF at.dev = "main" THEN "device" ELSE "queue"
           /\ UNCHANGED <<img, start, seen_xid, meas, bits, used, pool, zones, fq, walk>>)

-----------------------------------------------------------------------------
(* check_spaceman_free_queues(): the pool's queue, then those of the devices.*)

Queue == img.fq[at.queue]
IsFusion == img.max["tier2"] > 0

\* Mutant: only the first block of a range is looked up in the pool.
FqRecordFirst(r) ==
  /\ r.length # 0
  /\ block_in_ip(r.paddr) <=> at.queue = "ip"
  /\ r.xid \in 1..img.sb_xid
  /\ IF block_in_ip(r.paddr) THEN IpBlocks(r.paddr, r.length) \cap pool = {}
     ELSE CanMark(r.paddr, r.length)
\* parse_free_queue_record()
FqRecordOK(r) ==
  /\ r.length # 0 /\ ~OverrunsIp(r.paddr, r.length)
  /\ block_in_ip(r.paddr) <=> at.queue = "ip"
  /\ r.xid \in 1..img.sb_xid
  /\ IF block_in_ip(r.paddr) THEN CanMarkIp(r.paddr, r.length) ELSE CanMark(r.paddr, r.length)

ParseFreeQueueRecord ==
  /\ pc = "queue" /\ at.rec <= Len(Queue.recs)
  /\ LET r == Queue.recs[at.rec]
     IN  Check(FqRecordOK(r),
               /\ fq' = [count |-> Wrap(fq.count + r.length),
                         oldest |-> IF fq.oldest = 0 \/ r.xid < fq.oldest THEN r.xid ELSE fq.oldest]
               /\ pool' = IF block_in_ip(r.paddr) THEN pool \cup IpBlocks(r.paddr, r.length) ELSE pool
               /\ used' = IF block_in_ip(r.paddr) THEN used ELSE Marked(r.paddr, r.length)
               /\ at' = [at EXCEPT !.rec = @ + 1]
               /\ UNCHANGED <<img, pc, start, seen_xid, meas, bits, zones, walk>>)

\* Without a second device its queue must be all zeroes.
QueueIsNull(q) == q.count = 0 /\ q.recs = <<>> /\ q.oldest = 0 /\ q.limit = 0

\* check_spaceman_free_queue_dev(), and the same for the pool.
QueueOK(q) ==
  /\ q.count = fq.count /\ q.oldest = fq.oldest
  /\ q.limit >= q.nodes
  /\ q.limit = IF at.queue = "ip" THEN ip_fq_node_limit(img.dev["main"].chunks + img.dev["tier2"].chunks)
               ELSE main_fq_node_limit(meas[at.queue].blocks)

EndQueue ==
  /\ pc = "queue" /\ at.rec > Len(Queue.recs)
  /\ Check(IF at.queue = "tier2" /\ ~IsFusion THEN QueueIsNull(Queue) ELSE QueueOK(Queue),
           /\ fq' = NoFq
           /\ at' = [at EXCEPT !.rec = 1,
                               !.queue = IF @ = "ip" THEN "main" ELSE "tier2"]
           /\ pc' = IF at.queue = "tier2" THEN "pool" ELSE "queue"
           /\ UNCHANGED <<img, start, seen_xid, meas, bits, used, pool, zones, walk>>)

-----------------------------------------------------------------------------
(* check_internal_pool() *)

TotalOf(f) == img.dev["main"][f] + img.dev["tier2"][f]
PoolSize == 3 * (TotalOf("chunks") + TotalOf("cibs") + TotalOf("cabs"))

\* The checks before the walk of the free list.
StartPool ==
  /\ pc = "pool"
  /\ Check(img.ip_count = PoolSize /\ img.bm_count <= 65534
             /\ img.bm_count = RingCopies * img.bm_size /\ Len(img.free_next) >= img.bm_count,
           /\ walk' = [walk EXCEPT !.curr = img.free_tail, !.next = img.free_head, !.free = 0]
           /\ pc' = "walk"
           /\ UNCHANGED <<img, at, start, seen_xid, meas, bits, used, pool, zones, fq>>)

free_next(i) == img.free_next[i + 1]
InRing(i) == i \in 0..(img.bm_count - 1)

\* Mutant: the length of the list is not bounded.
WalkUnbounded(w) == InRing(w.curr) /\ InRing(w.next)
\* Mutant: the list is reported when it has all the cells that may be free.
WalkShort(w) == InRing(w.curr) /\ InRing(w.next) /\ w.free + 2 < img.bm_count
\* One iteration of the loop in check_ip_free_next(): the list goes from the
\* head to the tail, without leaving the ring or looping.  The count stays at
\* bm_count, where the code reports.
WalkOK(w) == InRing(w.curr) /\ InRing(w.next) /\ w.free + 1 < img.bm_count

WalkFreeList ==
  /\ pc = "walk"
  /\ Check(WalkOK(walk),
           /\ walk' = [curr |-> walk.next, next |-> free_next(walk.next),
                        free |-> Min({walk.free + 1, img.bm_count}), taken |-> {}]
           /\ pc' = IF walk.next = img.free_tail THEN "walked" ELSE "walk"
           /\ UNCHANGED <<img, at, start, seen_xid, meas, bits, used, pool, zones, fq>>)

\* The end of check_ip_free_next(), and its caller up to the loop.
EndWalk ==
  /\ pc = "walked"
  /\ Check(/\ free_next(img.free_tail) = INVALID
           /\ img.bm_count - walk.free = img.bm_size
           /\ CanMark(img.bm_base, img.bm_count),
           /\ used' = Marked(img.bm_base, img.bm_count)
           /\ walk' = [walk EXCEPT !.taken = {img.free_tail}]
           /\ at' = [at EXCEPT !.rec = 1]
           /\ pc' = "ring"
           /\ UNCHANGED <<img, start, seen_xid, meas, bits, pool, zones, fq>>)

\* Mutant: the tail of the free list is not set apart.
RingBlockAny(off) ==
  InRing(off) /\ free_next(off) = INVALID /\ off \notin walk.taken \ {img.free_tail}
\* One bitmap in use: it is not in the free list, nor used twice.
RingBlockOK(off) == InRing(off) /\ free_next(off) = INVALID /\ off \notin walk.taken

ReadIpBitmap ==
  /\ pc = "ring" /\ at.rec <= img.bm_size
  /\ Check(/\ AddrOK(img.ip_bitmaps, at.rec)
           /\ RingBlockOK(img.ip_bitmaps[at.rec]),
           /\ walk' = [walk EXCEPT !.taken = @ \cup {img.ip_bitmaps[at.rec]}]
           /\ at' = [at EXCEPT !.rec = @ + 1]
           /\ UNCHANGED <<img, pc, start, seen_xid, meas, bits, used, pool, zones, fq>>)

\* The bitmap of the pool that the bitmaps in use make together.
PoolOnDisk ==
  UNION {{(i - 1) * BlocksPerChunk + b : b \in img.ring[img.ip_bitmaps[i]]} : i \in 1..img.bm_size}

\* check_ip_bitmap_blocks(): with one bitmap, no copy has bits past the pool.
RingTailsOK ==
  img.bm_size = 1 => \A off \in 0..(img.bm_count - 1) : \A b \in img.ring[off] : b < img.ip_count

ComparePool ==
  /\ pc = "ring" /\ at.rec > img.bm_size
  /\ Check(/\ PoolOnDisk = pool
           /\ CanMark(img.ip_base, img.ip_count)
           /\ Len(img.bm_xids) >= img.bm_size
           /\ \A i \in 1..img.bm_size : img.bm_xids[i] <= img.sb_xid
           /\ RingTailsOK,
           /\ used' = Marked(img.ip_base, img.ip_count)
           /\ pc' = "reserve"
           /\ UNCHANGED <<img, at, start, seen_xid, meas, bits, pool, zones, fq, walk>>)

\* The end of check_spaceman(): reservations are respected, and the bitmaps of
\* the devices are those of the blocks in use.
ReservesOK(reserved, alloced) ==
  /\ img.fs_reserve = reserved /\ img.fs_alloc = alloced
  /\ Wrap(reserved - alloced) <= TotalOf("free")
\* compare_container_bitmaps_dev(): only the bitmaps of the chunks are compared.
\* A device may have blocks past the last one: they may be in use.
Described(d) == 0..(img.dev[d].chunks * BlocksPerChunk - 1)
CompareBitmaps ==
  /\ pc = "reserve"
  /\ Check(/\ ReservesOK(img.reserved, img.alloced)
           /\ \A d \in Devs : img.dev[d].chunks > 0 =>
                bits[d] \cap Described(d) = used[d] \cap Described(d),
           /\ pc' = "accepted"
           /\ UNCHANGED <<img, at, start, seen_xid, meas, bits, used, pool, zones, fq, walk>>)

Done == pc \in {"accepted", "reported", "crashed"} /\ UNCHANGED vars

Next ==
  \/ ReadHeader \/ CheckZone \/ CheckCounts
  \/ StartDevice \/ ReadCab \/ ReadCib \/ ReadChunk \/ ReadChunkPastEnd
  \/ EndCib \/ EndCab \/ EndDevice
  \/ ParseFreeQueueRecord \/ EndQueue
  \/ StartPool \/ WalkFreeList \/ EndWalk \/ ReadIpBitmap \/ ComparePool \/ CompareBitmaps
  \/ Done

Spec == Init /\ [][Next]_vars /\ WF_vars(Next)

-----------------------------------------------------------------------------
(* What a consistent space manager is, stated of what is on disk. *)

\* Chunk-info block i of a device and its chunk k, counted from zero: all blocks
\* but the last of each kind are full.
CibAddr(d, i) ==
  LET r == img.dev[d]
  IN  IF r.cabs > 0 THEN img.cab[r.addr[(i \div CibsPerCab) + 1]].cibs[(i % CibsPerCab) + 1]
      ELSE r.addr[i + 1]
DevCib(d, i) == img.cib[CibAddr(d, i)]
DevChunk(d, k) == DevCib(d, k \div ChunksPerCib).chunks[(k % ChunksPerCib) + 1]
CabsOf(d) == 0..(img.dev[d].cabs - 1)
CibsOf(d) == 0..(img.dev[d].cibs - 1)
ChunksOf(d) == 0..(img.dev[d].chunks - 1)

\* The part of a whole that is left for block i, if each can have a number of it.
Share(whole, each, i) == Min({each, whole - i * each})

\* A device has the right number of blocks of each kind, and they are where the
\* space manager says, each with what is left for it.
Readable(d) ==
  LET r == img.dev[d]
  IN  /\ r.chunks = CeilDiv(r.blocks, BlocksPerChunk)
      /\ r.cibs = CeilDiv(r.chunks, ChunksPerCib) /\ r.cabs = CabsFor(r.cibs)
      /\ Len(r.addr) >= IF r.cabs > 0 THEN r.cabs ELSE r.cibs
      /\ \A i \in CabsOf(d) : /\ r.addr[i + 1] \in DOMAIN img.cab
                              /\ Len(img.cab[r.addr[i + 1]].cibs) = Share(r.cibs, CibsPerCab, i)
      /\ \A i \in CibsOf(d) : /\ CibAddr(d, i) \in DOMAIN img.cib
                              /\ Len(DevCib(d, i).chunks) = Share(r.chunks, ChunksPerCib, i)

\* The blocks of a chunk that its bitmap leaves free.  A stray bit stands for a
\* block past the end of a short chunk.
FreeBlocks(c) == (0..(c.count - 1)) \ ChunkBits(c)
Stray(c) == ~(ChunkBits(c) \subseteq 0..(c.count - 1))
NoStrayBits == \A d \in Devs : \A k \in ChunksOf(d) : ~Stray(DevChunk(d, k))

\* The chunks of a device follow each other and are all of its blocks, each
\* with the count of its own free blocks.  Only the count of a short last chunk
\* with stray bits may be another.
ChunksTile(d) ==
  LET r == img.dev[d]
  IN  /\ r.blocks <= img.max[d]
      /\ \A k \in ChunksOf(d) :
           LET c == DevChunk(d, k)
           IN  /\ c.addr = k * BlocksPerChunk /\ c.count = Share(r.blocks, BlocksPerChunk, k)
               /\ Stray(c) \/ c.free = Cardinality(FreeBlocks(c))
      /\ r.free = MapThenSumSet(LAMBDA k : DevChunk(d, k).free, ChunksOf(d))
Devices ==
  (\A d \in Devs : Readable(d) /\ ChunksTile(d)) /\ img.block_count = TotalOf("blocks")

\* The ranges of blocks that a queue keeps.
RangeOf(p, n) == p .. (p + n - 1)
QueueRange(q, i) == RangeOf(img.fq[q].recs[i].paddr, img.fq[q].recs[i].length)
QueueUses(Q) == UNION {{<<q, "queue", i>> : i \in DOMAIN img.fq[q].recs} : q \in Q}

\* The ranges outside of the pool that the space manager itself accounts for:
\* the ring, the pool and what is in the queues of the devices.
OwnUses == {<<"main", "ring", 1>>, <<"main", "pool", 1>>} \cup QueueUses(Devs)
OwnUse(u) ==
  CASE u[2] = "ring" -> RangeOf(img.bm_base, img.bm_count)
    [] u[2] = "pool" -> RangeOf(img.ip_base, img.ip_count)
    [] u[2] = "queue" -> QueueRange(u[1], u[3])
OnDev(d, S) == {DevAddr(b) : b \in {b \in S : DevOf(b) = d}}

\* A bit is set exactly for the blocks in use that some chunk describes, and
\* nothing is in use twice.
Bitmaps ==
  /\ \A d \in Devs :
       LET own == OnDev(d, UNION {OwnUse(u) : u \in OwnUses})
       IN  /\ own \cap img.before[d] = {}
           /\ img.dev[d].chunks > 0 =>
                UNION {{k * BlocksPerChunk + b : b \in ChunkBits(DevChunk(d, k))} : k \in ChunksOf(d)}
                  = (own \cup img.before[d]) \cap Described(d)
           /\ own \subseteq 0..(img.max[d] - 1)
  /\ \A u, v \in OwnUses : u # v => OwnUse(u) \cap OwnUse(v) = {}

\* What takes blocks of the pool: the cib address blocks, the chunk-info blocks,
\* the bitmaps and the pool's queue.
PoolUses ==
  QueueUses({"ip"}) \cup
  UNION {{<<d, "cab", i>> : i \in CabsOf(d)} \cup {<<d, "cib", i>> : i \in CibsOf(d)}
           \cup {<<d, "bitmap", k>> : k \in {k \in ChunksOf(d) : DevChunk(d, k).bitmap # 0}} : d \in Devs}
PoolUse(u) ==
  CASE u[2] = "cab" -> {img.dev[u[1]].addr[u[3] + 1]}
    [] u[2] = "cib" -> {CibAddr(u[1], u[3])}
    [] u[2] = "bitmap" -> {DevChunk(u[1], u[3]).bitmap}
    [] u[2] = "queue" -> QueueRange(u[1], u[3])
Pool ==
  LET taken == UNION {PoolUse(u) : u \in PoolUses}
  IN  /\ \A u, v \in PoolUses : u # v => PoolUse(u) \cap PoolUse(v) = {}
      /\ taken \subseteq RangeOf(img.ip_base, img.ip_count)
      /\ PoolOnDisk = {b - img.ip_base : b \in taken}
      /\ img.ip_count = PoolSize

\* The cells of the ring on the free list.
FreeCells ==
  LET reach[n \in 0..img.bm_count] ==
        IF n = 0 THEN {img.free_head}
        ELSE reach[n - 1] \cup {free_next(i) : i \in {i \in reach[n - 1] : InRing(i)}}
  IN  reach[img.bm_count] \ {INVALID}

\* Each cell of the ring is either on the free list or one of the bitmaps in
\* use, and the list ends at its tail.
Ring ==
  LET live == {img.ip_bitmaps[i] : i \in 1..img.bm_size}
  IN  /\ Len(img.ip_bitmaps) >= img.bm_size /\ Cardinality(live) = img.bm_size
      /\ img.free_tail \in FreeCells
      /\ live \cap FreeCells = {} /\ live \cup FreeCells = 0..(img.bm_count - 1)
      /\ \A i \in 0..(img.bm_count - 1) : i \in live \cup {img.free_tail} <=> free_next(i) = INVALID
      /\ RingTailsOK

\* Allocation zones in use have their own ids and do not overlap.
Zones ==
  img.versioned => \A d \in Devs :
    LET Z == {i \in DOMAIN img.zones[d] : img.zones[d][i].id # 0}
    IN  \A i, j \in Z : LET a == img.zones[d][i] b == img.zones[d][j]
                        IN i # j => a.id # b.id /\ (a.cur[2] <= b.cur[1] \/ b.cur[2] <= a.cur[1])

\* A queue's record in the space manager sums up the queue.
QueuesRight ==
  \A q \in Queues :
    LET f == img.fq[q]
    IN  /\ f.count = MapThenSumSet(LAMBDA i : f.recs[i].length, DOMAIN f.recs)
        /\ f.oldest = IF f.recs = <<>> THEN 0 ELSE Min({f.recs[i].xid : i \in DOMAIN f.recs})
        /\ \A i \in DOMAIN f.recs : f.recs[i].xid \in 1..img.sb_xid /\ f.recs[i].length > 0
        /\ \A i \in DOMAIN f.recs : \A b \in QueueRange(q, i) : block_in_ip(b) <=> q = "ip"

\* Transactions: a block is as recent as the latest thing it describes.
Dates ==
  \A d \in Devs :
    /\ \A i \in CibsOf(d) : LET c == DevCib(d, i)
                            IN c.xid = Max({0} \cup {k.xid : k \in Range(c.chunks)})
    /\ \A i \in CabsOf(d) : LET c == img.cab[img.dev[d].addr[i + 1]]
                            IN c.xid = Max({0} \cup {img.cib[b].xid : b \in Range(c.cibs)})
    /\ \A k \in ChunksOf(d) : DevChunk(d, k).xid \in 1..img.xid

\* What no other part says: the fields that are functions of other fields.
Fields ==
  /\ HeaderOK /\ img.bm_count = RingCopies * img.bm_size
  /\ \A d \in Devs : \A i \in CibsOf(d) : DevCib(d, i).index = i
  /\ \A d \in Devs : \A i \in CabsOf(d) : img.cab[img.dev[d].addr[i + 1]].index = i
  /\ \A q \in Queues : IF q = "tier2" /\ ~IsFusion THEN QueueIsNull(img.fq[q])
                        ELSE img.fq[q].limit >= img.fq[q].nodes
                          /\ img.fq[q].limit = IF q = "ip" THEN ip_fq_node_limit(TotalOf("chunks"))
                                                ELSE main_fq_node_limit(img.dev[q].blocks)
  /\ Len(img.bm_xids) >= img.bm_size /\ \A i \in 1..img.bm_size : img.bm_xids[i] <= img.sb_xid
  /\ ReservesOK(img.reserved, img.alloced)
  /\ img.versioned => \A d \in Devs : \A i \in DOMAIN img.zones[d] :
       LET z == img.zones[d][i]
       IN  PrevZonesOK(z) /\ IF z.id = 0 THEN z.cur = <<0, 0>> ELSE ZoneSane(z.cur)

Accepted == pc = "accepted"

\* An accepted space manager describes each block of both devices in exactly
\* one chunk, with right free counts (parse_spaceman_device() and below) unless
\* bits are set past the end of a short last chunk, and no block in two
\* allocation zones.
DevicesAccepted == Accepted => Devices /\ Zones

\* The bitmaps on disk of an accepted container are those of the blocks in use,
\* the pool, its ring and the queued blocks included, none of them used twice.
\* Blocks past the last chunk, on a device larger than the container, are in no
\* bitmap.
BitmapsAccepted == Accepted => Bitmaps

\* The bitmap of the internal pool, put together from the ring, has the blocks
\* that chunk-info blocks, bitmaps and the pool's queue use, each once.  The free
\* list and the bitmaps in use share out the ring, although check_ip_free_next()
\* and parse_ip_bitmap_list() never look at the cells that are in neither.
PoolAccepted == Accepted => Pool /\ Ring

\* Counts and oldest transactions of accepted free queues are right, and a queue
\* holds only blocks of its own side of the pool.
QueuesAccepted == Accepted => QueuesRight

\* A consistent space manager is not reported.
NoFalseAlarm ==
  pc \in {"reported", "crashed"} =>
    ~(Devices /\ NoStrayBits /\ Dates /\ Fields /\ Ring /\ Pool /\ Bitmaps /\ Zones /\ QueuesRight)

\* The walk of a free list with a loop in it ends too: apfsck always ends.
Terminates == <>(pc \in {"accepted", "reported", "crashed"})
=============================================================================
