-------------------------- MODULE Spaceman_proofs --------------------------
(***************************************************************************)
(* What apfsck's check of a space manager proves of an image that it       *)
(* accepts, for images of every size and shape.  The image never changes,  *)
(* so the invariants are operators of it and of the variables.             *)
(***************************************************************************)
EXTENDS Spaceman, FiniteSums, FiniteSetTheorems, TLAPS

-----------------------------------------------------------------------------
(* Types and the order of the phases. *)

Pos == Nat \ {0}
Bad == {"reported", "crashed"}
EarlyPcs == {"header", "zone", "counts"}
DevicePcs == {"device", "cab", "cib", "chunk", "cib_end", "cab_end", "device_end"}
LatePcs == {"queue", "pool", "walk", "walked", "ring", "reserve", "accepted"}
Place == [dev : Devs, zone : Pos, cab : Pos, cib : Pos, chunk : Pos, rec : Pos, queue : Queues]

\* Where the loops are, and where those over devices and queues begin.
PlaceOK(p, a) ==
  /\ p \in EarlyPcs \cup DevicePcs \cup LatePcs
  /\ a \in Place
  /\ p \in {"header", "counts"} => a.dev = "main"
  /\ p \in EarlyPcs \cup DevicePcs => a.queue = "ip" /\ a.rec = 1
PlaceInv == OnDisk(img) /\ (pc \notin Bad => PlaceOK(pc, at))

\* The fields of the records on disk.
LEMMA DiskTypes ==
  ASSUME OnDisk(img)
  PROVE  /\ \A d \in Devs : /\ img.dev[d].blocks \in Nat /\ img.dev[d].chunks \in Nat
                            /\ img.dev[d].cibs \in Nat /\ img.dev[d].cabs \in Nat
                            /\ img.dev[d].free \in Nat /\ img.dev[d].addr \in Seq(Nat)
                            /\ img.max[d] \in Nat
         /\ \A b \in DOMAIN img.cab : /\ img.cab[b].index \in Nat /\ img.cab[b].xid \in Nat
                                      /\ img.cab[b].cibs \in Seq(Nat)
         /\ \A b \in DOMAIN img.cib : /\ img.cib[b].index \in Nat /\ img.cib[b].xid \in Nat
                                      /\ img.cib[b].chunks \in Seq(ChunkInfo)
         /\ \A q \in Queues : /\ img.fq[q].count \in Nat /\ img.fq[q].oldest \in Nat
                              /\ img.fq[q].recs \in Seq(QueueRecord)
BY DEF OnDisk, Devs, Queues

\* The image stays as it is.
LEMMA ImageFixed == ASSUME [Next]_vars PROVE img' = img
<1>1. CASE ReadHeader
  BY <1>1 DEF ReadHeader, Check, Report
<1>2. CASE CheckZone
  BY <1>2 DEF CheckZone, Check, Report
<1>3. CASE CheckCounts
  BY <1>3 DEF CheckCounts, Check, Report
<1>4. CASE StartDevice
  BY <1>4 DEF StartDevice, Check, Report
<1>5. CASE ReadCab
  BY <1>5 DEF ReadCab, Check, Report
<1>6. CASE ReadCib
  BY <1>6 DEF ReadCib, Check, Report
<1>7. CASE ReadChunk
  BY <1>7 DEF ReadChunk, Check, Report
<1>8. CASE ReadChunkPastEnd
  BY <1>8 DEF ReadChunkPastEnd
<1>9. CASE EndCib
  BY <1>9 DEF EndCib, Check, Report
<1>10. CASE EndCab
  BY <1>10 DEF EndCab, Check, Report
<1>11. CASE EndDevice
  BY <1>11 DEF EndDevice, Check, Report
<1>12. CASE ParseFreeQueueRecord
  BY <1>12 DEF ParseFreeQueueRecord, Check, Report
<1>13. CASE EndQueue
  BY <1>13 DEF EndQueue, Check, Report
<1>14. CASE StartPool
  BY <1>14 DEF StartPool, Check, Report
<1>15. CASE WalkFreeList
  BY <1>15 DEF WalkFreeList, Check, Report
<1>16. CASE EndWalk
  BY <1>16 DEF EndWalk, Check, Report
<1>17. CASE ReadIpBitmap
  BY <1>17 DEF ReadIpBitmap, Check, Report
<1>18. CASE ComparePool
  BY <1>18 DEF ComparePool, Check, Report
<1>19. CASE CompareBitmaps
  BY <1>19 DEF CompareBitmaps, Check, Report
<1>20. CASE Done \/ UNCHANGED vars
  BY <1>20 DEF Done, vars
<1>21. QED
  BY <1>1, <1>2, <1>3, <1>4, <1>5, <1>6, <1>7, <1>8, <1>9, <1>10, <1>11, <1>12, <1>13, <1>14, <1>15, <1>16, <1>17, <1>18, <1>19, <1>20 DEF Next

(* What each action does if it does not report. *)

\* A passing step of ReadHeader.
LEMMA ReadHeaderStep ==
  ASSUME ReadHeader, pc' \notin Bad
  PROVE  /\ pc = "header" /\ img.bm_size = CeilDiv(img.ip_count, BlocksPerChunk)
         /\ pc' = IF img.versioned THEN "zone" ELSE "counts"
         /\ UNCHANGED <<at, start, seen_xid, meas, bits, used, pool, zones, fq, walk>>
BY DEF ReadHeader, Check, Report, Bad

\* A passing step of CheckZone.
LEMMA CheckZoneStep ==
  ASSUME CheckZone, pc' \notin Bad
  PROVE  /\ pc = "zone"
         /\ LET d == at.dev
                az == img.zones[d][at.zone]
                more == at.zone < Len(img.zones[d])
                list == IF az.id = 0 THEN zones
                        ELSE zones \cup {[id |-> az.id, start |-> az.cur[1], end |-> az.cur[2]]}
            IN  /\ az.id # 0 => NewZoneOK(az.id, az.cur)
                /\ zones' = IF more THEN list ELSE {}
                /\ at' = [at EXCEPT !.zone = IF more THEN @ + 1 ELSE 1,
                                    !.dev = IF ~more /\ d = "main" THEN "tier2"
                                            ELSE IF more THEN d ELSE "main"]
                /\ pc' = IF ~more /\ d = "tier2" THEN "counts" ELSE "zone"
         /\ UNCHANGED <<start, seen_xid, meas, bits, used, pool, fq, walk>>
BY DEF CheckZone, Check, Report, Bad

\* A passing step of CheckCounts.
LEMMA CheckCountsStep ==
  ASSUME CheckCounts, pc' \notin Bad
  PROVE  /\ pc = "counts" /\ pc' = "device"
         /\ UNCHANGED <<at, start, seen_xid, meas, bits, used, pool, zones, fq, walk>>
BY DEF CheckCounts, Check, Report, Bad

\* A passing step of StartDevice.
LEMMA StartDeviceStep ==
  ASSUME StartDevice, pc' \notin Bad
  PROVE  /\ pc = "device" /\ DeviceOK(Raw, img.max[at.dev])
         /\ start' = 0 /\ at' = [at EXCEPT !.cab = 1, !.cib = 1, !.chunk = 1]
         /\ pc' = IF Raw.cabs > 0 THEN "cab" ELSE IF Raw.cibs > 0 THEN "cib" ELSE "device_end"
         /\ UNCHANGED <<seen_xid, meas, bits, used, pool, zones, fq, walk>>
BY DEF StartDevice, Check, Report, Bad

\* A passing step of ReadCab.
LEMMA ReadCabStep ==
  ASSUME ReadCab, pc' \notin Bad
  PROVE  /\ pc = "cab" /\ AddrOK(Raw.addr, at.cab) /\ Raw.addr[at.cab] \in DOMAIN img.cab
         /\ CanMarkIp(Raw.addr[at.cab], 1) /\ CabHeaderOK(Cab, at.cab - 1, at.cab = Raw.cabs)
         /\ pool' = pool \cup IpBlocks(Raw.addr[at.cab], 1)
         /\ meas' = [meas EXCEPT ![at.dev].cibs = @ + Len(Cab.cibs)]
         /\ at' = [at EXCEPT !.cib = 1] /\ pc' = "cib"
         /\ UNCHANGED <<start, bits, used, zones, fq, walk>>
BY DEF ReadCab, Check, Report, Bad

\* A passing step of ReadCib.
LEMMA ReadCibStep ==
  ASSUME ReadCib, pc' \notin Bad
  PROVE  /\ pc = "cib" /\ AddrOK(CibList, at.cib) /\ CibList[at.cib] \in DOMAIN img.cib
         /\ CanMarkIp(CibList[at.cib], 1) /\ CibHeaderOK(Cib, CibIndex, CibIndex = Raw.cibs - 1)
         /\ pool' = pool \cup IpBlocks(CibList[at.cib], 1)
         /\ meas' = [meas EXCEPT ![at.dev].chunks = @ + Len(Cib.chunks)]
         /\ at' = [at EXCEPT !.chunk = 1] /\ pc' = "chunk"
         /\ UNCHANGED <<start, bits, used, zones, fq, walk>>
BY DEF ReadCib, Check, Report, Bad

\* A passing step of ReadChunk.
LEMMA ReadChunkStep ==
  ASSUME ReadChunk, pc' \notin Bad
  PROVE  /\ pc = "chunk"
         /\ LET c == Cib.chunks[at.chunk]
                more == at.chunk < Len(Cib.chunks)
            IN  /\ ChunkSizeOK(c, IsLastChunk) /\ ChunkOK(c)
                /\ bits' = [bits EXCEPT ![at.dev] = @ \cup {start + b : b \in ChunkBits(c)}]
                /\ pool' = IF c.bitmap = 0 THEN pool ELSE pool \cup IpBlocks(c.bitmap, 1)
                /\ meas' = [meas EXCEPT ![at.dev].blocks = @ + c.count, ![at.dev].free = @ + c.free]
                /\ start' = start + c.count
                /\ at' = IF more THEN [at EXCEPT !.chunk = @ + 1] ELSE at
                /\ pc' = IF more THEN "chunk" ELSE "cib_end"
         /\ UNCHANGED <<used, zones, fq, walk>>
BY DEF ReadChunk, Check, Report, Bad

\* A passing step of EndCib.
LEMMA EndCibStep ==
  ASSUME EndCib, pc' \notin Bad
  PROVE  /\ pc = "cib_end"
         /\ at' = IF at.cib < CibTotal THEN [at EXCEPT !.cib = @ + 1] ELSE at
         /\ pc' = IF at.cib < CibTotal THEN "cib" ELSE IF Raw.cabs > 0 THEN "cab_end" ELSE "device_end"
         /\ UNCHANGED <<start, meas, bits, used, pool, zones, fq, walk>>
BY DEF EndCib, Check, Report, Bad

\* A passing step of EndCab.
LEMMA EndCabStep ==
  ASSUME EndCab, pc' \notin Bad
  PROVE  /\ pc = "cab_end"
         /\ at' = IF at.cab < Raw.cabs THEN [at EXCEPT !.cab = @ + 1] ELSE at
         /\ pc' = IF at.cab < Raw.cabs THEN "cab" ELSE "device_end"
         /\ UNCHANGED <<start, seen_xid, meas, bits, used, pool, zones, fq, walk>>
BY DEF EndCab, Check, Report, Bad

\* A passing step of EndDevice.
LEMMA EndDeviceStep ==
  ASSUME EndDevice, pc' \notin Bad
  PROVE  /\ pc = "device_end" /\ TotalsOK(meas[at.dev])
         /\ at.dev = "tier2" => img.block_count = img.dev["main"].blocks + img.dev["tier2"].blocks
         /\ at' = [at EXCEPT !.dev = IF @ = "main" THEN "tier2" ELSE "main"]
         /\ pc' = IF at.dev = "main" THEN "device" ELSE "queue"
         /\ UNCHANGED <<start, seen_xid, meas, bits, used, pool, zones, fq, walk>>
BY DEF EndDevice, Check, Report, Bad

\* A passing step of ParseFreeQueueRecord.
LEMMA ParseFreeQueueRecordStep ==
  ASSUME ParseFreeQueueRecord, pc' \notin Bad
  PROVE  /\ pc = "queue" /\ at.rec <= Len(Queue.recs) /\ pc' = pc
         /\ LET r == Queue.recs[at.rec]
            IN  /\ FqRecordOK(r)
                /\ fq' = [count |-> Wrap(fq.count + r.length),
                          oldest |-> IF fq.oldest = 0 \/ r.xid < fq.oldest THEN r.xid ELSE fq.oldest]
                /\ pool' = IF block_in_ip(r.paddr) THEN pool \cup IpBlocks(r.paddr, r.length) ELSE pool
                /\ used' = IF block_in_ip(r.paddr) THEN used ELSE Marked(r.paddr, r.length)
         /\ at' = [at EXCEPT !.rec = @ + 1]
         /\ UNCHANGED <<start, seen_xid, meas, bits, zones, walk>>
BY DEF ParseFreeQueueRecord, Check, Report, Bad

\* A passing step of EndQueue.
LEMMA EndQueueStep ==
  ASSUME EndQueue, pc' \notin Bad
  PROVE  /\ pc = "queue" /\ at.rec > Len(Queue.recs)
         /\ IF at.queue = "tier2" /\ ~IsFusion THEN QueueIsNull(Queue) ELSE QueueOK(Queue)
         /\ fq' = NoFq
         /\ at' = [at EXCEPT !.rec = 1, !.queue = IF @ = "ip" THEN "main" ELSE "tier2"]
         /\ pc' = IF at.queue = "tier2" THEN "pool" ELSE "queue"
         /\ UNCHANGED <<start, seen_xid, meas, bits, used, pool, zones, walk>>
BY DEF EndQueue, Check, Report, Bad

\* A passing step of StartPool.
LEMMA StartPoolStep ==
  ASSUME StartPool, pc' \notin Bad
  PROVE  /\ pc = "pool" /\ pc' = "walk" /\ img.ip_count = PoolSize
         /\ img.bm_count = RingCopies * img.bm_size /\ Len(img.free_next) >= img.bm_count
         /\ walk' = [walk EXCEPT !.curr = img.free_tail, !.next = img.free_head, !.free = 0]
         /\ UNCHANGED <<at, start, seen_xid, meas, bits, used, pool, zones, fq>>
BY DEF StartPool, Check, Report, Bad

\* A passing step of WalkFreeList.
LEMMA WalkFreeListStep ==
  ASSUME WalkFreeList, pc' \notin Bad
  PROVE  /\ pc = "walk" /\ WalkOK(walk)
         /\ walk' = [curr |-> walk.next, next |-> free_next(walk.next),
                       free |-> Min({walk.free + 1, img.bm_count}), taken |-> {}]
         /\ pc' = IF walk.next = img.free_tail THEN "walked" ELSE "walk"
         /\ UNCHANGED <<at, start, seen_xid, meas, bits, used, pool, zones, fq>>
BY DEF WalkFreeList, Check, Report, Bad

\* A passing step of EndWalk.
LEMMA EndWalkStep ==
  ASSUME EndWalk, pc' \notin Bad
  PROVE  /\ pc = "walked" /\ pc' = "ring" /\ free_next(img.free_tail) = INVALID
         /\ img.bm_count - walk.free = img.bm_size /\ CanMark(img.bm_base, img.bm_count)
         /\ used' = Marked(img.bm_base, img.bm_count)
         /\ walk' = [walk EXCEPT !.taken = {img.free_tail}]
         /\ at' = [at EXCEPT !.rec = 1]
         /\ UNCHANGED <<start, seen_xid, meas, bits, pool, zones, fq>>
BY DEF EndWalk, Check, Report, Bad

\* A passing step of ReadIpBitmap.
LEMMA ReadIpBitmapStep ==
  ASSUME ReadIpBitmap, pc' \notin Bad
  PROVE  /\ pc = "ring" /\ pc' = pc /\ at.rec <= img.bm_size
         /\ AddrOK(img.ip_bitmaps, at.rec) /\ RingBlockOK(img.ip_bitmaps[at.rec])
         /\ walk' = [walk EXCEPT !.taken = @ \cup {img.ip_bitmaps[at.rec]}]
         /\ at' = [at EXCEPT !.rec = @ + 1]
         /\ UNCHANGED <<start, seen_xid, meas, bits, used, pool, zones, fq>>
BY DEF ReadIpBitmap, Check, Report, Bad

\* A passing step of ComparePool.
LEMMA ComparePoolStep ==
  ASSUME ComparePool, pc' \notin Bad
  PROVE  /\ pc = "ring" /\ pc' = "reserve" /\ at.rec > img.bm_size
         /\ PoolOnDisk = pool /\ CanMark(img.ip_base, img.ip_count) /\ RingTailsOK
         /\ used' = Marked(img.ip_base, img.ip_count)
         /\ UNCHANGED <<at, start, seen_xid, meas, bits, pool, zones, fq, walk>>
BY DEF ComparePool, Check, Report, Bad

\* The bitmaps of a device agree where its chunks describe it.
SameBits(m, d, bi, us) ==
  bi[d] \cap (0..(m.dev[d].chunks * BlocksPerChunk - 1)) = us[d] \cap (0..(m.dev[d].chunks * BlocksPerChunk - 1))

\* A passing step of CompareBitmaps.
LEMMA CompareBitmapsStep ==
  ASSUME CompareBitmaps, pc' \notin Bad
  PROVE  /\ pc = "reserve" /\ pc' = "accepted"
         /\ \A d \in Devs : img.dev[d].chunks > 0 => SameBits(img, d, bits, used)
         /\ UNCHANGED <<at, start, seen_xid, meas, bits, used, pool, zones, fq, walk>>
BY DEF CompareBitmaps, Check, Report, Bad, SameBits, Described

\* The steps that do not report.
LEMMA PassingSteps ==
  ASSUME [Next]_vars, pc' \notin Bad
  PROVE  \/ ReadHeader \/ CheckZone \/ CheckCounts \/ StartDevice \/ ReadCab
         \/ ReadCib \/ ReadChunk \/ EndCib \/ EndCab \/ EndDevice
         \/ ParseFreeQueueRecord \/ EndQueue \/ StartPool \/ WalkFreeList \/ EndWalk
         \/ ReadIpBitmap \/ ComparePool \/ CompareBitmaps
         \/ UNCHANGED vars
BY DEF Next, ReadChunkPastEnd, Done, Bad

\* Nothing comes after a report.
LEMMA BadStays == ASSUME [Next]_vars, pc' \notin Bad PROVE pc \notin Bad
<1> USE DEF Bad
<1>1. CASE ReadHeader
  BY <1>1, ReadHeaderStep
<1>2. CASE CheckZone
  BY <1>2, CheckZoneStep
<1>3. CASE CheckCounts
  BY <1>3, CheckCountsStep
<1>4. CASE StartDevice
  BY <1>4, StartDeviceStep
<1>5. CASE ReadCab
  BY <1>5, ReadCabStep
<1>6. CASE ReadCib
  BY <1>6, ReadCibStep
<1>7. CASE ReadChunk
  BY <1>7, ReadChunkStep
<1>8. CASE EndCib
  BY <1>8, EndCibStep
<1>9. CASE EndCab
  BY <1>9, EndCabStep
<1>10. CASE EndDevice
  BY <1>10, EndDeviceStep
<1>11. CASE ParseFreeQueueRecord
  BY <1>11, ParseFreeQueueRecordStep
<1>12. CASE EndQueue
  BY <1>12, EndQueueStep
<1>13. CASE StartPool
  BY <1>13, StartPoolStep
<1>14. CASE WalkFreeList
  BY <1>14, WalkFreeListStep
<1>15. CASE EndWalk
  BY <1>15, EndWalkStep
<1>16. CASE ReadIpBitmap
  BY <1>16, ReadIpBitmapStep
<1>17. CASE ComparePool
  BY <1>17, ComparePoolStep
<1>18. CASE CompareBitmaps
  BY <1>18, CompareBitmapsStep
<1>19. CASE UNCHANGED vars
  BY <1>19 DEF vars
<1>20. QED
  BY <1>1, <1>2, <1>3, <1>4, <1>5, <1>6, <1>7, <1>8, <1>9, <1>10, <1>11, <1>12, <1>13, <1>14, <1>15, <1>16, <1>17, <1>18, <1>19, PassingSteps

\* Moving in a loop: zone = n, dev = d.
LEMMA MoveZone ==
  ASSUME NEW a \in Place, NEW n \in Pos, NEW d \in Devs, NEW e,
         e = [a EXCEPT !.zone = n, !.dev = d]
  PROVE  /\ e \in Place
         /\ e.dev = d /\ e.zone = n /\ e.cab = a.cab /\ e.cib = a.cib /\ e.chunk = a.chunk
         /\ e.rec = a.rec /\ e.queue = a.queue
BY DEF Place, Pos

\* Moving in a loop: cab = n.
LEMMA MoveCab ==
  ASSUME NEW a \in Place, NEW n \in Pos, NEW e,
         e = [a EXCEPT !.cab = n]
  PROVE  /\ e \in Place
         /\ e.dev = a.dev /\ e.zone = a.zone /\ e.cab = n /\ e.cib = a.cib /\ e.chunk = a.chunk
         /\ e.rec = a.rec /\ e.queue = a.queue
BY DEF Place, Pos

\* Moving in a loop: cib = n.
LEMMA MoveCib ==
  ASSUME NEW a \in Place, NEW n \in Pos, NEW e,
         e = [a EXCEPT !.cib = n]
  PROVE  /\ e \in Place
         /\ e.dev = a.dev /\ e.zone = a.zone /\ e.cab = a.cab /\ e.cib = n /\ e.chunk = a.chunk
         /\ e.rec = a.rec /\ e.queue = a.queue
BY DEF Place, Pos

\* Moving in a loop: chunk = n.
LEMMA MoveChunk ==
  ASSUME NEW a \in Place, NEW n \in Pos, NEW e,
         e = [a EXCEPT !.chunk = n]
  PROVE  /\ e \in Place
         /\ e.dev = a.dev /\ e.zone = a.zone /\ e.cab = a.cab /\ e.cib = a.cib /\ e.chunk = n
         /\ e.rec = a.rec /\ e.queue = a.queue
BY DEF Place, Pos

\* Moving in a loop: cab = 1, cib = 1, chunk = 1.
LEMMA MoveStart ==
  ASSUME NEW a \in Place, NEW e,
         e = [a EXCEPT !.cab = 1, !.cib = 1, !.chunk = 1]
  PROVE  /\ e \in Place
         /\ e.dev = a.dev /\ e.zone = a.zone /\ e.cab = 1 /\ e.cib = 1 /\ e.chunk = 1
         /\ e.rec = a.rec /\ e.queue = a.queue
<1> DEFINE f == [a EXCEPT !.cab = 1]
           g == [f EXCEPT !.cib = 1]
<1>1. 1 \in Pos
  BY DEF Pos
<1>2. /\ f \in Place /\ f.dev = a.dev /\ f.zone = a.zone /\ f.cab = 1 /\ f.cib = a.cib
      /\ f.chunk = a.chunk /\ f.rec = a.rec /\ f.queue = a.queue
  BY <1>1, MoveCab
<1>3. e = [g EXCEPT !.chunk = 1]
  BY DEF Place
<1> HIDE DEF f
<1>4. /\ g \in Place /\ g.dev = a.dev /\ g.zone = a.zone /\ g.cab = 1 /\ g.cib = 1
      /\ g.chunk = a.chunk /\ g.rec = a.rec /\ g.queue = a.queue
  BY <1>1, <1>2, MoveCib
<1> HIDE DEF g
<1>5. QED
  BY <1>3, <1>4 DEF Place, Pos

\* Moving in a loop: dev = d.
LEMMA MoveDev ==
  ASSUME NEW a \in Place, NEW d \in Devs, NEW e,
         e = [a EXCEPT !.dev = d]
  PROVE  /\ e \in Place
         /\ e.dev = d /\ e.zone = a.zone /\ e.cab = a.cab /\ e.cib = a.cib /\ e.chunk = a.chunk
         /\ e.rec = a.rec /\ e.queue = a.queue
BY DEF Place, Pos

\* Moving in a loop: rec = n.
LEMMA MoveRec ==
  ASSUME NEW a \in Place, NEW n \in Pos, NEW e,
         e = [a EXCEPT !.rec = n]
  PROVE  /\ e \in Place
         /\ e.dev = a.dev /\ e.zone = a.zone /\ e.cab = a.cab /\ e.cib = a.cib /\ e.chunk = a.chunk
         /\ e.rec = n /\ e.queue = a.queue
BY DEF Place, Pos

\* Moving in a loop: rec = 1, queue = q.
LEMMA MoveQueue ==
  ASSUME NEW a \in Place, NEW q \in Queues, NEW e,
         e = [a EXCEPT !.rec = 1, !.queue = q]
  PROVE  /\ e \in Place
         /\ e.dev = a.dev /\ e.zone = a.zone /\ e.cab = a.cab /\ e.cib = a.cib /\ e.chunk = a.chunk
         /\ e.rec = 1 /\ e.queue = q
<1> DEFINE f == [a EXCEPT !.rec = 1]
<1>1. 1 \in Pos
  BY DEF Pos
<1>2. /\ f \in Place /\ f.dev = a.dev /\ f.zone = a.zone /\ f.cab = a.cab /\ f.cib = a.cib
      /\ f.chunk = a.chunk /\ f.rec = 1 /\ f.queue = a.queue
  BY <1>1, MoveRec
<1>3. e = [f EXCEPT !.queue = q]
  BY DEF Place
<1> HIDE DEF f
<1>4. QED
  BY <1>2, <1>3 DEF Place

\* Places are kept by each step.
LEMMA PlaceNext == ASSUME PlaceInv, [Next]_vars PROVE PlaceInv'
<1>1. img' = img /\ OnDisk(img')
  BY ImageFixed DEF PlaceInv
<1>2. SUFFICES ASSUME pc' \notin Bad PROVE PlaceOK(pc', at')
  BY <1>1 DEF PlaceInv
<1>3. PlaceOK(pc, at) /\ at \in Place
  BY <1>2, BadStays DEF PlaceInv, PlaceOK
<1>4. CASE ReadHeader
  BY <1>2, <1>3, <1>4, ReadHeaderStep DEF PlaceOK, EarlyPcs, DevicePcs, LatePcs, Devs, Queues, Place, Pos
<1>5. CASE CheckZone
  <2>1. PICK n \in Pos, d \in Devs :
          /\ at' = [at EXCEPT !.zone = n, !.dev = d]
          /\ (pc' = "counts" /\ d = "main") \/ pc' = "zone"
    <3>1. at.zone \in Pos /\ at.dev \in Devs
      BY <1>3 DEF Place
    <3>2. at.zone + 1 \in Pos /\ 1 \in Pos
      BY <3>1 DEF Pos
    <3>3. QED
      BY <1>2, <1>5, <3>1, <3>2, CheckZoneStep DEF Devs
  <2>2. pc = "zone" /\ "ip" \in Queues
    BY <1>2, <1>5, CheckZoneStep DEF Queues
  <2>3. at' \in Place /\ at'.dev = d /\ at'.queue = at.queue /\ at'.rec = at.rec
    BY <1>3, <2>1 DEF Place
  <2>4. QED
    BY <1>3, <2>1, <2>2, <2>3 DEF PlaceOK, EarlyPcs, DevicePcs, LatePcs, Devs, Queues
<1>6. CASE CheckCounts
  BY <1>2, <1>3, <1>6, CheckCountsStep DEF PlaceOK, EarlyPcs, DevicePcs, LatePcs, Devs, Queues, Place, Pos
<1>7. CASE StartDevice
  BY <1>2, <1>3, <1>7, StartDeviceStep DEF PlaceOK, EarlyPcs, DevicePcs, LatePcs, Devs, Queues, Place, Pos
<1>8. CASE ReadCab
  BY <1>2, <1>3, <1>8, ReadCabStep DEF PlaceOK, EarlyPcs, DevicePcs, LatePcs, Devs, Queues, Place, Pos
<1>9. CASE ReadCib
  BY <1>2, <1>3, <1>9, ReadCibStep DEF PlaceOK, EarlyPcs, DevicePcs, LatePcs, Devs, Queues, Place, Pos
<1>10. CASE ReadChunk
  <2>1. at.chunk + 1 \in Pos
    BY <1>3 DEF Place, Pos
  <2>2. pc = "chunk" /\ pc' \in {"chunk", "cib_end"}
        /\ (at' = [at EXCEPT !.chunk = at.chunk + 1] \/ at' = at)
    BY <1>2, <1>10, ReadChunkStep
  <2>3. QED
    BY <1>3, <2>1, <2>2, MoveChunk DEF PlaceOK, EarlyPcs, DevicePcs, LatePcs, Devs, Queues
<1>11. CASE EndCib
  <2>1. at.cib + 1 \in Pos
    BY <1>3 DEF Place, Pos
  <2>2. pc = "cib_end" /\ pc' \in {"cib", "cab_end", "device_end"}
        /\ (at' = [at EXCEPT !.cib = at.cib + 1] \/ at' = at)
    BY <1>2, <1>11, EndCibStep
  <2>3. QED
    BY <1>3, <2>1, <2>2, MoveCib DEF PlaceOK, EarlyPcs, DevicePcs, LatePcs, Devs, Queues
<1>12. CASE EndCab
  <2>1. at.cab + 1 \in Pos
    BY <1>3 DEF Place, Pos
  <2>2. pc = "cab_end" /\ pc' \in {"cab", "device_end"}
        /\ (at' = [at EXCEPT !.cab = at.cab + 1] \/ at' = at)
    BY <1>2, <1>12, EndCabStep
  <2>3. QED
    BY <1>3, <2>1, <2>2, MoveCab DEF PlaceOK, EarlyPcs, DevicePcs, LatePcs, Devs, Queues
<1>13. CASE EndDevice
  BY <1>2, <1>3, <1>13, EndDeviceStep DEF PlaceOK, EarlyPcs, DevicePcs, LatePcs, Devs, Queues, Place, Pos
<1>14. CASE ParseFreeQueueRecord
  BY <1>2, <1>3, <1>14, ParseFreeQueueRecordStep DEF PlaceOK, EarlyPcs, DevicePcs, LatePcs, Devs, Queues, Place, Pos
<1>15. CASE EndQueue
  <2>1. PICK q \in Queues : at' = [at EXCEPT !.rec = 1, !.queue = q]
    BY <1>2, <1>15, EndQueueStep DEF Queues
  <2>2. pc = "queue" /\ pc' \in {"pool", "queue"}
    BY <1>2, <1>15, EndQueueStep
  <2>3. QED
    BY <1>3, <2>1, <2>2, MoveQueue DEF PlaceOK, EarlyPcs, DevicePcs, LatePcs, Devs, Queues
<1>16. CASE StartPool
  BY <1>2, <1>3, <1>16, StartPoolStep DEF PlaceOK, EarlyPcs, DevicePcs, LatePcs, Devs, Queues, Place, Pos
<1>17. CASE WalkFreeList
  BY <1>2, <1>3, <1>17, WalkFreeListStep DEF PlaceOK, EarlyPcs, DevicePcs, LatePcs, Devs, Queues, Place, Pos
<1>18. CASE EndWalk
  BY <1>2, <1>3, <1>18, EndWalkStep DEF PlaceOK, EarlyPcs, DevicePcs, LatePcs, Devs, Queues, Place, Pos
<1>19. CASE ReadIpBitmap
  BY <1>2, <1>3, <1>19, ReadIpBitmapStep DEF PlaceOK, EarlyPcs, DevicePcs, LatePcs, Devs, Queues, Place, Pos
<1>20. CASE ComparePool
  BY <1>2, <1>3, <1>20, ComparePoolStep DEF PlaceOK, EarlyPcs, DevicePcs, LatePcs, Devs, Queues, Place, Pos
<1>21. CASE CompareBitmaps
  BY <1>2, <1>3, <1>21, CompareBitmapsStep DEF PlaceOK, EarlyPcs, DevicePcs, LatePcs, Devs, Queues, Place, Pos
<1>22. CASE UNCHANGED vars
  BY <1>3, <1>22 DEF vars
<1>23. QED
  BY <1>2, <1>4, <1>5, <1>6, <1>7, <1>8, <1>9, <1>10, <1>11, <1>12, <1>13, <1>14, <1>15, <1>16, <1>17, <1>18, <1>19, <1>20, <1>21, <1>22, PassingSteps

\* The places in the loops are always valid.
THEOREM PlacesStay == Spec => []PlaceInv
<1>1. Init => PlaceInv
  BY DEF Init, PlaceInv, PlaceOK, NoPlace, Place, Pos, Bad, EarlyPcs, DevicePcs, LatePcs, Devs, Queues
<1>2. PlaceInv /\ [Next]_vars => PlaceInv'
  BY PlaceNext
<1> QED
  BY <1>1, <1>2, PTL DEF Spec

-----------------------------------------------------------------------------
(* The ring of bitmaps and the free list through it. *)

\* c are the first k cells of the free list; the tail is none of them, except
\* perhaps the last.
Follows(m, c, k) ==
  /\ c \in [1..k -> 0..(m.bm_count - 1)]
  /\ k > 0 => c[1] = m.free_head
  /\ \A i \in 1..(k - 1) : c[i + 1] = m.free_next[c[i] + 1] /\ c[i] # m.free_tail

\* The free list has k cells and ends.
Listed(m, k) ==
  /\ k \in Nat \ {0} /\ k <= m.bm_count
  /\ m.free_next[m.free_tail + 1] = INVALID
  /\ \E c : Follows(m, c, k) /\ c[k] = m.free_tail

\* The first n bitmaps in use have cells of their own, outside of the list.
Live(m, n) ==
  /\ n <= Len(m.ip_bitmaps)
  /\ \A i \in 1..n : /\ m.ip_bitmaps[i] \in 0..(m.bm_count - 1)
                     /\ m.free_next[m.ip_bitmaps[i] + 1] = INVALID
                     /\ m.ip_bitmaps[i] # m.free_tail
  /\ \A i, j \in 1..n : m.ip_bitmaps[i] = m.ip_bitmaps[j] => i = j

RingPcs == {"walk", "walked", "ring", "reserve", "accepted"}
WalkRecord == [curr : Int, next : Int, free : Nat, taken : SUBSET Int]

\* What the walk and the loop over the bitmaps have found so far.
RingOK(m, p, a, w) ==
  /\ w \in WalkRecord
  /\ p \in RingPcs => m.bm_count = RingCopies * m.bm_size /\ Len(m.free_next) >= m.bm_count
  /\ p = "walk" => \E c : /\ Follows(m, c, w.free)
                          /\ w.free = 0 => w.next = m.free_head
                          /\ w.free > 0 => /\ c[w.free] # m.free_tail
                                           /\ w.next = m.free_next[c[w.free] + 1]
  /\ p = "walked" => /\ w.free > 0 /\ w.free <= m.bm_count
                     /\ \E c : Follows(m, c, w.free) /\ c[w.free] = m.free_tail
  /\ p \in {"ring", "reserve", "accepted"} => Listed(m, m.bm_count - m.bm_size)
  /\ p = "ring" => /\ a.rec <= m.bm_size + 1 /\ Live(m, a.rec - 1)
                   /\ w.taken = {m.free_tail} \cup {m.ip_bitmaps[i] : i \in 1..(a.rec - 1)}
  /\ p \in {"reserve", "accepted"} => Live(m, m.bm_size)
RingInv == pc \notin Bad => RingOK(img, pc, at, walk) /\ (pc \in {"reserve", "accepted"} => RingTailsOK)

\* One more cell of the list.
LEMMA FollowsMore ==
  ASSUME NEW m, NEW c, NEW k \in Nat, Follows(m, c, k), NEW x \in 0..(m.bm_count - 1),
         k = 0 => x = m.free_head,
         k > 0 => c[k] # m.free_tail /\ x = m.free_next[c[k] + 1]
  PROVE  \E d : Follows(m, d, k + 1) /\ d[k + 1] = x
<1> DEFINE d == [i \in 1..(k + 1) |-> IF i = k + 1 THEN x ELSE c[i]]
<1>1. d \in [1..(k + 1) -> 0..(m.bm_count - 1)] /\ d[k + 1] = x
  BY DEF Follows
<1>2. d[1] = m.free_head
  BY DEF Follows
<1>3. ASSUME NEW i \in 1..((k + 1) - 1) PROVE d[i + 1] = m.free_next[d[i] + 1] /\ d[i] # m.free_tail
  <2>1. d[i] = c[i] /\ i \in 1..k
    BY <1>3
  <2>2. CASE i = k
    BY <1>1, <2>1, <2>2
  <2>3. CASE i < k
    <3>1. i \in 1..(k - 1) /\ d[i + 1] = c[i + 1]
      BY <1>3, <2>3
    <3>2. QED
      BY <2>1, <3>1 DEF Follows
  <2>4. QED
    BY <2>1, <2>2, <2>3
<1>4. Follows(m, d, k + 1)
  <2> HIDE DEF d
  <2> QED
    BY <1>1, <1>2, <1>3 DEF Follows
<1>5. QED
  BY <1>1, <1>4

\* One more bitmap in use.
LEMMA LiveMore ==
  ASSUME NEW m, m.ip_bitmaps \in Seq(Nat), NEW n \in Nat, Live(m, n), n + 1 <= Len(m.ip_bitmaps),
         m.ip_bitmaps[n + 1] \in 0..(m.bm_count - 1),
         m.free_next[m.ip_bitmaps[n + 1] + 1] = INVALID,
         m.ip_bitmaps[n + 1] \notin {m.free_tail} \cup {m.ip_bitmaps[i] : i \in 1..n}
  PROVE  /\ Live(m, n + 1)
         /\ {m.ip_bitmaps[i] : i \in 1..(n + 1)} = {m.ip_bitmaps[i] : i \in 1..n} \cup {m.ip_bitmaps[n + 1]}
<1>1. \A i \in 1..(n + 1) : i = n + 1 \/ i \in 1..n
  OBVIOUS
<1>2. \A i \in 1..n : i \in 1..(n + 1)
  OBVIOUS
<1>3. n + 1 \in 1..(n + 1)
  OBVIOUS
<1>4. Live(m, n + 1)
  BY <1>1, <1>2 DEF Live
<1>5. QED
  BY <1>1, <1>2, <1>3, <1>4

\* The types of the fields of the ring.
LEMMA RingTypes ==
  ASSUME OnDisk(img)
  PROVE  /\ img.bm_count \in Nat /\ img.bm_size \in Nat /\ img.free_head \in Nat /\ img.free_tail \in Nat
         /\ img.free_next \in Seq(Nat \cup {INVALID}) /\ img.ip_bitmaps \in Seq(Nat)
BY SpacemanAssumption DEF OnDisk, Address, SpacemanAssumption

\* The steps before the walk leave its variables alone.
LEMMA BeforeWalk ==
  ASSUME \/ ReadHeader \/ CheckZone \/ CheckCounts \/ StartDevice \/ ReadCab
         \/ ReadCib \/ ReadChunk \/ EndCib \/ EndCab \/ EndDevice
         \/ ParseFreeQueueRecord \/ EndQueue,
         pc' \notin Bad
  PROVE  pc' \notin RingPcs /\ walk' = walk
<1> USE DEF RingPcs
<1>1. CASE ReadHeader \/ CheckZone \/ CheckCounts \/ StartDevice
  BY <1>1, ReadHeaderStep, CheckZoneStep, CheckCountsStep, StartDeviceStep
<1>2. CASE ReadCab
  BY <1>2, ReadCabStep
<1>3. CASE ReadCib
  BY <1>3, ReadCibStep
<1>4. CASE ReadChunk
  BY <1>4, ReadChunkStep
<1>5. CASE EndCib \/ EndCab \/ EndDevice
  BY <1>5, EndCibStep, EndCabStep, EndDeviceStep
<1>6. CASE ParseFreeQueueRecord
  BY <1>6, ParseFreeQueueRecordStep
<1>7. CASE EndQueue
  BY <1>7, EndQueueStep
<1>8. QED
  BY <1>1, <1>2, <1>3, <1>4, <1>5, <1>6, <1>7

\* One cell more of the list keeps what the walk has found.
LEMMA WalkStep ==
  ASSUME OnDisk(img), RingOK(img, pc, at, walk), WalkFreeList, pc' \notin Bad
  PROVE  RingOK(img, pc', at', walk')
<1>1. /\ pc = "walk" /\ WalkOK(walk) /\ at' = at
      /\ walk' = [curr |-> walk.next, next |-> free_next(walk.next),
                  free |-> Min({walk.free + 1, img.bm_count}), taken |-> {}]
      /\ pc' = IF walk.next = img.free_tail THEN "walked" ELSE "walk"
  BY WalkFreeListStep
<1>2. walk.next \in 0..(img.bm_count - 1) /\ walk.free + 1 < img.bm_count /\ walk.free \in Nat
  BY <1>1, RingTypes DEF WalkOK, InRing, RingOK, WalkRecord
<1>3. /\ img.bm_count \in Nat /\ img.bm_count = RingCopies * img.bm_size
      /\ Len(img.free_next) >= img.bm_count /\ Len(img.free_next) \in Nat
      /\ \A i \in 0..(img.bm_count - 1) : img.free_next[i + 1] \in Int
  BY <1>1, RingTypes DEF RingOK, RingPcs, INVALID
<1>4. Min({walk.free + 1, img.bm_count}) = walk.free + 1
  BY <1>2, <1>3 DEF Min
<1>5. PICK c : /\ Follows(img, c, walk.free)
               /\ walk.free = 0 => walk.next = img.free_head
               /\ walk.free > 0 => c[walk.free] # img.free_tail /\ walk.next = img.free_next[c[walk.free] + 1]
  BY <1>1 DEF RingOK
<1>6. PICK d : Follows(img, d, walk.free + 1) /\ d[walk.free + 1] = walk.next
  BY <1>2, <1>5, FollowsMore
<1>7. /\ walk'.free = walk.free + 1 /\ walk'.next = img.free_next[walk.next + 1]
      /\ walk' \in WalkRecord
  BY <1>1, <1>2, <1>3, <1>4 DEF free_next, WalkRecord
<1>8. walk.free + 1 \in Nat /\ walk.free + 1 > 0 /\ walk.free + 1 <= img.bm_count
  BY <1>2, <1>3
<1>9. CASE walk.next = img.free_tail
  <2>1. pc' = "walked" /\ d[walk'.free] = img.free_tail /\ Follows(img, d, walk'.free)
    BY <1>1, <1>6, <1>7, <1>9
  <2>2. QED
    BY <1>3, <1>7, <1>8, <2>1 DEF RingOK, RingPcs
<1>10. CASE walk.next # img.free_tail
  <2>1. /\ pc' = "walk" /\ d[walk'.free] # img.free_tail /\ Follows(img, d, walk'.free)
        /\ walk'.next = img.free_next[d[walk'.free] + 1]
    BY <1>1, <1>6, <1>7, <1>10
  <2>2. QED
    BY <1>3, <1>7, <1>8, <2>1 DEF RingOK, RingPcs
<1>11. QED
  BY <1>9, <1>10

\* The next bitmap in use keeps what the loop has found.
LEMMA RingBlockStep ==
  ASSUME OnDisk(img), RingOK(img, pc, at, walk), at \in Place, ReadIpBitmap, pc' \notin Bad
  PROVE  RingOK(img, pc', at', walk')
<1> DEFINE x == img.ip_bitmaps[at.rec]
           n == at.rec - 1
<1>1. /\ pc = "ring" /\ pc' = pc /\ at.rec <= img.bm_size
      /\ AddrOK(img.ip_bitmaps, at.rec) /\ RingBlockOK(x)
      /\ walk' = [walk EXCEPT !.taken = @ \cup {x}]
      /\ at' = [at EXCEPT !.rec = @ + 1]
  BY ReadIpBitmapStep
<1>2. at.rec \in Nat \ {0} /\ n \in Nat /\ n + 1 = at.rec /\ at'.rec = at.rec + 1
      /\ at'.rec - 1 = n + 1
  BY <1>1 DEF Place, Pos
<1>3. /\ Live(img, n) /\ walk.taken = {img.free_tail} \cup {img.ip_bitmaps[i] : i \in 1..n}
      /\ walk \in WalkRecord /\ Listed(img, img.bm_count - img.bm_size)
      /\ img.bm_count = RingCopies * img.bm_size /\ Len(img.free_next) >= img.bm_count
  BY <1>1 DEF RingOK, RingPcs
<1>4. /\ at.rec <= Len(img.ip_bitmaps) /\ x \in 0..(img.bm_count - 1)
      /\ img.free_next[x + 1] = INVALID /\ x \notin walk.taken /\ x \in Int
  BY <1>1, RingTypes DEF AddrOK, RingBlockOK, InRing, free_next
<1>5. walk'.taken = walk.taken \cup {x} /\ walk' \in WalkRecord
  BY <1>1, <1>3, <1>4 DEF WalkRecord
<1>6. /\ Live(img, n + 1)
      /\ {img.ip_bitmaps[i] : i \in 1..(n + 1)} = {img.ip_bitmaps[i] : i \in 1..n} \cup {x}
  <2>1. img.ip_bitmaps[n + 1] = x /\ n + 1 <= Len(img.ip_bitmaps)
    BY <1>2, <1>4
  <2>2. x \notin {img.free_tail} \cup {img.ip_bitmaps[i] : i \in 1..n} /\ n \in Nat
    BY <1>2, <1>3, <1>4
  <2>3. img.ip_bitmaps \in Seq(Nat)
    BY RingTypes
  <2> HIDE DEF n, x
  <2>4. QED
    BY <1>3, <1>4, <2>1, <2>2, <2>3, LiveMore
<1> HIDE DEF n
<1>7. /\ Live(img, at'.rec - 1) /\ at'.rec <= img.bm_size + 1
      /\ walk'.taken = {img.free_tail} \cup {img.ip_bitmaps[i] : i \in 1..(at'.rec - 1)}
  <2>1. walk'.taken = {img.free_tail} \cup {img.ip_bitmaps[i] : i \in 1..(n + 1)}
    BY <1>3, <1>5, <1>6
  <2>2. QED
    BY <1>1, <1>2, <1>6, <2>1, RingTypes
<1>8. QED
  BY <1>1, <1>3, <1>5, <1>7 DEF RingOK, RingPcs

\* The ring is checked in the order of the code.
LEMMA RingNext == ASSUME PlaceInv, RingInv, [Next]_vars PROVE RingInv'
<1>1. img' = img /\ OnDisk(img) /\ RingTailsOK' = RingTailsOK
  BY ImageFixed DEF PlaceInv, RingTailsOK
<1>2. SUFFICES ASSUME pc' \notin Bad
               PROVE  RingOK(img, pc', at', walk') /\ (pc' \in {"reserve", "accepted"} => RingTailsOK)
  BY <1>1 DEF RingInv
<1>3. /\ pc \notin Bad /\ PlaceOK(pc, at) /\ at \in Place /\ RingOK(img, pc, at, walk)
      /\ pc \in {"reserve", "accepted"} => RingTailsOK
  BY <1>2, BadStays DEF PlaceInv, PlaceOK, RingInv
<1>4. CASE \/ ReadHeader \/ CheckZone \/ CheckCounts \/ StartDevice \/ ReadCab
           \/ ReadCib \/ ReadChunk \/ EndCib \/ EndCab \/ EndDevice
           \/ ParseFreeQueueRecord \/ EndQueue
  BY <1>2, <1>3, <1>4, BeforeWalk DEF RingOK, RingPcs
<1>5. CASE StartPool
  <2>1. /\ pc' = "walk" /\ img.bm_count = RingCopies * img.bm_size /\ Len(img.free_next) >= img.bm_count
        /\ walk' = [walk EXCEPT !.curr = img.free_tail, !.next = img.free_head, !.free = 0]
    BY <1>2, <1>5, StartPoolStep
  <2>2. walk'.free = 0 /\ walk'.next = img.free_head /\ walk' \in WalkRecord
    <3>1. walk \in WalkRecord /\ img.free_head \in Int /\ img.free_tail \in Int
      BY <1>1, <1>3, RingTypes DEF RingOK
    <3>2. QED
      BY <2>1, <3>1 DEF WalkRecord
  <2>3. Follows(img, <<>>, 0)
    BY DEF Follows
  <2>4. QED
    BY <2>1, <2>2, <2>3 DEF RingOK, RingPcs
<1>6. CASE WalkFreeList
  BY <1>1, <1>2, <1>3, <1>6, WalkStep, WalkFreeListStep
<1>7. CASE EndWalk
  <2>1. /\ pc = "walked" /\ pc' = "ring" /\ free_next(img.free_tail) = INVALID
        /\ img.bm_count - walk.free = img.bm_size
        /\ walk' = [walk EXCEPT !.taken = {img.free_tail}]
        /\ at' = [at EXCEPT !.rec = 1]
    BY <1>2, <1>7, EndWalkStep
  <2>2. walk'.taken = {img.free_tail} /\ walk' \in WalkRecord /\ at'.rec = 1
    <3>1. walk \in WalkRecord /\ img.free_tail \in Int
      BY <1>1, <1>3, RingTypes DEF RingOK
    <3>2. walk'.taken = {img.free_tail} /\ walk' \in WalkRecord
      BY <2>1, <3>1 DEF WalkRecord
    <3>3. at'.rec = 1
      BY <1>3, <2>1 DEF Place
    <3>4. QED
      BY <3>2, <3>3
  <2>3. Listed(img, img.bm_count - img.bm_size)
    <3>1. walk.free = img.bm_count - img.bm_size /\ walk.free \in Nat
      BY <1>1, <1>3, <2>1, RingTypes DEF RingOK, WalkRecord
    <3>2. Listed(img, walk.free)
      BY <1>3, <2>1, <3>1 DEF Listed, RingOK, free_next
    <3>3. QED
      BY <3>1, <3>2
  <2>4. Live(img, at'.rec - 1) /\ {img.ip_bitmaps[i] : i \in 1..(at'.rec - 1)} = {}
    BY <1>1, <2>2, RingTypes DEF Live
  <2>5. img.bm_count = RingCopies * img.bm_size /\ Len(img.free_next) >= img.bm_count
    BY <1>3, <2>1 DEF RingOK, RingPcs
  <2>6. QED
    BY <1>1, <2>1, <2>2, <2>3, <2>4, <2>5, RingTypes DEF RingOK, RingPcs
<1>8. CASE ReadIpBitmap
  BY <1>1, <1>2, <1>3, <1>8, RingBlockStep, ReadIpBitmapStep
<1>9. CASE ComparePool
  <2>1. /\ pc = "ring" /\ pc' = "reserve" /\ at.rec > img.bm_size /\ RingTailsOK /\ walk' = walk
    BY <1>2, <1>9, ComparePoolStep
  <2>2. at.rec - 1 = img.bm_size
    BY <1>1, <1>3, <2>1, RingTypes DEF RingOK, Place, Pos
  <2>3. QED
    BY <1>3, <2>1, <2>2 DEF RingOK, RingPcs
<1>10. CASE CompareBitmaps
  <2>1. pc = "reserve" /\ pc' = "accepted" /\ walk' = walk
    BY <1>2, <1>10, CompareBitmapsStep
  <2>2. QED
    BY <1>3, <2>1 DEF RingOK, RingPcs
<1>11. CASE UNCHANGED vars
  BY <1>3, <1>11 DEF vars
<1>12. QED
  BY <1>2, <1>4, <1>5, <1>6, <1>7, <1>8, <1>9, <1>10, <1>11, PassingSteps

\* A list that reaches its tail has not been at a cell twice.
LEMMA ListInjective ==
  ASSUME NEW m, NEW k \in Nat \ {0}, NEW c, Follows(m, c, k), c[k] = m.free_tail
  PROVE  \A i, j \in 1..k : c[i] = c[j] => i = j
<1>1. SUFFICES ASSUME NEW i \in 1..k, NEW j \in 1..k, c[i] = c[j], i < j PROVE FALSE
  OBVIOUS
<1> DEFINE T == {n \in Nat : j + n <= k => c[i + n] = c[j + n]}
<1>2. 0 \in T
  BY <1>1
<1>3. ASSUME NEW n \in Nat, n \in T PROVE n + 1 \in T
  <2> SUFFICES ASSUME j + (n + 1) <= k PROVE c[i + (n + 1)] = c[j + (n + 1)]
    OBVIOUS
  <2>1. i + n \in 1..(k - 1) /\ j + n \in 1..(k - 1)
    BY <1>1, <1>3
  <2>2. c[(i + n) + 1] = m.free_next[c[i + n] + 1] /\ c[(j + n) + 1] = m.free_next[c[j + n] + 1]
    BY <2>1 DEF Follows
  <2>3. c[i + n] = c[j + n]
    BY <1>1, <1>3
  <2>4. (i + n) + 1 = i + (n + 1) /\ (j + n) + 1 = j + (n + 1)
    BY <1>1
  <2>5. QED
    BY <2>2, <2>3, <2>4
<1>4. Nat \subseteq T
  <2> HIDE DEF T
  <2> QED
    BY <1>2, <1>3, SetInduction
<1>5. k - j \in Nat /\ j + (k - j) = k /\ i + (k - j) \in 1..(k - 1)
  BY <1>1
<1>6. c[i + (k - j)] = c[k]
  BY <1>4, <1>5
<1>7. QED
  BY <1>5, <1>6 DEF Follows

\* The cells reached from the head are those of the list.
LEMMA ListCells ==
  ASSUME OnDisk(img), NEW k \in Nat \ {0}, k <= img.bm_count, NEW c, Follows(img, c, k),
         c[k] = img.free_tail, img.free_next[img.free_tail + 1] = INVALID
  PROVE  FreeCells = {c[i] : i \in 1..k}
<1> DEFINE N == img.bm_count
           cells(n) == {c[i] : i \in {i \in 1..k : i <= n + 1}} \cup {x \in {INVALID} : n >= k}
           next(S) == S \cup {img.free_next[i + 1] : i \in {i \in S : i \in 0..(N - 1)}}
           P(f) == f = [n \in 0..N |-> IF n = 0 THEN {img.free_head} ELSE next(f[n - 1])]
           W == [n \in 0..N |-> cells(n)]
           reach == CHOOSE f : P(f)
<1>1. FreeCells = reach[N] \ {INVALID}
  BY DEF FreeCells, free_next, InRing
<1>2. N \in Nat /\ INVALID \notin 0..(N - 1)
  BY RingTypes DEF INVALID
<1>3. \A i \in 1..k : c[i] \in 0..(N - 1) /\ (i < k => c[i + 1] = img.free_next[c[i] + 1])
  BY DEF Follows
<1>4. cells(0) = {img.free_head}
  <2>1. {i \in 1..k : i <= 0 + 1} = {1} /\ ~(0 >= k) /\ c[1] = img.free_head
    BY DEF Follows
  <2>2. QED
    BY <2>1
<1>5. ASSUME NEW n \in 0..N, n # 0 PROVE cells(n) = next(cells(n - 1))
  <2>1. ASSUME NEW x \in cells(n) PROVE x \in next(cells(n - 1))
    <3>1. CASE x = INVALID /\ n >= k
      <4>1. CASE n - 1 >= k
        BY <1>5, <3>1, <4>1
      <4>2. CASE n = k
        <5>1. c[k] \in cells(n - 1) /\ c[k] \in 0..(N - 1)
          BY <1>3, <1>5, <4>2
        <5>2. QED
          BY <3>1, <5>1
      <4>3. QED
        BY <1>5, <3>1, <4>1, <4>2
    <3>2. CASE \E i \in 1..k : i <= n + 1 /\ x = c[i]
      <4>1. PICK i \in 1..k : i <= n + 1 /\ x = c[i]
        BY <3>2
      <4>2. CASE i <= n
        <5>1. i <= (n - 1) + 1
          BY <1>5, <4>2
        <5>2. QED
          BY <4>1, <5>1
      <4>3. CASE i = n + 1
        <5>1. n \in 1..k /\ n < k /\ n <= (n - 1) + 1
          BY <1>2, <1>5, <4>1, <4>3
        <5>2. c[n] \in cells(n - 1) /\ c[n] \in 0..(N - 1) /\ x = img.free_next[c[n] + 1]
          BY <1>3, <4>1, <4>3, <5>1
        <5>3. QED
          BY <5>2
      <4>4. QED
        BY <1>2, <1>5, <4>1, <4>2, <4>3
    <3>3. QED
      BY <2>1, <3>1, <3>2
  <2>2. ASSUME NEW x \in next(cells(n - 1)) PROVE x \in cells(n)
    <3>1. CASE x \in cells(n - 1)
      BY <1>2, <1>5, <3>1
    <3>2. CASE \E y \in cells(n - 1) : y \in 0..(N - 1) /\ x = img.free_next[y + 1]
      <4>1. PICK y \in cells(n - 1) : y \in 0..(N - 1) /\ x = img.free_next[y + 1]
        BY <3>2
      <4>2. PICK i \in 1..k : i <= (n - 1) + 1 /\ y = c[i]
        BY <1>2, <4>1
      <4>3. CASE i < k
        <5>1. i + 1 \in 1..k /\ i + 1 <= n + 1 /\ x = c[i + 1]
          BY <1>2, <1>3, <1>5, <4>1, <4>2, <4>3
        <5>2. QED
          BY <5>1
      <4>4. CASE i = k
        <5>1. x = INVALID /\ n >= k
          BY <1>2, <1>5, <4>1, <4>2, <4>4
        <5>2. QED
          BY <5>1
      <4>5. QED
        BY <4>3, <4>4
    <3>3. QED
      BY <2>2, <3>1, <3>2
  <2>3. QED
    BY <2>1, <2>2
<1>6. P(W)
  <2> HIDE DEF cells, next
  <2>1. ASSUME NEW n \in 0..N, n # 0 PROVE cells(n) = next(W[n - 1])
    <3>1. n - 1 \in 0..N
      BY <1>2, <2>1
    <3>2. W[n - 1] = cells(n - 1)
      BY <3>1
    <3>3. QED
      BY <1>5, <2>1, <3>2
  <2>2. \A n \in 0..N : cells(n) = IF n = 0 THEN {img.free_head} ELSE next(W[n - 1])
    BY <1>4, <2>1
  <2>3. QED
    BY <2>2
<1>7. P(reach)
  <2> HIDE DEF W, P
  <2> QED
    BY <1>6
<1>8. N \in 0..N /\ reach[N] = cells(N)
  <2> HIDE DEF cells, next, reach
  <2> DEFINE T == {n \in Nat : n <= N => reach[n] = cells(n)}
  <2>1. 0 \in T
    BY <1>2, <1>4, <1>7
  <2>2. ASSUME NEW n \in Nat, n \in T PROVE n + 1 \in T
    <3> SUFFICES ASSUME n + 1 <= N PROVE reach[n + 1] = cells(n + 1)
      OBVIOUS
    <3>1. n + 1 \in 0..N /\ n + 1 # 0 /\ (n + 1) - 1 = n
      BY <1>2
    <3>2. reach[n + 1] = next(reach[(n + 1) - 1])
      BY <1>7, <3>1
    <3>3. reach[n] = cells(n)
      BY <1>2, <2>2
    <3>4. QED
      BY <1>5, <3>1, <3>2, <3>3
  <2> HIDE DEF T
  <2>3. Nat \subseteq T
    BY <2>1, <2>2, SetInduction
  <2>4. QED
    BY <1>2, <2>3 DEF T
<1>9. cells(N) = {c[i] : i \in 1..k} \cup {INVALID}
  <2>1. {i \in 1..k : i <= N + 1} = 1..k /\ N >= k
    BY <1>2
  <2>2. QED
    BY <2>1
<1> HIDE DEF cells, reach
<1>10. QED
  BY <1>1, <1>2, <1>3, <1>8, <1>9

\* The first k values.
Values(f, k) == {f[i] : i \in 1..k}

\* Values that differ are as many as their places.
LEMMA ImageCardinality ==
  ASSUME NEW k \in Nat, NEW f, \A i, j \in 1..k : f[i] = f[j] => i = j
  PROVE  IsFiniteSet(Values(f, k)) /\ Cardinality(Values(f, k)) = k
<1> DEFINE V == Values(f, k)
           g == [i \in 1..k |-> f[i]]
<1>1. g \in Bijection(1..k, V)
  BY DEF Bijection, Injection, Surjection, IsInjective, Values
<1>2. ExistsBijection(1..k, V)
  BY <1>1 DEF ExistsBijection
<1>3. IsFiniteSet(1..k) /\ Cardinality(1..k) = k
  BY FS_Interval
<1> HIDE DEF V
<1>4. IsFiniteSet(V) /\ Cardinality(V) = k
  BY <1>2, <1>3, FS_Bijection
<1>5. QED
  BY <1>4 DEF V

\* The list and the bitmaps in use are the whole ring: there are as many of them
\* as cells, and they have none in common.
LEMMA RingShared ==
  ASSUME OnDisk(img), Listed(img, img.bm_count - img.bm_size), Live(img, img.bm_size), RingTailsOK
  PROVE  Ring
<1> DEFINE k == img.bm_count - img.bm_size
           N == img.bm_count
           live == {img.ip_bitmaps[i] : i \in 1..img.bm_size}
<1>1. N \in Nat /\ img.bm_size \in Nat /\ img.ip_bitmaps \in Seq(Nat)
  BY RingTypes
<1>2. k \in Nat \ {0} /\ k <= N /\ img.free_next[img.free_tail + 1] = INVALID
  BY DEF Listed
<1>3. PICK c : Follows(img, c, k) /\ c[k] = img.free_tail
  BY DEF Listed
<1> DEFINE cells == {c[i] : i \in 1..k}
<1>4. FreeCells = cells
  <2> HIDE DEF k
  <2> QED
    BY <1>2, <1>3, ListCells
<1>5. IsFiniteSet(cells) /\ Cardinality(cells) = k
  <2> HIDE DEF k
  <2>1. \A i, j \in 1..k : c[i] = c[j] => i = j
    BY <1>2, <1>3, ListInjective
  <2>2. IsFiniteSet(Values(c, k)) /\ Cardinality(Values(c, k)) = k
    BY <1>2, <2>1, ImageCardinality
  <2>3. QED
    BY <2>2 DEF Values
<1>6. IsFiniteSet(live) /\ Cardinality(live) = img.bm_size
  <2>1. \A i, j \in 1..img.bm_size : img.ip_bitmaps[i] = img.ip_bitmaps[j] => i = j
    BY DEF Live
  <2>2. /\ IsFiniteSet(Values(img.ip_bitmaps, img.bm_size))
        /\ Cardinality(Values(img.ip_bitmaps, img.bm_size)) = img.bm_size
    BY <1>1, <2>1, ImageCardinality
  <2>3. QED
    BY <2>2 DEF Values
<1>7. ASSUME NEW x \in cells, x # img.free_tail PROVE img.free_next[x + 1] # INVALID
  <2>1. PICK i \in 1..k : x = c[i]
    BY <1>7
  <2>2. i \in 1..(k - 1) /\ i + 1 \in 1..k
    BY <1>2, <1>3, <1>7, <2>1
  <2>3. img.free_next[x + 1] = c[i + 1] /\ c[i + 1] \in 0..(N - 1)
    BY <1>3, <2>1, <2>2 DEF Follows
  <2>4. QED
    BY <1>1, <2>3 DEF INVALID
<1>8. \A x \in live : x # img.free_tail /\ img.free_next[x + 1] = INVALID /\ x \in 0..(N - 1)
  BY DEF Live
<1>9. cells \subseteq 0..(N - 1) /\ img.free_tail \in cells
  BY <1>2, <1>3 DEF Follows
<1> HIDE DEF cells, live
<1>10. live \cap cells = {}
  BY <1>7, <1>8
<1>11. live \cup cells = 0..(N - 1)
  <2>1. IsFiniteSet(live \cup cells) /\ Cardinality(live \cup cells) = N
    <3>1. Cardinality({}) = 0
      BY FS_EmptySet
    <3>2. /\ IsFiniteSet(live \cup cells)
          /\ Cardinality(live \cup cells) = Cardinality(live) + Cardinality(cells) - Cardinality(live \cap cells)
      BY <1>5, <1>6, FS_Union
    <3>3. Cardinality(live \cap cells) = 0
      BY <1>10, <3>1
    <3>4. QED
      BY <1>1, <1>2, <1>5, <1>6, <3>2, <3>3
  <2>2. IsFiniteSet(0..(N - 1)) /\ Cardinality(0..(N - 1)) = N
    <3> HIDE DEF N
    <3>1. 0 \in Int /\ N - 1 \in Int /\ (0 > N - 1 => N = 0) /\ (N - 1) - 0 + 1 = N
      BY <1>1
    <3>2. QED
      BY <3>1, FS_Interval
  <2>3. live \cup cells \in SUBSET (0..(N - 1))
    BY <1>8, <1>9
  <2>4. QED
    BY <2>1, <2>2, <2>3, FS_Subset
<1>12. ASSUME NEW i \in 0..(N - 1)
       PROVE  i \in live \cup {img.free_tail} <=> free_next(i) = INVALID
  BY <1>2, <1>7, <1>8, <1>11 DEF free_next
<1>13. Len(img.ip_bitmaps) >= img.bm_size
  BY <1>1 DEF Live
<1>14. QED
  BY <1>4, <1>6, <1>9, <1>10, <1>11, <1>12, <1>13 DEF Ring, live

\* What the walk found is kept.
LEMMA RingStays == Spec => []RingInv
<1>1. Init => RingInv
  <2> SUFFICES ASSUME Init PROVE RingOK(img, pc, at, walk) /\ pc = "header"
    BY DEF RingInv
  <2>1. walk \in WalkRecord /\ pc = "header"
    BY DEF Init, WalkRecord
  <2>2. QED
    BY <2>1 DEF RingOK, RingPcs
<1>2. PlaceInv /\ RingInv /\ [Next]_vars => RingInv'
  BY RingNext
<1>3. QED
  BY <1>1, <1>2, PlacesStay, PTL DEF Spec

\* The free list and the bitmaps in use share out the ring of an accepted space
\* manager: there are none of the cells that check_ip_free_next() and
\* parse_ip_bitmap_list() never look at, whatever list is on disk.
RingAccepted == Accepted => Ring

\* check_internal_pool() accepts only what has this ring.
THEOREM RingIsShared == Spec => []RingAccepted
<1>1. PlaceInv /\ RingInv => RingAccepted
  BY RingShared DEF PlaceInv, RingInv, RingOK, RingAccepted, Accepted, Bad
<1>2. QED
  BY <1>1, PlacesStay, RingStays, PTL

-----------------------------------------------------------------------------
(* What is marked in the bitmaps of the devices. *)

\* OwnUses and OwnUse(), as functions of the image.
Own(m) ==
  {<<"main", "ring", 1>>, <<"main", "pool", 1>>}
    \cup UNION {{<<q, "queue", i>> : i \in DOMAIN m.fq[q].recs} : q \in Devs}
Use(m, u) ==
  CASE u[2] = "ring" -> RangeOf(m.bm_base, m.bm_count)
    [] u[2] = "pool" -> RangeOf(m.ip_base, m.ip_count)
    [] u[2] = "queue" -> RangeOf(m.fq[u[1]].recs[u[3]].paddr, m.fq[u[1]].recs[u[3]].length)

\* The records of the queues that were parsed.
Turn(q) == IF q = "ip" THEN 1 ELSE IF q = "main" THEN 2 ELSE 3
QueueDone(p, a, q, i) ==
  \/ p \in LatePcs \ {"queue"}
  \/ p = "queue" /\ (Turn(q) < Turn(a.queue) \/ (q = a.queue /\ i < a.rec))
OwnDone(m, p, a) ==
  {u \in Own(m) :
     \/ u[2] = "ring" /\ p \in {"ring", "reserve", "accepted"}
     \/ u[2] = "pool" /\ p \in {"reserve", "accepted"}
     \/ u[2] = "queue" /\ QueueDone(p, a, u[1], u[3])}

\* The bitmaps are those of before and of the uses in D, each of which has blocks
\* of its own on a device.
Accounted(m, us, D) ==
  /\ DOMAIN us = Devs
  /\ \A d \in Devs : us[d] = m.before[d] \cup UNION {OnDev(d, Use(m, u)) : u \in D}
  /\ \A u \in D : \A d \in Devs : /\ OnDev(d, Use(m, u)) \cap m.before[d] = {}
                                  /\ OnDev(d, Use(m, u)) \subseteq 0..(m.max[d] - 1)
  /\ \A u, v \in D : u # v => Use(m, u) \cap Use(m, v) = {}
MarkInv == pc \notin Bad => Accounted(img, used, OwnDone(img, pc, at))

\* Addresses that do not reach twice around.
LEMMA WrapOnce ==
  ASSUME NEW A \in Nat \ {0}, NEW x \in Nat, x < 2 * A
  PROVE  x % A = IF x < A THEN x ELSE x - A
<1>1. CASE x < A
  BY <1>1, SMT
<1>2. CASE x >= A
  BY <1>2, SMT
<1>3. QED
  BY <1>1, <1>2

\* Numbers of blocks.
LEMMA AddressTypes ==
  ASSUME OnDisk(img)
  PROVE  /\ AddrMod \in Nat \ {0} /\ Tier2Base \in Nat /\ BlocksPerChunk \in Nat \ {0}
         /\ Address \subseteq Nat /\ \A x \in Address : x < AddrMod
         /\ img.ip_base \in Address /\ img.ip_count \in Address
         /\ img.bm_base \in Address /\ img.bm_count \in Address
         /\ \A d \in Devs : img.max[d] \in Nat
         /\ img.max["main"] <= Tier2Base
         /\ Tier2Base + img.max["tier2"] + BlocksPerChunk <= AddrMod
         /\ \A d \in Devs : img.before[d] \subseteq 0..(img.max[d] - 1)
<1>1. /\ AddrMod \in Nat \ {0} /\ Tier2Base \in Nat /\ BlocksPerChunk \in Nat \ {0}
  BY SpacemanAssumption DEF SpacemanAssumption
<1>2. Address \subseteq Nat /\ \A x \in Address : x < AddrMod
  BY <1>1 DEF Address
<1>3. QED
  BY <1>1, <1>2 DEF OnDisk, Devs

\* A range that can be marked ends on its device.
LEMMA MarkedFits ==
  ASSUME OnDisk(img), NEW p \in Address, NEW n \in Address, CanMark(p, n)
  PROVE  /\ DevOf(p) \in Devs /\ DevAddr(p) \in Nat
         /\ DevAddr(p) + n <= img.max[DevOf(p)]
         /\ DevBlocks(p, n) \cap used[DevOf(p)] = {}
<1>1. p \in Nat /\ n \in Nat /\ p < AddrMod /\ n < AddrMod /\ Tier2Base \in Nat /\ AddrMod \in Nat \ {0}
  BY AddressTypes
<1>2. DevOf(p) \in Devs /\ DevAddr(p) \in Nat /\ DevAddr(p) <= p
  BY <1>1 DEF DevOf, DevAddr, Devs
<1>3. img.max[DevOf(p)] \in Nat
  BY <1>2, AddressTypes
<1>4. DevAddr(p) + n \in Nat /\ DevAddr(p) + n < 2 * AddrMod
  BY <1>1, <1>2
<1>5. (DevAddr(p) + n) % AddrMod = IF DevAddr(p) + n < AddrMod THEN DevAddr(p) + n
                                   ELSE (DevAddr(p) + n) - AddrMod
  BY <1>1, <1>4, WrapOnce
<1>6. /\ (DevAddr(p) + n) % AddrMod <= img.max[DevOf(p)] /\ (DevAddr(p) + n) % AddrMod >= DevAddr(p)
      /\ DevBlocks(p, n) \cap used[DevOf(p)] = {}
  BY DEF CanMark, Wrap
<1>7. QED
  BY <1>1, <1>2, <1>3, <1>5, <1>6

\* All of it is on that device.
LEMMA OneDevice ==
  ASSUME OnDisk(img), NEW p \in Nat, NEW n \in Nat, DevAddr(p) + n <= img.max[DevOf(p)]
  PROVE  \A d \in Devs : OnDev(d, RangeOf(p, n)) = IF d = DevOf(p) THEN DevBlocks(p, n) ELSE {}
<1>1. /\ Tier2Base \in Nat /\ img.max["main"] \in Nat /\ img.max["main"] <= Tier2Base
  BY AddressTypes DEF Devs
<1>2. ASSUME NEW b \in RangeOf(p, n) PROVE DevOf(b) = DevOf(p) /\ DevAddr(b) = DevAddr(p) + (b - p)
  BY <1>1, <1>2 DEF RangeOf, DevOf, DevAddr
<1>3. ASSUME NEW x \in DevBlocks(p, n)
      PROVE  \E b \in RangeOf(p, n) : x = DevAddr(b)
  <2>1. DevAddr(p) \in Nat
    BY <1>1 DEF DevAddr
  <2>2. x \in Nat /\ DevAddr(p) <= x /\ x <= DevAddr(p) + n - 1
    BY <1>3, <2>1 DEF DevBlocks
  <2>3. p + (x - DevAddr(p)) \in RangeOf(p, n)
    BY <2>1, <2>2 DEF RangeOf
  <2>4. DevAddr(p + (x - DevAddr(p))) = DevAddr(p) + ((p + (x - DevAddr(p))) - p)
    BY <1>2, <2>3
  <2>5. QED
    BY <2>1, <2>2, <2>3, <2>4
<1>4. ASSUME NEW b \in RangeOf(p, n) PROVE DevAddr(b) \in DevBlocks(p, n)
  <2>1. b \in Nat /\ p <= b /\ b <= p + n - 1 /\ DevAddr(p) \in Nat
    BY <1>1, <1>4 DEF RangeOf, DevAddr
  <2>2. QED
    BY <1>2, <1>4, <2>1 DEF DevBlocks
<1>5. QED
  BY <1>2, <1>3, <1>4 DEF OnDev

\* Marking the blocks of one more use.
LEMMA AddUse ==
  ASSUME OnDisk(img), NEW D, Accounted(img, used, D), NEW u, u \notin D,
         NEW p \in Address, NEW n \in Address, Use(img, u) = RangeOf(p, n), CanMark(p, n)
  PROVE  Accounted(img, Marked(p, n), D \cup {u})
<1> DEFINE O(d, v) == OnDev(d, Use(img, v))
<1>1. /\ DevOf(p) \in Devs /\ DevAddr(p) \in Nat /\ p \in Nat /\ n \in Nat
      /\ DevAddr(p) + n <= img.max[DevOf(p)]
      /\ DevBlocks(p, n) \cap used[DevOf(p)] = {}
  BY MarkedFits, AddressTypes
<1>2. \A d \in Devs : O(d, u) = IF d = DevOf(p) THEN DevBlocks(p, n) ELSE {}
  BY <1>1, OneDevice
<1>3. DOMAIN used = Devs /\ \A d \in Devs : used[d] = img.before[d] \cup UNION {O(d, v) : v \in D}
  BY DEF Accounted
<1>4. DOMAIN Marked(p, n) = Devs /\ \A d \in Devs : Marked(p, n)[d] = used[d] \cup O(d, u)
  BY <1>1, <1>2, <1>3 DEF Marked
<1>5. \A d \in Devs : O(d, u) \cap used[d] = {}
  BY <1>1, <1>2
<1>6. \A d \in Devs : O(d, u) \subseteq 0..(img.max[d] - 1)
  <2>1. \A d \in Devs : img.max[d] \in Nat
    BY AddressTypes
  <2>2. DevBlocks(p, n) \subseteq 0..(img.max[DevOf(p)] - 1)
    BY <1>1, <2>1 DEF DevBlocks
  <2>3. QED
    BY <1>2, <2>2
<1>7. ASSUME NEW v \in D PROVE Use(img, u) \cap Use(img, v) = {}
  <2>1. SUFFICES ASSUME NEW b \in Use(img, u), b \in Use(img, v) PROVE FALSE
    OBVIOUS
  <2>2. DevOf(b) \in Devs
    BY DEF DevOf, Devs
  <2>3. DevAddr(b) \in O(DevOf(b), u) /\ DevAddr(b) \in O(DevOf(b), v)
    BY <2>1 DEF OnDev
  <2> HIDE DEF O
  <2>4. DevAddr(b) \in used[DevOf(b)]
    BY <1>3, <1>7, <2>2, <2>3
  <2>5. QED
    BY <1>5, <2>2, <2>3, <2>4
<1>8. \A d \in Devs : Marked(p, n)[d] = img.before[d] \cup UNION {O(d, v) : v \in D \cup {u}}
  <2> HIDE DEF O
  <2> QED
    BY <1>3, <1>4
<1>9. \A v \in D \cup {u} : \A d \in Devs : O(d, v) \cap img.before[d] = {} /\ O(d, v) \subseteq 0..(img.max[d] - 1)
  <2>1. \A v \in D : \A d \in Devs : O(d, v) \cap img.before[d] = {} /\ O(d, v) \subseteq 0..(img.max[d] - 1)
    BY DEF Accounted
  <2> HIDE DEF O
  <2>2. \A d \in Devs : O(d, u) \cap img.before[d] = {}
    BY <1>3, <1>5
  <2>3. QED
    BY <1>6, <2>1, <2>2
<1>10. \A v, w \in D \cup {u} : v # w => Use(img, v) \cap Use(img, w) = {}
  <2>1. \A v, w \in D : v # w => Use(img, v) \cap Use(img, w) = {}
    BY DEF Accounted
  <2>2. \A v \in D : Use(img, v) \cap Use(img, u) = {}
    BY <1>7
  <2>3. QED
    BY <1>7, <2>1, <2>2
<1>11. QED
  BY <1>4, <1>8, <1>9, <1>10 DEF Accounted

\* Before the queues of the devices nothing is accounted for.
LEMMA NoneYet ==
  ASSUME NEW m, NEW p, NEW a, p \in EarlyPcs \cup DevicePcs \/ (p = "queue" /\ a.queue = "ip")
  PROVE  OwnDone(m, p, a) = {}
<1>1. SUFFICES ASSUME NEW u \in OwnDone(m, p, a) PROVE FALSE
  OBVIOUS
<1>2. /\ p \notin {"ring", "reserve", "accepted"} /\ p \notin LatePcs \ {"queue"}
      /\ p = "queue" => a.queue = "ip"
  BY DEF EarlyPcs, DevicePcs, LatePcs
<1>3. u \in Own(m) /\ u[2] = "queue" /\ p = "queue" /\ a.queue = "ip"
      /\ (Turn(u[1]) < Turn("ip") \/ u[1] = "ip")
  BY <1>1, <1>2 DEF OwnDone, QueueDone
<1>4. u[1] \in Devs
  BY <1>3 DEF Own, Devs
<1>5. QED
  BY <1>3, <1>4 DEF Turn, Devs

\* The places of the records of a queue.
LEMMA RecordPlaces ==
  ASSUME OnDisk(img), NEW q \in Queues
  PROVE  /\ DOMAIN img.fq[q].recs = 1..Len(img.fq[q].recs) /\ Len(img.fq[q].recs) \in Nat
         /\ \A i \in 1..Len(img.fq[q].recs) : img.fq[q].recs[i] \in QueueRecord
<1>1. img.fq[q].recs \in Seq(QueueRecord)
  BY DiskTypes
<1>2. QED
  BY <1>1

\* Uses are told apart by their names.
LEMMA OwnMember ==
  ASSUME NEW m, NEW p, NEW a, NEW u
  PROVE  u \in OwnDone(m, p, a) <=>
           \/ u = <<"main", "ring", 1>> /\ p \in {"ring", "reserve", "accepted"}
           \/ u = <<"main", "pool", 1>> /\ p \in {"reserve", "accepted"}
           \/ \E q \in Devs : \E i \in DOMAIN m.fq[q].recs : u = <<q, "queue", i>> /\ QueueDone(p, a, q, i)
<1>1. u \in Own(m) <=> \/ u = <<"main", "ring", 1>> \/ u = <<"main", "pool", 1>>
                       \/ \E q \in Devs : \E i \in DOMAIN m.fq[q].recs : u = <<q, "queue", i>>
  BY DEF Own
<1>2. QED
  BY <1>1 DEF OwnDone

\* Between the queues and the ring nothing is added, nor in them.
LEMMA DoneSame ==
  ASSUME NEW m, NEW p \in LatePcs \ {"queue"}, NEW r \in LatePcs \ {"queue"}, NEW a, NEW b,
         p \in {"ring", "reserve", "accepted"} <=> r \in {"ring", "reserve", "accepted"},
         p \in {"reserve", "accepted"} <=> r \in {"reserve", "accepted"}
  PROVE  OwnDone(m, r, b) = OwnDone(m, p, a)
BY DEF OwnDone, QueueDone

\* One more record.
LEMMA DoneRecord ==
  ASSUME OnDisk(img), NEW a \in Place, NEW b \in Place, a.queue \in Devs,
         a.rec \in 1..Len(img.fq[a.queue].recs), b.queue = a.queue, b.rec = a.rec + 1
  PROVE  /\ OwnDone(img, "queue", b) = OwnDone(img, "queue", a) \cup {<<a.queue, "queue", a.rec>>}
         /\ <<a.queue, "queue", a.rec>> \notin OwnDone(img, "queue", a)
<1> DEFINE u == <<a.queue, "queue", a.rec>>
<1>1. a.rec \in Nat /\ a.queue \in Queues /\ Devs \subseteq Queues
  BY DEF Devs, Queues
<1>2. DOMAIN img.fq[a.queue].recs = 1..Len(img.fq[a.queue].recs)
  BY <1>1, RecordPlaces
<1>3. ASSUME NEW q \in Devs, NEW i \in DOMAIN img.fq[q].recs
      PROVE  QueueDone("queue", b, q, i) <=> QueueDone("queue", a, q, i) \/ (q = a.queue /\ i = a.rec)
  <2>1. i \in Nat
    BY <1>1, <1>3, RecordPlaces
  <2>2. QED
    BY <1>1, <1>3, <2>1 DEF QueueDone, LatePcs
<1>4. ~QueueDone("queue", a, a.queue, a.rec)
  BY <1>1 DEF QueueDone, LatePcs, Turn
<1>5. u \notin OwnDone(img, "queue", a)
  BY <1>4, OwnMember
<1>6. ASSUME NEW v PROVE v \in OwnDone(img, "queue", b) <=> v \in OwnDone(img, "queue", a) \/ v = u
  BY <1>2, <1>3, OwnMember
<1> HIDE DEF u
<1>7. OwnDone(img, "queue", b) = OwnDone(img, "queue", a) \cup {u}
  BY <1>6
<1>8. QED
  BY <1>5, <1>7 DEF u

\* The end of a queue adds nothing.
LEMMA DoneQueue ==
  ASSUME OnDisk(img), NEW a \in Place, NEW b \in Place, a.rec > Len(img.fq[a.queue].recs), b.rec = 1,
         b.queue = IF a.queue = "ip" THEN "main" ELSE "tier2"
  PROVE  OwnDone(img, IF a.queue = "tier2" THEN "pool" ELSE "queue", b) = OwnDone(img, "queue", a)
<1> DEFINE p == IF a.queue = "tier2" THEN "pool" ELSE "queue"
<1>1. a.queue \in Queues /\ a.rec \in Nat
  BY DEF Place, Pos
<1>2. ASSUME NEW q \in Devs, NEW i \in DOMAIN img.fq[q].recs
      PROVE  QueueDone(p, b, q, i) <=> QueueDone("queue", a, q, i)
  <2>1. i \in 1..Len(img.fq[q].recs) /\ Len(img.fq[q].recs) \in Nat
    BY <1>2, RecordPlaces DEF Devs, Queues
  <2>2. q = a.queue => i < a.rec
    BY <1>1, <2>1
  <2>3. ~(i < 1)
    BY <2>1
  <2>4. QED
    BY <1>1, <2>2, <2>3 DEF QueueDone, LatePcs, Turn, Devs, Queues
<1>3. p \notin {"ring", "reserve", "accepted"}
  OBVIOUS
<1> HIDE DEF p
<1>4. ASSUME NEW v PROVE v \in OwnDone(img, p, b) <=> v \in OwnDone(img, "queue", a)
  BY <1>2, <1>3, OwnMember
<1>5. OwnDone(img, p, b) = OwnDone(img, "queue", a)
  BY <1>4
<1>6. QED
  BY <1>5 DEF p

\* The ring, then the pool.
LEMMA DoneRing ==
  ASSUME NEW m, NEW a, NEW b
  PROVE  /\ OwnDone(m, "ring", b) = OwnDone(m, "walked", a) \cup {<<"main", "ring", 1>>}
         /\ <<"main", "ring", 1>> \notin OwnDone(m, "walked", a)
         /\ OwnDone(m, "reserve", b) = OwnDone(m, "ring", a) \cup {<<"main", "pool", 1>>}
         /\ <<"main", "pool", 1>> \notin OwnDone(m, "ring", a)
<1>1. \A q, i : QueueDone("ring", a, q, i) /\ QueueDone("ring", b, q, i) /\ QueueDone("walked", a, q, i)
                /\ QueueDone("reserve", b, q, i)
  BY DEF QueueDone, LatePcs
<1>2. <<"main", "ring", 1>> \notin OwnDone(m, "walked", a) /\ <<"main", "pool", 1>> \notin OwnDone(m, "ring", a)
  BY OwnMember
<1>3. ASSUME NEW v PROVE v \in OwnDone(m, "ring", b) <=> v \in OwnDone(m, "walked", a) \/ v = <<"main", "ring", 1>>
  BY <1>1, OwnMember
<1>4. ASSUME NEW v PROVE v \in OwnDone(m, "reserve", b) <=> v \in OwnDone(m, "ring", a) \/ v = <<"main", "pool", 1>>
  BY <1>1, OwnMember
<1>5. QED
  BY <1>2, <1>3, <1>4

\* A record that is accepted: its range lies on one side of the pool.
LEMMA RecordFacts ==
  ASSUME PlaceInv, ParseFreeQueueRecord, pc' \notin Bad
  PROVE  /\ at \in Place /\ at.queue \in Queues /\ at' \in Place
         /\ at.rec \in 1..Len(img.fq[at.queue].recs)
         /\ at'.queue = at.queue /\ at'.rec = at.rec + 1
         /\ img.fq[at.queue].recs[at.rec] \in QueueRecord
         /\ img.fq[at.queue].recs[at.rec].paddr \in Address
         /\ img.fq[at.queue].recs[at.rec].length \in Address
         /\ img.fq[at.queue].recs[at.rec].xid \in Nat
         /\ FqRecordOK(img.fq[at.queue].recs[at.rec])
<1>1. pc = "queue" /\ at.rec <= Len(Queue.recs) /\ FqRecordOK(Queue.recs[at.rec])
      /\ at' = [at EXCEPT !.rec = at.rec + 1]
  BY ParseFreeQueueRecordStep
<1>2. OnDisk(img) /\ at \in Place
  BY <1>1 DEF PlaceInv, PlaceOK, Bad
<1>3. at.queue \in Queues /\ at.rec \in Pos /\ at.rec + 1 \in Pos
  BY <1>2 DEF Place, Pos
<1>4. at' \in Place /\ at'.queue = at.queue /\ at'.rec = at.rec + 1
  BY <1>1, <1>2, <1>3, MoveRec
<1>5. Len(img.fq[at.queue].recs) \in Nat
  BY <1>2, <1>3, RecordPlaces
<1>6. at.rec \in 1..Len(img.fq[at.queue].recs)
  BY <1>1, <1>3, <1>5 DEF Queue, Pos
<1>7. img.fq[at.queue].recs[at.rec] \in QueueRecord
  BY <1>2, <1>3, <1>6, RecordPlaces
<1>8. QED
  BY <1>1, <1>2, <1>3, <1>4, <1>6, <1>7 DEF Queue, QueueRecord

\* The end of a queue, as a move.
LEMMA QueueEnds ==
  ASSUME PlaceInv, EndQueue, pc' \notin Bad
  PROVE  /\ at \in Place /\ at.queue \in Queues /\ at' \in Place
         /\ at.rec > Len(img.fq[at.queue].recs)
         /\ at'.rec = 1 /\ at'.queue = IF at.queue = "ip" THEN "main" ELSE "tier2"
         /\ pc = "queue" /\ pc' = IF at.queue = "tier2" THEN "pool" ELSE "queue"
<1>1. /\ pc = "queue" /\ at.rec > Len(Queue.recs)
      /\ at' = [at EXCEPT !.rec = 1, !.queue = IF at.queue = "ip" THEN "main" ELSE "tier2"]
      /\ pc' = IF at.queue = "tier2" THEN "pool" ELSE "queue"
  BY EndQueueStep
<1>2. at \in Place
  BY <1>1 DEF PlaceInv, PlaceOK, Bad
<1>3. at.queue \in Queues /\ (IF at.queue = "ip" THEN "main" ELSE "tier2") \in Queues
  BY <1>2 DEF Place, Queues
<1>4. at' \in Place /\ at'.rec = 1 /\ at'.queue = IF at.queue = "ip" THEN "main" ELSE "tier2"
  <2>1. PICK q \in Queues :
          /\ q = IF at.queue = "ip" THEN "main" ELSE "tier2"
          /\ at' = [at EXCEPT !.rec = 1, !.queue = q]
    BY <1>1, <1>3
  <2>2. at' = [at EXCEPT !.rec = 1, !.queue = q]
    BY <2>1
  <2>3. at' \in Place /\ at'.rec = 1 /\ at'.queue = q
    BY <1>2, <2>2, MoveQueue DEF Place, Pos, Queues, Devs
  <2>4. QED
    BY <2>1, <2>3
<1>5. QED
  BY <1>1, <1>2, <1>3, <1>4 DEF Queue

\* Each step keeps the account of the devices' blocks.
LEMMA MarkNext == ASSUME PlaceInv, PlaceInv', MarkInv, [Next]_vars PROVE MarkInv'
<1>1. img' = img /\ OnDisk(img)
  BY ImageFixed DEF PlaceInv
<1>2. SUFFICES ASSUME pc' \notin Bad PROVE Accounted(img, used', OwnDone(img, pc', at'))
  BY <1>1 DEF MarkInv
<1>3. /\ pc \notin Bad /\ Accounted(img, used, OwnDone(img, pc, at))
      /\ PlaceOK(pc, at) /\ PlaceOK(pc', at')
  BY <1>2, BadStays DEF MarkInv, PlaceInv
<1> DEFINE None(p, a) == p \in EarlyPcs \cup DevicePcs \/ (p = "queue" /\ a.queue = "ip")
<1>4. CASE used' = used /\ None(pc, at) /\ None(pc', at')
  <2>1. OwnDone(img, pc, at) = {} /\ OwnDone(img, pc', at') = {}
    BY <1>4, NoneYet
  <2>2. QED
    BY <1>3, <1>4, <2>1
<1>5. CASE ReadHeader \/ CheckCounts \/ StartDevice \/ ReadCab \/ ReadCib \/ EndCab
  <2>1. used' = used /\ pc \in EarlyPcs \cup DevicePcs /\ pc' \in EarlyPcs \cup DevicePcs
    <3> USE DEF EarlyPcs, DevicePcs
    <3>1. CASE ReadHeader
      BY <1>2, <3>1, ReadHeaderStep
    <3>2. CASE CheckCounts
      BY <1>2, <3>2, CheckCountsStep
    <3>3. CASE StartDevice
      BY <1>2, <3>3, StartDeviceStep
    <3>4. CASE ReadCab
      BY <1>2, <3>4, ReadCabStep
    <3>5. CASE ReadCib
      BY <1>2, <3>5, ReadCibStep
    <3>6. CASE EndCab
      BY <1>2, <3>6, EndCabStep
    <3>7. QED
      BY <1>5, <3>1, <3>2, <3>3, <3>4, <3>5, <3>6
  <2>2. QED
    BY <1>4, <2>1
<1>6. CASE CheckZone \/ ReadChunk \/ EndCib
  <2>1. used' = used /\ pc \in EarlyPcs \cup DevicePcs /\ pc' \in EarlyPcs \cup DevicePcs
    <3> USE DEF EarlyPcs, DevicePcs
    <3>1. CASE CheckZone
      BY <1>2, <3>1, CheckZoneStep
    <3>2. CASE ReadChunk
      BY <1>2, <3>2, ReadChunkStep
    <3>3. CASE EndCib
      BY <1>2, <3>3, EndCibStep
    <3>4. QED
      BY <1>6, <3>1, <3>2, <3>3
  <2>2. QED
    BY <1>4, <2>1
<1>7. CASE EndDevice
  <2>1. /\ used' = used /\ pc = "device_end" /\ pc' \in {"device", "queue"}
        /\ \E d \in Devs : at' = [at EXCEPT !.dev = d]
    BY <1>2, <1>7, EndDeviceStep DEF Devs
  <2>2. at.queue = "ip" /\ at \in Place
    BY <1>3, <2>1 DEF PlaceOK, DevicePcs
  <2>3. at'.queue = "ip"
    <3>1. PICK d \in Devs : at' = [at EXCEPT !.dev = d]
      BY <2>1
    <3>2. QED
      BY <2>2, <3>1, MoveDev
  <2>4. None(pc, at) /\ None(pc', at')
    BY <2>1, <2>3 DEF DevicePcs
  <2>5. QED
    BY <1>4, <2>1, <2>4
<1>8. CASE ParseFreeQueueRecord
  <2> DEFINE r == img.fq[at.queue].recs[at.rec]
             u == <<at.queue, "queue", at.rec>>
  <2>1. /\ at \in Place /\ at.queue \in Queues /\ at' \in Place
        /\ at.rec \in 1..Len(img.fq[at.queue].recs)
        /\ at'.queue = at.queue /\ at'.rec = at.rec + 1
        /\ r.paddr \in Address /\ r.length \in Address /\ FqRecordOK(r)
    BY <1>2, <1>8, RecordFacts
  <2>2. /\ pc = "queue" /\ pc' = "queue"
        /\ used' = IF block_in_ip(r.paddr) THEN used ELSE Marked(r.paddr, r.length)
    BY <1>2, <1>8, ParseFreeQueueRecordStep DEF Queue
  <2>3. CASE at.queue = "ip"
    <3>1. used' = used
      BY <2>1, <2>2, <2>3 DEF FqRecordOK
    <3>2. QED
      BY <1>4, <2>1, <2>2, <2>3, <3>1
  <2>4. CASE at.queue \in Devs
    <3>1. ~block_in_ip(r.paddr) /\ CanMark(r.paddr, r.length)
      BY <2>1, <2>4 DEF FqRecordOK, Devs
    <3>2. Use(img, u) = RangeOf(r.paddr, r.length)
      BY DEF Use
    <3>3. /\ OwnDone(img, "queue", at') = OwnDone(img, "queue", at) \cup {u}
          /\ u \notin OwnDone(img, "queue", at)
      BY <1>1, <2>1, <2>4, DoneRecord
    <3> HIDE DEF u, r
    <3>4. Accounted(img, Marked(r.paddr, r.length), OwnDone(img, "queue", at) \cup {u})
      BY <1>1, <1>3, <2>1, <2>2, <3>1, <3>2, <3>3, AddUse
    <3>5. QED
      BY <2>2, <3>1, <3>3, <3>4
  <2>5. QED
    BY <2>1, <2>3, <2>4 DEF Queues, Devs
<1>9. CASE EndQueue
  <2>1. used' = used
    BY <1>2, <1>9, EndQueueStep
  <2>2. /\ at \in Place /\ at' \in Place /\ at.rec > Len(img.fq[at.queue].recs)
        /\ at'.rec = 1 /\ at'.queue = IF at.queue = "ip" THEN "main" ELSE "tier2"
        /\ pc = "queue" /\ pc' = IF at.queue = "tier2" THEN "pool" ELSE "queue"
    BY <1>2, <1>9, QueueEnds
  <2>3. OwnDone(img, pc', at') = OwnDone(img, pc, at)
    BY <1>1, <2>2, DoneQueue
  <2>4. QED
    BY <1>3, <2>1, <2>3
<1>10. CASE StartPool \/ WalkFreeList \/ ReadIpBitmap \/ CompareBitmaps
  <2>1. /\ used' = used /\ pc \in LatePcs \ {"queue"} /\ pc' \in LatePcs \ {"queue"}
        /\ pc \in {"ring", "reserve", "accepted"} <=> pc' \in {"ring", "reserve", "accepted"}
        /\ pc \in {"reserve", "accepted"} <=> pc' \in {"reserve", "accepted"}
    <3> USE DEF LatePcs
    <3>1. CASE StartPool
      BY <1>2, <3>1, StartPoolStep
    <3>2. CASE WalkFreeList
      BY <1>2, <3>2, WalkFreeListStep
    <3>3. CASE ReadIpBitmap
      BY <1>2, <3>3, ReadIpBitmapStep
    <3>4. CASE CompareBitmaps
      BY <1>2, <3>4, CompareBitmapsStep
    <3>5. QED
      BY <1>10, <3>1, <3>2, <3>3, <3>4
  <2>2. OwnDone(img, pc', at') = OwnDone(img, pc, at)
    BY <2>1, DoneSame
  <2>3. QED
    BY <1>3, <2>1, <2>2
<1>11. CASE EndWalk
  <2> DEFINE u == <<"main", "ring", 1>>
  <2>1. pc = "walked" /\ pc' = "ring" /\ CanMark(img.bm_base, img.bm_count) /\ used' = Marked(img.bm_base, img.bm_count)
    BY <1>2, <1>11, EndWalkStep
  <2>2. OwnDone(img, "ring", at') = OwnDone(img, "walked", at) \cup {u} /\ u \notin OwnDone(img, "walked", at)
    BY DoneRing
  <2>3. Use(img, u) = RangeOf(img.bm_base, img.bm_count)
    BY DEF Use
  <2>4. img.bm_base \in Address /\ img.bm_count \in Address
    BY <1>1, AddressTypes
  <2> HIDE DEF u
  <2>5. Accounted(img, Marked(img.bm_base, img.bm_count), OwnDone(img, "walked", at) \cup {u})
    BY <1>1, <1>3, <2>1, <2>2, <2>3, <2>4, AddUse
  <2>6. QED
    BY <2>1, <2>2, <2>5
<1>12. CASE ComparePool
  <2> DEFINE u == <<"main", "pool", 1>>
  <2>1. pc = "ring" /\ pc' = "reserve" /\ CanMark(img.ip_base, img.ip_count) /\ used' = Marked(img.ip_base, img.ip_count)
    BY <1>2, <1>12, ComparePoolStep
  <2>2. OwnDone(img, "reserve", at') = OwnDone(img, "ring", at) \cup {u} /\ u \notin OwnDone(img, "ring", at)
    BY DoneRing
  <2>3. Use(img, u) = RangeOf(img.ip_base, img.ip_count)
    BY DEF Use
  <2>4. img.ip_base \in Address /\ img.ip_count \in Address
    BY <1>1, AddressTypes
  <2> HIDE DEF u
  <2>5. Accounted(img, Marked(img.ip_base, img.ip_count), OwnDone(img, "ring", at) \cup {u})
    BY <1>1, <1>3, <2>1, <2>2, <2>3, <2>4, AddUse
  <2>6. QED
    BY <2>1, <2>2, <2>5
<1>13. CASE UNCHANGED vars
  BY <1>3, <1>13 DEF vars
<1>14. QED
  BY <1>2, <1>5, <1>6, <1>7, <1>8, <1>9, <1>10, <1>11, <1>12, <1>13, PassingSteps

\* The account is kept from the start.
LEMMA MarkStays == Spec => []MarkInv
<1>1. Init => MarkInv
  <2> SUFFICES ASSUME Init PROVE Accounted(img, used, OwnDone(img, pc, at))
    BY DEF MarkInv
  <2>1. pc = "header" /\ used = img.before /\ OnDisk(img)
    BY DEF Init
  <2>2. OwnDone(img, pc, at) = {}
    BY <2>1, NoneYet DEF EarlyPcs
  <2>3. DOMAIN img.before = Devs
    BY <2>1 DEF OnDisk
  <2>4. QED
    BY <2>1, <2>2, <2>3 DEF Accounted
<1>2. PlaceInv /\ PlaceInv' /\ MarkInv /\ [Next]_vars => MarkInv'
  BY MarkNext
<1>3. QED
  BY <1>1, <1>2, PlacesStay, PTL DEF Spec

-----------------------------------------------------------------------------
(* Places in blocks that all have the same number of entries. *)

\* Quotient and remainder.
LEMMA DivPart ==
  ASSUME NEW n \in Nat \ {0}, NEW x \in Nat
  PROVE  x \div n \in Nat /\ x % n \in 0..(n - 1) /\ x = n * (x \div n) + (x % n)
BY Z3

\* A multiple of n is at least n below the next one.
LEMMA NextMultiple ==
  ASSUME NEW n \in Nat \ {0}, NEW a \in Nat, NEW b \in Nat, a < b
  PROVE  n * a + n <= n * b
<1>1. b - a - 1 \in Nat /\ b = a + 1 + (b - a - 1)
  OBVIOUS
<1>2. PICK c \in Nat : b = a + 1 + c
  BY <1>1
<1>3. n * (a + 1 + c) = n * a + n + n * c
  OBVIOUS
<1>4. n * c \in Nat /\ n * a \in Nat
  OBVIOUS
<1>5. QED
  BY <1>2, <1>3, <1>4

\* Entry r of block q.
LEMMA Quotient ==
  ASSUME NEW n \in Nat \ {0}, NEW q \in Nat, NEW r \in 0..(n - 1)
  PROVE  (n * q + r) \div n = q /\ (n * q + r) % n = r
<1> DEFINE x == n * q + r
           e == x \div n
           s == x % n
<1>1. x \in Nat /\ n * q \in Nat /\ x = n * q + r
  OBVIOUS
<1>2. e \in Nat /\ s \in 0..(n - 1) /\ x = n * e + s
  BY <1>1, DivPart
<1>3. n * e \in Nat
  BY <1>2
<1> HIDE DEF x, e, s
<1>4. ~(e < q)
  BY <1>1, <1>2, <1>3, NextMultiple
<1>5. ~(q < e)
  BY <1>1, <1>2, <1>3, NextMultiple
<1>6. e = q
  BY <1>2, <1>4, <1>5
<1>7. s = r
  BY <1>1, <1>2, <1>6
<1>8. QED
  BY <1>6, <1>7 DEF e, s, x

\* The blocks that so many entries need.
LEMMA CeilFacts ==
  ASSUME NEW n \in Nat \ {0}, NEW a \in Nat
  PROVE  /\ CeilDiv(a, n) \in Nat /\ a <= n * CeilDiv(a, n)
         /\ a > 0 => CeilDiv(a, n) > 0 /\ n * (CeilDiv(a, n) - 1) < a
         /\ a = 0 => CeilDiv(a, n) = 0
<1> DEFINE x == a + n - 1
           c == x \div n
           s == x % n
<1>1. x \in Nat /\ x = a + n - 1
  OBVIOUS
<1>2. c \in Nat /\ s \in 0..(n - 1) /\ x = n * c + s
  BY <1>1, DivPart
<1>3. c = CeilDiv(a, n)
  BY DEF CeilDiv
<1> HIDE DEF x, c, s
<1>4. n * c \in Nat /\ n * (c - 1) = n * c - n /\ n * 0 = 0
  BY <1>2
<1>5. a <= n * c /\ n * c - n < a
  BY <1>1, <1>2, <1>4
<1>6. a > 0 => c > 0
  BY <1>2, <1>4, <1>5
<1>7. a = 0 => ~(0 < c)
  BY <1>1, <1>2, <1>4, NextMultiple
<1>8. QED
  BY <1>2, <1>3, <1>4, <1>5, <1>6, <1>7

-----------------------------------------------------------------------------
(* The chunk-info blocks and the chunks of the devices. *)

\* Cib address block i of a device, its chunk-info block i and its chunk k, as
\* functions of the image.
CabAt(m, d, i) == m.cab[m.dev[d].addr[i + 1]]
CibAddrAt(m, d, i) ==
  IF m.dev[d].cabs > 0 THEN CabAt(m, d, i \div CibsPerCab).cibs[(i % CibsPerCab) + 1]
  ELSE m.dev[d].addr[i + 1]
CibAt(m, d, i) == m.cib[CibAddrAt(m, d, i)]
ChunkAt(m, d, k) == CibAt(m, d, k \div ChunksPerCib).chunks[(k % ChunksPerCib) + 1]
BitsOf(m, c) == IF c.bitmap = 0 \/ c.bitmap \notin DOMAIN m.bitmap THEN {} ELSE m.bitmap[c.bitmap]
FreeOf(m, c) == (c.count - Cardinality(BitsOf(m, c))) % CountMod
BitsAt(m, d, k) == {k * BlocksPerChunk + b : b \in BitsOf(m, ChunkAt(m, d, k))}

\* What the first n blocks of a kind hold, if all of them but the last are full.
Listing(m, d, n) == IF n = 0 THEN 0 ELSE CibsPerCab * (n - 1) + Len(CabAt(m, d, n - 1).cibs)
Covered(m, d, n) == IF n = 0 THEN 0 ELSE ChunksPerCib * (n - 1) + Len(CibAt(m, d, n - 1).chunks)
Spanned(m, d, n) == IF n = 0 THEN 0 ELSE BlocksPerChunk * (n - 1) + ChunkAt(m, d, n - 1).count

\* How many of each kind were read.
Index(m, a) == (IF m.dev[a.dev].cabs > 0 THEN CibsPerCab * (a.cab - 1) ELSE 0) + a.cib - 1
Now(p, a, d) == p \in DevicePcs \ {"device"} /\ a.dev = d
After(p, a, d) == p \in LatePcs \/ (p \in DevicePcs /\ d = "main" /\ a.dev = "tier2")
CabsRead(m, p, a, d) ==
  IF After(p, a, d) THEN m.dev[d].cabs
  ELSE IF ~Now(p, a, d) \/ m.dev[d].cabs = 0 THEN 0
  ELSE IF p = "cab" THEN a.cab - 1 ELSE a.cab
CibsRead(m, p, a, d) ==
  IF After(p, a, d) THEN m.dev[d].cibs
  ELSE IF ~Now(p, a, d) THEN 0
  ELSE IF p = "device_end" THEN m.dev[d].cibs
  ELSE IF p = "cab" THEN CibsPerCab * (a.cab - 1)
  ELSE IF p = "cib" THEN Index(m, a) ELSE Index(m, a) + 1
ChunksRead(m, p, a, d) ==
  IF p = "chunk" /\ Now(p, a, d) THEN Covered(m, d, Index(m, a)) + a.chunk - 1
  ELSE Covered(m, d, CibsRead(m, p, a, d))

\* The blocks read are where they should be, and all but the last are full.
CabsFull(m, d, C) ==
  /\ C <= m.dev[d].cabs
  /\ \A i \in 0..(C - 1) : /\ i + 1 <= Len(m.dev[d].addr) /\ m.dev[d].addr[i + 1] \in DOMAIN m.cab
                           /\ Len(CabAt(m, d, i).cibs) \in 1..CibsPerCab
                           /\ i + 1 < m.dev[d].cabs => Len(CabAt(m, d, i).cibs) = CibsPerCab
CibsFull(m, d, I) ==
  /\ I <= m.dev[d].cibs
  /\ \A i \in 0..(I - 1) : /\ m.dev[d].cabs = 0 => i + 1 <= Len(m.dev[d].addr)
                           /\ CibAddrAt(m, d, i) \in DOMAIN m.cib
                           /\ Len(CibAt(m, d, i).chunks) \in 1..ChunksPerCib
                           /\ i + 1 < m.dev[d].cibs => Len(CibAt(m, d, i).chunks) = ChunksPerCib
FinalChunk(m, d, k) == k >= ChunksPerCib * (m.dev[d].cibs - 1) /\ k + 1 = Covered(m, d, m.dev[d].cibs)
ChunksFull(m, d, K) ==
  \A k \in 0..(K - 1) : /\ ChunkAt(m, d, k) \in ChunkInfo
                        /\ ChunkAt(m, d, k).addr = k * BlocksPerChunk
                        /\ ChunkAt(m, d, k).count \in 1..BlocksPerChunk
                        /\ ~FinalChunk(m, d, k) => ChunkAt(m, d, k).count = BlocksPerChunk
                        /\ ChunkAt(m, d, k).free = FreeOf(m, ChunkAt(m, d, k))

\* What was counted of a device, with so many of each kind read.
Frees(m, d) == [k \in Nat |-> ChunkAt(m, d, k).free]
Counted(m, d, C, I, K, me, bi) ==
  /\ me.cibs = Listing(m, d, C) /\ me.chunks = Covered(m, d, I)
  /\ me.blocks = Spanned(m, d, K) /\ me.free = Total(Frees(m, d), 0..(K - 1))
  /\ bi = UNION {BitsAt(m, d, k) : k \in 0..(K - 1)}

\* The last cib address block has not as many entries as are left: the counts
\* are reported at the end of the device, and until then the places of chunks
\* are not those that they should have.
Doomed(m, p, a, me) ==
  /\ p \in DevicePcs \ {"device", "cab"}
  /\ m.dev[a.dev].cabs > 0 /\ a.cab = m.dev[a.dev].cabs /\ me[a.dev].cibs # m.dev[a.dev].cibs

\* The places in the loops over the blocks of a device.
SpotOK(m, p, a) ==
  /\ DeviceOK(m.dev[a.dev], m.max[a.dev])
  /\ m.dev[a.dev].cabs > 0 => a.cab <= m.dev[a.dev].cabs
  /\ p = "cab" => m.dev[a.dev].cabs > 0
  /\ p \in {"cib", "chunk", "cib_end", "cab_end"} =>
       IF m.dev[a.dev].cabs > 0 THEN a.cib <= Len(CabAt(m, a.dev, a.cab - 1).cibs)
       ELSE a.cib <= m.dev[a.dev].cibs
  /\ p = "chunk" => a.chunk <= Len(CibAt(m, a.dev, Index(m, a)).chunks)
  /\ p = "cib_end" => a.chunk = Len(CibAt(m, a.dev, Index(m, a)).chunks)
  /\ p = "cab_end" => m.dev[a.dev].cabs > 0 /\ a.cib = Len(CabAt(m, a.dev, a.cab - 1).cibs)
  /\ p = "device_end" /\ m.dev[a.dev].cabs > 0 => a.cab = m.dev[a.dev].cabs

\* A device that was read, and the one that is being read.
DevOK(m, p, a, d, me, bi) ==
  /\ CabsFull(m, d, CabsRead(m, p, a, d)) /\ CibsFull(m, d, CibsRead(m, p, a, d))
  /\ ChunksFull(m, d, ChunksRead(m, p, a, d))
  /\ Counted(m, d, CabsRead(m, p, a, d), CibsRead(m, p, a, d), ChunksRead(m, p, a, d), me[d], bi[d])
  /\ After(p, a, d) => /\ DeviceOK(m.dev[d], m.max[d])
                       /\ m.dev[d].cabs > 0 => me[d].cibs = m.dev[d].cibs
                       /\ me[d].chunks = m.dev[d].chunks /\ me[d].blocks = m.dev[d].blocks
                       /\ me[d].free = m.dev[d].free
IsMeas(me) == DOMAIN me = Devs /\ \A d \in Devs : DOMAIN me[d] = {"chunks", "cibs", "blocks", "free"}
DevInv ==
  pc \notin Bad => /\ IsMeas(meas) /\ DOMAIN bits = Devs
                   /\ Doomed(img, pc, at, meas) \/
                        /\ \A d \in Devs : DevOK(img, pc, at, d, meas, bits)
                        /\ pc \in DevicePcs \ {"device"} =>
                             SpotOK(img, pc, at) /\ start = meas[at.dev].blocks
                   /\ pc \in LatePcs => img.block_count = img.dev["main"].blocks + img.dev["tier2"].blocks

\* Capacities are positive.
LEMMA Capacities ==
  BlocksPerChunk \in Nat \ {0} /\ ChunksPerCib \in Nat \ {0} /\ CibsPerCab \in Nat \ {0}
BY SpacemanAssumption DEF SpacemanAssumption

\* A device has the blocks that it needs.
LEMMA DeviceCounts ==
  ASSUME OnDisk(img), NEW d \in Devs, DeviceOK(img.dev[d], img.max[d])
  PROVE  LET r == img.dev[d]
         IN  /\ r.blocks \in Nat /\ r.chunks \in Nat /\ r.cibs \in Nat /\ r.cabs \in Nat
             /\ r.cabs > 0 => r.cibs > 0 /\ r.cabs = CeilDiv(r.cibs, CibsPerCab)
                              /\ CibsPerCab * (r.cabs - 1) < r.cibs /\ r.cibs <= CibsPerCab * r.cabs
             /\ r.cibs > 0 => r.chunks > 0 /\ ChunksPerCib * (r.cibs - 1) < r.chunks
                              /\ r.chunks <= ChunksPerCib * r.cibs
             /\ r.chunks > 0 => r.cibs > 0 /\ r.blocks > 0 /\ BlocksPerChunk * (r.chunks - 1) < r.blocks
                                /\ r.blocks <= BlocksPerChunk * r.chunks
             /\ r.blocks > 0 => r.chunks > 0
<1> DEFINE r == img.dev[d]
<1>1. r.blocks \in Nat /\ r.chunks \in Nat /\ r.cibs \in Nat /\ r.cabs \in Nat
  BY DiskTypes
<1>2. r.chunks = CeilDiv(r.blocks, BlocksPerChunk) /\ r.cibs = CeilDiv(r.chunks, ChunksPerCib)
      /\ r.cabs = CabsFor(r.cibs)
  BY DEF DeviceOK
<1>3. r.cabs > 0 => r.cabs = CeilDiv(r.cibs, CibsPerCab)
  BY <1>2 DEF CabsFor
<1>4. r.blocks <= BlocksPerChunk * r.chunks /\ (r.blocks = 0 => r.chunks = 0)
      /\ (r.blocks > 0 => r.chunks > 0 /\ BlocksPerChunk * (r.chunks - 1) < r.blocks)
  BY <1>1, <1>2, Capacities, CeilFacts
<1>5. r.chunks <= ChunksPerCib * r.cibs /\ (r.chunks = 0 => r.cibs = 0)
      /\ (r.chunks > 0 => r.cibs > 0 /\ ChunksPerCib * (r.cibs - 1) < r.chunks)
  BY <1>1, <1>2, Capacities, CeilFacts
<1> DEFINE n == CeilDiv(r.cibs, CibsPerCab)
<1>6. r.cibs <= CibsPerCab * n /\ (r.cibs = 0 => n = 0)
      /\ (r.cibs > 0 => n > 0 /\ CibsPerCab * (n - 1) < r.cibs)
  BY <1>1, Capacities, CeilFacts
<1> HIDE DEF n, r
<1>7. r.cabs > 0 => r.cabs = n
  BY <1>3 DEF n
<1>8. r.cabs > 0 => r.cibs > 0 /\ CibsPerCab * (r.cabs - 1) < r.cibs /\ r.cibs <= CibsPerCab * r.cabs
  BY <1>1, <1>6, <1>7
<1>9. r.blocks = 0 \/ r.blocks > 0
  BY <1>1
<1>10. r.chunks = 0 \/ r.chunks > 0
  BY <1>1
<1>11. QED
  BY <1>1, <1>3, <1>4, <1>5, <1>8, <1>9, <1>10 DEF r

\* A cib address block has no more entries than are left for it.
LEMMA CabRoom ==
  ASSUME OnDisk(img), NEW d \in Devs, DeviceOK(img.dev[d], img.max[d]),
         NEW c \in 1..img.dev[d].cabs,
         Len(CabAt(img, d, c - 1).cibs) \in 1..CibsPerCab,
         c < img.dev[d].cabs => Len(CabAt(img, d, c - 1).cibs) = CibsPerCab,
         c = img.dev[d].cabs => Listing(img, d, c) = img.dev[d].cibs
  PROVE  /\ CibsPerCab * (c - 1) \in Nat
         /\ CibsPerCab * (c - 1) + Len(CabAt(img, d, c - 1).cibs) = Listing(img, d, c)
         /\ Listing(img, d, c) <= img.dev[d].cibs
         /\ c < img.dev[d].cabs => Listing(img, d, c) = CibsPerCab * c /\ CibsPerCab * c < img.dev[d].cibs
<1> DEFINE n == img.dev[d].cabs
           k == img.dev[d].cibs
           len == Len(CabAt(img, d, c - 1).cibs)
<1>1. n \in Nat /\ k \in Nat /\ CibsPerCab \in Nat \ {0}
  BY DiskTypes, Capacities
<1>2. c \in Nat /\ c >= 1 /\ c <= n /\ c - 1 \in Nat /\ n > 0 /\ n - 1 \in Nat
  BY <1>1
<1>3. CibsPerCab * (n - 1) < k
  BY <1>2, DeviceCounts
<1>4. Listing(img, d, c) = CibsPerCab * (c - 1) + len
  BY <1>2 DEF Listing
<1>5. len \in 1..CibsPerCab /\ (c < n => len = CibsPerCab) /\ (c = n => Listing(img, d, c) = k)
  OBVIOUS
<1> HIDE DEF n, k, len
<1>6. CibsPerCab * (c - 1) \in Nat /\ CibsPerCab * (c - 1) = CibsPerCab * c - CibsPerCab
      /\ CibsPerCab * c \in Nat /\ CibsPerCab * (n - 1) \in Nat
  BY <1>1, <1>2
<1>7. c < n => CibsPerCab * (c - 1) + CibsPerCab <= CibsPerCab * (n - 1)
  BY <1>1, <1>2, NextMultiple
<1>8. c < n => Listing(img, d, c) = CibsPerCab * c /\ CibsPerCab * c < k
  BY <1>1, <1>3, <1>4, <1>5, <1>6, <1>7
<1>9. Listing(img, d, c) <= k
  BY <1>1, <1>2, <1>5, <1>6, <1>8
<1>10. QED
  BY <1>4, <1>6, <1>8, <1>9 DEF len, n, k

\* The chunk-info block at a place.
LEMMA CibPlace ==
  ASSUME OnDisk(img), NEW a \in Place, img.dev[a.dev].cabs > 0 => a.cib <= CibsPerCab
  PROVE  CibAddrAt(img, a.dev, Index(img, a)) =
           IF img.dev[a.dev].cabs > 0 THEN CabAt(img, a.dev, a.cab - 1).cibs[a.cib]
           ELSE img.dev[a.dev].addr[a.cib]
<1>1. a.cab - 1 \in Nat /\ a.cib - 1 \in Nat /\ a.cib \in Nat /\ CibsPerCab \in Nat \ {0}
  BY Capacities DEF Place, Pos
<1>2. CASE img.dev[a.dev].cabs > 0
  <2>1. Index(img, a) = CibsPerCab * (a.cab - 1) + (a.cib - 1)
    <3>1. CibsPerCab * (a.cab - 1) \in Nat
      BY <1>1
    <3>2. QED
      BY <1>1, <1>2, <3>1 DEF Index
  <2>2. a.cib - 1 \in 0..(CibsPerCab - 1)
    BY <1>1, <1>2
  <2>3. Index(img, a) \div CibsPerCab = a.cab - 1 /\ Index(img, a) % CibsPerCab = a.cib - 1
    <3>1. /\ (CibsPerCab * (a.cab - 1) + (a.cib - 1)) \div CibsPerCab = a.cab - 1
          /\ (CibsPerCab * (a.cab - 1) + (a.cib - 1)) % CibsPerCab = a.cib - 1
      BY <1>1, <2>2, Quotient
    <3>2. QED
      BY <2>1, <3>1
  <2>4. (a.cib - 1) + 1 = a.cib
    BY <1>1
  <2>5. QED
    BY <1>2, <2>3, <2>4 DEF CibAddrAt
<1>3. CASE ~(img.dev[a.dev].cabs > 0)
  <2>1. Index(img, a) + 1 = a.cib
    BY <1>1, <1>3 DEF Index
  <2>2. QED
    BY <1>3, <2>1 DEF CibAddrAt
<1>4. QED
  BY <1>2, <1>3

\* The chunk at a place.
LEMMA ChunkPlace ==
  ASSUME NEW m, NEW d, NEW i \in Nat, NEW c \in 1..ChunksPerCib
  PROVE  /\ ChunkAt(m, d, ChunksPerCib * i + c - 1) = CibAt(m, d, i).chunks[c]
         /\ ChunksPerCib * i + c - 1 \in Nat
<1>1. ChunksPerCib \in Nat \ {0} /\ c \in Nat /\ c - 1 \in 0..(ChunksPerCib - 1) /\ (c - 1) + 1 = c
  BY Capacities
<1>2. ChunksPerCib * i \in Nat
  BY <1>1
<1>3. ChunksPerCib * i + c - 1 = ChunksPerCib * i + (c - 1)
  BY <1>1, <1>2
<1>4. (ChunksPerCib * i + (c - 1)) \div ChunksPerCib = i /\ (ChunksPerCib * i + (c - 1)) % ChunksPerCib = c - 1
  BY <1>1, Quotient
<1>5. QED
  BY <1>1, <1>2, <1>3, <1>4 DEF ChunkAt

\* What is known at a place of the loop over chunk-info blocks.
LEMMA SpotFacts ==
  ASSUME PlaceInv, DevInv, pc \in {"cib", "chunk", "cib_end", "cab_end"}, ~Doomed(img, pc, at, meas)
  PROVE  /\ OnDisk(img) /\ at \in Place /\ at.dev \in Devs /\ SpotOK(img, pc, at)
         /\ \A d \in Devs : DevOK(img, pc, at, d, meas, bits)
         /\ Now(pc, at, at.dev) /\ ~After(pc, at, at.dev)
         /\ Raw.cabs \in Nat /\ Raw.cibs \in Nat
         /\ Raw.cabs > 0 => /\ at.cab \in 1..Raw.cabs /\ Cab = CabAt(img, at.dev, at.cab - 1)
                            /\ Len(Cab.cibs) \in 1..CibsPerCab /\ at.cib \in 1..Len(Cab.cibs)
                            /\ CibsPerCab * (at.cab - 1) + Len(Cab.cibs) <= Raw.cibs
                            /\ CibsPerCab * (at.cab - 1) \in Nat
                            /\ at.cab < Raw.cabs => /\ Len(Cab.cibs) = CibsPerCab
                                                    /\ CibsPerCab * (at.cab - 1) + CibsPerCab = CibsPerCab * at.cab
                            /\ at.cab = Raw.cabs => CibsPerCab * (at.cab - 1) + Len(Cab.cibs) = Raw.cibs
         /\ CibIndex = Index(img, at) /\ Index(img, at) \in Nat /\ Index(img, at) < Raw.cibs
         /\ CibList[at.cib] = CibAddrAt(img, at.dev, Index(img, at))
         /\ Cib = CibAt(img, at.dev, Index(img, at))
         /\ at.cib \in Nat /\ at.cib <= CibTotal
<1> DEFINE d == at.dev
           cab == CabAt(img, at.dev, at.cab - 1)
<1>1. /\ OnDisk(img) /\ at \in Place /\ d \in Devs /\ SpotOK(img, pc, at)
      /\ \A e \in Devs : DevOK(img, pc, at, e, meas, bits)
  <2>1. pc \notin Bad /\ pc \in DevicePcs \ {"device"}
    BY DEF Bad, DevicePcs
  <2>2. OnDisk(img) /\ at \in Place
    BY <2>1 DEF PlaceInv, PlaceOK
  <2>3. SpotOK(img, pc, at) /\ \A e \in Devs : DevOK(img, pc, at, e, meas, bits)
    BY <2>1 DEF DevInv
  <2>4. QED
    BY <2>2, <2>3 DEF Place
<1>2. Now(pc, at, d) /\ ~After(pc, at, d)
  BY <1>1 DEF Now, After, DevicePcs, LatePcs, Devs
<1>3. Raw.cabs \in Nat /\ Raw.cibs \in Nat /\ Raw = img.dev[d]
  BY <1>1, DiskTypes DEF Raw
<1>4. at.cab \in Nat /\ at.cab - 1 \in Nat /\ at.cib \in Nat /\ at.cib >= 1 /\ (at.cab - 1) + 1 = at.cab
  <2>1. at.cab \in Pos /\ at.cib \in Pos
    BY <1>1 DEF Place
  <2>2. QED
    BY <2>1 DEF Pos
<1>5. CASE Raw.cabs > 0
  <2>1. at.cab \in 1..Raw.cabs /\ at.cib <= Len(cab.cibs)
    BY <1>1, <1>3, <1>4, <1>5 DEF SpotOK
  <2>2. Cab = cab
    BY <1>3, <1>4 DEF Cab, CabAt
  <2>3. CabsRead(img, pc, at, d) = at.cab
    BY <1>2, <1>3, <1>5 DEF CabsRead
  <2>4. CabsFull(img, d, at.cab) /\ meas[d].cibs = Listing(img, d, at.cab)
    BY <1>1, <2>3 DEF DevOK, Counted
  <2>5. Len(cab.cibs) \in 1..CibsPerCab /\ (at.cab < Raw.cabs => Len(cab.cibs) = CibsPerCab)
    <3>1. at.cab - 1 \in 0..(at.cab - 1)
      BY <1>4
    <3>2. QED
      BY <1>3, <1>4, <2>4, <3>1 DEF CabsFull
  <2>6. at.cab = Raw.cabs => Listing(img, d, at.cab) = Raw.cibs
    BY <1>3, <1>5, <2>4 DEF Doomed, DevicePcs
  <2>7. DeviceOK(img.dev[d], img.max[d])
    BY <1>1 DEF SpotOK
  <2>8. /\ CibsPerCab * (at.cab - 1) \in Nat
        /\ CibsPerCab * (at.cab - 1) + Len(cab.cibs) = Listing(img, d, at.cab)
        /\ Listing(img, d, at.cab) <= Raw.cibs
        /\ at.cab < Raw.cabs => Listing(img, d, at.cab) = CibsPerCab * at.cab
    BY <1>1, <1>3, <2>1, <2>5, <2>6, <2>7, CabRoom
  <2>9. CibList = cab.cibs /\ CibTotal = Len(cab.cibs)
    BY <1>5, <2>2 DEF CibList, CibTotal
  <2>10. Index(img, at) = CibsPerCab * (at.cab - 1) + at.cib - 1
    BY <1>3, <1>5 DEF Index
  <2>11. CibIndex = Index(img, at)
    BY <1>3, <1>5 DEF CibIndex, Index
  <2>12. Index(img, at) \in Nat /\ Index(img, at) < Raw.cibs
    <3> DEFINE f == CibsPerCab * (at.cab - 1)
               n == Len(cab.cibs)
    <3>1. n \in Nat /\ f \in Nat /\ f + n <= Raw.cibs /\ at.cib <= n /\ Index(img, at) = f + at.cib - 1
      BY <2>1, <2>5, <2>8, <2>10, Capacities
    <3> HIDE DEF f, n
    <3>2. QED
      BY <1>3, <1>4, <3>1
  <2>13. at.cib <= CibsPerCab
    BY <1>4, <2>1, <2>5, Capacities
  <2>14. CibAddrAt(img, d, Index(img, at)) = cab.cibs[at.cib]
    BY <1>1, <1>3, <1>5, <2>13, CibPlace
  <2>15. at.cib \in 1..Len(cab.cibs)
    BY <1>4, <2>1, <2>5, Capacities
  <2>16. Cib = CibAt(img, d, Index(img, at))
    BY <2>9, <2>14 DEF Cib, CibAt
  <2> HIDE DEF cab
  <2>17. /\ at.cab < Raw.cabs => CibsPerCab * (at.cab - 1) + CibsPerCab = CibsPerCab * at.cab
         /\ at.cab = Raw.cabs => CibsPerCab * (at.cab - 1) + Len(cab.cibs) = Raw.cibs
         /\ CibsPerCab * (at.cab - 1) + Len(cab.cibs) <= Raw.cibs
    BY <2>5, <2>6, <2>8
  <2>18. QED
    BY <1>1, <1>2, <1>3, <1>4, <2>1, <2>2, <2>5, <2>8, <2>9, <2>11, <2>12, <2>14, <2>15, <2>16, <2>17 DEF cab
<1>6. CASE ~(Raw.cabs > 0)
  <2>1. at.cib <= Raw.cibs
    BY <1>1, <1>3, <1>6 DEF SpotOK
  <2>2. CibList = Raw.addr /\ CibTotal = Raw.cibs
    BY <1>6 DEF CibList, CibTotal
  <2>3. Index(img, at) = 0 + at.cib - 1 /\ CibIndex = Index(img, at)
    BY <1>3, <1>6 DEF CibIndex, Index
  <2>4. CibAddrAt(img, d, Index(img, at)) = Raw.addr[at.cib]
    BY <1>1, <1>3, <1>6, CibPlace
  <2>5. Index(img, at) \in Nat /\ Index(img, at) < Raw.cibs
    BY <1>3, <1>4, <2>1, <2>3
  <2>6. Cib = CibAt(img, d, Index(img, at))
    BY <2>2, <2>4 DEF Cib, CibAt
  <2>7. QED
    BY <1>1, <1>2, <1>3, <1>4, <1>6, <2>1, <2>2, <2>3, <2>4, <2>5, <2>6
<1>7. QED
  BY <1>5, <1>6

\* Adding to the counts of a device: chunk-info blocks.
LEMMA AddCibs ==
  ASSUME NEW me, IsMeas(me), NEW d \in Devs, NEW x, NEW e, e = [me EXCEPT ![d].cibs = x]
  PROVE  /\ IsMeas(e) /\ \A f \in Devs \ {d} : e[f] = me[f]
         /\ e[d].cibs = x /\ e[d].chunks = me[d].chunks /\ e[d].blocks = me[d].blocks /\ e[d].free = me[d].free
BY DEF IsMeas

\* Adding chunks.
LEMMA AddChunks ==
  ASSUME NEW me, IsMeas(me), NEW d \in Devs, NEW x, NEW e, e = [me EXCEPT ![d].chunks = x]
  PROVE  /\ IsMeas(e) /\ \A f \in Devs \ {d} : e[f] = me[f]
         /\ e[d].cibs = me[d].cibs /\ e[d].chunks = x /\ e[d].blocks = me[d].blocks /\ e[d].free = me[d].free
BY DEF IsMeas

\* Adding blocks and free blocks.
LEMMA AddBlocks ==
  ASSUME NEW me, IsMeas(me), NEW d \in Devs, NEW x, NEW y, NEW e,
         e = [me EXCEPT ![d].blocks = @ + x, ![d].free = @ + y]
  PROVE  /\ IsMeas(e) /\ \A f \in Devs \ {d} : e[f] = me[f]
         /\ e[d].cibs = me[d].cibs /\ e[d].chunks = me[d].chunks
         /\ e[d].blocks = me[d].blocks + x /\ e[d].free = me[d].free + y
BY DEF IsMeas

\* Where each action begins.
LEMMA Guards ==
  /\ (ReadHeader => pc = "header")
  /\ (CheckZone => pc = "zone")
  /\ (CheckCounts => pc = "counts")
  /\ (StartDevice => pc = "device")
  /\ (ReadCab => pc = "cab")
  /\ (ReadCib => pc = "cib")
  /\ (ReadChunk => pc = "chunk")
  /\ (EndCib => pc = "cib_end")
  /\ (EndCab => pc = "cab_end")
  /\ (EndDevice => pc = "device_end")
  /\ (ParseFreeQueueRecord => pc = "queue")
  /\ (EndQueue => pc = "queue")
  /\ (StartPool => pc = "pool")
  /\ (WalkFreeList => pc = "walk")
  /\ (EndWalk => pc = "walked")
  /\ (ReadIpBitmap => pc = "ring")
  /\ (ComparePool => pc = "ring")
  /\ (CompareBitmaps => pc = "reserve")
<1>1. ReadHeader => pc = "header"
  BY DEF ReadHeader
<1>2. CheckZone => pc = "zone"
  BY DEF CheckZone
<1>3. CheckCounts => pc = "counts"
  BY DEF CheckCounts
<1>4. StartDevice => pc = "device"
  BY DEF StartDevice
<1>5. ReadCab => pc = "cab"
  BY DEF ReadCab
<1>6. ReadCib => pc = "cib"
  BY DEF ReadCib
<1>7. ReadChunk => pc = "chunk"
  BY DEF ReadChunk
<1>8. EndCib => pc = "cib_end"
  BY DEF EndCib
<1>9. EndCab => pc = "cab_end"
  BY DEF EndCab
<1>10. EndDevice => pc = "device_end"
  BY DEF EndDevice
<1>11. ParseFreeQueueRecord => pc = "queue"
  BY DEF ParseFreeQueueRecord
<1>12. EndQueue => pc = "queue"
  BY DEF EndQueue
<1>13. StartPool => pc = "pool"
  BY DEF StartPool
<1>14. WalkFreeList => pc = "walk"
  BY DEF WalkFreeList
<1>15. EndWalk => pc = "walked"
  BY DEF EndWalk
<1>16. ReadIpBitmap => pc = "ring"
  BY DEF ReadIpBitmap
<1>17. ComparePool => pc = "ring"
  BY DEF ComparePool
<1>18. CompareBitmaps => pc = "reserve"
  BY DEF CompareBitmaps
<1>19. QED
  BY <1>1, <1>2, <1>3, <1>4, <1>5, <1>6, <1>7, <1>8, <1>9, <1>10, <1>11, <1>12, <1>13, <1>14, <1>15, <1>16, <1>17, <1>18

\* The steps that read nothing of the devices.
LEMMA OtherSteps ==
  ASSUME [Next]_vars, pc' \notin Bad, ~ReadCab, ~ReadCib, ~ReadChunk
  PROVE  meas' = meas /\ bits' = bits
<1>1. CASE ReadHeader
  BY <1>1, ReadHeaderStep
<1>2. CASE CheckZone
  BY <1>2, CheckZoneStep
<1>3. CASE CheckCounts
  BY <1>3, CheckCountsStep
<1>4. CASE StartDevice
  BY <1>4, StartDeviceStep
<1>5. CASE EndCib
  BY <1>5, EndCibStep
<1>6. CASE EndCab
  BY <1>6, EndCabStep
<1>7. CASE EndDevice
  BY <1>7, EndDeviceStep
<1>8. CASE ParseFreeQueueRecord
  BY <1>8, ParseFreeQueueRecordStep
<1>9. CASE EndQueue
  BY <1>9, EndQueueStep
<1>10. CASE StartPool
  BY <1>10, StartPoolStep
<1>11. CASE WalkFreeList
  BY <1>11, WalkFreeListStep
<1>12. CASE EndWalk
  BY <1>12, EndWalkStep
<1>13. CASE ReadIpBitmap
  BY <1>13, ReadIpBitmapStep
<1>14. CASE ComparePool
  BY <1>14, ComparePoolStep
<1>15. CASE CompareBitmaps
  BY <1>15, CompareBitmapsStep
<1>16. CASE UNCHANGED vars
  BY <1>16 DEF vars
<1>17. QED
  BY <1>1, <1>2, <1>3, <1>4, <1>5, <1>6, <1>7, <1>8, <1>9, <1>10, <1>11, <1>12, <1>13, <1>14, <1>15, <1>16, PassingSteps

\* Counts stay records of counts.
LEMMA DeviceTypes ==
  ASSUME PlaceInv, DevInv, [Next]_vars, pc' \notin Bad
  PROVE  IsMeas(meas') /\ DOMAIN bits' = Devs
<1>1. IsMeas(meas) /\ DOMAIN bits = Devs /\ at.dev \in Devs
  BY BadStays DEF DevInv, PlaceInv, PlaceOK, Place
<1>2. CASE ReadCab
  <2>1. meas' = [meas EXCEPT ![at.dev].cibs = meas[at.dev].cibs + Len(Cab.cibs)] /\ bits' = bits
    BY <1>2, ReadCabStep
  <2>2. QED
    BY <1>1, <2>1, AddCibs
<1>3. CASE ReadCib
  <2>1. meas' = [meas EXCEPT ![at.dev].chunks = meas[at.dev].chunks + Len(Cib.chunks)] /\ bits' = bits
    BY <1>3, ReadCibStep
  <2>2. QED
    BY <1>1, <2>1, AddChunks
<1>4. CASE ReadChunk
  <2>1. PICK x, y : meas' = [meas EXCEPT ![at.dev].blocks = @ + x, ![at.dev].free = @ + y]
    BY <1>4, ReadChunkStep
  <2>2. PICK S : bits' = [bits EXCEPT ![at.dev] = S]
    BY <1>4, ReadChunkStep
  <2>3. IsMeas(meas')
    BY <1>1, <2>1 DEF IsMeas
  <2>4. QED
    BY <1>1, <2>2, <2>3
<1>5. QED
  BY <1>1, <1>2, <1>3, <1>4, OtherSteps

\* A wrong number of chunk-info blocks is reported.
LEMMA DoomedStays ==
  ASSUME PlaceInv, DevInv, [Next]_vars, pc' \notin Bad, Doomed(img, pc, at, meas)
  PROVE  Doomed(img, pc', at', meas')
<1>1. IsMeas(meas) /\ at \in Place /\ at.dev \in Devs
  BY BadStays DEF DevInv, PlaceInv, PlaceOK, Place
<1>2. /\ pc \in {"cib", "chunk", "cib_end", "cab_end", "device_end"}
      /\ Raw.cabs > 0 /\ at.cab = Raw.cabs /\ meas[at.dev].cibs # Raw.cibs
  BY DEF Doomed, DevicePcs, Raw
<1>3. SUFFICES /\ pc' \in {"cib", "chunk", "cib_end", "cab_end", "device_end"}
               /\ at'.dev = at.dev /\ at'.cab = at.cab /\ meas'[at.dev].cibs = meas[at.dev].cibs
  BY <1>2 DEF Doomed, DevicePcs, Raw
<1>4. CASE ReadCib
  <2>1. /\ meas' = [meas EXCEPT ![at.dev].chunks = meas[at.dev].chunks + Len(Cib.chunks)]
        /\ at' = [at EXCEPT !.chunk = 1] /\ pc' = "chunk"
    BY <1>4, ReadCibStep
  <2>2. meas'[at.dev].cibs = meas[at.dev].cibs
    BY <1>1, <2>1, AddChunks
  <2>3. at'.dev = at.dev /\ at'.cab = at.cab
    BY <1>1, <2>1, MoveChunk DEF Pos
  <2>4. QED
    BY <2>1, <2>2, <2>3
<1>5. CASE ReadChunk
  <2>1. PICK x, y : meas' = [meas EXCEPT ![at.dev].blocks = @ + x, ![at.dev].free = @ + y]
    BY <1>5, ReadChunkStep
  <2>2. meas'[at.dev].cibs = meas[at.dev].cibs
    BY <1>1, <2>1 DEF IsMeas
  <2>3. pc' \in {"chunk", "cib_end"} /\ (at' = at \/ at' = [at EXCEPT !.chunk = at.chunk + 1])
    BY <1>5, ReadChunkStep
  <2>4. at.chunk + 1 \in Pos
    BY <1>1 DEF Place, Pos
  <2>5. at'.dev = at.dev /\ at'.cab = at.cab
    BY <1>1, <2>3, <2>4, MoveChunk
  <2>6. QED
    BY <2>2, <2>3, <2>5
<1>6. CASE EndCib
  <2>1. /\ pc' \in {"cib", "cab_end", "device_end"} /\ meas' = meas
        /\ at' = at \/ at' = [at EXCEPT !.cib = at.cib + 1]
    BY <1>6, EndCibStep
  <2>2. at.cib + 1 \in Pos
    BY <1>1 DEF Place, Pos
  <2>3. at'.dev = at.dev /\ at'.cab = at.cab
    BY <1>1, <2>1, <2>2, MoveCib
  <2>4. QED
    BY <2>1, <2>3
<1>7. CASE EndCab
  <2>1. /\ pc' = (IF at.cab < Raw.cabs THEN "cab" ELSE "device_end") /\ meas' = meas
        /\ at' = IF at.cab < Raw.cabs THEN [at EXCEPT !.cab = @ + 1] ELSE at
    BY <1>7, EndCabStep
  <2>2. ~(at.cab < Raw.cabs)
    <3>1. at.cab \in Nat
      BY <1>1 DEF Place, Pos
    <3>2. QED
      BY <1>2, <3>1
  <2>3. QED
    BY <2>1, <2>2
<1>8. CASE EndDevice
  BY <1>2, <1>8, EndDeviceStep DEF TotalsOK
<1>9. CASE UNCHANGED vars
  BY <1>2, <1>9 DEF vars
<1>10. ~ReadHeader /\ ~CheckZone /\ ~CheckCounts /\ ~StartDevice /\ ~ReadCab /\ ~ParseFreeQueueRecord /\ ~EndQueue
       /\ ~StartPool /\ ~WalkFreeList /\ ~EndWalk /\ ~ReadIpBitmap /\ ~ComparePool /\ ~CompareBitmaps
  BY <1>2, Guards
<1>11. QED
  BY <1>2, <1>4, <1>5, <1>6, <1>7, <1>8, <1>9, <1>10, PassingSteps

\* How much is read, at each place.
LEMMA NoneRead ==
  ASSUME NEW m, NEW p, NEW a, NEW d \in Devs, p \in EarlyPcs \/ (p = "device" /\ (a.dev = d \/ a.dev = "main"))
  PROVE  /\ ~After(p, a, d) /\ ~Now(p, a, d)
         /\ CabsRead(m, p, a, d) = 0 /\ CibsRead(m, p, a, d) = 0 /\ ChunksRead(m, p, a, d) = 0
<1>1. ~After(p, a, d) /\ ~Now(p, a, d)
  BY DEF After, Now, EarlyPcs, DevicePcs, LatePcs, Devs
<1>2. CabsRead(m, p, a, d) = 0 /\ CibsRead(m, p, a, d) = 0
  BY <1>1 DEF CabsRead, CibsRead
<1>3. ChunksRead(m, p, a, d) = 0
  BY <1>1, <1>2 DEF ChunksRead, Covered
<1>4. QED
  BY <1>1, <1>2, <1>3

\* After a device all of it is read.
LEMMA AllRead ==
  ASSUME NEW m, NEW p, NEW a, NEW d, After(p, a, d)
  PROVE  /\ CabsRead(m, p, a, d) = m.dev[d].cabs /\ CibsRead(m, p, a, d) = m.dev[d].cibs
         /\ ChunksRead(m, p, a, d) = Covered(m, d, m.dev[d].cibs)
<1>1. ~(p = "chunk" /\ Now(p, a, d))
  BY DEF After, Now, DevicePcs, LatePcs
<1>2. CabsRead(m, p, a, d) = m.dev[d].cabs /\ CibsRead(m, p, a, d) = m.dev[d].cibs
  BY DEF CabsRead, CibsRead
<1>3. QED
  BY <1>1, <1>2 DEF ChunksRead

\* Reading a device leaves the other as it is.
LEMMA OtherRead ==
  ASSUME NEW m, NEW p \in DevicePcs, NEW r \in DevicePcs, NEW a, NEW b, b.dev = a.dev, NEW d \in Devs, d # a.dev
  PROVE  /\ After(r, b, d) <=> After(p, a, d)
         /\ CabsRead(m, r, b, d) = CabsRead(m, p, a, d) /\ CibsRead(m, r, b, d) = CibsRead(m, p, a, d)
         /\ ChunksRead(m, r, b, d) = ChunksRead(m, p, a, d)
<1>1. (After(r, b, d) <=> After(p, a, d)) /\ ~Now(r, b, d) /\ ~Now(p, a, d)
  BY DEF After, Now, DevicePcs, LatePcs
<1>2. CabsRead(m, r, b, d) = CabsRead(m, p, a, d) /\ CibsRead(m, r, b, d) = CibsRead(m, p, a, d)
  BY <1>1 DEF CabsRead, CibsRead
<1>3. QED
  BY <1>1, <1>2 DEF ChunksRead

\* Full blocks hold as many as they can.
LEMMA ListingFull ==
  ASSUME OnDisk(img), NEW d \in Devs, NEW n \in Nat, n < img.dev[d].cabs, CabsFull(img, d, n)
  PROVE  Listing(img, d, n) = CibsPerCab * n
<1>1. img.dev[d].cabs \in Nat /\ CibsPerCab \in Nat
  BY DiskTypes, Capacities
<1>2. CASE n = 0
  BY <1>1, <1>2 DEF Listing
<1>3. CASE n > 0
  <2>1. n - 1 \in 0..(n - 1) /\ (n - 1) + 1 < img.dev[d].cabs
    BY <1>1, <1>3
  <2>2. Len(CabAt(img, d, n - 1).cibs) = CibsPerCab
    BY <2>1 DEF CabsFull
  <2>3. CibsPerCab * (n - 1) + CibsPerCab = CibsPerCab * n
    BY <1>1
  <2>4. QED
    BY <1>3, <2>2, <2>3 DEF Listing
<1>4. QED
  BY <1>2, <1>3

\* The same for chunk-info blocks.
LEMMA CoveredFull ==
  ASSUME OnDisk(img), NEW d \in Devs, NEW n \in Nat, n < img.dev[d].cibs, CibsFull(img, d, n)
  PROVE  Covered(img, d, n) = ChunksPerCib * n
<1>1. img.dev[d].cibs \in Nat /\ ChunksPerCib \in Nat
  BY DiskTypes, Capacities
<1>2. CASE n = 0
  BY <1>1, <1>2 DEF Covered
<1>3. CASE n > 0
  <2>1. n - 1 \in 0..(n - 1) /\ (n - 1) + 1 < img.dev[d].cibs
    BY <1>1, <1>3
  <2>2. Len(CibAt(img, d, n - 1).chunks) = ChunksPerCib
    BY <2>1 DEF CibsFull
  <2>3. ChunksPerCib * (n - 1) + ChunksPerCib = ChunksPerCib * n
    BY <1>1
  <2>4. QED
    BY <1>3, <2>2, <2>3 DEF Covered
<1>4. QED
  BY <1>2, <1>3

\* The same for chunks.
LEMMA SpannedFull ==
  ASSUME NEW d \in Devs, NEW n \in Nat, ChunksFull(img, d, n), n > 0 => ~FinalChunk(img, d, n - 1)
  PROVE  Spanned(img, d, n) = BlocksPerChunk * n
<1>1. BlocksPerChunk \in Nat
  BY Capacities
<1>2. CASE n = 0
  BY <1>1, <1>2 DEF Spanned
<1>3. CASE n > 0
  <2>1. n - 1 \in 0..(n - 1)
    BY <1>3
  <2>2. ChunkAt(img, d, n - 1).count = BlocksPerChunk
    BY <1>3, <2>1 DEF ChunksFull
  <2>3. BlocksPerChunk * (n - 1) + BlocksPerChunk = BlocksPerChunk * n
    BY <1>1
  <2>4. QED
    BY <1>3, <2>2, <2>3 DEF Spanned
<1>4. QED
  BY <1>2, <1>3

\* What is known while a device is read.
LEMMA DevFacts ==
  ASSUME PlaceInv, DevInv, pc \in DevicePcs, ~Doomed(img, pc, at, meas)
  PROVE  /\ OnDisk(img) /\ at \in Place /\ at.dev \in Devs
         /\ at.cab \in Pos /\ at.cib \in Pos /\ at.chunk \in Pos
         /\ IsMeas(meas) /\ DOMAIN bits = Devs
         /\ \A d \in Devs : DevOK(img, pc, at, d, meas, bits)
         /\ pc # "device" => SpotOK(img, pc, at) /\ start = meas[at.dev].blocks
<1>1. pc \notin Bad
  BY DEF DevicePcs, Bad
<1>2. OnDisk(img) /\ at \in Place
  BY <1>1 DEF PlaceInv, PlaceOK
<1>3. at.dev \in Devs /\ at.cab \in Pos /\ at.cib \in Pos /\ at.chunk \in Pos
  BY <1>2 DEF Place
<1>4. /\ IsMeas(meas) /\ DOMAIN bits = Devs /\ \A d \in Devs : DevOK(img, pc, at, d, meas, bits)
      /\ pc # "device" => SpotOK(img, pc, at) /\ start = meas[at.dev].blocks
  BY <1>1 DEF DevInv
<1>5. QED
  BY <1>2, <1>3, <1>4

\* The start of a device.
LEMMA DevStart ==
  ASSUME PlaceInv, DevInv, StartDevice, pc' \notin Bad
  PROVE  /\ at'.dev = at.dev /\ pc' \in DevicePcs \ {"device"}
         /\ DevOK(img, pc', at', at.dev, meas', bits')
         /\ SpotOK(img, pc', at') /\ start' = meas'[at.dev].blocks
         /\ CabsRead(img, pc', at', at.dev) = CabsRead(img, pc, at, at.dev)
         /\ CibsRead(img, pc', at', at.dev) = CibsRead(img, pc, at, at.dev)
         /\ ChunksRead(img, pc', at', at.dev) = ChunksRead(img, pc, at, at.dev)
<1> DEFINE d == at.dev
<1>1. /\ pc = "device" /\ DeviceOK(Raw, img.max[d]) /\ start' = 0 /\ meas' = meas /\ bits' = bits
      /\ at' = [at EXCEPT !.cab = 1, !.cib = 1, !.chunk = 1]
      /\ pc' = IF Raw.cabs > 0 THEN "cab" ELSE IF Raw.cibs > 0 THEN "cib" ELSE "device_end"
  BY StartDeviceStep
<1>2. ~Doomed(img, pc, at, meas) /\ pc \in DevicePcs
  BY <1>1 DEF Doomed, DevicePcs
<1>3. OnDisk(img) /\ at \in Place /\ d \in Devs /\ DevOK(img, pc, at, d, meas, bits)
  BY <1>2, DevFacts
<1>4. at'.dev = d /\ at'.cab = 1 /\ at'.cib = 1 /\ at'.chunk = 1
  BY <1>1, <1>3, MoveStart
<1>5. Raw = img.dev[d] /\ Raw.cabs \in Nat /\ Raw.cibs \in Nat
  BY <1>3, DiskTypes DEF Raw
<1>6. pc' \in DevicePcs \ {"device"}
  BY <1>1 DEF DevicePcs
<1>7. CabsRead(img, pc, at, d) = 0 /\ CibsRead(img, pc, at, d) = 0 /\ ChunksRead(img, pc, at, d) = 0
  BY <1>1, <1>3, NoneRead
<1>8. CibsPerCab * (1 - 1) = 0 /\ Covered(img, d, 0) = 0
  BY Capacities DEF Covered
<1>9. /\ ~After(pc', at', d)
      /\ CabsRead(img, pc', at', d) = 0 /\ CibsRead(img, pc', at', d) = 0 /\ ChunksRead(img, pc', at', d) = 0
  <2>1. ~After(pc', at', d) /\ Now(pc', at', d)
    BY <1>3, <1>4, <1>6 DEF After, Now, DevicePcs, LatePcs, Devs
  <2>2. CabsRead(img, pc', at', d) = 0
    <3>1. CabsRead(img, pc', at', d) = IF img.dev[d].cabs = 0 THEN 0 ELSE IF pc' = "cab" THEN 1 - 1 ELSE 1
      BY <1>4, <2>1 DEF CabsRead
    <3>2. QED
      BY <1>1, <1>5, <3>1
  <2>3. CibsRead(img, pc', at', d) = 0
    <3>1. CASE pc' = "cab"
      BY <1>4, <1>8, <2>1, <3>1 DEF CibsRead
    <3>2. CASE pc' = "cib"
      <4>1. ~(img.dev[d].cabs > 0)
        BY <1>1, <1>5, <3>2
      <4>2. Index(img, at') = 0
        BY <1>4, <4>1 DEF Index
      <4>3. QED
        BY <2>1, <3>2, <4>2 DEF CibsRead
    <3>3. CASE pc' = "device_end"
      <4>1. img.dev[d].cibs = 0
        BY <1>1, <1>5, <3>3
      <4>2. QED
        BY <2>1, <3>3, <4>1 DEF CibsRead
    <3>4. QED
      BY <1>1, <3>1, <3>2, <3>3
  <2>4. pc' # "chunk"
    BY <1>1
  <2>5. ChunksRead(img, pc', at', d) = 0
    BY <1>8, <2>3, <2>4 DEF ChunksRead
  <2>6. QED
    BY <2>1, <2>2, <2>3, <2>5
<1>10. DevOK(img, pc', at', d, meas', bits')
  BY <1>1, <1>3, <1>7, <1>9 DEF DevOK
<1>11. start' = meas'[d].blocks
  BY <1>1, <1>3, <1>7 DEF DevOK, Counted, Spanned
<1>12. SpotOK(img, pc', at')
  BY <1>1, <1>4, <1>5 DEF SpotOK
<1>13. QED
  BY <1>7, <1>9, <1>4, <1>6, <1>10, <1>11, <1>12

\* A cib address block.
LEMMA DevCab ==
  ASSUME PlaceInv, DevInv, ReadCab, pc' \notin Bad
  PROVE  /\ at'.dev = at.dev /\ pc' \in DevicePcs \ {"device"}
         /\ DevOK(img, pc', at', at.dev, meas', bits')
         /\ SpotOK(img, pc', at') /\ start' = meas'[at.dev].blocks
         /\ CabsRead(img, pc, at, at.dev) = at.cab - 1 /\ CabsRead(img, pc', at', at.dev) = at.cab
         /\ CibsRead(img, pc', at', at.dev) = CibsRead(img, pc, at, at.dev)
         /\ ChunksRead(img, pc', at', at.dev) = ChunksRead(img, pc, at, at.dev)
<1> DEFINE d == at.dev
           c == at.cab
<1>1. /\ pc = "cab" /\ pc' = "cib" /\ AddrOK(Raw.addr, c) /\ Raw.addr[c] \in DOMAIN img.cab
      /\ CabHeaderOK(Cab, c - 1, c = Raw.cabs)
      /\ meas' = [meas EXCEPT ![d].cibs = meas[d].cibs + Len(Cab.cibs)]
      /\ at' = [at EXCEPT !.cib = 1] /\ start' = start /\ bits' = bits
  BY ReadCabStep
<1>2. ~Doomed(img, pc, at, meas) /\ pc \in DevicePcs /\ pc' \in DevicePcs \ {"device"}
  BY <1>1 DEF Doomed, DevicePcs
<1>3. /\ OnDisk(img) /\ at \in Place /\ d \in Devs /\ DevOK(img, pc, at, d, meas, bits) /\ IsMeas(meas)
      /\ SpotOK(img, pc, at) /\ start = meas[d].blocks /\ c \in Pos
  BY <1>1, <1>2, DevFacts
<1>4. at'.dev = d /\ at'.cab = c /\ at'.cib = 1 /\ 1 \in Pos
  <2>1. 1 \in Pos
    BY DEF Pos
  <2>2. QED
    BY <1>1, <1>3, <2>1, MoveCib
<1>5. c \in Nat /\ c >= 1 /\ c - 1 \in Nat /\ (c - 1) + 1 = c
  BY <1>3 DEF Pos
<1>6. /\ Raw = img.dev[d] /\ Raw.cabs \in Nat /\ Raw.cabs > 0 /\ c <= Raw.cabs /\ Raw.cabs # 0
      /\ Cab = CabAt(img, d, c - 1)
  <2>1. Raw = img.dev[d] /\ Raw.cabs \in Nat
    BY <1>3, DiskTypes DEF Raw
  <2>2. Raw.cabs > 0 /\ c <= Raw.cabs
    BY <1>1, <1>3, <2>1 DEF SpotOK
  <2>3. Cab = CabAt(img, d, c - 1)
    BY <1>5, <2>1 DEF Cab, CabAt
  <2>4. QED
    BY <2>1, <2>2, <2>3
<1>0. /\ ~After(pc, at, d) /\ Now(pc, at, d)
      /\ ~After(pc', at', d) /\ Now(pc', at', d)
  BY <1>1, <1>2, <1>3, <1>4 DEF After, Now, DevicePcs, LatePcs, Devs
<1>7. /\ CabsRead(img, pc, at, d) = c - 1 /\ CabsRead(img, pc', at', d) = c
  <2>1. CabsRead(img, pc, at, d) = IF img.dev[d].cabs = 0 THEN 0 ELSE IF pc = "cab" THEN c - 1 ELSE c
    BY <1>0 DEF CabsRead
  <2>2. CabsRead(img, pc', at', d) = IF img.dev[d].cabs = 0 THEN 0 ELSE IF pc' = "cab" THEN c - 1 ELSE c
    BY <1>0, <1>4 DEF CabsRead
  <2>3. QED
    BY <1>1, <1>6, <2>1, <2>2
<1>8. CibsRead(img, pc', at', d) = CibsRead(img, pc, at, d)
  <2>1. CibsRead(img, pc, at, d) = CibsPerCab * (c - 1)
    BY <1>0, <1>1 DEF CibsRead
  <2>2. CibsRead(img, pc', at', d) = Index(img, at')
    BY <1>0, <1>1 DEF CibsRead
  <2>3. Index(img, at') = CibsPerCab * (c - 1) + 1 - 1
    BY <1>4, <1>6 DEF Index
  <2>4. CibsPerCab * (c - 1) \in Nat
    BY <1>5, Capacities
  <2>5. QED
    BY <2>1, <2>2, <2>3, <2>4
<1>9. ChunksRead(img, pc', at', d) = ChunksRead(img, pc, at, d)
  <2>1. pc # "chunk" /\ pc' # "chunk"
    BY <1>1
  <2>2. QED
    BY <1>8, <2>1 DEF ChunksRead
<1>10. Len(Cab.cibs) \in 1..CibsPerCab /\ (c < Raw.cabs => Len(Cab.cibs) = CibsPerCab)
  BY <1>1, <1>5, <1>6 DEF CabHeaderOK
<1>11. CabsFull(img, d, c - 1) /\ meas[d].cibs = Listing(img, d, c - 1)
  BY <1>3, <1>7 DEF DevOK, Counted
<1>12. CabsFull(img, d, c)
  <2>1. c <= Len(img.dev[d].addr)
    BY <1>1, <1>6 DEF AddrOK
  <2>2. \A i \in 0..(c - 1) : i \in 0..(c - 1 - 1) \/ i = c - 1
    BY <1>5
  <2>3. QED
    BY <1>1, <1>5, <1>6, <1>10, <1>11, <2>1, <2>2 DEF CabsFull
<1>13. meas[d].cibs + Len(Cab.cibs) = Listing(img, d, c)
  <2>1. c - 1 < Raw.cabs
    BY <1>5, <1>6
  <2>2. Listing(img, d, c - 1) = CibsPerCab * (c - 1)
    BY <1>3, <1>5, <1>6, <1>11, <2>1, ListingFull
  <2>3. Listing(img, d, c) = CibsPerCab * (c - 1) + Len(Cab.cibs)
    BY <1>5, <1>6 DEF Listing
  <2>4. QED
    BY <1>11, <2>2, <2>3
<1>14. /\ meas'[d].cibs = Listing(img, d, c) /\ meas'[d].chunks = meas[d].chunks
       /\ meas'[d].blocks = meas[d].blocks /\ meas'[d].free = meas[d].free
  <2>1. PICK x : x = Listing(img, d, c) /\ meas' = [meas EXCEPT ![d].cibs = x]
    BY <1>1, <1>13
  <2>2. QED
    BY <1>3, <2>1, AddCibs
<1>15. DevOK(img, pc', at', d, meas', bits')
  <2> HIDE DEF c, d
  <2> QED
    BY <1>0, <1>1, <1>3, <1>7, <1>8, <1>9, <1>12, <1>14 DEF DevOK, Counted
<1>16. SpotOK(img, pc', at')
  <2>1. 1 <= Len(Cab.cibs)
    BY <1>10, Capacities
  <2>2. QED
    BY <1>1, <1>3, <1>4, <1>6, <2>1 DEF SpotOK
<1>17. QED
  BY <1>1, <1>2, <1>3, <1>4, <1>7, <1>8, <1>9, <1>14, <1>15, <1>16

\* A chunk-info block.
LEMMA DevCibRead ==
  ASSUME PlaceInv, DevInv, ReadCib, pc' \notin Bad, ~Doomed(img, pc, at, meas)
  PROVE  /\ at'.dev = at.dev /\ pc' \in DevicePcs \ {"device"}
         /\ DevOK(img, pc', at', at.dev, meas', bits')
         /\ SpotOK(img, pc', at') /\ start' = meas'[at.dev].blocks
         /\ CibsRead(img, pc, at, at.dev) = Index(img, at)
         /\ CibsRead(img, pc', at', at.dev) = Index(img, at) + 1
         /\ CabsRead(img, pc', at', at.dev) = CabsRead(img, pc, at, at.dev)
         /\ ChunksRead(img, pc', at', at.dev) = ChunksRead(img, pc, at, at.dev)
<1> DEFINE d == at.dev
           i == Index(img, at)
<1>1. /\ pc = "cib" /\ pc' = "chunk" /\ AddrOK(CibList, at.cib) /\ CibList[at.cib] \in DOMAIN img.cib
      /\ CibHeaderOK(Cib, CibIndex, CibIndex = Raw.cibs - 1)
      /\ at' = [at EXCEPT !.chunk = 1] /\ start' = start /\ bits' = bits
  BY ReadCibStep
<1>2. meas' = [meas EXCEPT ![d].chunks = meas[d].chunks + Len(Cib.chunks)]
  BY ReadCibStep
<1>3. /\ OnDisk(img) /\ at \in Place /\ d \in Devs /\ SpotOK(img, pc, at) /\ DevOK(img, pc, at, d, meas, bits)
      /\ Now(pc, at, d) /\ ~After(pc, at, d)
      /\ CibIndex = i /\ i \in Nat /\ i < Raw.cibs /\ Raw.cibs \in Nat /\ Raw.cabs \in Nat
      /\ CibList[at.cib] = CibAddrAt(img, d, i) /\ Cib = CibAt(img, d, i)
  BY <1>1, SpotFacts
<1>4. pc \in DevicePcs /\ pc # "device" /\ pc' \in DevicePcs \ {"device"}
  BY <1>1 DEF DevicePcs
<1>5. IsMeas(meas) /\ start = meas[d].blocks
  BY <1>4, DevFacts
<1>6. at'.dev = d /\ at'.cab = at.cab /\ at'.cib = at.cib /\ at'.chunk = 1
  <2>1. 1 \in Pos
    BY DEF Pos
  <2>2. QED
    BY <1>1, <1>3, <2>1, MoveChunk
<1>7. Index(img, at') = i
  BY <1>6 DEF Index
<1>8. ~After(pc', at', d) /\ Now(pc', at', d)
  BY <1>3, <1>4, <1>6 DEF After, Now, DevicePcs, LatePcs, Devs
<1>9. CibsRead(img, pc, at, d) = i /\ CibsRead(img, pc', at', d) = i + 1
  BY <1>1, <1>3, <1>7, <1>8 DEF CibsRead
<1>10. CabsRead(img, pc', at', d) = CabsRead(img, pc, at, d)
  BY <1>1, <1>3, <1>6, <1>8 DEF CabsRead
<1>11. CibsFull(img, d, i) /\ meas[d].chunks = Covered(img, d, i)
  BY <1>3, <1>9 DEF DevOK, Counted
<1>12. Covered(img, d, i) = ChunksPerCib * i /\ ChunksPerCib * i \in Nat
  <2>1. i < img.dev[d].cibs
    BY <1>3 DEF Raw
  <2> HIDE DEF i, d
  <2>2. QED
    BY <1>3, <1>11, <2>1, CoveredFull, Capacities
<1>13. ChunksRead(img, pc, at, d) = Covered(img, d, i) /\ ChunksRead(img, pc', at', d) = Covered(img, d, i)
  <2>1. ChunksRead(img, pc, at, d) = Covered(img, d, i)
    BY <1>1, <1>9 DEF ChunksRead
  <2>2. ChunksRead(img, pc', at', d) = Covered(img, d, i) + 1 - 1
    BY <1>1, <1>6, <1>7, <1>8 DEF ChunksRead
  <2>3. QED
    BY <1>12, <2>1, <2>2
<1>14. Len(Cib.chunks) \in 1..ChunksPerCib /\ (i + 1 < Raw.cibs => Len(Cib.chunks) = ChunksPerCib)
  BY <1>1, <1>3 DEF CibHeaderOK
<1>15. img.dev[d].cabs = 0 => i + 1 <= Len(img.dev[d].addr)
  <2>1. at.cib \in Nat
    BY <1>3 DEF Place, Pos
  <2>2. img.dev[d].cabs = 0 => CibList = img.dev[d].addr /\ i + 1 = at.cib
    BY <2>1 DEF CibList, Raw, Index
  <2>3. QED
    BY <1>1, <2>2 DEF AddrOK
<1>16. CibsFull(img, d, i + 1)
  <2>1. \A j \in 0..((i + 1) - 1) : j \in 0..(i - 1) \/ j = i
    BY <1>3
  <2>2. i + 1 <= img.dev[d].cibs
    BY <1>3 DEF Raw
  <2>3. CibAddrAt(img, d, i) \in DOMAIN img.cib
    BY <1>1, <1>3
  <2>4. /\ Len(CibAt(img, d, i).chunks) \in 1..ChunksPerCib
        /\ i + 1 < img.dev[d].cibs => Len(CibAt(img, d, i).chunks) = ChunksPerCib
    BY <1>3, <1>14 DEF Raw
  <2> HIDE DEF i, d
  <2>5. QED
    BY <1>11, <1>15, <2>1, <2>2, <2>3, <2>4 DEF CibsFull
<1>17. meas[d].chunks + Len(Cib.chunks) = Covered(img, d, i + 1)
  <2>1. i + 1 # 0 /\ (i + 1) - 1 = i
    BY <1>3
  <2>2. Covered(img, d, i + 1) = ChunksPerCib * i + Len(Cib.chunks)
    BY <1>3, <2>1 DEF Covered
  <2>3. QED
    BY <1>11, <1>12, <2>2
<1>18. /\ meas'[d].chunks = Covered(img, d, i + 1) /\ meas'[d].cibs = meas[d].cibs
       /\ meas'[d].blocks = meas[d].blocks /\ meas'[d].free = meas[d].free
  <2>1. PICK x : x = Covered(img, d, i + 1) /\ meas' = [meas EXCEPT ![d].chunks = x]
    BY <1>2, <1>17
  <2>2. d \in Devs /\ IsMeas(meas)
    BY <1>3, <1>5
  <2> HIDE DEF d, i
  <2>3. QED
    BY <2>1, <2>2, AddChunks
<1>19. DevOK(img, pc', at', d, meas', bits')
  <2> HIDE DEF i, d
  <2> QED
    BY <1>1, <1>3, <1>8, <1>9, <1>10, <1>13, <1>16, <1>18 DEF DevOK, Counted
<1>20. SpotOK(img, pc', at')
  <2>1. 1 <= Len(CibAt(img, at'.dev, Index(img, at')).chunks)
    BY <1>3, <1>6, <1>7, <1>14, Capacities
  <2>2. QED
    BY <1>1, <1>3, <1>6, <2>1 DEF SpotOK
<1>21. QED
  BY <1>1, <1>4, <1>5, <1>6, <1>9, <1>10, <1>13, <1>18, <1>19, <1>20

\* A chunk.
LEMMA DevChunkRead ==
  ASSUME PlaceInv, DevInv, ReadChunk, pc' \notin Bad, ~Doomed(img, pc, at, meas)
  PROVE  LET k == ChunksRead(img, pc, at, at.dev)
         IN  /\ at'.dev = at.dev /\ pc' \in DevicePcs \ {"device"}
             /\ DevOK(img, pc', at', at.dev, meas', bits')
             /\ SpotOK(img, pc', at') /\ start' = meas'[at.dev].blocks
             /\ k \in Nat /\ ChunksRead(img, pc', at', at.dev) = k + 1
             /\ ChunkAt(img, at.dev, k) = Cib.chunks[at.chunk]
             /\ CabsRead(img, pc', at', at.dev) = CabsRead(img, pc, at, at.dev)
             /\ CibsRead(img, pc', at', at.dev) = CibsRead(img, pc, at, at.dev)
<1> DEFINE d == at.dev
           i == Index(img, at)
           len == Len(Cib.chunks)
           c == Cib.chunks[at.chunk]
           k == ChunksPerCib * i + at.chunk - 1
<1>1. /\ pc = "chunk" /\ ChunkSizeOK(c, IsLastChunk) /\ ChunkOK(c)
      /\ bits' = [bits EXCEPT ![d] = bits[d] \cup {start + b : b \in ChunkBits(c)}]
      /\ start' = start + c.count
      /\ at' = IF at.chunk < len THEN [at EXCEPT !.chunk = at.chunk + 1] ELSE at
      /\ pc' = IF at.chunk < len THEN "chunk" ELSE "cib_end"
  BY ReadChunkStep
<1>2. meas' = [meas EXCEPT ![d].blocks = @ + c.count, ![d].free = @ + c.free]
  BY ReadChunkStep
<1>3. /\ OnDisk(img) /\ at \in Place /\ d \in Devs /\ SpotOK(img, pc, at) /\ DevOK(img, pc, at, d, meas, bits)
      /\ Now(pc, at, d) /\ ~After(pc, at, d)
      /\ CibIndex = i /\ i \in Nat /\ i < Raw.cibs /\ Raw.cibs \in Nat
      /\ CibList[at.cib] = CibAddrAt(img, d, i) /\ Cib = CibAt(img, d, i)
  BY <1>1, SpotFacts
<1>4. pc \in DevicePcs /\ pc # "device" /\ pc' \in DevicePcs \ {"device"}
  BY <1>1 DEF DevicePcs
<1>5. IsMeas(meas) /\ start = meas[d].blocks /\ DOMAIN bits = Devs /\ at.chunk \in Pos
  BY <1>4, DevFacts
<1>6. at.chunk \in Nat /\ at.chunk >= 1 /\ at.chunk + 1 \in Pos
  BY <1>5 DEF Pos
<1>7. /\ at'.dev = d /\ at'.cab = at.cab /\ at'.cib = at.cib
      /\ at'.chunk = IF at.chunk < len THEN at.chunk + 1 ELSE at.chunk
  <2>1. CASE at.chunk < len
    <3>1. at' = [at EXCEPT !.chunk = at.chunk + 1]
      BY <1>1, <2>1
    <3>2. QED
      BY <1>3, <1>6, <2>1, <3>1, MoveChunk
  <2>2. CASE ~(at.chunk < len)
    BY <1>1, <2>2
  <2>3. QED
    BY <2>1, <2>2
<1>8. Index(img, at') = i
  BY <1>7 DEF Index
<1>9. ~After(pc', at', d) /\ Now(pc', at', d)
  BY <1>3, <1>4, <1>7 DEF After, Now, DevicePcs, LatePcs, Devs
<1>10. CibsRead(img, pc, at, d) = i + 1 /\ CibsRead(img, pc', at', d) = i + 1
  BY <1>1, <1>3, <1>8, <1>9 DEF CibsRead
<1>11. CabsRead(img, pc', at', d) = CabsRead(img, pc, at, d)
  BY <1>1, <1>3, <1>7, <1>9 DEF CabsRead
<1>12. CibsFull(img, d, i + 1)
  BY <1>3, <1>10 DEF DevOK
<1>13. len \in 1..ChunksPerCib /\ at.chunk <= len /\ (i + 1 < Raw.cibs => len = ChunksPerCib) /\ Cib.chunks \in Seq(ChunkInfo)
  <2>1. i \in 0..((i + 1) - 1)
    BY <1>3
  <2>2. /\ Len(CibAt(img, d, i).chunks) \in 1..ChunksPerCib /\ CibAddrAt(img, d, i) \in DOMAIN img.cib
        /\ i + 1 < img.dev[d].cibs => Len(CibAt(img, d, i).chunks) = ChunksPerCib
    BY <1>12, <2>1 DEF CibsFull
  <2>3. at.chunk <= Len(CibAt(img, d, i).chunks)
    BY <1>1, <1>3 DEF SpotOK
  <2>4. CibAt(img, d, i).chunks \in Seq(ChunkInfo)
    BY <1>3, <2>2, DiskTypes DEF CibAt
  <2>5. QED
    BY <1>3, <2>2, <2>3, <2>4 DEF Raw
<1>14. len \in Nat /\ ChunksPerCib \in Nat \ {0} /\ at.chunk \in 1..len /\ at.chunk \in 1..ChunksPerCib
  BY <1>6, <1>13, Capacities
<1>15. c \in ChunkInfo /\ c.count \in Nat /\ c.free \in Nat
  <2>1. c \in ChunkInfo
    BY <1>13, <1>14
  <2>2. QED
    BY <2>1 DEF ChunkInfo
<1>16. ChunkAt(img, d, k) = c /\ k \in Nat
  <2> HIDE DEF i, d
  <2>1. ChunkAt(img, d, ChunksPerCib * i + at.chunk - 1) = CibAt(img, d, i).chunks[at.chunk] /\ k \in Nat
    BY <1>3, <1>14, ChunkPlace
  <2>2. QED
    BY <1>3, <2>1
<1>17. Covered(img, d, i) = ChunksPerCib * i /\ ChunksPerCib * i \in Nat
  <2>1. i < img.dev[d].cibs /\ i <= i + 1
    BY <1>3 DEF Raw
  <2>2. CibsFull(img, d, i)
    BY <1>3, <1>12, <2>1, DiskTypes DEF CibsFull
  <2> HIDE DEF i, d
  <2>3. QED
    BY <1>3, <2>1, <2>2, CoveredFull, Capacities
<1>18. Covered(img, d, i + 1) = ChunksPerCib * i + len
  <2>1. i + 1 # 0 /\ (i + 1) - 1 = i
    BY <1>3
  <2>2. QED
    BY <1>3, <2>1 DEF Covered
<1>19. ChunksRead(img, pc, at, d) = k
  BY <1>1, <1>3, <1>17 DEF ChunksRead
<1>20. ChunksRead(img, pc', at', d) = k + 1
  <2>1. CASE at.chunk < len
    <3>1. ChunksRead(img, pc', at', d) = ChunksPerCib * i + (at.chunk + 1) - 1
      BY <1>1, <1>7, <1>8, <1>9, <1>17, <2>1 DEF ChunksRead
    <3>2. QED
      BY <1>6, <1>17, <3>1
  <2>2. CASE ~(at.chunk < len)
    <3>1. ChunksRead(img, pc', at', d) = ChunksPerCib * i + len
      BY <1>1, <1>10, <1>18, <2>2 DEF ChunksRead
    <3>2. at.chunk = len
      BY <1>14, <2>2
    <3>3. QED
      BY <1>6, <1>17, <3>1, <3>2
  <2>3. QED
    BY <2>1, <2>2
<1> HIDE DEF k, len
<1>21. k = ChunksPerCib * i + at.chunk - 1 /\ at.chunk \in 1..len /\ at.chunk <= ChunksPerCib /\ len \in Nat
  BY <1>14 DEF k
<1>22. k > 0 => ~FinalChunk(img, d, k - 1)
  <2> SUFFICES ASSUME k > 0, FinalChunk(img, d, k - 1) PROVE FALSE
    OBVIOUS
  <2>1. k - 1 >= ChunksPerCib * (Raw.cibs - 1) /\ (k - 1) + 1 = Covered(img, d, Raw.cibs)
    BY DEF FinalChunk, Raw
  <2> HIDE DEF i, d
  <2>2. CASE i + 1 = Raw.cibs
    <3>1. k = ChunksPerCib * i + len
      BY <1>16, <1>18, <2>1, <2>2
    <3>2. QED
      BY <1>6, <1>14, <1>17, <1>21, <3>1
  <2>3. CASE i + 1 < Raw.cibs
    <3>1. i < Raw.cibs - 1 /\ Raw.cibs - 1 \in Nat
      BY <1>3, <2>3
    <3>2. ChunksPerCib * i + ChunksPerCib <= ChunksPerCib * (Raw.cibs - 1)
      BY <1>3, <1>14, <3>1, NextMultiple
    <3>3. ChunksPerCib * (Raw.cibs - 1) \in Nat
      BY <1>14, <3>1
    <3>4. QED
      BY <1>6, <1>14, <1>16, <1>17, <1>21, <2>1, <3>2, <3>3
  <2>4. QED
    BY <1>3, <2>2, <2>3
<1>23. /\ ChunksFull(img, d, k) /\ meas[d].blocks = Spanned(img, d, k)
       /\ meas[d].free = Total(Frees(img, d), 0..(k - 1))
       /\ bits[d] = UNION {BitsAt(img, d, j) : j \in 0..(k - 1)}
  <2> HIDE DEF d
  <2> QED
    BY <1>3, <1>19 DEF DevOK, Counted
<1>24. Spanned(img, d, k) = BlocksPerChunk * k /\ BlocksPerChunk * k \in Nat /\ BlocksPerChunk * k = k * BlocksPerChunk
  <2> HIDE DEF d
  <2>1. BlocksPerChunk \in Nat
    BY Capacities
  <2>2. Spanned(img, d, k) = BlocksPerChunk * k
    BY <1>3, <1>16, <1>22, <1>23, SpannedFull
  <2>3. QED
    BY <1>16, <2>1, <2>2
<1>25. start = k * BlocksPerChunk /\ start \in Nat
  BY <1>5, <1>23, <1>24
<1>26. IsLastChunk => FinalChunk(img, d, k)
  <2> SUFFICES ASSUME IsLastChunk PROVE FinalChunk(img, d, k)
    OBVIOUS
  <2>1. i = Raw.cibs - 1 /\ at.chunk = len
    BY <1>3 DEF IsLastChunk, len
  <2>2. i + 1 = img.dev[d].cibs
    BY <1>3, <2>1 DEF Raw
  <2>3. Covered(img, d, img.dev[d].cibs) = ChunksPerCib * i + len
    BY <1>18, <2>2
  <2>4. i = img.dev[d].cibs - 1
    BY <2>1 DEF Raw
  <2> HIDE DEF i, d
  <2>5. k + 1 = ChunksPerCib * i + len /\ k >= ChunksPerCib * i
    BY <1>6, <1>17, <1>21, <2>1
  <2>6. QED
    BY <2>3, <2>4, <2>5 DEF FinalChunk
<1>27. /\ c.addr = k * BlocksPerChunk /\ c.count \in 1..BlocksPerChunk
       /\ ~FinalChunk(img, d, k) => c.count = BlocksPerChunk
       /\ c.free = FreeOf(img, c) /\ ChunkBits(c) = BitsOf(img, c)
  BY <1>1, <1>25, <1>26 DEF ChunkSizeOK, ChunkOK, ChunkBits, BitsOf, FreeOf, count_chunk_free
<1>28. \A j \in 0..((k + 1) - 1) : j \in 0..(k - 1) \/ j = k
  BY <1>16
<1>29. ChunksFull(img, d, k + 1)
  <2> HIDE DEF c, d
  <2> QED
    BY <1>15, <1>16, <1>23, <1>27, <1>28 DEF ChunksFull
<1>30. meas[d].blocks + c.count = Spanned(img, d, k + 1)
  <2>1. k + 1 # 0 /\ (k + 1) - 1 = k
    BY <1>16
  <2> HIDE DEF c, d
  <2>2. QED
    BY <1>16, <1>23, <1>24, <2>1 DEF Spanned
<1>31. meas[d].free + c.free = Total(Frees(img, d), 0..((k + 1) - 1))
  <2> DEFINE g == Frees(img, d)
  <2>1. 0..((k + 1) - 1) = (0..(k - 1)) \cup {k} /\ k \notin 0..(k - 1)
    BY <1>16
  <2>2. IsFiniteSet(0..(k - 1))
    BY <1>16, FS_Interval
  <2> HIDE DEF c, d
  <2>3. \A j \in 0..k : g[j] = ChunkAt(img, d, j).free
    BY <1>16 DEF Frees
  <2>4. \A j \in (0..(k - 1)) \cup {k} : j \in 0..k /\ j \in 0..((k + 1) - 1)
    BY <1>16
  <2>5. \A j \in 0..((k + 1) - 1) : ChunkAt(img, d, j).free \in Nat
    BY <1>29 DEF ChunksFull, ChunkInfo
  <2>6. \A j \in (0..(k - 1)) \cup {k} : g[j] \in Int
    BY <2>3, <2>4, <2>5
  <2>7. g[k] = c.free
    BY <1>16, <2>3
  <2> HIDE DEF g
  <2>8. Total(g, (0..(k - 1)) \cup {k}) = Total(g, 0..(k - 1)) + g[k]
    BY <2>1, <2>2, <2>6, TotalGrow
  <2>9. QED
    BY <1>23, <2>1, <2>7, <2>8 DEF g
<1>32. /\ meas'[d].blocks = Spanned(img, d, k + 1) /\ meas'[d].free = Total(Frees(img, d), 0..((k + 1) - 1))
       /\ meas'[d].cibs = meas[d].cibs /\ meas'[d].chunks = meas[d].chunks
       /\ meas'[d].blocks = meas[d].blocks + c.count
  <2>1. PICK x, y : x = c.count /\ y = c.free /\ meas' = [meas EXCEPT ![d].blocks = @ + x, ![d].free = @ + y]
    BY <1>2
  <2>2. d \in Devs /\ IsMeas(meas)
    BY <1>3, <1>5
  <2> HIDE DEF c, d
  <2>3. /\ meas'[d].blocks = meas[d].blocks + x /\ meas'[d].free = meas[d].free + y
        /\ meas'[d].cibs = meas[d].cibs /\ meas'[d].chunks = meas[d].chunks
    BY <2>1, <2>2 DEF IsMeas
  <2>4. QED
    BY <1>30, <1>31, <2>1, <2>3
<1>33. bits'[d] = UNION {BitsAt(img, d, j) : j \in 0..((k + 1) - 1)}
  <2>1. bits'[d] = bits[d] \cup {start + b : b \in BitsOf(img, c)}
    BY <1>1, <1>3, <1>5, <1>27
  <2> HIDE DEF c, d
  <2>2. BitsAt(img, d, k) = {start + b : b \in BitsOf(img, c)}
    BY <1>16, <1>25 DEF BitsAt
  <2>3. 0..((k + 1) - 1) = (0..(k - 1)) \cup {k}
    BY <1>16
  <2>4. QED
    BY <1>23, <2>1, <2>2, <2>3
<1>34. DevOK(img, pc', at', d, meas', bits')
  <2>1. (k + 1) - 1 = k
    BY <1>16
  <2> HIDE DEF i, d, c
  <2>2. /\ CabsFull(img, d, CabsRead(img, pc, at, d)) /\ CibsFull(img, d, i + 1)
        /\ meas[d].cibs = Listing(img, d, CabsRead(img, pc, at, d)) /\ meas[d].chunks = Covered(img, d, i + 1)
    BY <1>3, <1>10 DEF DevOK, Counted
  <2>3. QED
    BY <1>9, <1>10, <1>11, <1>20, <1>29, <1>32, <1>33, <2>2 DEF DevOK, Counted
<1>35. start' = meas'[d].blocks
  BY <1>1, <1>5, <1>32
<1>36. SpotOK(img, pc', at')
  <2>1. Len(CibAt(img, at'.dev, Index(img, at')).chunks) = len
    BY <1>3, <1>7, <1>8 DEF len
  <2>2. IF at.chunk < len THEN pc' = "chunk" /\ at'.chunk <= len ELSE pc' = "cib_end" /\ at'.chunk = len
    BY <1>1, <1>7, <1>14, <1>21 DEF len
  <2>3. QED
    BY <1>1, <1>3, <1>7, <2>1, <2>2 DEF SpotOK
<1>37. QED
  BY <1>4, <1>7, <1>10, <1>11, <1>16, <1>19, <1>20, <1>34, <1>35, <1>36

\* The end of a chunk-info block.
LEMMA DevCibEnd ==
  ASSUME PlaceInv, DevInv, EndCib, pc' \notin Bad, ~Doomed(img, pc, at, meas)
  PROVE  /\ at'.dev = at.dev /\ pc' \in DevicePcs \ {"device"}
         /\ SpotOK(img, pc', at') /\ start' = start
         /\ ~After(pc', at', at.dev) /\ ~After(pc, at, at.dev)
         /\ CabsRead(img, pc', at', at.dev) = CabsRead(img, pc, at, at.dev)
         /\ CibsRead(img, pc', at', at.dev) = CibsRead(img, pc, at, at.dev)
         /\ ChunksRead(img, pc', at', at.dev) = ChunksRead(img, pc, at, at.dev)
<1> DEFINE d == at.dev
           i == Index(img, at)
           more == at.cib < CibTotal
<1>1. /\ pc = "cib_end" /\ start' = start
      /\ at' = IF more THEN [at EXCEPT !.cib = at.cib + 1] ELSE at
      /\ pc' = IF more THEN "cib" ELSE IF Raw.cabs > 0 THEN "cab_end" ELSE "device_end"
  BY EndCibStep
<1>2. /\ OnDisk(img) /\ at \in Place /\ d \in Devs /\ SpotOK(img, pc, at)
      /\ Now(pc, at, d) /\ ~After(pc, at, d)
      /\ i \in Nat /\ i < Raw.cibs /\ Raw.cibs \in Nat /\ Raw.cabs \in Nat /\ at.cib \in Nat /\ at.cib <= CibTotal
      /\ Raw.cabs > 0 => Cab = CabAt(img, d, at.cab - 1) /\ Len(Cab.cibs) \in 1..CibsPerCab
                         /\ CibsPerCab * (at.cab - 1) \in Nat
  BY <1>1, SpotFacts
<1>3. Raw = img.dev[d] /\ CibTotal = IF Raw.cabs > 0 THEN Len(Cab.cibs) ELSE Raw.cibs
  BY DEF Raw, CibTotal
<1>4. pc' \in DevicePcs \ {"device"}
  BY <1>1 DEF DevicePcs
<1>5. at'.dev = d /\ at'.cab = at.cab /\ at'.cib = IF more THEN at.cib + 1 ELSE at.cib
  <2>1. CASE more
    <3>1. at.cib + 1 \in Pos
      BY <1>2 DEF Pos
    <3>2. at' = [at EXCEPT !.cib = at.cib + 1]
      BY <1>1, <2>1
    <3>3. QED
      BY <1>2, <2>1, <3>1, <3>2, MoveCib
  <2>2. CASE ~more
    BY <1>1, <2>2
  <2>3. QED
    BY <2>1, <2>2
<1>6. ~After(pc', at', d) /\ Now(pc', at', d)
  BY <1>2, <1>4, <1>5 DEF After, Now, DevicePcs, LatePcs, Devs
<1>7. CabsRead(img, pc', at', d) = CabsRead(img, pc, at, d)
  BY <1>1, <1>2, <1>5, <1>6 DEF CabsRead
<1>8. CibsRead(img, pc, at, d) = i + 1
  BY <1>1, <1>2 DEF CibsRead
<1>9. CibTotal \in Nat
  <2>1. Raw.cabs > 0 => Len(Cab.cibs) \in Nat
    BY <1>2, Capacities
  <2>2. QED
    BY <1>2, <1>3, <2>1
<1>10. i = (IF Raw.cabs > 0 THEN CibsPerCab * (at.cab - 1) ELSE 0) + at.cib - 1
  BY <1>3 DEF Index
<1>11. CibsRead(img, pc', at', d) = i + 1
  <2>1. CASE more
    <3>1. CibsRead(img, pc', at', d) = Index(img, at')
      BY <1>1, <1>6, <2>1 DEF CibsRead
    <3>2. Index(img, at') = (IF Raw.cabs > 0 THEN CibsPerCab * (at.cab - 1) ELSE 0) + (at.cib + 1) - 1
      BY <1>3, <1>5, <2>1 DEF Index
    <3> HIDE DEF i, more
    <3>3. CASE Raw.cabs > 0
      BY <1>2, <1>10, <3>1, <3>2, <3>3
    <3>4. CASE ~(Raw.cabs > 0)
      BY <1>2, <1>10, <3>1, <3>2, <3>4
    <3>5. QED
      BY <3>3, <3>4
  <2>2. CASE ~more /\ Raw.cabs > 0
    <3>1. CibsRead(img, pc', at', d) = Index(img, at') + 1
      BY <1>1, <1>6, <2>2 DEF CibsRead
    <3>2. at' = at
      BY <1>1, <2>2
    <3>3. QED
      BY <3>1, <3>2
  <2>3. CASE ~more /\ ~(Raw.cabs > 0)
    <3>1. CibsRead(img, pc', at', d) = img.dev[d].cibs
      BY <1>1, <1>6, <2>3 DEF CibsRead
    <3>2. at.cib = Raw.cibs
      BY <1>2, <1>3, <1>9, <2>3
    <3>3. i + 1 = Raw.cibs
      <4> HIDE DEF i
      <4> QED
        BY <1>2, <1>10, <2>3, <3>2
    <3>4. QED
      BY <1>3, <3>1, <3>3
  <2>4. QED
    BY <2>1, <2>2, <2>3
<1>12. ChunksRead(img, pc', at', d) = ChunksRead(img, pc, at, d)
  <2>1. pc # "chunk" /\ pc' # "chunk"
    BY <1>1
  <2>2. QED
    BY <1>8, <1>11, <2>1 DEF ChunksRead
<1>13. SpotOK(img, pc', at')
  <2>1. at'.cib <= CibTotal /\ (~more => at.cib = CibTotal)
    BY <1>2, <1>5, <1>9
  <2>2. /\ DeviceOK(img.dev[d], img.max[d]) /\ (img.dev[d].cabs > 0 => at.cab <= img.dev[d].cabs)
    BY <1>2 DEF SpotOK
  <2>3. IF img.dev[d].cabs > 0 THEN CibTotal = Len(CabAt(img, d, at.cab - 1).cibs) ELSE CibTotal = img.dev[d].cibs
    BY <1>2, <1>3
  <2>4. CASE more
    <3>1. pc' = "cib"
      BY <1>1, <2>4
    <3> HIDE DEF more, d, i
    <3>2. QED
      BY <1>5, <2>1, <2>2, <2>3, <3>1 DEF SpotOK
  <2>5. CASE ~more /\ Raw.cabs > 0
    <3>1. pc' = "cab_end" /\ at' = at
      BY <1>1, <2>5
    <3>2. at.cib = Len(CabAt(img, d, at.cab - 1).cibs) /\ at.cib <= Len(CabAt(img, d, at.cab - 1).cibs)
      BY <1>2, <1>3, <2>1, <2>3, <2>5
    <3>3. img.dev[at.dev].cabs > 0
      BY <1>3, <2>5
    <3> HIDE DEF more, i
    <3>4. QED
      BY <2>2, <3>1, <3>2, <3>3 DEF SpotOK
  <2>6. CASE ~more /\ ~(Raw.cabs > 0)
    <3>1. pc' = "device_end" /\ at' = at
      BY <1>1, <2>6
    <3>2. QED
      BY <1>3, <2>2, <2>6, <3>1 DEF SpotOK
  <2>7. QED
    BY <2>4, <2>5, <2>6
<1>14. QED
  BY <1>1, <1>2, <1>4, <1>5, <1>6, <1>7, <1>8, <1>11, <1>12, <1>13

\* The end of a cib address block.
LEMMA DevCabEnd ==
  ASSUME PlaceInv, DevInv, EndCab, pc' \notin Bad, ~Doomed(img, pc, at, meas)
  PROVE  /\ at'.dev = at.dev /\ pc' \in DevicePcs \ {"device"}
         /\ SpotOK(img, pc', at') /\ start' = start
         /\ ~After(pc', at', at.dev) /\ ~After(pc, at, at.dev)
         /\ CabsRead(img, pc', at', at.dev) = CabsRead(img, pc, at, at.dev)
         /\ CibsRead(img, pc', at', at.dev) = CibsRead(img, pc, at, at.dev)
         /\ ChunksRead(img, pc', at', at.dev) = ChunksRead(img, pc, at, at.dev)
<1> DEFINE d == at.dev
           i == Index(img, at)
           more == at.cab < Raw.cabs
<1>1. /\ pc = "cab_end" /\ start' = start
      /\ at' = IF more THEN [at EXCEPT !.cab = at.cab + 1] ELSE at
      /\ pc' = IF more THEN "cab" ELSE "device_end"
  BY EndCabStep
<1>2. /\ OnDisk(img) /\ at \in Place /\ d \in Devs /\ SpotOK(img, pc, at)
      /\ Now(pc, at, d) /\ ~After(pc, at, d)
      /\ i \in Nat /\ i < Raw.cibs /\ Raw.cibs \in Nat /\ Raw.cabs \in Nat /\ at.cib \in Nat
  BY <1>1, SpotFacts
<1>3. Raw = img.dev[d] /\ Raw.cabs > 0 /\ Raw.cabs # 0 /\ DeviceOK(img.dev[d], img.max[d])
  <2>1. Raw = img.dev[d] /\ img.dev[d].cabs > 0 /\ DeviceOK(img.dev[d], img.max[d])
    BY <1>1, <1>2 DEF SpotOK, Raw
  <2>2. QED
    BY <1>2, <2>1
<1>4. /\ at.cab \in 1..Raw.cabs /\ Cab = CabAt(img, d, at.cab - 1)
      /\ Len(Cab.cibs) \in 1..CibsPerCab /\ CibsPerCab * (at.cab - 1) \in Nat
      /\ at.cab < Raw.cabs => /\ Len(Cab.cibs) = CibsPerCab
                              /\ CibsPerCab * (at.cab - 1) + CibsPerCab = CibsPerCab * at.cab
      /\ at.cab = Raw.cabs => CibsPerCab * (at.cab - 1) + Len(Cab.cibs) = Raw.cibs
  BY <1>1, <1>3, SpotFacts
<1>5. at.cib = Len(Cab.cibs) /\ at.cab \in Nat /\ at.cab + 1 \in Pos
  <2>1. at.cib = Len(Cab.cibs)
    BY <1>1, <1>2, <1>4 DEF SpotOK
  <2>2. QED
    BY <1>2, <1>4, <2>1 DEF Pos
<1>6. pc' \in DevicePcs \ {"device"}
  BY <1>1 DEF DevicePcs
<1>7. at'.dev = d /\ at'.cab = (IF more THEN at.cab + 1 ELSE at.cab) /\ at'.cib = at.cib
  <2>1. CASE more
    <3>1. at' = [at EXCEPT !.cab = at.cab + 1]
      BY <1>1, <2>1
    <3>2. QED
      BY <1>2, <1>5, <2>1, <3>1, MoveCab
  <2>2. CASE ~more
    BY <1>1, <2>2
  <2>3. QED
    BY <2>1, <2>2
<1>8. ~After(pc', at', d) /\ Now(pc', at', d)
  BY <1>2, <1>6, <1>7 DEF After, Now, DevicePcs, LatePcs, Devs
<1>9. CabsRead(img, pc', at', d) = CabsRead(img, pc, at, d)
  <2>1. CabsRead(img, pc, at, d) = at.cab
    BY <1>1, <1>2, <1>3 DEF CabsRead
  <2>2. CASE more
    <3>1. CabsRead(img, pc', at', d) = (at.cab + 1) - 1
      BY <1>1, <1>3, <1>7, <1>8, <2>2 DEF CabsRead
    <3>2. QED
      BY <1>5, <2>1, <3>1
  <2>3. CASE ~more
    BY <1>1, <1>3, <1>8, <2>1, <2>3 DEF CabsRead
  <2>4. QED
    BY <2>2, <2>3
<1>10. CibsRead(img, pc, at, d) = i + 1
  BY <1>1, <1>2 DEF CibsRead
<1>11. i = CibsPerCab * (at.cab - 1) + at.cib - 1
  BY <1>3 DEF Index
<1>12. CibsRead(img, pc', at', d) = i + 1
  <2>1. CASE more
    <3>1. CibsRead(img, pc', at', d) = CibsPerCab * ((at.cab + 1) - 1)
      BY <1>1, <1>7, <1>8, <2>1 DEF CibsRead
    <3>2. (at.cab + 1) - 1 = at.cab
      BY <1>5
    <3>3. CibsRead(img, pc', at', d) = CibsPerCab * at.cab
      BY <3>1, <3>2
    <3>4. /\ CibsPerCab * (at.cab - 1) + CibsPerCab = CibsPerCab * at.cab
          /\ i = CibsPerCab * (at.cab - 1) + CibsPerCab - 1
      BY <1>4, <1>5, <1>11, <2>1
    <3> DEFINE f == CibsPerCab * (at.cab - 1)
    <3>5. f \in Nat /\ CibsPerCab \in Nat /\ CibsRead(img, pc', at', d) = f + CibsPerCab /\ i = f + CibsPerCab - 1
      BY <1>4, <3>3, <3>4, Capacities
    <3> HIDE DEF i, f
    <3>6. QED
      BY <3>5
  <2>2. CASE ~more
    <3>1. CibsRead(img, pc', at', d) = Raw.cibs
      BY <1>1, <1>3, <1>8, <2>2 DEF CibsRead
    <3>2. at.cab = Raw.cabs
      BY <1>2, <1>4, <2>2
    <3> HIDE DEF i
    <3>3. QED
      BY <1>2, <1>4, <1>5, <1>11, <3>1, <3>2
  <2>3. QED
    BY <2>1, <2>2
<1>13. ChunksRead(img, pc', at', d) = ChunksRead(img, pc, at, d)
  <2>1. pc # "chunk" /\ pc' # "chunk"
    BY <1>1
  <2>2. QED
    BY <1>10, <1>12, <2>1 DEF ChunksRead
<1>14. SpotOK(img, pc', at')
  <2>1. CASE more
    <3>1. pc' = "cab" /\ at'.cab <= img.dev[d].cabs
      BY <1>1, <1>2, <1>3, <1>5, <1>7, <2>1
    <3>2. QED
      BY <1>3, <1>7, <3>1 DEF SpotOK
  <2>2. CASE ~more
    <3>1. pc' = "device_end" /\ at' = at /\ at.cab = img.dev[d].cabs /\ at.cab <= img.dev[d].cabs
      BY <1>1, <1>2, <1>3, <1>4, <2>2
    <3>2. QED
      BY <1>3, <3>1 DEF SpotOK
  <2>3. QED
    BY <2>1, <2>2
<1>15. QED
  BY <1>1, <1>2, <1>6, <1>7, <1>8, <1>9, <1>10, <1>12, <1>13, <1>14

\* The end of a device.
LEMMA DevEnd ==
  ASSUME PlaceInv, DevInv, EndDevice, pc' \notin Bad, ~Doomed(img, pc, at, meas)
  PROVE  /\ pc' \in {"device", "queue"}
         /\ \A d \in Devs : /\ DevOK(img, pc', at', d, meas', bits')
                            /\ CabsRead(img, pc', at', d) = CabsRead(img, pc, at, d)
                            /\ CibsRead(img, pc', at', d) = CibsRead(img, pc, at, d)
                            /\ ChunksRead(img, pc', at', d) = ChunksRead(img, pc, at, d)
<1>1. /\ pc = "device_end" /\ TotalsOK(meas[at.dev]) /\ meas' = meas /\ bits' = bits
      /\ at' = [at EXCEPT !.dev = IF at.dev = "main" THEN "tier2" ELSE "main"]
      /\ pc' = IF at.dev = "main" THEN "device" ELSE "queue"
  BY EndDeviceStep
<1>2. pc \in DevicePcs /\ pc # "device"
  BY <1>1 DEF DevicePcs
<1>3. /\ OnDisk(img) /\ at \in Place /\ at.dev \in Devs /\ SpotOK(img, pc, at)
      /\ \A d \in Devs : DevOK(img, pc, at, d, meas, bits)
  BY <1>2, DevFacts
<1>4. at'.dev = IF at.dev = "main" THEN "tier2" ELSE "main"
  BY <1>1, <1>3 DEF Place
<1>5. SUFFICES ASSUME NEW d \in Devs
               PROVE  /\ DevOK(img, pc', at', d, meas, bits)
                      /\ CabsRead(img, pc', at', d) = CabsRead(img, pc, at, d)
                      /\ CibsRead(img, pc', at', d) = CibsRead(img, pc, at, d)
                      /\ ChunksRead(img, pc', at', d) = ChunksRead(img, pc, at, d)
  BY <1>1
<1>6. CASE d = at.dev
  <2>1. After(pc', at', d) /\ Now(pc, at, d) /\ ~After(pc, at, d)
    BY <1>1, <1>3, <1>4, <1>6 DEF After, Now, DevicePcs, LatePcs, Devs
  <2>2. /\ CabsRead(img, pc', at', d) = img.dev[d].cabs /\ CibsRead(img, pc', at', d) = img.dev[d].cibs
        /\ ChunksRead(img, pc', at', d) = Covered(img, d, img.dev[d].cibs)
    BY <2>1, AllRead
  <2>3. CabsRead(img, pc, at, d) = img.dev[d].cabs
    <3>1. img.dev[d].cabs \in Nat
      BY <1>3, <1>6, DiskTypes
    <3>2. img.dev[d].cabs > 0 => at.cab = img.dev[d].cabs
      BY <1>1, <1>3, <1>6 DEF SpotOK
    <3>3. CabsRead(img, pc, at, d) = IF img.dev[d].cabs = 0 THEN 0 ELSE at.cab
      BY <1>1, <2>1 DEF CabsRead
    <3>4. QED
      BY <3>1, <3>2, <3>3
  <2>4. CibsRead(img, pc, at, d) = img.dev[d].cibs
    BY <1>1, <2>1 DEF CibsRead
  <2>5. ChunksRead(img, pc, at, d) = Covered(img, d, img.dev[d].cibs)
    BY <1>1, <2>4 DEF ChunksRead
  <2>6. /\ DeviceOK(img.dev[d], img.max[d])
        /\ img.dev[d].cabs > 0 => meas[d].cibs = img.dev[d].cibs
        /\ meas[d].chunks = img.dev[d].chunks /\ meas[d].blocks = img.dev[d].blocks
        /\ meas[d].free = img.dev[d].free
    BY <1>1, <1>3, <1>6 DEF SpotOK, TotalsOK, Raw
  <2>7. DevOK(img, pc', at', d, meas, bits)
    BY <1>3, <2>2, <2>3, <2>4, <2>5, <2>6 DEF DevOK
  <2>8. QED
    BY <2>2, <2>3, <2>4, <2>5, <2>7
<1>7. CASE d # at.dev
  <2>1. After(pc', at', d) <=> After(pc, at, d)
    BY <1>1, <1>3, <1>4, <1>7 DEF After, DevicePcs, LatePcs, Devs
  <2>2. ~Now(pc, at, d) /\ ~Now(pc', at', d)
    BY <1>1, <1>7 DEF Now, DevicePcs
  <2>3. CabsRead(img, pc', at', d) = CabsRead(img, pc, at, d) /\ CibsRead(img, pc', at', d) = CibsRead(img, pc, at, d)
    BY <2>1, <2>2 DEF CabsRead, CibsRead
  <2>4. ChunksRead(img, pc', at', d) = ChunksRead(img, pc, at, d)
    BY <2>2, <2>3 DEF ChunksRead
  <2>5. DevOK(img, pc', at', d, meas, bits)
    BY <1>3, <2>1, <2>3, <2>4 DEF DevOK
  <2>6. QED
    BY <2>3, <2>4, <2>5
<1>8. QED
  BY <1>6, <1>7

\* What was read, from one step to the next.
SameRead ==
  \A d \in Devs : /\ CabsRead(img, pc', at', d) = CabsRead(img, pc, at, d)
                  /\ CibsRead(img, pc', at', d) = CibsRead(img, pc, at, d)
                  /\ ChunksRead(img, pc', at', d) = ChunksRead(img, pc, at, d)

\* The steps before the devices and after them.
LEMMA DevSame ==
  ASSUME PlaceInv, PlaceInv', [Next]_vars, pc' \notin Bad, pc \notin DevicePcs
  PROVE  SameRead /\ \A d \in Devs : After(pc', at', d) <=> After(pc, at, d)
<1>1. PlaceOK(pc, at) /\ PlaceOK(pc', at')
  BY BadStays DEF PlaceInv
<1>2. CASE pc \in EarlyPcs /\ (pc' \in EarlyPcs \/ (pc' = "device" /\ at'.dev = "main"))
  <2>1. \A d \in Devs : /\ ~After(pc, at, d) /\ CabsRead(img, pc, at, d) = 0
                        /\ CibsRead(img, pc, at, d) = 0 /\ ChunksRead(img, pc, at, d) = 0
    BY <1>2, NoneRead
  <2>2. \A d \in Devs : /\ ~After(pc', at', d) /\ CabsRead(img, pc', at', d) = 0
                        /\ CibsRead(img, pc', at', d) = 0 /\ ChunksRead(img, pc', at', d) = 0
    BY <1>2, NoneRead
  <2>3. QED
    BY <2>1, <2>2 DEF SameRead
<1>3. CASE pc \in LatePcs /\ pc' \in LatePcs
  <2>1. \A d \in Devs : After(pc, at, d) /\ After(pc', at', d)
    BY <1>3 DEF After
  <2>2. QED
    BY <2>1, AllRead DEF SameRead
<1>4. CASE ReadHeader
  BY <1>2, <1>4, ReadHeaderStep DEF EarlyPcs
<1>5. CASE CheckZone
  BY <1>2, <1>5, CheckZoneStep DEF EarlyPcs
<1>6. CASE CheckCounts
  <2>1. pc = "counts" /\ pc' = "device" /\ at' = at
    BY <1>6, CheckCountsStep
  <2>2. at.dev = "main"
    BY <1>1, <2>1 DEF PlaceOK
  <2>3. QED
    BY <1>2, <2>1, <2>2 DEF EarlyPcs
<1>7. CASE ParseFreeQueueRecord \/ StartPool \/ EndWalk \/ ReadIpBitmap \/ ComparePool \/ CompareBitmaps
  <2> USE DEF LatePcs
  <2>1. CASE ParseFreeQueueRecord
    BY <1>3, <2>1, ParseFreeQueueRecordStep
  <2>2. CASE StartPool
    BY <1>3, <2>2, StartPoolStep
  <2>3. CASE EndWalk
    BY <1>3, <2>3, EndWalkStep
  <2>4. CASE ReadIpBitmap
    BY <1>3, <2>4, ReadIpBitmapStep
  <2>5. CASE ComparePool
    BY <1>3, <2>5, ComparePoolStep
  <2>6. CASE CompareBitmaps
    BY <1>3, <2>6, CompareBitmapsStep
  <2>7. QED
    BY <1>7, <2>1, <2>2, <2>3, <2>4, <2>5, <2>6
<1>8. CASE EndQueue
  BY <1>3, <1>8, EndQueueStep DEF LatePcs
<1>9. CASE WalkFreeList
  BY <1>3, <1>9, WalkFreeListStep DEF LatePcs
<1>10. CASE UNCHANGED vars
  BY <1>10 DEF vars, SameRead
<1>11. CASE StartDevice \/ ReadCab \/ ReadCib \/ ReadChunk \/ EndCib \/ EndCab \/ EndDevice
  BY <1>11, Guards DEF DevicePcs
<1>12. QED
  BY <1>4, <1>5, <1>6, <1>7, <1>8, <1>9, <1>10, <1>11, PassingSteps

\* A step in a device that leaves the other one alone.
LEMMA DevOther ==
  ASSUME PlaceInv, DevInv, pc \in DevicePcs, pc' \in DevicePcs, at'.dev = at.dev,
         ~Doomed(img, pc, at, meas), NEW d \in Devs, d # at.dev, meas'[d] = meas[d], bits'[d] = bits[d]
  PROVE  /\ DevOK(img, pc', at', d, meas', bits')
         /\ CabsRead(img, pc', at', d) = CabsRead(img, pc, at, d)
         /\ CibsRead(img, pc', at', d) = CibsRead(img, pc, at, d)
         /\ ChunksRead(img, pc', at', d) = ChunksRead(img, pc, at, d)
<1>1. DevOK(img, pc, at, d, meas, bits)
  BY DevFacts
<1>2. /\ After(pc', at', d) <=> After(pc, at, d)
      /\ CabsRead(img, pc', at', d) = CabsRead(img, pc, at, d)
      /\ CibsRead(img, pc', at', d) = CibsRead(img, pc, at, d)
      /\ ChunksRead(img, pc', at', d) = ChunksRead(img, pc, at, d)
  BY OtherRead
<1>3. QED
  BY <1>1, <1>2 DEF DevOK

\* The count of all blocks, once it was compared.
TotalChecked(m, p) == p \in LatePcs => m.block_count = m.dev["main"].blocks + m.dev["tier2"].blocks
DevsOK(m, p, a, me, bi) == \A d \in Devs : DevOK(m, p, a, d, me, bi)

\* The parts of the invariant.
LEMMA DevParts ==
  ASSUME pc' \notin Bad, IsMeas(meas'), DOMAIN bits' = Devs, img' = img, TotalChecked(img, pc'),
         \/ Doomed(img, pc', at', meas')
         \/ /\ DevsOK(img, pc', at', meas', bits')
            /\ pc' \in DevicePcs \ {"device"} => SpotOK(img, pc', at') /\ start' = meas'[at'.dev].blocks
  PROVE  DevInv'
BY DEF DevInv, TotalChecked, DevsOK

\* A device whose counts stay, with as much read of it.
LEMMA DevKept ==
  ASSUME NEW d \in Devs, DevOK(img, pc, at, d, meas, bits), meas' = meas, bits' = bits,
         After(pc', at', d) => After(pc, at, d),
         CabsRead(img, pc', at', d) = CabsRead(img, pc, at, d),
         CibsRead(img, pc', at', d) = CibsRead(img, pc, at, d),
         ChunksRead(img, pc', at', d) = ChunksRead(img, pc, at, d)
  PROVE  DevOK(img, pc', at', d, meas', bits')
BY DEF DevOK

\* The total is compared when the loop over the devices ends.
LEMMA TotalStays ==
  ASSUME PlaceInv, DevInv, [Next]_vars, pc' \notin Bad
  PROVE  TotalChecked(img, pc')
<1> SUFFICES ASSUME pc' \in LatePcs PROVE img.block_count = img.dev["main"].blocks + img.dev["tier2"].blocks
  BY DEF TotalChecked
<1>1. pc \notin Bad /\ (pc \in LatePcs => img.block_count = img.dev["main"].blocks + img.dev["tier2"].blocks)
  BY BadStays DEF DevInv
<1>2. CASE EndDevice
  <2>1. at.dev = "main" => pc' = "device"
    BY <1>2, EndDeviceStep
  <2>2. at.dev = "tier2"
    BY <1>1, <2>1 DEF PlaceInv, PlaceOK, Place, Devs, LatePcs
  <2>3. QED
    BY <1>2, <2>2, EndDeviceStep
<1>3. CASE ReadHeader
  BY <1>3, ReadHeaderStep DEF LatePcs
<1>4. CASE CheckZone
  BY <1>4, CheckZoneStep DEF LatePcs
<1>5. CASE CheckCounts \/ StartDevice \/ ReadCab \/ ReadCib
  BY <1>5, CheckCountsStep, StartDeviceStep, ReadCabStep, ReadCibStep DEF LatePcs
<1>6. CASE ReadChunk
  BY <1>6, ReadChunkStep DEF LatePcs
<1>7. CASE EndCib \/ EndCab
  BY <1>7, EndCibStep, EndCabStep DEF LatePcs
<1>8. CASE UNCHANGED vars
  BY <1>1, <1>8 DEF vars
<1>9. ParseFreeQueueRecord \/ EndQueue \/ StartPool \/ WalkFreeList \/ EndWalk \/ ReadIpBitmap
        \/ ComparePool \/ CompareBitmaps => pc \in LatePcs
  BY Guards DEF LatePcs
<1>10. QED
  BY <1>1, <1>2, <1>3, <1>4, <1>5, <1>6, <1>7, <1>8, <1>9, PassingSteps

\* Each step keeps what is known of the devices.
LEMMA DevNext ==
  ASSUME PlaceInv, PlaceInv', DevInv, [Next]_vars, pc' \notin Bad
  PROVE  DevInv'
<1> DEFINE Goal == /\ DevsOK(img, pc', at', meas', bits')
                   /\ pc' \in DevicePcs \ {"device"} => SpotOK(img, pc', at') /\ start' = meas'[at'.dev].blocks
<1>1. img' = img /\ IsMeas(meas') /\ DOMAIN bits' = Devs /\ TotalChecked(img, pc')
  BY ImageFixed, DeviceTypes, TotalStays
<1>2. CASE Doomed(img, pc, at, meas)
  BY <1>1, <1>2, DoomedStays, DevParts
<1>3. CASE ~Doomed(img, pc, at, meas)
  <2>1. SUFFICES Goal
    BY <1>1, DevParts
  <2>2. pc \notin Bad /\ IsMeas(meas) /\ DOMAIN bits = Devs /\ at.dev \in Devs
    BY BadStays DEF DevInv, PlaceInv, PlaceOK, Place
  <2>3. DevsOK(img, pc, at, meas, bits)
    BY <1>3, <2>2 DEF DevInv, DevsOK
  <2>4. ASSUME at'.dev = at.dev, pc \in DevicePcs, pc' \in DevicePcs,
               DevOK(img, pc', at', at.dev, meas', bits'), SpotOK(img, pc', at'), start' = meas'[at.dev].blocks,
               \A d \in Devs \ {at.dev} : meas'[d] = meas[d] /\ bits'[d] = bits[d]
        PROVE  Goal
    <3>1. ASSUME NEW d \in Devs, d # at.dev PROVE DevOK(img, pc', at', d, meas', bits')
      BY <1>3, <2>4, <3>1, DevOther
    <3>2. QED
      BY <2>4, <3>1 DEF DevsOK
  <2>5. CASE StartDevice
    <3>1. meas' = meas /\ bits' = bits /\ pc = "device"
      BY <2>5, StartDeviceStep
    <3>2. QED
      BY <2>4, <2>5, <3>1, DevStart DEF DevicePcs
  <2>6. CASE ReadCab
    <3>1. /\ meas' = [meas EXCEPT ![at.dev].cibs = meas[at.dev].cibs + Len(Cab.cibs)]
          /\ bits' = bits /\ pc = "cab"
      BY <2>6, ReadCabStep
    <3>2. \A d \in Devs \ {at.dev} : meas'[d] = meas[d]
      BY <2>2, <3>1, AddCibs
    <3>3. QED
      BY <2>4, <2>6, <3>1, <3>2, DevCab DEF DevicePcs
  <2>7. CASE ReadCib
    <3>1. /\ meas' = [meas EXCEPT ![at.dev].chunks = meas[at.dev].chunks + Len(Cib.chunks)]
          /\ bits' = bits /\ pc = "cib"
      BY <2>7, ReadCibStep
    <3>2. \A d \in Devs \ {at.dev} : meas'[d] = meas[d]
      BY <2>2, <3>1, AddChunks
    <3>3. QED
      BY <1>3, <2>4, <2>7, <3>1, <3>2, DevCibRead DEF DevicePcs
  <2>8. CASE ReadChunk
    <3>1. PICK x, y : meas' = [meas EXCEPT ![at.dev].blocks = @ + x, ![at.dev].free = @ + y]
      BY <2>8, ReadChunkStep
    <3>2. PICK S : bits' = [bits EXCEPT ![at.dev] = S]
      BY <2>8, ReadChunkStep
    <3>3. \A d \in Devs \ {at.dev} : meas'[d] = meas[d]
      BY <2>2, <3>1 DEF IsMeas
    <3>4. \A d \in Devs \ {at.dev} : bits'[d] = bits[d]
      BY <2>2, <3>2
    <3>5. pc = "chunk"
      BY <2>8, Guards
    <3>6. /\ at'.dev = at.dev /\ pc' \in DevicePcs \ {"device"}
          /\ DevOK(img, pc', at', at.dev, meas', bits')
          /\ SpotOK(img, pc', at') /\ start' = meas'[at.dev].blocks
      BY <1>3, <2>8, DevChunkRead
    <3>7. QED
      BY <2>4, <3>3, <3>4, <3>5, <3>6 DEF DevicePcs
  <2>9. ASSUME at'.dev = at.dev, pc \in DevicePcs \ {"device"}, pc' \in DevicePcs, SpotOK(img, pc', at'),
               start' = start, meas' = meas, bits' = bits, ~After(pc', at', at.dev),
               CabsRead(img, pc', at', at.dev) = CabsRead(img, pc, at, at.dev),
               CibsRead(img, pc', at', at.dev) = CibsRead(img, pc, at, at.dev),
               ChunksRead(img, pc', at', at.dev) = ChunksRead(img, pc, at, at.dev)
        PROVE  Goal
    <3>1. DevOK(img, pc', at', at.dev, meas', bits')
      <4>1. DevOK(img, pc, at, at.dev, meas, bits)
        BY <2>2, <2>3 DEF DevsOK
      <4>2. QED
        BY <2>2, <2>9, <4>1, DevKept
    <3>2. start = meas[at.dev].blocks
      BY <1>3, <2>2, <2>9 DEF DevInv
    <3>3. QED
      BY <2>4, <2>9, <3>1, <3>2
  <2>10. CASE EndCib
    <3>1. meas' = meas /\ bits' = bits /\ pc \in DevicePcs \ {"device"}
      BY <2>10, EndCibStep DEF DevicePcs
    <3>2. QED
      BY <1>3, <2>9, <2>10, <3>1, DevCibEnd
  <2>11. CASE EndCab
    <3>1. meas' = meas /\ bits' = bits /\ pc \in DevicePcs \ {"device"}
      BY <2>11, EndCabStep DEF DevicePcs
    <3>2. QED
      BY <1>3, <2>9, <2>11, <3>1, DevCabEnd
  <2>12. CASE EndDevice
    BY <1>3, <2>12, DevEnd DEF DevsOK, DevicePcs
  <2>13. CASE UNCHANGED vars
    BY <1>3, <2>2, <2>3, <2>13 DEF vars, DevInv
  <2>14. CASE pc \notin DevicePcs
    <3>1. ~ReadCab /\ ~ReadCib /\ ~ReadChunk /\ ~StartDevice /\ ~EndCib /\ ~EndCab /\ ~EndDevice
      BY <2>14, Guards DEF DevicePcs
    <3>2. meas' = meas /\ bits' = bits
      BY <3>1, OtherSteps
    <3>3. SameRead /\ \A d \in Devs : After(pc', at', d) <=> After(pc, at, d)
      BY <2>14, DevSame
    <3>4. DevsOK(img, pc', at', meas', bits')
      <4>1. ASSUME NEW d \in Devs PROVE DevOK(img, pc', at', d, meas', bits')
        <5>1. DevOK(img, pc, at, d, meas, bits)
          BY <2>3 DEF DevsOK
        <5>2. QED
          BY <3>2, <3>3, <5>1, DevKept DEF SameRead
      <4>2. QED
        BY <4>1 DEF DevsOK
    <3>5. pc' \notin DevicePcs \ {"device"}
      <4>1. CASE ReadHeader
        BY <4>1, ReadHeaderStep DEF DevicePcs
      <4>2. CASE CheckZone
        BY <4>2, CheckZoneStep DEF DevicePcs
      <4>3. CASE CheckCounts
        BY <4>3, CheckCountsStep DEF DevicePcs
      <4>4. CASE ParseFreeQueueRecord \/ EndQueue
        BY <4>4, ParseFreeQueueRecordStep, EndQueueStep DEF DevicePcs
      <4>5. CASE StartPool \/ WalkFreeList \/ EndWalk
        BY <4>5, StartPoolStep, WalkFreeListStep, EndWalkStep DEF DevicePcs
      <4>6. CASE ReadIpBitmap \/ ComparePool \/ CompareBitmaps
        BY <4>6, ReadIpBitmapStep, ComparePoolStep, CompareBitmapsStep DEF DevicePcs
      <4>7. CASE UNCHANGED vars
        BY <2>14, <4>7 DEF vars
      <4>8. QED
        BY <3>1, <4>1, <4>2, <4>3, <4>4, <4>5, <4>6, <4>7, PassingSteps
    <3>6. QED
      BY <3>4, <3>5
  <2>15. CASE pc \in DevicePcs
    <3>1. ~ReadHeader /\ ~CheckZone /\ ~CheckCounts /\ ~ParseFreeQueueRecord /\ ~EndQueue
          /\ ~StartPool /\ ~WalkFreeList /\ ~EndWalk /\ ~ReadIpBitmap /\ ~ComparePool /\ ~CompareBitmaps
      BY <2>15, Guards DEF DevicePcs
    <3>2. QED
      BY <2>5, <2>6, <2>7, <2>8, <2>10, <2>11, <2>12, <2>13, <3>1, PassingSteps
  <2>16. QED
    BY <2>14, <2>15
<1>4. QED
  BY <1>2, <1>3

\* What is known of the devices is kept from the start of the program.
LEMMA DevStays == Spec => []DevInv
<1>1. ASSUME Init PROVE DevInv
  <2>1. /\ pc = "header" /\ at = NoPlace /\ meas = [d \in Devs |-> NoMeas] /\ bits = [d \in Devs |-> {}]
        /\ OnDisk(img)
    BY <1>1 DEF Init
  <2>2. IsMeas(meas) /\ DOMAIN bits = Devs
    BY <2>1 DEF IsMeas, NoMeas
  <2>3. ASSUME NEW d \in Devs PROVE DevOK(img, pc, at, d, meas, bits)
    <3>1. ~After(pc, at, d) /\ ~Now(pc, at, d) /\ pc # "chunk"
      BY <2>1 DEF After, Now, LatePcs, DevicePcs
    <3>2. CabsRead(img, pc, at, d) = 0 /\ CibsRead(img, pc, at, d) = 0
      BY <3>1 DEF CabsRead, CibsRead
    <3>3. ChunksRead(img, pc, at, d) = 0
      BY <3>1, <3>2 DEF ChunksRead, Covered
    <3>4. meas[d] = NoMeas /\ bits[d] = {}
      BY <2>1
    <3>5. img.dev[d].cabs \in Nat /\ img.dev[d].cibs \in Nat
      BY <2>1, DiskTypes
    <3>6. CabsFull(img, d, 0) /\ CibsFull(img, d, 0) /\ ChunksFull(img, d, 0)
      BY <3>5 DEF CabsFull, CibsFull, ChunksFull
    <3>7. Counted(img, d, 0, 0, 0, meas[d], bits[d])
      <4>1. 0..(0 - 1) = {}
        OBVIOUS
      <4>2. Total(Frees(img, d), 0..(0 - 1)) = 0
        BY <4>1, TotalEmpty
      <4>3. UNION {BitsAt(img, d, k) : k \in 0..(0 - 1)} = {}
        BY <4>1
      <4>4. Listing(img, d, 0) = 0 /\ Covered(img, d, 0) = 0 /\ Spanned(img, d, 0) = 0
        BY DEF Listing, Covered, Spanned
      <4>5. QED
        BY <3>4, <4>2, <4>3, <4>4 DEF Counted, NoMeas
    <3>8. QED
      BY <3>1, <3>2, <3>3, <3>6, <3>7 DEF DevOK
  <2>4. pc \notin DevicePcs /\ pc \notin LatePcs
    BY <2>1 DEF DevicePcs, LatePcs
  <2>5. QED
    BY <2>2, <2>3, <2>4 DEF DevInv
<1>2. ASSUME PlaceInv, PlaceInv', DevInv, [Next]_vars PROVE DevInv'
  <2>1. CASE pc' \in Bad
    BY <2>1 DEF DevInv
  <2>2. QED
    BY <1>2, <2>1, DevNext
<1>3. QED
  BY <1>1, <1>2, PlacesStay, PTL DEF Spec

-----------------------------------------------------------------------------
(* Allocation zones. *)

\* The zones in use among the first n of a device, as they are listed, and that
\* no two of them meet.
ZoneUsed(m, d, i) == m.zones[d][i].id # 0
ZoneOf(m, d, i) ==
  [id |-> m.zones[d][i].id, start |-> m.zones[d][i].cur[1], end |-> m.zones[d][i].cur[2]]
ZoneList(m, d, n) == {ZoneOf(m, d, i) : i \in {i \in 1..n : ZoneUsed(m, d, i)}}
ZonePair(m, d, i, j) ==
  /\ m.zones[d][i].id # m.zones[d][j].id
  /\ \/ m.zones[d][i].cur[2] <= m.zones[d][j].cur[1]
     \/ m.zones[d][j].cur[2] <= m.zones[d][i].cur[1]
ZonesApart(m, d, n) ==
  \A i, j \in 1..n : ZoneUsed(m, d, i) /\ ZoneUsed(m, d, j) /\ i # j => ZonePair(m, d, i, j)
ZoneOK(m, p, a, zs) ==
  /\ p = "header" => a.zone = 1 /\ zs = {}
  /\ p = "zone" => /\ a.zone <= Len(m.zones[a.dev]) /\ zs = ZoneList(m, a.dev, a.zone - 1)
                   /\ ZonesApart(m, a.dev, a.zone - 1)
                   /\ a.dev = "tier2" => ZonesApart(m, "main", Len(m.zones["main"]))
  /\ p \notin {"header", "zone"} /\ m.versioned => \A d \in Devs : ZonesApart(m, d, Len(m.zones[d]))
ZoneInv == pc \notin Bad => ZoneOK(img, pc, at, zones)

\* The zones of a device.
LEMMA ZoneTypes ==
  ASSUME OnDisk(img), NEW d \in Devs
  PROVE  /\ Len(img.zones[d]) \in Nat \ {0}
         /\ \A i \in 1..Len(img.zones[d]) :
              img.zones[d][i].cur[1] \in Nat /\ img.zones[d][i].cur[2] \in Nat
<1>1. img.zones[d] \in Seq(ZoneRecord) /\ img.zones[d] # <<>>
  BY DEF OnDisk
<1>2. Len(img.zones[d]) \in Nat \ {0} /\ \A i \in 1..Len(img.zones[d]) : img.zones[d][i] \in ZoneRecord
  BY <1>1
<1>3. \A z \in ZoneRecord : z.cur[1] \in Nat /\ z.cur[2] \in Nat
  BY DEF ZoneRecord
<1>4. QED
  BY <1>2, <1>3

\* No zone is listed at first.
LEMMA ZonesNone == ASSUME NEW m, NEW d PROVE ZonesApart(m, d, 0) /\ ZoneList(m, d, 0) = {}
BY DEF ZonesApart, ZoneList

\* One more zone.
LEMMA ZoneMore ==
  ASSUME OnDisk(img), NEW d \in Devs, NEW n \in 1..Len(img.zones[d]),
         ZonesApart(img, d, n - 1), zones = ZoneList(img, d, n - 1),
         ZoneUsed(img, d, n) => NewZoneOK(img.zones[d][n].id, img.zones[d][n].cur)
  PROVE  /\ ZonesApart(img, d, n)
         /\ ZoneList(img, d, n) = IF ZoneUsed(img, d, n) THEN zones \cup {ZoneOf(img, d, n)} ELSE zones
<1>0. Len(img.zones[d]) \in Nat /\ n \in Nat
  BY ZoneTypes
<1>1. ASSUME NEW i \in 1..(n - 1), ZoneUsed(img, d, i), ZoneUsed(img, d, n)
      PROVE  ZonePair(img, d, i, n) /\ ZonePair(img, d, n, i)
  <2>1. ZoneOf(img, d, i) \in zones
    BY <1>1 DEF ZoneList
  <2>2. ZoneOf(img, d, i).id # img.zones[d][n].id
        /\ ~(img.zones[d][n].cur[1] < ZoneOf(img, d, i).end /\ img.zones[d][n].cur[2] > ZoneOf(img, d, i).start)
    BY <1>1, <2>1 DEF NewZoneOK
  <2>3. ZoneOf(img, d, i).id = img.zones[d][i].id /\ ZoneOf(img, d, i).start = img.zones[d][i].cur[1]
        /\ ZoneOf(img, d, i).end = img.zones[d][i].cur[2]
    BY DEF ZoneOf
  <2>4. /\ img.zones[d][i].cur[1] \in Nat /\ img.zones[d][i].cur[2] \in Nat
        /\ img.zones[d][n].cur[1] \in Nat /\ img.zones[d][n].cur[2] \in Nat
    <3>1. i \in 1..Len(img.zones[d])
      BY <1>0
    <3>2. QED
      BY <3>1, ZoneTypes
  <2>5. /\ img.zones[d][i].id # img.zones[d][n].id
        /\ ~(img.zones[d][n].cur[1] < img.zones[d][i].cur[2] /\ img.zones[d][n].cur[2] > img.zones[d][i].cur[1])
    BY <2>2, <2>3, Zenon
  <2> DEFINE s == img.zones[d][i].cur[1]
             e == img.zones[d][i].cur[2]
             x == img.zones[d][n].cur[1]
             y == img.zones[d][n].cur[2]
  <2>6. s \in Nat /\ e \in Nat /\ x \in Nat /\ y \in Nat /\ ~(x < e /\ y > s)
    BY <2>4, <2>5
  <2> HIDE DEF s, e, x, y
  <2>7. e <= x \/ y <= s
    BY <2>6
  <2>8. QED
    BY <2>5, <2>7, Zenon DEF ZonePair, s, e, x, y
<1>2. 1..n = 1..(n - 1) \cup {n}
  BY <1>0
<1>3. ZonesApart(img, d, n)
  <2>1. ASSUME NEW i \in 1..n, NEW j \in 1..n, ZoneUsed(img, d, i), ZoneUsed(img, d, j), i # j
        PROVE  ZonePair(img, d, i, j)
    <3>1. CASE i = n
      BY <1>1, <1>2, <2>1, <3>1
    <3>2. CASE j = n
      BY <1>1, <1>2, <2>1, <3>2
    <3>3. CASE i # n /\ j # n
      BY <1>2, <2>1, <3>3 DEF ZonesApart
    <3>4. QED
      BY <3>1, <3>2, <3>3
  <2>2. QED
    BY <2>1 DEF ZonesApart
<1>4. QED
  BY <1>2, <1>3 DEF ZoneList

\* Each step keeps the list of zones.
LEMMA ZoneNext == ASSUME PlaceInv, ZoneInv, [Next]_vars PROVE ZoneInv'
<1>1. img' = img /\ OnDisk(img)
  BY ImageFixed DEF PlaceInv
<1>2. SUFFICES ASSUME pc' \notin Bad PROVE ZoneOK(img, pc', at', zones')
  BY <1>1 DEF ZoneInv
<1>3. pc \notin Bad /\ ZoneOK(img, pc, at, zones) /\ PlaceOK(pc, at) /\ at \in Place /\ at.dev \in Devs
  BY <1>2, BadStays DEF ZoneInv, PlaceInv, PlaceOK, Place
<1>4. CASE ReadHeader
  <2>1. pc = "header" /\ pc' = (IF img.versioned THEN "zone" ELSE "counts") /\ at' = at /\ zones' = zones
    BY <1>2, <1>4, ReadHeaderStep
  <2>2. at.zone = 1 /\ zones = {} /\ at.dev = "main"
    BY <1>3, <2>1 DEF ZoneOK, PlaceOK
  <2>3. Len(img.zones["main"]) \in Nat \ {0}
    BY <1>1, ZoneTypes DEF Devs
  <2>4. ZonesApart(img, "main", 1 - 1) /\ ZoneList(img, "main", 1 - 1) = {}
    BY ZonesNone
  <2>5. QED
    BY <2>1, <2>2, <2>3, <2>4 DEF ZoneOK
<1>5. CASE CheckZone
  <2> DEFINE d == at.dev
             az == img.zones[d][at.zone]
             more == at.zone < Len(img.zones[d])
             next == IF ~more /\ d = "main" THEN "tier2" ELSE IF more THEN d ELSE "main"
             num == IF more THEN at.zone + 1 ELSE 1
  <2>1. /\ pc = "zone" /\ (az.id # 0 => NewZoneOK(az.id, az.cur))
        /\ zones' = IF more THEN (IF az.id = 0 THEN zones
                                  ELSE zones \cup {[id |-> az.id, start |-> az.cur[1], end |-> az.cur[2]]})
                    ELSE {}
        /\ at' = [at EXCEPT !.zone = num, !.dev = next]
        /\ pc' = IF ~more /\ d = "tier2" THEN "counts" ELSE "zone"
    BY <1>2, <1>5, CheckZoneStep
  <2>2. /\ at.zone \in Pos /\ at.zone <= Len(img.zones[d]) /\ zones = ZoneList(img, d, at.zone - 1)
        /\ ZonesApart(img, d, at.zone - 1)
        /\ d = "tier2" => ZonesApart(img, "main", Len(img.zones["main"]))
    BY <1>3, <2>1 DEF ZoneOK, Place
  <2>3. /\ \A e \in Devs : Len(img.zones[e]) \in Nat \ {0}
        /\ at.zone \in 1..Len(img.zones[d])
    BY <1>1, <1>3, <2>2, ZoneTypes DEF Pos
  <2>4. /\ ZonesApart(img, d, at.zone)
        /\ ZoneList(img, d, at.zone) = IF az.id # 0 THEN zones \cup {ZoneOf(img, d, at.zone)} ELSE zones
    BY <1>1, <1>3, <2>1, <2>2, <2>3, ZoneMore DEF ZoneUsed
  <2>5. num \in Pos /\ next \in Devs
    BY <1>3, <2>2 DEF Pos, Devs
  <2>6. at'.zone = num /\ at'.dev = next
    <3>1. at' = [at EXCEPT !.zone = num, !.dev = next] /\ at \in Place
      BY <1>3, <2>1
    <3> HIDE DEF num, next
    <3>2. QED
      BY <2>5, <3>1 DEF Place
  <2>7. CASE more
    <3>1. num = at.zone + 1 /\ next = d /\ pc' = "zone" /\ num - 1 = at.zone /\ num <= Len(img.zones[d])
      BY <2>1, <2>2, <2>3, <2>7 DEF Pos
    <3>2. zones' = ZoneList(img, d, at.zone)
      BY <2>1, <2>4, <2>7 DEF ZoneOf
    <3>3. QED
      BY <2>2, <2>4, <2>6, <3>1, <3>2 DEF ZoneOK
  <2>8. CASE ~more
    <3>1. ZonesApart(img, d, Len(img.zones[d])) /\ zones' = {} /\ num = 1
      BY <2>1, <2>3, <2>4, <2>8
    <3>2. CASE d = "main"
      <4>1. next = "tier2" /\ pc' = "zone"
        BY <2>1, <2>8, <3>2
      <4>2. ZonesApart(img, "tier2", 1 - 1) /\ ZoneList(img, "tier2", 1 - 1) = {}
        BY ZonesNone
      <4>3. Len(img.zones["tier2"]) \in Nat \ {0}
        BY <2>3 DEF Devs
      <4>4. QED
        BY <2>6, <3>1, <3>2, <4>1, <4>2, <4>3 DEF ZoneOK
    <3>3. CASE d = "tier2"
      <4>1. pc' = "counts"
        BY <2>1, <2>8, <3>3
      <4>2. \A e \in Devs : ZonesApart(img, e, Len(img.zones[e]))
        BY <2>2, <3>1, <3>3 DEF Devs
      <4>3. QED
        BY <4>1, <4>2 DEF ZoneOK
    <3>4. QED
      BY <1>3, <3>2, <3>3 DEF Devs
  <2>9. QED
    BY <2>7, <2>8
<1>6. CASE UNCHANGED vars
  BY <1>3, <1>6 DEF vars
<1>7. CASE pc' \notin {"header", "zone"} /\ pc \notin {"header", "zone"}
  BY <1>3, <1>7 DEF ZoneOK
<1>8. ~ReadHeader /\ ~CheckZone /\ ~UNCHANGED vars => pc' \notin {"header", "zone"} /\ pc \notin {"header", "zone"}
  <2>1. CASE CheckCounts \/ StartDevice \/ ReadCab \/ ReadCib \/ EndCab \/ EndDevice
    BY <1>2, <2>1, CheckCountsStep, StartDeviceStep, ReadCabStep, ReadCibStep, EndCabStep, EndDeviceStep
  <2>2. CASE ReadChunk
    BY <1>2, <2>2, ReadChunkStep
  <2>3. CASE EndCib
    BY <1>2, <2>3, EndCibStep
  <2>4. CASE ParseFreeQueueRecord \/ EndQueue \/ StartPool \/ WalkFreeList
    BY <1>2, <2>4, ParseFreeQueueRecordStep, EndQueueStep, StartPoolStep, WalkFreeListStep
  <2>5. CASE EndWalk \/ ReadIpBitmap \/ ComparePool \/ CompareBitmaps
    BY <1>2, <2>5, EndWalkStep, ReadIpBitmapStep, ComparePoolStep, CompareBitmapsStep
  <2>6. QED
    BY <1>2, <2>1, <2>2, <2>3, <2>4, <2>5, PassingSteps
<1>9. QED
  BY <1>4, <1>5, <1>6, <1>7, <1>8

\* The list is right from the start of the program.
LEMMA ZonesStay == Spec => []ZoneInv
<1>1. Init => ZoneInv
  BY DEF Init, ZoneInv, ZoneOK, NoPlace
<1>2. PlaceInv /\ ZoneInv /\ [Next]_vars => ZoneInv'
  BY ZoneNext
<1>3. QED
  BY <1>1, <1>2, PlacesStay, PTL DEF Spec

-----------------------------------------------------------------------------
(* What the program compared stays so. *)

\* The sizes of the pool and of its bitmap, the bitmap, and those of the devices.
\* The pool does not reach the last block numbers.
PoolSizeOf(m) ==
  3 * ((m.dev["main"].chunks + m.dev["tier2"].chunks) + (m.dev["main"].cibs + m.dev["tier2"].cibs)
         + (m.dev["main"].cabs + m.dev["tier2"].cabs))
RingBits(m, i) == {(i - 1) * BlocksPerChunk + b : b \in m.ring[m.ip_bitmaps[i]]}
PoolBits(m) == UNION {RingBits(m, i) : i \in 1..m.bm_size}
Compared(m, p, bi, us, po) ==
  /\ p # "header" => m.bm_size = CeilDiv(m.ip_count, BlocksPerChunk)
  /\ p \in RingPcs => m.ip_count = PoolSizeOf(m)
  /\ p \in {"reserve", "accepted"} => PoolBits(m) = po /\ m.ip_base + m.ip_count + BlocksPerChunk <= AddrMod
  /\ p = "accepted" => \A d \in Devs : m.dev[d].chunks > 0 => SameBits(m, d, bi, us)
ComparedInv == pc \notin Bad => Compared(img, pc, bits, used, pool)

\* The names of the model.
LEMMA PoolNames == PoolSize = PoolSizeOf(img) /\ PoolOnDisk = PoolBits(img)
BY DEF PoolSize, PoolSizeOf, TotalOf, PoolOnDisk, PoolBits, RingBits

\* A range on a device ends before the last block numbers.
LEMMA EndsInside ==
  ASSUME OnDisk(img), NEW p \in Address, NEW n \in Address, CanMark(p, n)
  PROVE  p + n + BlocksPerChunk <= AddrMod
<1>1. /\ p \in Nat /\ n \in Nat /\ Tier2Base \in Nat /\ AddrMod \in Nat /\ BlocksPerChunk \in Nat
      /\ img.max["main"] \in Nat /\ img.max["tier2"] \in Nat
      /\ img.max["main"] <= Tier2Base /\ Tier2Base + img.max["tier2"] + BlocksPerChunk <= AddrMod
  BY AddressTypes DEF Devs
<1>2. DevAddr(p) + n <= img.max[DevOf(p)]
  BY MarkedFits
<1>3. CASE p >= Tier2Base
  <2>1. p - Tier2Base + n <= img.max["tier2"]
    BY <1>2, <1>3 DEF DevAddr, DevOf
  <2>2. QED
    BY <1>1, <2>1
<1>4. CASE ~(p >= Tier2Base)
  <2>1. p + n <= img.max["main"]
    BY <1>2, <1>4 DEF DevAddr, DevOf
  <2>2. QED
    BY <1>1, <2>1
<1>5. QED
  BY <1>3, <1>4

\* Each step keeps them.
LEMMA ComparedNext == ASSUME PlaceInv, ComparedInv, [Next]_vars PROVE ComparedInv'
<1>1. img' = img /\ OnDisk(img)
  BY ImageFixed DEF PlaceInv
<1>2. SUFFICES ASSUME pc' \notin Bad PROVE Compared(img, pc', bits', used', pool')
  BY <1>1 DEF ComparedInv
<1>3. pc \notin Bad /\ Compared(img, pc, bits, used, pool)
  BY <1>2, BadStays DEF ComparedInv
<1>4. CASE ReadHeader
  <2>1. img.bm_size = CeilDiv(img.ip_count, BlocksPerChunk) /\ pc' \in {"zone", "counts"}
    BY <1>2, <1>4, ReadHeaderStep
  <2>2. QED
    BY <2>1 DEF Compared, RingPcs
<1>5. CASE pc # "header" /\ pc' \notin RingPcs
  BY <1>3, <1>5 DEF Compared, RingPcs
<1>6. CASE CheckZone \/ CheckCounts \/ StartDevice \/ ReadCab \/ ReadCib
  <2>1. pc # "header" /\ pc' \notin RingPcs
    BY <1>2, <1>6, CheckZoneStep, CheckCountsStep, StartDeviceStep, ReadCabStep, ReadCibStep DEF RingPcs
  <2>2. QED
    BY <1>5, <2>1
<1>7. CASE ReadChunk
  <2>1. pc # "header" /\ pc' \notin RingPcs
    BY <1>2, <1>7, ReadChunkStep DEF RingPcs
  <2>2. QED
    BY <1>5, <2>1
<1>8. CASE EndCib \/ EndCab \/ EndDevice \/ ParseFreeQueueRecord \/ EndQueue
  <2>1. pc # "header" /\ pc' \notin RingPcs
    BY <1>2, <1>8, EndCibStep, EndCabStep, EndDeviceStep, ParseFreeQueueRecordStep, EndQueueStep DEF RingPcs
  <2>2. QED
    BY <1>5, <2>1
<1>9. CASE StartPool
  <2>1. pc = "pool" /\ pc' = "walk" /\ img.ip_count = PoolSizeOf(img)
    BY <1>2, <1>9, StartPoolStep, PoolNames
  <2>2. QED
    BY <1>3, <2>1 DEF Compared
<1>10. CASE WalkFreeList \/ EndWalk \/ ReadIpBitmap
  <2>1. pc \in RingPcs /\ pc' \in {"walk", "walked", "ring"}
    BY <1>2, <1>10, WalkFreeListStep, EndWalkStep, ReadIpBitmapStep DEF RingPcs
  <2>2. QED
    BY <1>3, <2>1 DEF Compared, RingPcs
<1>11. CASE ComparePool
  <2>1. pc = "ring" /\ pc' = "reserve" /\ PoolBits(img) = pool' /\ CanMark(img.ip_base, img.ip_count)
    BY <1>2, <1>11, ComparePoolStep, PoolNames
  <2>2. img.ip_base + img.ip_count + BlocksPerChunk <= AddrMod
    <3>1. img.ip_base \in Address /\ img.ip_count \in Address
      BY <1>1, AddressTypes
    <3>2. QED
      BY <1>1, <2>1, <3>1, EndsInside
  <2>3. QED
    BY <1>3, <2>1, <2>2 DEF Compared, RingPcs
<1>12. CASE CompareBitmaps
  <2>1. /\ pc = "reserve" /\ pc' = "accepted" /\ pool' = pool /\ bits' = bits /\ used' = used
        /\ \A d \in Devs : img.dev[d].chunks > 0 => SameBits(img, d, bits, used)
    BY <1>2, <1>12, CompareBitmapsStep
  <2>2. QED
    BY <1>3, <2>1 DEF Compared, RingPcs
<1>13. CASE UNCHANGED vars
  BY <1>3, <1>13 DEF vars
<1>14. QED
  BY <1>2, <1>4, <1>6, <1>7, <1>8, <1>9, <1>10, <1>11, <1>12, <1>13, PassingSteps

\* They are kept from the start.
LEMMA ComparedStays == Spec => []ComparedInv
<1>1. Init => ComparedInv
  BY DEF Init, ComparedInv, Compared, RingPcs
<1>2. PlaceInv /\ ComparedInv /\ [Next]_vars => ComparedInv'
  BY ComparedNext
<1>3. QED
  BY <1>1, <1>2, PlacesStay, PTL DEF Spec

-----------------------------------------------------------------------------
(* What an accepted image is: devices and bitmaps. *)
\* The free blocks of the chunks, as the sum of a fold.
LEMMA FreeSum ==
  ASSUME NEW S, IsFiniteSet(S), NEW d, NEW g,
         \A m \in S : g[m] = DevChunk(d, m).free /\ g[m] \in Int
  PROVE  MapThenSumSet(LAMBDA k : DevChunk(d, k).free, S) = Total(g, S)
<1> DEFINE P(h) == h = [s \in SUBSET S |->
                          IF s = {} THEN 0
                          ELSE DevChunk(d, (CHOOSE x \in s : TRUE)).free + h[s \ {CHOOSE x \in s : TRUE}]]
           sums == CHOOSE h : P(h)
<1>1. MapThenSumSet(LAMBDA k : DevChunk(d, k).free, S) = sums[S]
  BY Zenon DEF MapThenSumSet, MapThenFoldSet
<1>2. ASSUME NEW h PROVE P(h) <=> SumsOf(h, g, S)
  <2>1. \A s \in SUBSET S : s # {} => DevChunk(d, Pick(s)).free = g[Pick(s)]
    BY PickIn
  <2>2. [s \in SUBSET S |-> IF s = {} THEN 0 ELSE DevChunk(d, Pick(s)).free + h[s \ {Pick(s)}]]
        = [s \in SUBSET S |-> IF s = {} THEN 0 ELSE g[Pick(s)] + h[s \ {Pick(s)}]]
    BY <2>1
  <2>3. QED
    BY <2>2, Zenon DEF SumsOf, Pick
<1> HIDE DEF P
<1>3. PICK h \in [SUBSET S -> Int] : SumsOf(h, g, S)
  BY SumsExist
<1>4. P(sums)
  BY <1>2, <1>3
<1>5. QED
  BY <1>1, <1>2, <1>4, TotalIs

\* The blocks that are left for block i.
LEMMA ShareFull ==
  ASSUME NEW n \in Nat \ {0}, NEW w \in Nat, NEW i \in Nat, NEW c \in Nat, i + 1 < c, n * (c - 1) < w
  PROVE  Share(w, n, i) = n
<1>1. n * (i + 1) <= n * (c - 1)
  <2>1. i + 1 = c - 1 \/ (i + 1 < c - 1 /\ c - 1 \in Nat)
    OBVIOUS
  <2>2. CASE i + 1 < c - 1
    <3>1. n * (i + 1) + n <= n * (c - 1)
      BY <2>1, <2>2, NextMultiple
    <3>2. n * (i + 1) \in Int /\ n * (c - 1) \in Int
      OBVIOUS
    <3>3. QED
      BY <3>1, <3>2
  <2>3. QED
    BY <2>1, <2>2
<1>2. n * (i + 1) = i * n + n /\ i * n \in Nat
  OBVIOUS
<1> DEFINE f == i * n
           g == n * (c - 1)
<1>3. g \in Int
  OBVIOUS
<1> HIDE DEF f, g
<1>4. n <= w - f /\ w - f \in Int
  BY <1>1, <1>2, <1>3 DEF f, g
<1>5. Min({n, w - f}) = n
  BY <1>4 DEF Min
<1>6. QED
  BY <1>5 DEF Share, f

\* The same for the last one.
LEMMA ShareLast ==
  ASSUME NEW n \in Nat \ {0}, NEW w \in Nat, NEW i \in Nat, NEW l \in Nat, l <= n, n * i + l = w
  PROVE  Share(w, n, i) = l
<1>1. n * i = i * n /\ i * n \in Nat
  OBVIOUS
<1> DEFINE f == i * n
<1> HIDE DEF f
<1>2. w - f = l
  BY <1>1 DEF f
<1>3. Min({n, w - f}) = l
  BY <1>2 DEF Min
<1>4. QED
  BY <1>3 DEF Share, f

\* The places of the model.
LEMMA PlaceNames ==
  /\ \A d, i : CibAddr(d, i) = CibAddrAt(img, d, i) /\ DevCib(d, i) = CibAt(img, d, i)
  /\ \A d, k : DevChunk(d, k) = ChunkAt(img, d, k)
  /\ \A c : ChunkBits(c) = BitsOf(img, c)
<1>1. \A d, i : CibAddr(d, i) = CibAddrAt(img, d, i)
  BY DEF CibAddr, CibAddrAt, CabAt
<1>2. \A d, i : DevCib(d, i) = CibAt(img, d, i)
  BY <1>1 DEF DevCib, CibAt
<1>3. \A d, k : DevChunk(d, k) = ChunkAt(img, d, k)
  BY <1>2 DEF DevChunk, ChunkAt
<1>4. \A c : ChunkBits(c) = BitsOf(img, c)
  BY DEF ChunkBits, BitsOf
<1>5. QED
  BY <1>1, <1>2, <1>3, <1>4

\* A device that was read to its end and accepted.
DeviceDone(m, d, b) ==
  /\ DeviceOK(m.dev[d], m.max[d])
  /\ CabsFull(m, d, m.dev[d].cabs) /\ CibsFull(m, d, m.dev[d].cibs) /\ ChunksFull(m, d, m.dev[d].chunks)
  /\ m.dev[d].cabs > 0 => Listing(m, d, m.dev[d].cabs) = m.dev[d].cibs
  /\ Covered(m, d, m.dev[d].cibs) = m.dev[d].chunks
  /\ Spanned(m, d, m.dev[d].chunks) = m.dev[d].blocks
  /\ Total(Frees(m, d), 0..(m.dev[d].chunks - 1)) = m.dev[d].free
  /\ b = UNION {BitsAt(m, d, k) : k \in 0..(m.dev[d].chunks - 1)}

\* Once parse_spaceman_device() has returned for both devices, both are such.
LEMMA DevicesDone ==
  ASSUME DevInv, pc \in LatePcs, NEW d \in Devs
  PROVE  DeviceDone(img, d, bits[d])
<1>1. pc \notin Bad /\ ~Doomed(img, pc, at, meas) /\ After(pc, at, d)
  BY DEF LatePcs, Bad, Doomed, DevicePcs, After
<1>2. DevOK(img, pc, at, d, meas, bits)
  BY <1>1 DEF DevInv
<1> DEFINE K == Covered(img, d, img.dev[d].cibs)
<1>3. /\ CabsRead(img, pc, at, d) = img.dev[d].cabs /\ CibsRead(img, pc, at, d) = img.dev[d].cibs
      /\ ChunksRead(img, pc, at, d) = K
  BY <1>1, AllRead
<1>4. /\ CabsFull(img, d, img.dev[d].cabs) /\ CibsFull(img, d, img.dev[d].cibs) /\ ChunksFull(img, d, K)
      /\ Counted(img, d, img.dev[d].cabs, img.dev[d].cibs, K, meas[d], bits[d])
  BY <1>2, <1>3 DEF DevOK
<1>5. /\ DeviceOK(img.dev[d], img.max[d])
      /\ img.dev[d].cabs > 0 => meas[d].cibs = img.dev[d].cibs
      /\ meas[d].chunks = img.dev[d].chunks /\ meas[d].blocks = img.dev[d].blocks
      /\ meas[d].free = img.dev[d].free
  BY <1>1, <1>2 DEF DevOK
<1>6. K = img.dev[d].chunks
  BY <1>4, <1>5 DEF Counted
<1>7. QED
  BY <1>4, <1>5, <1>6 DEF Counted, DeviceDone

\* Such a device has all its blocks where they should be.
LEMMA DoneReadable ==
  ASSUME OnDisk(img), NEW d \in Devs, NEW b, DeviceDone(img, d, b)
  PROVE  Readable(d)
<1> DEFINE r == img.dev[d]
<1>1. /\ DeviceOK(r, img.max[d]) /\ CabsFull(img, d, r.cabs) /\ CibsFull(img, d, r.cibs)
      /\ r.cabs > 0 => Listing(img, d, r.cabs) = r.cibs
      /\ Covered(img, d, r.cibs) = r.chunks
  BY DEF DeviceDone
<1>2. /\ r.chunks \in Nat /\ r.cibs \in Nat /\ r.cabs \in Nat /\ Len(r.addr) \in Nat
      /\ r.cabs > 0 => CibsPerCab * (r.cabs - 1) < r.cibs
      /\ r.cibs > 0 => ChunksPerCib * (r.cibs - 1) < r.chunks
  BY <1>1, DeviceCounts, DiskTypes
<1>3. Len(r.addr) >= IF r.cabs > 0 THEN r.cabs ELSE r.cibs
  <2>1. CASE r.cabs > 0
    <3>1. (r.cabs - 1) \in 0..(r.cabs - 1)
      BY <1>2, <2>1
    <3>2. (r.cabs - 1) + 1 <= Len(r.addr)
      BY <1>1, <3>1 DEF CabsFull
    <3>3. QED
      BY <1>2, <2>1, <3>2
  <2>2. CASE r.cabs = 0 /\ r.cibs > 0
    <3>1. (r.cibs - 1) \in 0..(r.cibs - 1)
      BY <1>2, <2>2
    <3>2. (r.cibs - 1) + 1 <= Len(r.addr)
      BY <1>1, <2>2, <3>1 DEF CibsFull
    <3>3. QED
      BY <1>2, <2>2, <3>2
  <2>3. CASE r.cabs = 0 /\ r.cibs = 0
    BY <1>2, <2>3
  <2>4. QED
    BY <1>2, <2>1, <2>2, <2>3
<1>4. ASSUME NEW i \in 0..(r.cabs - 1)
      PROVE  r.addr[i + 1] \in DOMAIN img.cab /\ Len(CabAt(img, d, i).cibs) = Share(r.cibs, CibsPerCab, i)
  <2>1. /\ r.addr[i + 1] \in DOMAIN img.cab /\ Len(CabAt(img, d, i).cibs) \in 1..CibsPerCab
        /\ i + 1 < r.cabs => Len(CabAt(img, d, i).cibs) = CibsPerCab
    BY <1>1, <1>4 DEF CabsFull
  <2>2. CASE i + 1 < r.cabs
    <3>1. Share(r.cibs, CibsPerCab, i) = CibsPerCab
      <4>1. i \in Nat /\ r.cabs \in Nat /\ r.cibs \in Nat /\ CibsPerCab * (r.cabs - 1) < r.cibs
        BY <1>2, <2>2
      <4> HIDE DEF r
      <4>2. QED
        BY <2>2, <4>1, ShareFull, Capacities
    <3>2. QED
      BY <2>1, <2>2, <3>1
  <2>3. CASE ~(i + 1 < r.cabs)
    <3>1. i = r.cabs - 1 /\ r.cabs > 0 /\ r.cabs # 0
      BY <1>2, <2>3
    <3>2. CibsPerCab * i + Len(CabAt(img, d, i).cibs) = r.cibs
      BY <1>1, <3>1 DEF Listing
    <3>3. Len(CabAt(img, d, i).cibs) \in Nat /\ Len(CabAt(img, d, i).cibs) <= CibsPerCab /\ i \in Nat
      BY <2>1, Capacities
    <3>4. QED
      BY <1>2, <2>1, <3>2, <3>3, ShareLast, Capacities
  <2>4. QED
    BY <2>2, <2>3
<1>5. ASSUME NEW i \in 0..(r.cibs - 1)
      PROVE  CibAddr(d, i) \in DOMAIN img.cib /\ Len(DevCib(d, i).chunks) = Share(r.chunks, ChunksPerCib, i)
  <2>1. /\ CibAddrAt(img, d, i) \in DOMAIN img.cib /\ Len(CibAt(img, d, i).chunks) \in 1..ChunksPerCib
        /\ i + 1 < r.cibs => Len(CibAt(img, d, i).chunks) = ChunksPerCib
    BY <1>1, <1>5 DEF CibsFull
  <2>2. Len(CibAt(img, d, i).chunks) = Share(r.chunks, ChunksPerCib, i)
    <3>1. CASE i + 1 < r.cibs
      <4>1. Share(r.chunks, ChunksPerCib, i) = ChunksPerCib
        <5>1. i \in Nat /\ r.cibs \in Nat /\ r.chunks \in Nat /\ ChunksPerCib * (r.cibs - 1) < r.chunks
          BY <1>2, <3>1
        <5> HIDE DEF r
        <5>2. QED
          BY <3>1, <5>1, ShareFull, Capacities
      <4>2. QED
        BY <2>1, <3>1, <4>1
    <3>2. CASE ~(i + 1 < r.cibs)
      <4>1. i = r.cibs - 1 /\ r.cibs # 0
        BY <1>2, <3>2
      <4>2. ChunksPerCib * i + Len(CibAt(img, d, i).chunks) = r.chunks
        BY <1>1, <4>1 DEF Covered
      <4>3. Len(CibAt(img, d, i).chunks) \in Nat /\ Len(CibAt(img, d, i).chunks) <= ChunksPerCib /\ i \in Nat
        BY <2>1, Capacities
      <4>4. QED
        BY <1>2, <4>2, <4>3, ShareLast, Capacities
    <3>3. QED
      BY <3>1, <3>2
  <2>3. QED
    BY <2>1, <2>2, PlaceNames
<1>6. /\ r.chunks = CeilDiv(r.blocks, BlocksPerChunk)
      /\ r.cibs = CeilDiv(r.chunks, ChunksPerCib) /\ r.cabs = CabsFor(r.cibs)
  BY <1>1 DEF DeviceOK
<1>7. QED
  BY <1>3, <1>4, <1>5, <1>6 DEF Readable, CabsOf, CibsOf, CabAt

\* The free count of a chunk that was read is right, unless bits are set past the
\* end of the chunk.
LEMMA FreeRight ==
  ASSUME OnDisk(img), NEW c \in ChunkInfo, c.count \in 1..BlocksPerChunk, c.free = FreeOf(img, c)
  PROVE  Stray(c) \/ c.free = Cardinality(FreeBlocks(c))
<1> SUFFICES ASSUME ~Stray(c) PROVE c.free = Cardinality(FreeBlocks(c))
  OBVIOUS
<1> DEFINE n == c.count
           B == ChunkBits(c)
           S == 0..(n - 1)
<1>1. BlocksPerChunk \in Nat /\ CountMod \in Nat /\ BlocksPerChunk < CountMod
  BY SpacemanAssumption, Capacities DEF SpacemanAssumption
<1>2. n \in Nat /\ n <= BlocksPerChunk /\ 0 \in Int /\ n - 1 \in Int
  BY <1>1
<1>3. B \subseteq S
  BY DEF Stray
<1>4. IsFiniteSet(S) /\ Cardinality(S) = n
  <2>1. PICK z, t : z = 0 /\ t = n - 1
    OBVIOUS
  <2>2. z \in Int /\ t \in Int
    BY <1>2, <2>1
  <2>3. IsFiniteSet(z..t) /\ Cardinality(z..t) = IF z > t THEN 0 ELSE t - z + 1
    BY <2>2, FS_Interval
  <2>4. (IF z > t THEN 0 ELSE t - z + 1) = n
    BY <1>2, <2>1
  <2>5. QED
    BY <2>1, <2>3, <2>4
<1>5. IsFiniteSet(S \ B) /\ Cardinality(S \ B) = Cardinality(S) - Cardinality(S \cap B)
  BY <1>4, FS_Difference
<1>6. S \cap B = B /\ Cardinality(S \ B) \in Nat /\ IsFiniteSet(B) /\ Cardinality(B) \in Nat
  BY <1>3, <1>4, <1>5, FS_Subset, FS_CardinalityType
<1>7. c.free = (n - Cardinality(B)) % CountMod
  BY PlaceNames DEF FreeOf
<1>8. FreeBlocks(c) = S \ B
  BY DEF FreeBlocks
<1> HIDE DEF n, B, S
<1>9. n - Cardinality(B) = Cardinality(S \ B)
  BY <1>2, <1>4, <1>5, <1>6
<1>10. n - Cardinality(B) \in 0..(CountMod - 1)
  BY <1>1, <1>2, <1>6, <1>9
<1>11. (n - Cardinality(B)) % CountMod = n - Cardinality(B)
  BY <1>1, <1>10
<1>12. QED
  BY <1>7, <1>8, <1>9, <1>11

\* Its chunks are all of its blocks.
LEMMA DoneTiles ==
  ASSUME OnDisk(img), NEW d \in Devs, NEW b, DeviceDone(img, d, b)
  PROVE  ChunksTile(d)
<1> DEFINE r == img.dev[d]
<1>1. /\ DeviceOK(r, img.max[d]) /\ ChunksFull(img, d, r.chunks) /\ Covered(img, d, r.cibs) = r.chunks
      /\ Spanned(img, d, r.chunks) = r.blocks /\ Total(Frees(img, d), 0..(r.chunks - 1)) = r.free
  BY DEF DeviceDone
<1>2. /\ r.chunks \in Nat /\ r.blocks \in Nat
      /\ r.chunks > 0 => BlocksPerChunk * (r.chunks - 1) < r.blocks
  BY <1>1, DeviceCounts
<1>3. ASSUME NEW k \in 0..(r.chunks - 1)
      PROVE  /\ ChunkAt(img, d, k).addr = k * BlocksPerChunk
             /\ ChunkAt(img, d, k).count = Share(r.blocks, BlocksPerChunk, k)
             /\ Stray(ChunkAt(img, d, k))
                  \/ ChunkAt(img, d, k).free = Cardinality(FreeBlocks(ChunkAt(img, d, k)))
             /\ ChunkAt(img, d, k) \in ChunkInfo
  <2>1. /\ ChunkAt(img, d, k).addr = k * BlocksPerChunk
        /\ ChunkAt(img, d, k).count \in 1..BlocksPerChunk
        /\ ~FinalChunk(img, d, k) => ChunkAt(img, d, k).count = BlocksPerChunk
        /\ ChunkAt(img, d, k).free = FreeOf(img, ChunkAt(img, d, k))
        /\ ChunkAt(img, d, k) \in ChunkInfo
    BY <1>1, <1>3 DEF ChunksFull
  <2>5. Stray(ChunkAt(img, d, k)) \/ ChunkAt(img, d, k).free = Cardinality(FreeBlocks(ChunkAt(img, d, k)))
    BY <2>1, FreeRight
  <2>2. CASE k + 1 < r.chunks
    <3>1. Share(r.blocks, BlocksPerChunk, k) = BlocksPerChunk
      <4>1. k \in Nat /\ r.chunks \in Nat /\ r.blocks \in Nat /\ BlocksPerChunk * (r.chunks - 1) < r.blocks
        BY <1>2, <2>2
      <4> HIDE DEF r
      <4>2. QED
        BY <2>2, <4>1, ShareFull, Capacities
    <3>2. ~FinalChunk(img, d, k)
      BY <1>1, <1>2, <2>2 DEF FinalChunk
    <3>3. QED
      BY <2>1, <2>5, <3>1, <3>2
  <2>3. CASE ~(k + 1 < r.chunks)
    <3>1. k = r.chunks - 1 /\ r.chunks # 0
      BY <1>2, <2>3
    <3>2. BlocksPerChunk * k + ChunkAt(img, d, k).count = r.blocks
      BY <1>1, <3>1 DEF Spanned
    <3>3. ChunkAt(img, d, k).count \in Nat /\ ChunkAt(img, d, k).count <= BlocksPerChunk /\ k \in Nat
      BY <2>1, Capacities
    <3>4. Share(r.blocks, BlocksPerChunk, k) = ChunkAt(img, d, k).count
      BY <1>2, <3>2, <3>3, ShareLast, Capacities
    <3>5. QED
      BY <2>1, <2>5, <3>4
  <2>4. QED
    BY <2>2, <2>3
<1>4. r.free = MapThenSumSet(LAMBDA k : DevChunk(d, k).free, ChunksOf(d))
  <2> DEFINE S == 0..(r.chunks - 1)
             g == Frees(img, d)
  <2>1. \A c \in ChunkInfo : c.free \in Int
    BY DEF ChunkInfo
  <2>2. \A k \in S : g[k] = DevChunk(d, k).free /\ g[k] \in Int
    <3>1. ASSUME NEW k \in S PROVE g[k] = ChunkAt(img, d, k).free /\ ChunkAt(img, d, k) \in ChunkInfo
      BY <1>3, <3>1 DEF Frees
    <3>2. QED
      BY <2>1, <3>1, PlaceNames
  <2>3. IsFiniteSet(S)
    <3>1. 0 \in Int /\ r.chunks - 1 \in Int
      BY <1>2
    <3>2. QED
      BY <3>1, FS_Interval
  <2> HIDE DEF g
  <2>4. MapThenSumSet(LAMBDA k : DevChunk(d, k).free, S) = Total(g, S)
    BY <2>2, <2>3, FreeSum
  <2>5. QED
    BY <1>1, <2>4 DEF ChunksOf, g
<1>5. r.blocks <= img.max[d]
  BY <1>1 DEF DeviceOK
<1>6. QED
  BY <1>3, <1>4, <1>5, PlaceNames DEF ChunksTile, ChunksOf

\* An accepted image has its devices right, and its zones.
LEMMA DevicesRight ==
  ASSUME PlaceInv, DevInv, ZoneInv
  PROVE  DevicesAccepted
<1> SUFFICES ASSUME Accepted PROVE Devices /\ Zones
  BY DEF DevicesAccepted
<1>1. OnDisk(img) /\ pc \in LatePcs /\ pc = "accepted" /\ pc \notin Bad
  BY DEF PlaceInv, Accepted, LatePcs, Bad
<1>2. \A d \in Devs : Readable(d) /\ ChunksTile(d)
  BY <1>1, DevicesDone, DoneReadable, DoneTiles
<1>3. img.block_count = img.dev["main"].blocks + img.dev["tier2"].blocks
  BY <1>1 DEF DevInv
<1>4. Zones
  <2> SUFFICES ASSUME img.versioned, NEW d \in Devs,
                      NEW i \in DOMAIN img.zones[d], NEW j \in DOMAIN img.zones[d],
                      img.zones[d][i].id # 0, img.zones[d][j].id # 0, i # j
               PROVE  ZonePair(img, d, i, j)
    BY DEF Zones, ZonePair
  <2>1. ZonesApart(img, d, Len(img.zones[d]))
    BY <1>1 DEF ZoneInv, ZoneOK
  <2>2. DOMAIN img.zones[d] = 1..Len(img.zones[d])
    BY <1>1 DEF OnDisk
  <2>3. QED
    BY <2>1, <2>2 DEF ZonesApart, ZoneUsed
<1>5. QED
  BY <1>2, <1>3, <1>4 DEF Devices, TotalOf

\* An accepted space manager describes each block of both devices in exactly one
\* chunk, with right free counts unless bits are set past the end of a short last
\* chunk (parse_spaceman_device(), parse_cib_addr_block(),
\* parse_chunk_info_block(), parse_chunk_info()), and no block in two allocation
\* zones (check_new_alloc_zone()).
THEOREM DevicesDescribed == Spec => []DevicesAccepted
<1>1. PlaceInv /\ DevInv /\ ZoneInv => DevicesAccepted
  BY DevicesRight
<1>2. QED
  BY <1>1, PlacesStay, DevStays, ZonesStay, PTL

\* At the end all uses are accounted for.
LEMMA AllUses ==
  ASSUME OnDisk(img), pc = "accepted"
  PROVE  /\ OwnDone(img, pc, at) = OwnUses
         /\ \A u : Use(img, u) = OwnUse(u)
<1>1. \A u : Use(img, u) = OwnUse(u)
  BY DEF Use, OwnUse, QueueRange
<1>2. Own(img) = OwnUses
  BY DEF Own, OwnUses, QueueUses
<1>3. \A u \in Own(img) : u[2] \in {"ring", "pool", "queue"}
  BY DEF Own
<1>4. OwnDone(img, pc, at) = Own(img)
  BY <1>3 DEF OwnDone, QueueDone, LatePcs
<1>5. QED
  BY <1>1, <1>2, <1>4

\* The blocks of a device in a union of ranges.
LEMMA OnDevUnion ==
  ASSUME NEW d, NEW D
  PROVE  OnDev(d, UNION {OwnUse(u) : u \in D}) = UNION {OnDev(d, OwnUse(u)) : u \in D}
BY DEF OnDev

\* The bits read are those of the blocks that the chunks describe.
LEMMA BitsDescribed ==
  ASSUME OnDisk(img), NEW d \in Devs
  PROVE  UNION {BitsAt(img, d, k) : k \in 0..(img.dev[d].chunks - 1)} \subseteq Described(d)
<1> SUFFICES ASSUME NEW k \in 0..(img.dev[d].chunks - 1), NEW b \in BitsOf(img, ChunkAt(img, d, k))
             PROVE  k * BlocksPerChunk + b \in Described(d)
  BY DEF BitsAt
<1>1. b \in 0..(BlocksPerChunk - 1)
  BY DEF BitsOf, OnDisk
<1>2. img.dev[d].chunks \in Nat /\ BlocksPerChunk \in Nat
  BY Capacities DEF OnDisk
<1>3. k \in Nat /\ k + 1 <= img.dev[d].chunks
  BY <1>2
<1>4. PICK n \in Nat : img.dev[d].chunks = k + 1 + n
  <2>1. img.dev[d].chunks - (k + 1) \in Nat /\ img.dev[d].chunks = k + 1 + (img.dev[d].chunks - (k + 1))
    BY <1>2, <1>3
  <2>2. QED
    BY <2>1
<1>5. (k + 1 + n) * BlocksPerChunk = k * BlocksPerChunk + BlocksPerChunk + n * BlocksPerChunk
  BY <1>2, <1>3
<1>6. k * BlocksPerChunk \in Nat /\ n * BlocksPerChunk \in Nat
  BY <1>2, <1>3
<1>7. QED
  BY <1>1, <1>2, <1>4, <1>5, <1>6 DEF Described

\* The bitmaps of an accepted image are those of the blocks in use.
LEMMA BitmapsRight ==
  ASSUME PlaceInv, DevInv, MarkInv, ComparedInv
  PROVE  BitmapsAccepted
<1> SUFFICES ASSUME Accepted PROVE Bitmaps
  BY DEF BitmapsAccepted
<1>1. OnDisk(img) /\ pc \in LatePcs /\ pc = "accepted" /\ pc \notin Bad
  BY DEF PlaceInv, Accepted, LatePcs, Bad
<1>2. Accounted(img, used, OwnUses)
  <2>1. OwnDone(img, pc, at) = OwnUses
    BY <1>1, AllUses
  <2>2. QED
    BY <1>1, <2>1 DEF MarkInv
<1>3. \A u : Use(img, u) = OwnUse(u)
  BY <1>1, AllUses
<1>4. ASSUME NEW d \in Devs
      PROVE  LET own == OnDev(d, UNION {OwnUse(u) : u \in OwnUses})
             IN  /\ own \cap img.before[d] = {}
                 /\ img.dev[d].chunks > 0 =>
                      UNION {{k * BlocksPerChunk + b : b \in ChunkBits(DevChunk(d, k))} : k \in ChunksOf(d)}
                        = (own \cup img.before[d]) \cap Described(d)
                 /\ own \subseteq 0..(img.max[d] - 1)
  <2> DEFINE own == UNION {OnDev(d, OwnUse(u)) : u \in OwnUses}
  <2>1. OnDev(d, UNION {OwnUse(u) : u \in OwnUses}) = own
    BY OnDevUnion
  <2>2. \A u \in OwnUses : /\ OnDev(d, OwnUse(u)) \cap img.before[d] = {}
                           /\ OnDev(d, OwnUse(u)) \subseteq 0..(img.max[d] - 1)
    BY <1>2, <1>3 DEF Accounted
  <2>3. used[d] = img.before[d] \cup own
    BY <1>2, <1>3 DEF Accounted
  <2>4. own \cap img.before[d] = {} /\ own \subseteq 0..(img.max[d] - 1)
    BY <2>2
  <2>5. img.dev[d].chunks > 0 => bits[d] \cap Described(d) = used[d] \cap Described(d)
    BY <1>1 DEF ComparedInv, Compared, SameBits, Described
  <2>6. bits[d] = UNION {BitsAt(img, d, k) : k \in 0..(img.dev[d].chunks - 1)}
    BY <1>1, DevicesDone DEF DeviceDone
  <2>7. UNION {{k * BlocksPerChunk + b : b \in ChunkBits(DevChunk(d, k))} : k \in ChunksOf(d)}
          = UNION {BitsAt(img, d, k) : k \in 0..(img.dev[d].chunks - 1)}
    <3>1. \A k : {k * BlocksPerChunk + b : b \in ChunkBits(DevChunk(d, k))} = BitsAt(img, d, k)
      BY PlaceNames DEF BitsAt
    <3>2. QED
      BY <3>1 DEF ChunksOf
  <2>8. bits[d] \subseteq Described(d)
    BY <1>1, <2>6, BitsDescribed
  <2> HIDE DEF own
  <2>9. QED
    BY <2>1, <2>3, <2>4, <2>5, <2>6, <2>7, <2>8
<1>5. \A u, v \in OwnUses : u # v => OwnUse(u) \cap OwnUse(v) = {}
  BY <1>2, <1>3 DEF Accounted
<1>6. QED
  BY <1>4, <1>5 DEF Bitmaps

\* The bitmaps on disk of an accepted container are those of the blocks in use,
\* the pool, its ring and the queued blocks included, none of them used twice
\* (container_bmap_mark_as_used() and compare_container_bitmaps_dev(), which looks
\* no further than the last chunk).
THEOREM BitmapsCompared == Spec => []BitmapsAccepted
<1>1. PlaceInv /\ DevInv /\ MarkInv /\ ComparedInv => BitmapsAccepted
  BY BitmapsRight
<1>2. QED
  BY <1>1, PlacesStay, DevStays, MarkStays, ComparedStays, PTL

-----------------------------------------------------------------------------
(* What is marked in the bitmap of the pool. *)

\* PoolUses and PoolUse(), as functions of what was read.
CabUses(d, n) == {<<d, "cab", i>> : i \in 0..(n - 1)}
CibUses(d, n) == {<<d, "cib", i>> : i \in 0..(n - 1)}
BitmapUses(m, d, n) == {<<d, "bitmap", k>> : k \in {k \in 0..(n - 1) : ChunkAt(m, d, k).bitmap # 0}}
DeviceUses(m, d, C, I, K) == CabUses(d, C) \cup CibUses(d, I) \cup BitmapUses(m, d, K)
RecordUses(m, p, a) == {<<"ip", "queue", i>> : i \in {i \in DOMAIN m.fq["ip"].recs : QueueDone(p, a, "ip", i)}}
UsesOf(m, p, a, d) ==
  DeviceUses(m, d, CabsRead(m, p, a, d), CibsRead(m, p, a, d), ChunksRead(m, p, a, d))
PoolDone(m, p, a) == RecordUses(m, p, a) \cup UNION {UsesOf(m, p, a, d) : d \in Devs}
Taken(m, u) ==
  CASE u[2] = "cab" -> {m.dev[u[1]].addr[u[3] + 1]}
    [] u[2] = "cib" -> {CibAddrAt(m, u[1], u[3])}
    [] u[2] = "bitmap" -> {ChunkAt(m, u[1], u[3]).bitmap}
    [] u[2] = "queue" -> RangeOf(m.fq[u[1]].recs[u[3]].paddr, m.fq[u[1]].recs[u[3]].length)

\* The bitmap is that of the uses in D, each of which has blocks of its own, from
\* the start of the pool on; only a range of a queue could reach beyond its end.
Pooled(m, po, D) ==
  /\ \A x : x \in po <=> \E u \in D : \E b \in Taken(m, u) : x = b - m.ip_base
  /\ \A u \in D : \A b \in Taken(m, u) : /\ b \in Nat /\ b >= m.ip_base
                                         /\ u[2] # "queue" => b < m.ip_base + m.ip_count
  /\ \A u, v \in D : u # v => Taken(m, u) \cap Taken(m, v) = {}
PoolInv == pc \notin Bad => Doomed(img, pc, at, meas) \/ Pooled(img, pool, PoolDone(img, pc, at))

\* A range of one block.
LEMMA OneBlock == ASSUME NEW p \in Nat PROVE RangeOf(p, 1) = {p}
BY DEF RangeOf

\* Marking the blocks of one more use of the pool.
LEMMA AddPoolUse ==
  ASSUME OnDisk(img), NEW D, Pooled(img, pool, D), NEW u, NEW p \in Nat, NEW n \in Nat \ {0},
         Taken(img, u) = RangeOf(p, n), CanMarkIp(p, n), n = 1 \/ u[2] = "queue",
         NEW po, po = pool \cup IpBlocks(p, n)
  PROVE  Pooled(img, po, D \cup {u})
<1> DEFINE base == img.ip_base
<1>1. base \in Nat /\ img.ip_count \in Nat
  BY AddressTypes
<1>2. /\ p >= base /\ p < base + img.ip_count /\ IpBlocks(p, n) \cap pool = {}
  BY DEF CanMarkIp, block_in_ip
<1>3. \A x : x \in pool <=> \E v \in D : \E b \in Taken(img, v) : x = b - base
  BY DEF Pooled
<1>4. \A x : x \in IpBlocks(p, n) <=> \E b \in Taken(img, u) : x = b - base
  BY DEF IpBlocks, RangeOf
<1>5. \A v \in D : Taken(img, u) \cap Taken(img, v) = {}
  <2> SUFFICES ASSUME NEW v \in D, NEW b \in Taken(img, u), b \in Taken(img, v) PROVE FALSE
    OBVIOUS
  <2>1. b - base \in pool /\ b - base \in IpBlocks(p, n)
    BY <1>3, <1>4
  <2>2. QED
    BY <1>2, <2>1
<1>6. \A x : x \in po <=> \E v \in D \cup {u} : \E b \in Taken(img, v) : x = b - base
  BY <1>3, <1>4
<1>7. \A b \in Taken(img, u) : b \in Nat /\ b >= base /\ (u[2] # "queue" => b < base + img.ip_count)
  BY <1>1, <1>2 DEF RangeOf
<1>8. QED
  BY <1>5, <1>6, <1>7 DEF Pooled

\* As much was read of a device as before.
SameOf(d) ==
  /\ CabsRead(img, pc', at', d) = CabsRead(img, pc, at, d)
  /\ CibsRead(img, pc', at', d) = CibsRead(img, pc, at, d)
  /\ ChunksRead(img, pc', at', d) = ChunksRead(img, pc, at, d)

\* Then its uses are the same.
LEMMA SameUses == ASSUME NEW d, SameOf(d) PROVE UsesOf(img, pc', at', d) = UsesOf(img, pc, at, d)
BY DEF SameOf, UsesOf

\* So it is for the other device while one is read.
LEMMA OtherUses ==
  ASSUME pc \in DevicePcs, pc' \in DevicePcs, at'.dev = at.dev, NEW d \in Devs, d # at.dev
  PROVE  SameOf(d)
BY OtherRead DEF SameOf

\* No record of a queue is parsed before the devices are read.
LEMMA NoRecords ==
  ASSUME NEW m, NEW p \in EarlyPcs \cup DevicePcs, NEW a
  PROVE  RecordUses(m, p, a) = {}
BY DEF RecordUses, QueueDone, EarlyPcs, DevicePcs, LatePcs

\* One more block of each kind.
LEMMA MoreUses ==
  ASSUME NEW d, NEW n \in Nat
  PROVE  /\ CabUses(d, n + 1) = CabUses(d, n) \cup {<<d, "cab", n>>}
         /\ CibUses(d, n + 1) = CibUses(d, n) \cup {<<d, "cib", n>>}
         /\ \A m : BitmapUses(m, d, n + 1) = IF ChunkAt(m, d, n).bitmap = 0 THEN BitmapUses(m, d, n)
                                             ELSE BitmapUses(m, d, n) \cup {<<d, "bitmap", n>>}
<1>1. 0..((n + 1) - 1) = 0..(n - 1) \cup {n}
  OBVIOUS
<1>2. QED
  BY <1>1 DEF CabUses, CibUses, BitmapUses

\* A step of the device at hand adds the uses that it adds to its own.
LEMMA StepUses ==
  ASSUME pc \in DevicePcs, pc' \in DevicePcs, at.dev \in Devs, at'.dev = at.dev, NEW U,
         UsesOf(img, pc', at', at.dev) = UsesOf(img, pc, at, at.dev) \cup U
  PROVE  PoolDone(img, pc', at') = PoolDone(img, pc, at) \cup U
<1>1. \A d \in Devs \ {at.dev} : UsesOf(img, pc', at', d) = UsesOf(img, pc, at, d)
  BY OtherUses, SameUses
<1>2. RecordUses(img, pc', at') = {} /\ RecordUses(img, pc, at) = {}
  BY NoRecords
<1>3. UNION {UsesOf(img, pc', at', d) : d \in Devs} = (UNION {UsesOf(img, pc, at, d) : d \in Devs}) \cup U
  BY <1>1
<1>4. QED
  BY <1>2, <1>3 DEF PoolDone

\* A cib address block takes a block of the pool.
LEMMA PoolCab ==
  ASSUME PlaceInv, DevInv, Pooled(img, pool, PoolDone(img, pc, at)), ReadCab, pc' \notin Bad
  PROVE  Pooled(img, pool', PoolDone(img, pc', at'))
<1> DEFINE d == at.dev
           u == <<d, "cab", at.cab - 1>>
           p == Raw.addr[at.cab]
<1>1. /\ pc = "cab" /\ AddrOK(Raw.addr, at.cab) /\ CanMarkIp(p, 1) /\ pool' = pool \cup IpBlocks(p, 1)
  BY ReadCabStep
<1>2. OnDisk(img) /\ d \in Devs /\ at.cab \in Pos
  BY <1>1 DEF PlaceInv, PlaceOK, Place, Bad
<1>3. at.cab \in 1..Len(Raw.addr) /\ Raw.addr \in Seq(Nat)
  BY <1>1, <1>2, DiskTypes DEF AddrOK, Pos, Raw
<1>4. p \in Nat /\ at.cab - 1 \in Nat /\ (at.cab - 1) + 1 = at.cab
  BY <1>3
<1>5. Taken(img, u) = RangeOf(p, 1)
  <2>1. Taken(img, u) = {img.dev[d].addr[(at.cab - 1) + 1]}
    BY DEF Taken
  <2>2. QED
    BY <1>4, <2>1, OneBlock DEF Raw
<1>6. PoolDone(img, pc', at') = PoolDone(img, pc, at) \cup {u}
  <2>1. /\ at'.dev = d /\ pc' \in DevicePcs /\ CabsRead(img, pc, at, d) = at.cab - 1
        /\ CabsRead(img, pc', at', d) = (at.cab - 1) + 1
        /\ CibsRead(img, pc', at', d) = CibsRead(img, pc, at, d)
        /\ ChunksRead(img, pc', at', d) = ChunksRead(img, pc, at, d)
    BY <1>4, DevCab
  <2>2. CabUses(d, (at.cab - 1) + 1) = CabUses(d, at.cab - 1) \cup {u}
    BY <1>4, MoreUses
  <2>3. UsesOf(img, pc', at', d) = UsesOf(img, pc, at, d) \cup {u}
    BY <2>1, <2>2 DEF UsesOf, DeviceUses
  <2>4. QED
    BY <1>1, <1>2, <2>1, <2>3, StepUses DEF DevicePcs
<1>7. p \in Nat /\ CanMarkIp(p, 1) /\ pool' = pool \cup IpBlocks(p, 1)
  BY <1>1, <1>4
<1> HIDE DEF u, p
<1>8. Pooled(img, pool', PoolDone(img, pc, at) \cup {u})
  BY <1>2, <1>5, <1>7, AddPoolUse
<1>9. QED
  BY <1>6, <1>8

\* So does a chunk-info block.
LEMMA PoolCib ==
  ASSUME PlaceInv, DevInv, Pooled(img, pool, PoolDone(img, pc, at)), ReadCib, pc' \notin Bad,
         ~Doomed(img, pc, at, meas)
  PROVE  Pooled(img, pool', PoolDone(img, pc', at'))
<1> DEFINE d == at.dev
           k == Index(img, at)
           u == <<d, "cib", k>>
           p == CibList[at.cib]
<1>1. /\ pc = "cib" /\ AddrOK(CibList, at.cib) /\ CanMarkIp(p, 1) /\ pool' = pool \cup IpBlocks(p, 1)
  BY ReadCibStep
<1>2. /\ OnDisk(img) /\ d \in Devs /\ at \in Place /\ k \in Nat /\ p = CibAddrAt(img, d, k)
      /\ Raw.cabs > 0 => at.cib \in 1..Len(Cab.cibs) /\ at.cab \in 1..Raw.cabs
                         /\ Cab = CabAt(img, d, at.cab - 1)
  BY <1>1, SpotFacts
<1>3. p \in Nat
  <2>1. CASE Raw.cabs > 0
    <3>1. img.dev[d].addr[(at.cab - 1) + 1] \in DOMAIN img.cab
      <4>1. DevOK(img, pc, at, d, meas, bits) /\ Now(pc, at, d) /\ ~After(pc, at, d)
        BY <1>1, SpotFacts
      <4>2. CabsRead(img, pc, at, d) = at.cab
        BY <1>1, <2>1, <4>1 DEF CabsRead, Raw
      <4>3. (at.cab - 1) \in 0..(at.cab - 1)
        BY <1>2, <2>1
      <4>4. CabsFull(img, d, at.cab)
        BY <4>1, <4>2 DEF DevOK
      <4>5. QED
        BY <4>3, <4>4 DEF CabsFull
    <3>2. Cab.cibs \in Seq(Nat)
      BY <1>2, <2>1, <3>1, DiskTypes DEF CabAt
    <3>3. QED
      BY <1>2, <2>1, <3>2 DEF CibList
  <2>2. CASE ~(Raw.cabs > 0)
    <3>1. CibList = img.dev[d].addr /\ CibList \in Seq(Nat)
      BY <1>2, <2>2, DiskTypes DEF CibList, Raw
    <3>2. at.cib \in 1..Len(CibList)
      BY <1>1, <1>2, <3>1 DEF AddrOK, Place, Pos
    <3>3. QED
      BY <3>1, <3>2
  <2>3. QED
    BY <2>1, <2>2
<1>4. Taken(img, u) = RangeOf(p, 1)
  <2>1. Taken(img, u) = {CibAddrAt(img, d, k)}
    BY DEF Taken
  <2>2. QED
    BY <1>2, <1>3, <2>1, OneBlock
<1>5. PoolDone(img, pc', at') = PoolDone(img, pc, at) \cup {u}
  <2>1. /\ at'.dev = d /\ pc' \in DevicePcs /\ CibsRead(img, pc, at, d) = k
        /\ CibsRead(img, pc', at', d) = k + 1
        /\ CabsRead(img, pc', at', d) = CabsRead(img, pc, at, d)
        /\ ChunksRead(img, pc', at', d) = ChunksRead(img, pc, at, d)
    BY DevCibRead
  <2>2. CibUses(d, k + 1) = CibUses(d, k) \cup {u}
    BY <1>2, MoreUses
  <2>3. UsesOf(img, pc', at', d) = UsesOf(img, pc, at, d) \cup {u}
    BY <2>1, <2>2 DEF UsesOf, DeviceUses
  <2>4. QED
    BY <1>1, <1>2, <2>1, <2>3, StepUses DEF DevicePcs
<1> HIDE DEF u, p
<1>6. QED
  BY <1>1, <1>2, <1>3, <1>4, <1>5, AddPoolUse

\* And a bitmap, if a chunk has one.
LEMMA PoolBitmap ==
  ASSUME PlaceInv, DevInv, Pooled(img, pool, PoolDone(img, pc, at)), ReadChunk, pc' \notin Bad,
         ~Doomed(img, pc, at, meas)
  PROVE  Pooled(img, pool', PoolDone(img, pc', at'))
<1> DEFINE d == at.dev
           k == ChunksRead(img, pc, at, at.dev)
           c == ChunkAt(img, d, k)
           u == <<d, "bitmap", k>>
           p == c.bitmap
<1>1. /\ at'.dev = at.dev /\ pc' \in DevicePcs /\ k \in Nat
      /\ ChunksRead(img, pc', at', d) = k + 1 /\ c = Cib.chunks[at.chunk]
      /\ CabsRead(img, pc', at', d) = CabsRead(img, pc, at, d)
      /\ CibsRead(img, pc', at', d) = CibsRead(img, pc, at, d)
      /\ DevOK(img, pc', at', at.dev, meas', bits')
  BY DevChunkRead
<1>2. /\ pc = "chunk" /\ (p # 0 => CanMarkIp(p, 1))
      /\ pool' = IF p = 0 THEN pool ELSE pool \cup IpBlocks(p, 1)
  BY <1>1, ReadChunkStep DEF ChunkOK
<1>3. OnDisk(img) /\ d \in Devs
  BY <1>2, SpotFacts
<1>4. p \in Nat
  <2>1. ChunksFull(img, d, k + 1)
    BY <1>1 DEF DevOK
  <2>2. k \in 0..((k + 1) - 1)
    BY <1>1
  <2>3. c \in ChunkInfo
    BY <2>1, <2>2 DEF ChunksFull
  <2>4. QED
    BY <2>3 DEF ChunkInfo
<1>5. Taken(img, u) = RangeOf(p, 1)
  <2>1. Taken(img, u) = {ChunkAt(img, d, k).bitmap}
    BY DEF Taken
  <2>2. QED
    BY <1>4, <2>1, OneBlock
<1>6. BitmapUses(img, d, k + 1) = IF p = 0 THEN BitmapUses(img, d, k) ELSE BitmapUses(img, d, k) \cup {u}
  BY <1>1, MoreUses
<1>7. UsesOf(img, pc', at', d) = UsesOf(img, pc, at, d) \cup (IF p = 0 THEN {} ELSE {u})
  BY <1>1, <1>6 DEF UsesOf, DeviceUses
<1>8. PoolDone(img, pc', at') = PoolDone(img, pc, at) \cup (IF p = 0 THEN {} ELSE {u})
  BY <1>1, <1>2, <1>3, <1>7, StepUses DEF DevicePcs
<1>9. CASE p = 0
  BY <1>2, <1>8, <1>9
<1>10. CASE p # 0
  <2>1. pool' = pool \cup IpBlocks(p, 1) /\ CanMarkIp(p, 1) /\ PoolDone(img, pc', at') = PoolDone(img, pc, at) \cup {u}
    BY <1>2, <1>8, <1>10
  <2> HIDE DEF u, p
  <2>2. QED
    BY <1>3, <1>4, <1>5, <2>1, AddPoolUse
<1>11. QED
  BY <1>9, <1>10

\* And a range of the pool's queue.
LEMMA PoolRecord ==
  ASSUME PlaceInv, Pooled(img, pool, PoolDone(img, pc, at)), ParseFreeQueueRecord, pc' \notin Bad
  PROVE  Pooled(img, pool', PoolDone(img, pc', at'))
<1> DEFINE r == img.fq[at.queue].recs[at.rec]
           u == <<"ip", "queue", at.rec>>
<1>1. /\ at \in Place /\ at.queue \in Queues /\ at.rec \in 1..Len(img.fq[at.queue].recs)
      /\ at'.queue = at.queue /\ at'.rec = at.rec + 1
      /\ r.paddr \in Address /\ r.length \in Address /\ FqRecordOK(r)
  BY RecordFacts
<1>2. /\ pc = "queue" /\ pc' = "queue"
      /\ pool' = IF block_in_ip(r.paddr) THEN pool \cup IpBlocks(r.paddr, r.length) ELSE pool
  BY ParseFreeQueueRecordStep DEF Queue
<1>3. OnDisk(img) /\ at.rec \in Nat
  BY <1>1 DEF PlaceInv, Place, Pos
<1>4. \A d \in Devs : SameOf(d)
  BY <1>2, AllRead DEF After, LatePcs, SameOf
<1>5. \A d \in Devs : UsesOf(img, pc', at', d) = UsesOf(img, pc, at, d)
  BY <1>4, SameUses
<1>6. CASE at.queue = "ip"
  <2>1. /\ r.length # 0 /\ CanMarkIp(r.paddr, r.length) /\ pool' = pool \cup IpBlocks(r.paddr, r.length)
    BY <1>1, <1>2, <1>6 DEF FqRecordOK
  <2>2. r.paddr \in Nat /\ r.length \in Nat \ {0}
    BY <1>1, <1>3, <2>1, AddressTypes
  <2>3. DOMAIN img.fq["ip"].recs = 1..Len(img.fq["ip"].recs)
    BY <1>3, RecordPlaces DEF Queues
  <2>4. \A i \in Nat : QueueDone(pc', at', "ip", i) <=> (QueueDone(pc, at, "ip", i) \/ i = at.rec)
    BY <1>1, <1>2, <1>3, <1>6 DEF QueueDone, Turn, LatePcs
  <2>5. RecordUses(img, pc', at') = RecordUses(img, pc, at) \cup {u}
    BY <1>1, <1>6, <2>3, <2>4 DEF RecordUses
  <2>6. PoolDone(img, pc', at') = PoolDone(img, pc, at) \cup {u}
    BY <1>5, <2>5 DEF PoolDone
  <2>7. Taken(img, u) = RangeOf(r.paddr, r.length) /\ u[2] = "queue"
    BY <1>6 DEF Taken
  <2> HIDE DEF u, r
  <2>8. QED
    BY <1>3, <2>1, <2>2, <2>6, <2>7, AddPoolUse
<1>7. CASE at.queue # "ip"
  <2>1. pool' = pool
    BY <1>1, <1>2, <1>7 DEF FqRecordOK
  <2>2. \A i : QueueDone(pc', at', "ip", i) <=> QueueDone(pc, at, "ip", i)
    BY <1>1, <1>2, <1>7 DEF QueueDone, Turn, LatePcs, Queues
  <2>3. RecordUses(img, pc', at') = RecordUses(img, pc, at)
    BY <2>2 DEF RecordUses
  <2>4. QED
    BY <1>5, <2>1, <2>3 DEF PoolDone
<1>8. QED
  BY <1>6, <1>7

\* The other steps take no block of the pool.
LEMMA PoolSame ==
  ASSUME RecordUses(img, pc', at') = RecordUses(img, pc, at), \A d \in Devs : SameOf(d), pool' = pool,
         Pooled(img, pool, PoolDone(img, pc, at))
  PROVE  Pooled(img, pool', PoolDone(img, pc', at'))
<1>1. \A d \in Devs : UsesOf(img, pc', at', d) = UsesOf(img, pc, at, d)
  BY SameUses
<1>2. PoolDone(img, pc', at') = PoolDone(img, pc, at)
  BY <1>1 DEF PoolDone
<1>3. QED
  BY <1>2

\* Each step keeps the account of the pool.
LEMMA PoolNext == ASSUME PlaceInv, PlaceInv', DevInv, PoolInv, [Next]_vars PROVE PoolInv'
<1>1. img' = img /\ OnDisk(img)
  BY ImageFixed DEF PlaceInv
<1>2. SUFFICES ASSUME pc' \notin Bad, ~Doomed(img, pc', at', meas')
               PROVE  Pooled(img, pool', PoolDone(img, pc', at'))
  BY <1>1 DEF PoolInv
<1>3. /\ pc \notin Bad /\ ~Doomed(img, pc, at, meas) /\ at \in Place /\ at.dev \in Devs
      /\ PlaceOK(pc, at) /\ PlaceOK(pc', at')
  BY <1>2, BadStays, DoomedStays DEF PlaceInv, PlaceOK, Place
<1>4. Pooled(img, pool, PoolDone(img, pc, at))
  BY <1>3 DEF PoolInv
<1>5. ASSUME pc \in DevicePcs, pc' \in DevicePcs, at'.dev = at.dev, SameOf(at.dev), pool' = pool
      PROVE  Pooled(img, pool', PoolDone(img, pc', at'))
  <2>1. \A d \in Devs : SameOf(d)
    BY <1>5, OtherUses
  <2>2. RecordUses(img, pc', at') = RecordUses(img, pc, at)
    BY <1>5, NoRecords
  <2>3. QED
    BY <1>4, <1>5, <2>1, <2>2, PoolSame
<1>6. CASE StartDevice
  <2>1. pc \in DevicePcs /\ pool' = pool
    BY <1>2, <1>6, StartDeviceStep DEF DevicePcs
  <2>2. QED
    BY <1>2, <1>5, <1>6, <2>1, DevStart DEF SameOf
<1>7. CASE ReadCab
  BY <1>2, <1>4, <1>7, PoolCab
<1>8. CASE ReadCib
  BY <1>2, <1>3, <1>4, <1>8, PoolCib
<1>9. CASE ReadChunk
  BY <1>2, <1>3, <1>4, <1>9, PoolBitmap
<1>10. CASE EndCib
  <2>1. pc \in DevicePcs /\ pool' = pool
    BY <1>2, <1>10, EndCibStep DEF DevicePcs
  <2>2. QED
    BY <1>2, <1>3, <1>5, <1>10, <2>1, DevCibEnd DEF SameOf
<1>11. CASE EndCab
  <2>1. pc \in DevicePcs /\ pool' = pool
    BY <1>2, <1>11, EndCabStep DEF DevicePcs
  <2>2. QED
    BY <1>2, <1>3, <1>5, <1>11, <2>1, DevCabEnd DEF SameOf
<1>12. CASE EndDevice
  <2>1. pc = "device_end" /\ pool' = pool /\ pc' \in {"device", "queue"}
    BY <1>2, <1>12, EndDeviceStep
  <2>2. \A d \in Devs : SameOf(d)
    BY <1>2, <1>3, <1>12, DevEnd DEF SameOf
  <2>3. at.queue = "ip" /\ at.rec = 1 /\ at'.queue = "ip" /\ at'.rec = 1
    <3>1. at.queue = "ip" /\ at.rec = 1
      BY <1>3, <2>1 DEF PlaceOK, DevicePcs
    <3>2. PICK d \in Devs : at' = [at EXCEPT !.dev = d]
      BY <1>2, <1>12, EndDeviceStep DEF Devs
    <3>3. QED
      BY <1>3, <3>1, <3>2, MoveDev
  <2>4. \A i \in DOMAIN img.fq["ip"].recs : ~QueueDone(pc', at', "ip", i)
    <3>1. DOMAIN img.fq["ip"].recs = 1..Len(img.fq["ip"].recs) /\ Len(img.fq["ip"].recs) \in Nat
      BY <1>1, RecordPlaces DEF Queues
    <3>2. QED
      BY <2>1, <2>3, <3>1 DEF QueueDone, Turn, LatePcs
  <2>5. RecordUses(img, pc', at') = {} /\ RecordUses(img, pc, at) = {}
    <3>1. RecordUses(img, pc', at') = {}
      BY <2>4 DEF RecordUses
    <3>2. pc \in EarlyPcs \cup DevicePcs
      BY <2>1 DEF DevicePcs
    <3>3. QED
      BY <3>1, <3>2, NoRecords
  <2>6. QED
    BY <1>4, <2>1, <2>2, <2>5, PoolSame
<1>13. CASE ParseFreeQueueRecord
  BY <1>2, <1>4, <1>13, PoolRecord
<1>14. CASE UNCHANGED vars
  BY <1>4, <1>14 DEF vars
<1>15. ASSUME pc \notin DevicePcs, pool' = pool, RecordUses(img, pc', at') = RecordUses(img, pc, at)
       PROVE  Pooled(img, pool', PoolDone(img, pc', at'))
  <2>1. SameRead
    BY <1>2, <1>15, DevSame
  <2>2. \A d \in Devs : SameOf(d)
    BY <2>1 DEF SameRead, SameOf
  <2>3. QED
    BY <1>4, <1>15, <2>2, PoolSame
<1>16. CASE ReadHeader \/ CheckZone \/ CheckCounts
  <2>1. pc \in EarlyPcs /\ pc' \in EarlyPcs \cup DevicePcs /\ pool' = pool
    <3>1. CASE ReadHeader
      BY <1>2, <3>1, ReadHeaderStep DEF EarlyPcs
    <3>2. CASE CheckZone
      BY <1>2, <3>2, CheckZoneStep DEF EarlyPcs
    <3>3. CASE CheckCounts
      BY <1>2, <3>3, CheckCountsStep DEF EarlyPcs, DevicePcs
    <3>4. QED
      BY <1>16, <3>1, <3>2, <3>3
  <2>2. pc \notin DevicePcs
    BY <2>1 DEF EarlyPcs, DevicePcs
  <2>3. RecordUses(img, pc', at') = {} /\ RecordUses(img, pc, at) = {}
    BY <2>1, NoRecords
  <2>4. QED
    BY <1>15, <2>1, <2>2, <2>3
<1>17. CASE EndQueue
  <2>1. pool' = pool
    BY <1>2, <1>17, EndQueueStep
  <2>2. /\ at.rec > Len(img.fq[at.queue].recs) /\ at.queue \in Queues
        /\ at'.rec = 1 /\ at'.queue = IF at.queue = "ip" THEN "main" ELSE "tier2"
        /\ pc = "queue" /\ pc' = IF at.queue = "tier2" THEN "pool" ELSE "queue"
    BY <1>2, <1>17, QueueEnds
  <2>3. \A i \in DOMAIN img.fq["ip"].recs : QueueDone(pc', at', "ip", i) /\ QueueDone(pc, at, "ip", i)
    <3>1. DOMAIN img.fq["ip"].recs = 1..Len(img.fq["ip"].recs) /\ Len(img.fq["ip"].recs) \in Nat /\ at.rec \in Nat
      BY <1>1, <1>3, RecordPlaces DEF Queues, Place, Pos
    <3>2. QED
      BY <2>2, <3>1 DEF QueueDone, Turn, LatePcs, Queues
  <2>4. RecordUses(img, pc', at') = RecordUses(img, pc, at) /\ pc \notin DevicePcs
    BY <2>2, <2>3 DEF RecordUses, DevicePcs
  <2>5. QED
    BY <1>15, <2>1, <2>4
<1>18. CASE StartPool \/ WalkFreeList \/ EndWalk \/ ReadIpBitmap \/ ComparePool \/ CompareBitmaps
  <2>1. pool' = pool /\ pc \in LatePcs \ {"queue"} /\ pc' \in LatePcs \ {"queue"}
    <3> USE DEF LatePcs
    <3>1. CASE StartPool \/ WalkFreeList
      BY <1>2, <3>1, StartPoolStep, WalkFreeListStep
    <3>2. CASE EndWalk \/ ReadIpBitmap
      BY <1>2, <3>2, EndWalkStep, ReadIpBitmapStep
    <3>3. CASE ComparePool \/ CompareBitmaps
      BY <1>2, <3>3, ComparePoolStep, CompareBitmapsStep
    <3>4. QED
      BY <1>18, <3>1, <3>2, <3>3
  <2>2. RecordUses(img, pc', at') = RecordUses(img, pc, at) /\ pc \notin DevicePcs
    BY <2>1 DEF RecordUses, QueueDone, DevicePcs, LatePcs
  <2>3. QED
    BY <1>15, <2>1, <2>2
<1>19. QED
  BY <1>2, <1>6, <1>7, <1>8, <1>9, <1>10, <1>11, <1>12, <1>13, <1>14, <1>16, <1>17, <1>18, PassingSteps

\* The account is kept from the start.
LEMMA PoolStays == Spec => []PoolInv
<1>1. ASSUME Init PROVE PoolInv
  <2>1. pc = "header" /\ pool = {}
    BY <1>1 DEF Init
  <2>2. RecordUses(img, pc, at) = {} /\ \A d \in Devs : UsesOf(img, pc, at, d) = {}
    <3>1. pc \in EarlyPcs
      BY <2>1 DEF EarlyPcs
    <3>2. ASSUME NEW d \in Devs PROVE UsesOf(img, pc, at, d) = {}
      <4>1. CabsRead(img, pc, at, d) = 0 /\ CibsRead(img, pc, at, d) = 0 /\ ChunksRead(img, pc, at, d) = 0
        BY <3>1, NoneRead
      <4>2. 0..(0 - 1) = {}
        OBVIOUS
      <4>3. QED
        BY <4>1, <4>2 DEF UsesOf, DeviceUses, CabUses, CibUses, BitmapUses
    <3>3. QED
      BY <3>1, <3>2, NoRecords
  <2>3. PoolDone(img, pc, at) = {}
    BY <2>2 DEF PoolDone
  <2>4. QED
    BY <2>1, <2>3 DEF PoolInv, Pooled
<1>2. PlaceInv /\ PlaceInv' /\ DevInv /\ PoolInv /\ [Next]_vars => PoolInv'
  BY PoolNext
<1>3. QED
  BY <1>1, <1>2, PlacesStay, DevStays, PTL DEF Spec

-----------------------------------------------------------------------------
(* The free queues. *)

\* A record that was accepted; one of a device's queue ends before the last
\* block numbers.
InPool(m, b) == b >= m.ip_base /\ b < m.ip_base + m.ip_count
RecordRight(m, q, r) ==
  /\ r.length # 0 /\ r.xid \in 1..m.sb_xid
  /\ InPool(m, r.paddr) <=> q = "ip"
  /\ InPool(m, (r.paddr + r.length - 1) % AddrMod) <=> q = "ip"
  /\ q # "ip" => r.paddr + r.length + BlocksPerChunk <= AddrMod

\* f has the count, modulo 2^64, and the oldest transaction of the first n records.
Lengths(m, q) == [i \in Nat |-> m.fq[q].recs[i].length]
Summed(m, q, n, f) ==
  /\ f.count = Total(Lengths(m, q), 1..n) % AddrMod
  /\ n = 0 => f.oldest = 0
  /\ n > 0 => \E i \in 1..n : f.oldest = m.fq[q].recs[i].xid
  /\ \A i \in 1..n : f.oldest <= m.fq[q].recs[i].xid
QueueOver(p, a, q) == p \in LatePcs \ {"queue"} \/ (p = "queue" /\ Turn(q) < Turn(a.queue))
QueuesOK(m, p, a, f) ==
  /\ \A q \in Queues : \A i \in DOMAIN m.fq[q].recs : QueueDone(p, a, q, i) => RecordRight(m, q, m.fq[q].recs[i])
  /\ p \in EarlyPcs \cup DevicePcs => f = NoFq
  /\ p = "queue" => a.rec <= Len(m.fq[a.queue].recs) + 1 /\ Summed(m, a.queue, a.rec - 1, f)
  /\ \A q \in Queues : QueueOver(p, a, q) => Summed(m, q, Len(m.fq[q].recs), m.fq[q])
QueueInv == pc \notin Bad => QueuesOK(img, pc, at, fq)

\* Sums may wrap at any time.
LEMMA WrapSum ==
  ASSUME NEW M \in Nat \ {0}, NEW x \in Nat, NEW y \in Nat
  PROVE  ((x % M) + y) % M = (x + y) % M
<1> DEFINE r == x % M
           q == x \div M
           s == (r + y) % M
           t == (r + y) \div M
<1>1. q \in Nat /\ r \in 0..(M - 1) /\ x = M * q + r
  BY DivPart
<1>2. r + y \in Nat
  BY <1>1
<1> HIDE DEF r, q
<1>3. t \in Nat /\ s \in 0..(M - 1) /\ r + y = M * t + s
  BY <1>2, DivPart
<1> HIDE DEF s, t
<1>4. x + y = M * (q + t) + s
  BY <1>1, <1>3
<1>5. q + t \in Nat /\ M * (q + t) \in Nat
  BY <1>1, <1>3
<1>6. (M * (q + t) + s) % M = s
  BY <1>3, <1>5, Quotient
<1>7. QED
  BY <1>4, <1>6 DEF s, r

\* The lengths of records.
LEMMA LengthTypes ==
  ASSUME OnDisk(img), NEW q \in Queues, NEW n \in 0..Len(img.fq[q].recs)
  PROVE  /\ IsFiniteSet(1..n) /\ \A i \in 1..n : Lengths(img, q)[i] \in Int
         /\ \A i \in 1..n : Lengths(img, q)[i] = img.fq[q].recs[i].length /\ Lengths(img, q)[i] \in Nat
         /\ \A i \in 1..n : img.fq[q].recs[i] \in QueueRecord
<1>1. Len(img.fq[q].recs) \in Nat /\ \A i \in 1..Len(img.fq[q].recs) : img.fq[q].recs[i] \in QueueRecord
  BY RecordPlaces
<1>2. n \in Nat /\ \A i \in 1..n : i \in Nat /\ i \in 1..Len(img.fq[q].recs)
  BY <1>1
<1>3. \A r \in QueueRecord : r.length \in Address
  BY DEF QueueRecord
<1>4. Address \subseteq Nat
  BY AddressTypes
<1>5. \A i \in 1..n : Lengths(img, q)[i] = img.fq[q].recs[i].length
  BY <1>2 DEF Lengths
<1>6. IsFiniteSet(1..n)
  BY <1>2, FS_Interval
<1>7. \A i \in 1..n : Lengths(img, q)[i] \in Nat
  BY <1>1, <1>2, <1>3, <1>4, <1>5
<1>8. QED
  BY <1>1, <1>2, <1>5, <1>6, <1>7

\* A sum of natural numbers is one.
LEMMA TotalNat ==
  ASSUME NEW S, IsFiniteSet(S), NEW g, \A x \in S : g[x] \in Nat
  PROVE  Total(g, S) \in Nat
<1> DEFINE F == {T \in SUBSET S : Total(g, T) \in Nat}
<1>1. {} \in F
  BY TotalEmpty
<1>2. ASSUME NEW T \in SUBSET S, NEW x \in S \ T, T \in F PROVE T \cup {x} \in F
  <2>1. IsFiniteSet(T) /\ \A y \in T \cup {x} : g[y] \in Int
    BY FS_Subset
  <2>2. Total(g, T \cup {x}) = Total(g, T) + g[x]
    BY <2>1, TotalGrow
  <2>3. g[x] \in Nat /\ Total(g, T) \in Nat
    BY <1>2
  <2>4. Total(g, T \cup {x}) \in Nat
    BY <2>2, <2>3
  <2>5. QED
    BY <2>4
<1> HIDE DEF F
<1>3. S \in F
  BY <1>1, <1>2, FiniteInduction
<1>4. QED
  BY <1>3 DEF F

\* Nothing is summed at first.
LEMMA SummedNone ==
  ASSUME NEW m, NEW q, NEW f, f.count = 0, f.oldest = 0, AddrMod \in Nat \ {0}
  PROVE  Summed(m, q, 0, f)
<1>1. 1..0 = {}
  OBVIOUS
<1>2. Total(Lengths(m, q), 1..0) = 0
  BY <1>1, TotalEmpty
<1>3. 0 % AddrMod = 0
  OBVIOUS
<1>4. QED
  BY <1>1, <1>2, <1>3 DEF Summed

\* One more record.
LEMMA SummedMore ==
  ASSUME OnDisk(img), NEW q \in Queues, NEW n \in 1..Len(img.fq[q].recs), NEW f, NEW e,
         Summed(img, q, n - 1, f),
         \A i \in 1..n : img.fq[q].recs[i].xid \in Nat \ {0},
         e.count = (f.count + img.fq[q].recs[n].length) % AddrMod,
         e.oldest = IF f.oldest = 0 \/ img.fq[q].recs[n].xid < f.oldest THEN img.fq[q].recs[n].xid ELSE f.oldest
  PROVE  Summed(img, q, n, e)
<1> DEFINE g == Lengths(img, q)
           len == img.fq[q].recs[n].length
           X(i) == img.fq[q].recs[i].xid
<1>1. Len(img.fq[q].recs) \in Nat /\ n \in Nat /\ n > 0 /\ n - 1 \in 0..Len(img.fq[q].recs) /\ n \in 0..Len(img.fq[q].recs)
  BY RecordPlaces
<1>2. 1..n = 1..(n - 1) \cup {n} /\ n \notin 1..(n - 1) /\ n \in 1..n
  BY <1>1
<1>3. /\ IsFiniteSet(1..(n - 1)) /\ \A i \in 1..(n - 1) : g[i] \in Nat
  BY <1>1, LengthTypes
<1>4. g[n] = len /\ len \in Nat /\ \A i \in 1..n : g[i] \in Int
  BY <1>1, <1>2, LengthTypes
<1> HIDE DEF g, len
<1>5. Total(g, 1..n) = Total(g, 1..(n - 1)) + len
  <2> DEFINE S == 1..(n - 1)
  <2>1. 1..n = S \cup {n} /\ n \notin S /\ IsFiniteSet(S) /\ \A i \in S \cup {n} : g[i] \in Int
    BY <1>2, <1>3, <1>4
  <2> HIDE DEF S
  <2>2. Total(g, S \cup {n}) = Total(g, S) + g[n]
    BY <2>1, TotalGrow
  <2>3. QED
    BY <1>4, <2>1, <2>2 DEF S
<1>6. Total(g, 1..(n - 1)) \in Nat
  BY <1>3, TotalNat
<1>7. e.count = Total(g, 1..n) % AddrMod
  <2>1. f.count = Total(g, 1..(n - 1)) % AddrMod
    BY DEF Summed, g
  <2>2. e.count = ((Total(g, 1..(n - 1)) % AddrMod) + len) % AddrMod
    BY <2>1 DEF len
  <2>3. AddrMod \in Nat \ {0}
    BY AddressTypes
  <2>4. QED
    BY <1>4, <1>5, <1>6, <2>2, <2>3, WrapSum
<1>8. /\ n - 1 = 0 => f.oldest = 0
      /\ n - 1 > 0 => \E i \in 1..(n - 1) : f.oldest = X(i)
      /\ \A i \in 1..(n - 1) : f.oldest <= X(i)
      /\ \A i \in 1..n : X(i) \in Nat \ {0}
  BY DEF Summed
<1>9. e.oldest = IF f.oldest = 0 \/ X(n) < f.oldest THEN X(n) ELSE f.oldest
  OBVIOUS
<1> HIDE DEF X
<1>10. (\E i \in 1..n : e.oldest = X(i)) /\ \A i \in 1..n : e.oldest <= X(i)
  <2>1. CASE n = 1
    <3>1. e.oldest = X(n) /\ X(n) \in Nat
      BY <1>2, <1>8, <1>9, <2>1
    <3>2. QED
      BY <1>2, <2>1, <3>1
  <2>2. CASE n # 1
    <3>1. PICK j \in 1..(n - 1) : f.oldest = X(j)
      BY <1>1, <1>8, <2>2
    <3>2. f.oldest \in Nat \ {0} /\ X(n) \in Nat
      BY <1>2, <1>8, <3>1
    <3>3. e.oldest = IF X(n) < f.oldest THEN X(n) ELSE f.oldest
      BY <1>9, <3>2
    <3>4. \E i \in 1..n : e.oldest = X(i)
      BY <1>2, <3>1, <3>3
    <3>5. ASSUME NEW i \in 1..n PROVE e.oldest <= X(i)
      <4>1. CASE i = n
        BY <3>2, <3>3, <4>1
      <4>2. CASE i \in 1..(n - 1)
        <5>1. f.oldest <= X(i) /\ X(i) \in Nat
          BY <1>8, <1>2, <4>2
        <5>2. QED
          BY <3>2, <3>3, <5>1
      <4>3. QED
        BY <1>2, <4>1, <4>2
    <3>6. QED
      BY <3>4, <3>5
  <2>3. QED
    BY <2>1, <2>2
<1>11. QED
  BY <1>1, <1>7, <1>10 DEF Summed, g, X

\* Accepting a record.
LEMMA RecordAccepted ==
  ASSUME PlaceInv, ParseFreeQueueRecord, pc' \notin Bad
  PROVE  RecordRight(img, at.queue, img.fq[at.queue].recs[at.rec])
<1> DEFINE r == img.fq[at.queue].recs[at.rec]
<1>1. /\ at.queue \in Queues /\ r.paddr \in Address /\ r.length \in Address /\ FqRecordOK(r)
  BY RecordFacts
<1>2. OnDisk(img)
  BY DEF PlaceInv
<1> HIDE DEF r
<1>3. /\ r.length # 0 /\ r.xid \in 1..img.sb_xid
      /\ block_in_ip(r.paddr) <=> at.queue = "ip"
      /\ block_in_ip(r.paddr) = block_in_ip(LastBlock(r.paddr, r.length))
      /\ ~block_in_ip(r.paddr) => CanMark(r.paddr, r.length)
  BY <1>1 DEF FqRecordOK, OverrunsIp
<1>4. InPool(img, r.paddr) <=> at.queue = "ip"
  BY <1>3 DEF InPool, block_in_ip
<1>5. InPool(img, (r.paddr + r.length - 1) % AddrMod) <=> at.queue = "ip"
  BY <1>3 DEF InPool, block_in_ip, LastBlock, Wrap
<1>6. at.queue # "ip" => r.paddr + r.length + BlocksPerChunk <= AddrMod
  BY <1>1, <1>2, <1>3, EndsInside
<1>7. QED
  BY <1>3, <1>4, <1>5, <1>6 DEF RecordRight, r

\* Each step keeps the counts of the queues.
LEMMA QueueNext == ASSUME PlaceInv, PlaceInv', QueueInv, [Next]_vars PROVE QueueInv'
<1>1. img' = img /\ OnDisk(img)
  BY ImageFixed DEF PlaceInv
<1>2. SUFFICES ASSUME pc' \notin Bad PROVE QueuesOK(img, pc', at', fq')
  BY <1>1 DEF QueueInv
<1>3. pc \notin Bad /\ QueuesOK(img, pc, at, fq) /\ at \in Place /\ PlaceOK(pc, at) /\ PlaceOK(pc', at')
  BY <1>2, BadStays DEF QueueInv, PlaceInv, PlaceOK
<1>4. AddrMod \in Nat \ {0} /\ NoFq.count = 0 /\ NoFq.oldest = 0
  BY <1>1, AddressTypes DEF NoFq
<1>5. ASSUME pc \in EarlyPcs \cup DevicePcs, pc' \in EarlyPcs \cup DevicePcs, fq' = fq
      PROVE  QueuesOK(img, pc', at', fq')
  BY <1>3, <1>5 DEF QueuesOK, QueueDone, QueueOver, EarlyPcs, DevicePcs, LatePcs
<1>6. CASE ReadHeader \/ CheckCounts \/ StartDevice \/ ReadCab \/ ReadCib \/ EndCab
  <2>1. fq' = fq /\ pc \in EarlyPcs \cup DevicePcs /\ pc' \in EarlyPcs \cup DevicePcs
    <3> USE DEF EarlyPcs, DevicePcs
    <3>1. CASE ReadHeader
      BY <1>2, <3>1, ReadHeaderStep
    <3>2. CASE CheckCounts
      BY <1>2, <3>2, CheckCountsStep
    <3>3. CASE StartDevice
      BY <1>2, <3>3, StartDeviceStep
    <3>4. CASE ReadCab
      BY <1>2, <3>4, ReadCabStep
    <3>5. CASE ReadCib
      BY <1>2, <3>5, ReadCibStep
    <3>6. CASE EndCab
      BY <1>2, <3>6, EndCabStep
    <3>7. QED
      BY <1>6, <3>1, <3>2, <3>3, <3>4, <3>5, <3>6
  <2>2. QED
    BY <1>5, <2>1
<1>7. CASE CheckZone \/ ReadChunk \/ EndCib
  <2>1. fq' = fq /\ pc \in EarlyPcs \cup DevicePcs /\ pc' \in EarlyPcs \cup DevicePcs
    <3> USE DEF EarlyPcs, DevicePcs
    <3>1. CASE CheckZone
      BY <1>2, <3>1, CheckZoneStep
    <3>2. CASE ReadChunk
      BY <1>2, <3>2, ReadChunkStep
    <3>3. CASE EndCib
      BY <1>2, <3>3, EndCibStep
    <3>4. QED
      BY <1>7, <3>1, <3>2, <3>3
  <2>2. QED
    BY <1>5, <2>1
<1>8. CASE EndDevice
  <2>1. fq' = fq /\ pc = "device_end" /\ pc' \in {"device", "queue"}
    BY <1>2, <1>8, EndDeviceStep
  <2>2. fq = NoFq /\ at.queue = "ip" /\ at.rec = 1
    BY <1>3, <2>1 DEF QueuesOK, PlaceOK, DevicePcs
  <2>3. at'.queue = "ip" /\ at'.rec = 1
    <3>1. PICK d \in Devs : at' = [at EXCEPT !.dev = d]
      BY <1>2, <1>8, EndDeviceStep DEF Devs
    <3>2. QED
      BY <1>3, <2>2, <3>1, MoveDev
  <2>4. CASE pc' = "device"
    BY <1>5, <2>1, <2>4 DEF DevicePcs
  <2>5. CASE pc' = "queue"
    <3>1. Summed(img, "ip", 1 - 1, fq')
      BY <1>4, <2>1, <2>2, SummedNone
    <3>2. /\ \A q \in Queues : ~QueueOver(pc', at', q)
          /\ \A q \in Queues : \A i \in Nat \ {0} : ~QueueDone(pc', at', q, i)
      BY <2>3, <2>5 DEF QueueOver, QueueDone, Turn, LatePcs, Queues
    <3>3. \A q \in Queues : DOMAIN img.fq[q].recs \subseteq Nat \ {0} /\ Len(img.fq[q].recs) \in Nat
      BY <1>1, RecordPlaces
    <3>4. 1 <= Len(img.fq["ip"].recs) + 1
      BY <3>3 DEF Queues
    <3>5. QED
      BY <2>3, <2>5, <3>1, <3>2, <3>3, <3>4 DEF QueuesOK, EarlyPcs, DevicePcs
  <2>6. QED
    BY <2>1, <2>4, <2>5
<1>9. CASE ParseFreeQueueRecord
  <2> DEFINE Q == at.queue
             r == img.fq[Q].recs[at.rec]
  <2>1. /\ Q \in Queues /\ at.rec \in 1..Len(img.fq[Q].recs) /\ at'.queue = Q /\ at'.rec = at.rec + 1
    BY <1>2, <1>9, RecordFacts
  <2>2. /\ pc = "queue" /\ pc' = "queue"
        /\ fq' = [count |-> Wrap(fq.count + r.length),
                  oldest |-> IF fq.oldest = 0 \/ r.xid < fq.oldest THEN r.xid ELSE fq.oldest]
    BY <1>2, <1>9, ParseFreeQueueRecordStep DEF Queue
  <2>3. RecordRight(img, Q, r)
    BY <1>2, <1>9, RecordAccepted
  <2>4. at.rec \in Nat /\ (at.rec + 1) - 1 = at.rec /\ Len(img.fq[Q].recs) \in Nat
    BY <1>1, <2>1, RecordPlaces
  <2>5. /\ \A i \in 1..(at.rec - 1) : RecordRight(img, Q, img.fq[Q].recs[i])
        /\ Summed(img, Q, at.rec - 1, fq)
    <3>1. \A i \in 1..(at.rec - 1) : i \in DOMAIN img.fq[Q].recs /\ QueueDone(pc, at, Q, i)
      <4>1. DOMAIN img.fq[Q].recs = 1..Len(img.fq[Q].recs)
        BY <1>1, <2>1, RecordPlaces
      <4>2. QED
        BY <2>2, <2>1, <2>4, <4>1 DEF QueueDone
    <3>2. QED
      BY <1>3, <2>1, <2>2, <3>1 DEF QueuesOK
  <2>6. \A i \in 1..at.rec : RecordRight(img, Q, img.fq[Q].recs[i])
    BY <2>3, <2>4, <2>5
  <2>7. \A i \in 1..at.rec : img.fq[Q].recs[i].xid \in Nat \ {0}
    BY <2>6 DEF RecordRight
  <2>8. /\ fq'.count = (fq.count + r.length) % AddrMod
        /\ fq'.oldest = IF fq.oldest = 0 \/ r.xid < fq.oldest THEN r.xid ELSE fq.oldest
    BY <2>2 DEF Wrap
  <2>9. Summed(img, Q, at.rec, fq')
    <3> HIDE DEF Q
    <3>1. QED
      BY <1>1, <2>1, <2>5, <2>7, <2>8, SummedMore
  <2>10. \A q \in Queues : QueueOver(pc', at', q) <=> QueueOver(pc, at, q)
    BY <2>1, <2>2 DEF QueueOver
  <2>11. \A q \in Queues : \A i \in Nat : QueueDone(pc', at', q, i) <=> (QueueDone(pc, at, q, i) \/ (q = Q /\ i = at.rec))
    BY <2>1, <2>2, <2>4 DEF QueueDone
  <2>12. \A q \in Queues : DOMAIN img.fq[q].recs \subseteq Nat
    BY <1>1, RecordPlaces
  <2>13. \A q \in Queues : \A i \in DOMAIN img.fq[q].recs :
           QueueDone(pc', at', q, i) => RecordRight(img, q, img.fq[q].recs[i])
    BY <1>3, <2>3, <2>11, <2>12 DEF QueuesOK
  <2>14. \A q \in Queues : QueueOver(pc', at', q) => Summed(img, q, Len(img.fq[q].recs), img.fq[q])
    BY <1>3, <2>10 DEF QueuesOK
  <2>15. at'.rec <= Len(img.fq[at'.queue].recs) + 1 /\ Summed(img, at'.queue, at'.rec - 1, fq')
    BY <2>1, <2>4, <2>9
  <2>16. pc' \notin EarlyPcs \cup DevicePcs
    BY <2>2 DEF EarlyPcs, DevicePcs
  <2>17. QED
    BY <2>13, <2>14, <2>15, <2>16 DEF QueuesOK
<1>10. CASE EndQueue
  <2> DEFINE Q == at.queue
             f == img.fq[Q]
             n == Len(f.recs)
  <2>1. /\ Q \in Queues /\ at.rec > n
        /\ at'.rec = 1 /\ at'.queue = IF Q = "ip" THEN "main" ELSE "tier2"
        /\ pc = "queue" /\ pc' = IF Q = "tier2" THEN "pool" ELSE "queue"
    BY <1>2, <1>10, QueueEnds
  <2>2. /\ fq' = NoFq
        /\ IF Q = "tier2" /\ ~IsFusion THEN QueueIsNull(f) ELSE QueueOK(f)
    BY <1>2, <1>10, EndQueueStep DEF Queue
  <2>3. at.rec \in Nat /\ n \in Nat /\ DOMAIN f.recs = 1..n /\ at.rec <= n + 1 /\ Summed(img, Q, at.rec - 1, fq)
    <3>1. n \in Nat /\ DOMAIN f.recs = 1..n
      BY <1>1, <2>1, RecordPlaces
    <3>2. QED
      BY <1>3, <2>1, <3>1 DEF QueuesOK, Place, Pos
  <2>4. Summed(img, Q, n, f)
    <3>1. CASE QueueOK(f)
      <4>1. at.rec - 1 = n
        BY <2>1, <2>3
      <4>2. f.count = fq.count /\ f.oldest = fq.oldest
        BY <3>1 DEF QueueOK
      <4> HIDE DEF f, n
      <4>3. Summed(img, Q, n, fq)
        BY <2>3, <4>1
      <4>4. QED
        BY <4>2, <4>3 DEF Summed
    <3>2. CASE QueueIsNull(f)
      <4>1. n = 0 /\ f.count = 0 /\ f.oldest = 0
        BY <3>2 DEF QueueIsNull
      <4>2. QED
        BY <1>4, <4>1, SummedNone
    <3>3. QED
      BY <2>2, <3>1, <3>2
  <2>5. \A q \in Queues : QueueOver(pc', at', q) => QueueOver(pc, at, q) \/ q = Q
    BY <2>1 DEF QueueOver, Turn, LatePcs, Queues
  <2>6. \A q \in Queues : QueueOver(pc', at', q) => Summed(img, q, Len(img.fq[q].recs), img.fq[q])
    BY <1>3, <2>4, <2>5 DEF QueuesOK
  <2>7. \A q \in Queues : \A i \in DOMAIN img.fq[q].recs : QueueDone(pc', at', q, i) => QueueDone(pc, at, q, i)
    <3>1. ASSUME NEW q \in Queues, NEW i \in DOMAIN img.fq[q].recs, QueueDone(pc', at', q, i)
          PROVE  QueueDone(pc, at, q, i)
      <4>1. DOMAIN img.fq[q].recs = 1..Len(img.fq[q].recs) /\ Len(img.fq[q].recs) \in Nat /\ i \in Nat /\ i > 0
        BY <1>1, RecordPlaces
      <4>2. CASE q = Q
        <5>1. i < at.rec
          BY <2>1, <2>3, <4>1, <4>2
        <5>2. QED
          BY <2>1, <4>2, <5>1 DEF QueueDone
      <4>3. CASE q # Q
        BY <2>1, <3>1, <4>1, <4>3 DEF QueueDone, Turn, LatePcs, Queues
      <4>4. QED
        BY <4>2, <4>3
    <3>2. QED
      BY <3>1
  <2>8. \A q \in Queues : \A i \in DOMAIN img.fq[q].recs :
          QueueDone(pc', at', q, i) => RecordRight(img, q, img.fq[q].recs[i])
    BY <1>3, <2>7 DEF QueuesOK
  <2>9. 1 <= Len(img.fq[at'.queue].recs) + 1 /\ Summed(img, at'.queue, 1 - 1, fq')
    <3>1. at'.queue \in Queues
      BY <2>1 DEF Queues
    <3>2. Len(img.fq[at'.queue].recs) \in Nat
      BY <1>1, <3>1, RecordPlaces
    <3>3. QED
      BY <1>4, <2>2, <3>2, SummedNone
  <2>10. pc' \notin EarlyPcs \cup DevicePcs
    BY <2>1 DEF EarlyPcs, DevicePcs
  <2>11. QED
    BY <2>1, <2>6, <2>8, <2>9, <2>10 DEF QueuesOK
<1>11. CASE StartPool \/ WalkFreeList \/ EndWalk \/ ReadIpBitmap \/ ComparePool \/ CompareBitmaps
  <2>1. fq' = fq /\ pc \in LatePcs \ {"queue"} /\ pc' \in LatePcs \ {"queue"}
    <3> USE DEF LatePcs
    <3>1. CASE StartPool \/ WalkFreeList
      BY <1>2, <3>1, StartPoolStep, WalkFreeListStep
    <3>2. CASE EndWalk \/ ReadIpBitmap
      BY <1>2, <3>2, EndWalkStep, ReadIpBitmapStep
    <3>3. CASE ComparePool \/ CompareBitmaps
      BY <1>2, <3>3, ComparePoolStep, CompareBitmapsStep
    <3>4. QED
      BY <1>11, <3>1, <3>2, <3>3
  <2>2. pc' \notin EarlyPcs \cup DevicePcs
    BY <2>1 DEF EarlyPcs, DevicePcs, LatePcs
  <2>3. QED
    BY <1>3, <2>1, <2>2 DEF QueuesOK, QueueDone, QueueOver
<1>12. CASE UNCHANGED vars
  BY <1>3, <1>12 DEF vars
<1>13. QED
  BY <1>2, <1>6, <1>7, <1>8, <1>9, <1>10, <1>11, <1>12, PassingSteps

\* They are right from the start.
LEMMA QueuesStay == Spec => []QueueInv
<1>1. Init => QueueInv
  BY DEF Init, QueueInv, QueuesOK, QueueDone, QueueOver, LatePcs
<1>2. PlaceInv /\ PlaceInv' /\ QueueInv /\ [Next]_vars => QueueInv'
  BY QueueNext
<1>3. QED
  BY <1>1, <1>2, PlacesStay, PTL DEF Spec

-----------------------------------------------------------------------------
(* What an accepted image is: the pool and the queues. *)

\* At the end all uses of the pool are accounted for.
LEMMA AllPoolUses ==
  ASSUME OnDisk(img), DevInv, pc = "accepted"
  PROVE  /\ PoolDone(img, pc, at) = PoolUses
         /\ \A u : Taken(img, u) = PoolUse(u)
<1>1. \A u : Taken(img, u) = PoolUse(u)
  BY PlaceNames DEF Taken, PoolUse, QueueRange
<1>2. RecordUses(img, pc, at) = QueueUses({"ip"})
  <2>1. \A i : QueueDone(pc, at, "ip", i)
    BY DEF QueueDone, LatePcs
  <2>2. QED
    BY <2>1 DEF RecordUses, QueueUses
<1>3. ASSUME NEW d \in Devs
      PROVE  UsesOf(img, pc, at, d) =
               {<<d, "cab", i>> : i \in CabsOf(d)} \cup {<<d, "cib", i>> : i \in CibsOf(d)}
                 \cup {<<d, "bitmap", k>> : k \in {k \in ChunksOf(d) : DevChunk(d, k).bitmap # 0}}
  <2>1. pc \in LatePcs /\ After(pc, at, d)
    BY DEF LatePcs, After
  <2>2. Covered(img, d, img.dev[d].cibs) = img.dev[d].chunks
    BY <2>1, DevicesDone DEF DeviceDone
  <2>3. UsesOf(img, pc, at, d) = DeviceUses(img, d, img.dev[d].cabs, img.dev[d].cibs, img.dev[d].chunks)
    BY <2>1, <2>2, AllRead DEF UsesOf
  <2>4. QED
    BY <2>3, PlaceNames DEF DeviceUses, CabUses, CibUses, BitmapUses, CabsOf, CibsOf, ChunksOf
<1>4. PoolDone(img, pc, at) = PoolUses
  BY <1>2, <1>3 DEF PoolDone, PoolUses
<1>5. QED
  BY <1>1, <1>4

\* The bitmap of the pool has no more bits than its blocks.
LEMMA PoolBitsEnd ==
  ASSUME PlaceInv, RingInv, ComparedInv, pc = "accepted"
  PROVE  \A x \in pool : x \in Nat /\ x < img.ip_count + BlocksPerChunk
<1>1. OnDisk(img) /\ pc \notin Bad
  BY DEF PlaceInv, Bad
<1>2. pool = PoolBits(img) /\ img.bm_size = CeilDiv(img.ip_count, BlocksPerChunk)
  BY <1>1 DEF ComparedInv, Compared
<1>3. \A i \in 1..img.bm_size : img.ip_bitmaps[i] \in 0..(img.bm_count - 1)
  BY <1>1 DEF RingInv, RingOK, Live
<1>4. \A off \in 0..(img.bm_count - 1) : img.ring[off] \subseteq 0..(BlocksPerChunk - 1)
  BY <1>1 DEF OnDisk
<1>5. img.ip_count \in Nat /\ img.bm_size \in Nat /\ BlocksPerChunk \in Nat \ {0}
  BY <1>1, AddressTypes DEF OnDisk
<1> SUFFICES ASSUME NEW x \in pool PROVE x \in Nat /\ x < img.ip_count + BlocksPerChunk
  OBVIOUS
<1>6. PICK i \in 1..img.bm_size : x \in RingBits(img, i)
  BY <1>2 DEF PoolBits
<1>7. PICK b \in 0..(BlocksPerChunk - 1) : x = (i - 1) * BlocksPerChunk + b
  BY <1>3, <1>4, <1>6 DEF RingBits
<1> DEFINE s == img.bm_size
           f == (i - 1) * BlocksPerChunk
           t == BlocksPerChunk * (s - 1)
<1>8. s \in Nat /\ s > 0 /\ s = CeilDiv(img.ip_count, BlocksPerChunk) /\ i - 1 \in Nat /\ i - 1 <= s - 1 /\ s - 1 \in Nat
  BY <1>2, <1>5, <1>6
<1>9. img.ip_count > 0 /\ t < img.ip_count /\ t \in Nat
  <2>1. /\ img.ip_count = 0 => CeilDiv(img.ip_count, BlocksPerChunk) = 0
        /\ img.ip_count > 0 => BlocksPerChunk * (CeilDiv(img.ip_count, BlocksPerChunk) - 1) < img.ip_count
    BY <1>5, CeilFacts
  <2>2. img.ip_count > 0
    BY <1>5, <1>8, <2>1
  <2>3. t < img.ip_count
    BY <1>8, <2>1, <2>2
  <2>4. t \in Nat
    BY <1>5, <1>8
  <2>5. QED
    BY <2>2, <2>3, <2>4
<1>10. f <= t /\ f \in Nat
  <2>1. f = BlocksPerChunk * (i - 1) /\ f \in Nat
    BY <1>5, <1>8
  <2>2. CASE i - 1 < s - 1
    <3>1. BlocksPerChunk * (i - 1) + BlocksPerChunk <= t
      BY <1>5, <1>8, <2>2, NextMultiple
    <3> HIDE DEF f, t
    <3>2. QED
      BY <1>5, <1>9, <2>1, <3>1
  <2>3. CASE i - 1 = s - 1
    BY <1>5, <2>1, <2>3
  <2>4. QED
    BY <1>8, <2>1, <2>2, <2>3
<1> HIDE DEF f, t
<1>11. x = f + b
  BY <1>7 DEF f
<1>12. QED
  BY <1>5, <1>7, <1>9, <1>10, <1>11

\* The ranges of the pool's queue are in the pool.
LEMMA QueueInPool ==
  ASSUME PlaceInv, RingInv, ComparedInv, QueueInv, PoolInv, pc = "accepted",
         NEW i \in DOMAIN img.fq["ip"].recs
  PROVE  LET r == img.fq["ip"].recs[i]
         IN  /\ r.paddr \in Nat /\ r.length \in Nat /\ img.ip_base \in Nat /\ img.ip_count \in Nat
             /\ img.ip_base <= r.paddr /\ r.paddr + r.length <= img.ip_base + img.ip_count
<1> DEFINE r == img.fq["ip"].recs[i]
           u == <<"ip", "queue", i>>
           last == r.paddr + r.length - 1
<1>1. OnDisk(img) /\ pc \notin Bad /\ ~Doomed(img, pc, at, meas)
  BY DEF PlaceInv, Bad, Doomed, DevicePcs
<1>2. /\ img.ip_base \in Nat /\ img.ip_count \in Nat /\ AddrMod \in Nat \ {0} /\ BlocksPerChunk \in Nat \ {0}
      /\ Address \subseteq Nat
  BY <1>1, AddressTypes
<1>3. r.paddr \in Nat /\ r.length \in Nat
  <2>1. r \in QueueRecord
    BY <1>1, RecordPlaces DEF Queues
  <2>2. QED
    BY <1>2, <2>1 DEF QueueRecord
<1>4. RecordRight(img, "ip", r)
  <2>1. QueueDone(pc, at, "ip", i)
    BY DEF QueueDone, LatePcs
  <2>2. QED
    BY <1>1, <2>1 DEF QueueInv, QueuesOK, Queues
<1>5. /\ r.length # 0 /\ r.paddr >= img.ip_base
      /\ InPool(img, last % AddrMod)
  BY <1>4 DEF RecordRight, InPool
<1>6. last \in Nat /\ last >= r.paddr
  BY <1>3, <1>5
<1>7. last - img.ip_base \in pool
  <2>1. u \in PoolDone(img, pc, at)
    BY DEF PoolDone, RecordUses, QueueDone, LatePcs
  <2>2. Taken(img, u) = RangeOf(r.paddr, r.length)
    BY DEF Taken
  <2>3. last \in Taken(img, u)
    BY <1>3, <1>6, <2>2 DEF RangeOf
  <2>4. Pooled(img, pool, PoolDone(img, pc, at))
    BY <1>1 DEF PoolInv
  <2> HIDE DEF u, last, r
  <2>5. QED
    BY <2>1, <2>3, <2>4 DEF Pooled
<1>8. last - img.ip_base < img.ip_count + BlocksPerChunk
  BY <1>7, PoolBitsEnd
<1>9. img.ip_base + img.ip_count + BlocksPerChunk <= AddrMod
  BY <1>1 DEF ComparedInv, Compared
<1> HIDE DEF last
<1>10. last < AddrMod
  BY <1>2, <1>6, <1>8, <1>9
<1>11. last % AddrMod = last
  <2>1. last < 2 * AddrMod
    BY <1>2, <1>6, <1>10
  <2>2. QED
    BY <1>2, <1>6, <1>10, <2>1, WrapOnce
<1>12. last < img.ip_base + img.ip_count
  BY <1>5, <1>11 DEF InPool
<1>13. QED
  BY <1>2, <1>3, <1>5, <1>6, <1>12 DEF last

\* The pool of an accepted image is that of its uses.
LEMMA PoolRight ==
  ASSUME PlaceInv, DevInv, RingInv, ComparedInv, QueueInv, PoolInv, RingAccepted
  PROVE  PoolAccepted
<1> SUFFICES ASSUME Accepted PROVE Pool
  BY DEF PoolAccepted, RingAccepted
<1>1. OnDisk(img) /\ pc = "accepted" /\ pc \notin Bad /\ ~Doomed(img, pc, at, meas)
  BY DEF PlaceInv, Accepted, Bad, Doomed, DevicePcs
<1>2. \A u : Taken(img, u) = PoolUse(u)
  BY <1>1, AllPoolUses
<1>3. Pooled(img, pool, PoolUses)
  BY <1>1, AllPoolUses DEF PoolInv
<1>4. \A u, v \in PoolUses : u # v => PoolUse(u) \cap PoolUse(v) = {}
  BY <1>2, <1>3 DEF Pooled
<1>5. ASSUME NEW u \in PoolUses, NEW b \in PoolUse(u) PROVE b \in RangeOf(img.ip_base, img.ip_count)
  <2>1. b \in Nat /\ b >= img.ip_base /\ (u[2] # "queue" => b < img.ip_base + img.ip_count)
    BY <1>2, <1>3, <1>5 DEF Pooled
  <2>2. img.ip_base \in Nat /\ img.ip_count \in Nat
    BY <1>1, AddressTypes
  <2>3. CASE u[2] # "queue"
    BY <2>1, <2>2, <2>3 DEF RangeOf
  <2>4. CASE u[2] = "queue"
    <3>1. PICK i \in DOMAIN img.fq["ip"].recs : u = <<"ip", "queue", i>>
      BY <2>4 DEF PoolUses, QueueUses
    <3>2. b \in RangeOf(img.fq["ip"].recs[i].paddr, img.fq["ip"].recs[i].length)
      BY <1>5, <3>1 DEF PoolUse, QueueRange
    <3>3. /\ img.fq["ip"].recs[i].paddr \in Nat /\ img.fq["ip"].recs[i].length \in Nat
          /\ img.fq["ip"].recs[i].paddr + img.fq["ip"].recs[i].length <= img.ip_base + img.ip_count
      BY <1>1, QueueInPool
    <3>4. QED
      BY <2>1, <2>2, <3>2, <3>3 DEF RangeOf
  <2>5. QED
    BY <2>3, <2>4
<1>6. PoolOnDisk = pool /\ img.ip_count = PoolSize
  BY <1>1, PoolNames DEF ComparedInv, Compared, RingPcs
<1>7. PoolOnDisk = {b - img.ip_base : b \in UNION {PoolUse(u) : u \in PoolUses}}
  <2>1. \A x : x \in pool <=> \E u \in PoolUses : \E b \in PoolUse(u) : x = b - img.ip_base
    BY <1>2, <1>3 DEF Pooled
  <2>2. QED
    BY <1>6, <2>1
<1>8. QED
  BY <1>4, <1>5, <1>6, <1>7 DEF Pool

\* In an accepted space manager the bitmap of the internal pool, put together from
\* the ring, has exactly the blocks that cib address blocks, chunk-info blocks,
\* bitmaps and the pool's queue use, each used once, and the free list and the
\* bitmaps in use share out the ring (check_internal_pool()).
THEOREM PoolCompared == Spec => []PoolAccepted
<1>1. PlaceInv /\ DevInv /\ RingInv /\ ComparedInv /\ QueueInv /\ PoolInv /\ RingAccepted => PoolAccepted
  BY PoolRight
<1>2. QED
  BY <1>1, PlacesStay, DevStays, RingStays, ComparedStays, QueuesStay, PoolStays, RingIsShared, PTL

\* The lengths of the records of a queue, as the sum of a fold.
LEMMA LengthSum ==
  ASSUME NEW S, IsFiniteSet(S), NEW f, NEW g,
         \A m \in S : g[m] = f.recs[m].length /\ g[m] \in Int
  PROVE  MapThenSumSet(LAMBDA i : f.recs[i].length, S) = Total(g, S)
<1> DEFINE P(h) == h = [s \in SUBSET S |->
                          IF s = {} THEN 0
                          ELSE f.recs[(CHOOSE x \in s : TRUE)].length + h[s \ {CHOOSE x \in s : TRUE}]]
           sums == CHOOSE h : P(h)
<1>1. MapThenSumSet(LAMBDA i : f.recs[i].length, S) = sums[S]
  BY Zenon DEF MapThenSumSet, MapThenFoldSet
<1>2. ASSUME NEW h PROVE P(h) <=> SumsOf(h, g, S)
  <2>1. \A s \in SUBSET S : s # {} => f.recs[Pick(s)].length = g[Pick(s)]
    BY PickIn
  <2>2. [s \in SUBSET S |-> IF s = {} THEN 0 ELSE f.recs[Pick(s)].length + h[s \ {Pick(s)}]]
        = [s \in SUBSET S |-> IF s = {} THEN 0 ELSE g[Pick(s)] + h[s \ {Pick(s)}]]
    BY <2>1
  <2>3. QED
    BY <2>2, Zenon DEF SumsOf, Pick
<1> HIDE DEF P
<1>3. PICK h \in [SUBSET S -> Int] : SumsOf(h, g, S)
  BY SumsExist
<1>4. P(sums)
  BY <1>2, <1>3
<1>5. QED
  BY <1>1, <1>2, <1>4, TotalIs

\* Ranges of g[i] blocks from p[i] on, without a common block and all below N.
Separate(S, p, g, N) ==
  /\ \A i \in S : p[i] \in Nat /\ g[i] \in Nat /\ p[i] + g[i] <= N
  /\ \A i, j \in S : i # j => RangeOf(p[i], g[i]) \cap RangeOf(p[j], g[j]) = {}

\* They have no more than N blocks.
LEMMA RangesFit ==
  ASSUME NEW S, IsFiniteSet(S), NEW p, NEW g, NEW N \in Nat, Separate(S, p, g, N)
  PROVE  Total(g, S) <= N
<1> USE DEF Separate
<1> DEFINE R(i) == RangeOf(p[i], g[i])
           W(T) == UNION {R(i) : i \in T}
           F == {T \in SUBSET S : IsFiniteSet(W(T)) /\ Total(g, T) = Cardinality(W(T))}
<1>1. \A i \in S : IsFiniteSet(R(i)) /\ Cardinality(R(i)) = g[i]
  <2>1. ASSUME NEW i \in S PROVE IsFiniteSet(R(i)) /\ Cardinality(R(i)) = g[i]
    <3>1. p[i] \in Int /\ p[i] + g[i] - 1 \in Int /\ g[i] \in Nat /\ p[i] \in Nat
      OBVIOUS
    <3>2. ASSUME NEW x \in Nat, NEW l \in Nat
          PROVE  IsFiniteSet(RangeOf(x, l)) /\ Cardinality(RangeOf(x, l)) = l
      <4>1. x \in Int /\ x + l - 1 \in Int
        OBVIOUS
      <4>2. /\ IsFiniteSet(x..(x + l - 1))
            /\ Cardinality(x..(x + l - 1)) = IF x > x + l - 1 THEN 0 ELSE (x + l - 1) - x + 1
        BY <4>1, FS_Interval
      <4>3. QED
        BY <4>2 DEF RangeOf
    <3>3. QED
      BY <3>1, <3>2
  <2>2. QED
    BY <2>1
<1>2. {} \in F
  <2>1. W({}) = {}
    OBVIOUS
  <2>2. IsFiniteSet({}) /\ Cardinality({}) = 0
    BY FS_EmptySet
  <2>3. QED
    BY <2>1, <2>2, TotalEmpty
<1>3. ASSUME NEW T \in SUBSET S, NEW x \in S \ T, T \in F PROVE T \cup {x} \in F
  <2>1. W(T \cup {x}) = W(T) \cup R(x) /\ W(T) \cap R(x) = {}
    BY <1>3 DEF W, R
  <2>2. IsFiniteSet(W(T)) /\ Total(g, T) = Cardinality(W(T))
    BY <1>3
  <2>3. IsFiniteSet(R(x)) /\ Cardinality(R(x)) = g[x]
    BY <1>1
  <2> HIDE DEF W, R
  <2>4. IsFiniteSet(W(T) \cup R(x)) /\ Cardinality(W(T) \cup R(x)) = Cardinality(W(T)) + Cardinality(R(x))
    <3>1. Cardinality(W(T) \cap R(x)) = 0
      BY <2>1, FS_EmptySet
    <3>2. /\ IsFiniteSet(W(T) \cup R(x))
          /\ Cardinality(W(T) \cup R(x)) = Cardinality(W(T)) + Cardinality(R(x)) - Cardinality(W(T) \cap R(x))
      BY <2>2, <2>3, FS_Union
    <3>3. Cardinality(W(T)) \in Nat /\ Cardinality(R(x)) \in Nat
      BY <2>2, <2>3, FS_CardinalityType
    <3>4. QED
      BY <3>1, <3>2, <3>3
  <2>5. Total(g, T \cup {x}) = Total(g, T) + g[x]
    <3>1. IsFiniteSet(T) /\ x \notin T /\ \A y \in T \cup {x} : g[y] \in Int
      BY FS_Subset
    <3>2. QED
      BY <3>1, TotalGrow
  <2>6. QED
    BY <2>1, <2>2, <2>3, <2>4, <2>5
<1> HIDE DEF F
<1>4. S \in F
  BY <1>2, <1>3, FiniteInduction
<1>5. IsFiniteSet(W(S)) /\ Total(g, S) = Cardinality(W(S))
  BY <1>4 DEF F
<1>6. W(S) \subseteq 0..(N - 1)
  <2>1. ASSUME NEW i \in S PROVE R(i) \subseteq 0..(N - 1)
    <3>1. p[i] \in Nat /\ g[i] \in Nat /\ p[i] + g[i] <= N
      OBVIOUS
    <3>2. QED
      BY <3>1 DEF RangeOf
  <2>2. QED
    BY <2>1
<1>7. IsFiniteSet(0..(N - 1)) /\ Cardinality(0..(N - 1)) = N
  <2>1. 0 \in Int /\ N - 1 \in Int
    OBVIOUS
  <2>2. IsFiniteSet(0..(N - 1)) /\ Cardinality(0..(N - 1)) = IF 0 > N - 1 THEN 0 ELSE (N - 1) - 0 + 1
    BY <2>1, FS_Interval
  <2>3. QED
    BY <2>2
<1> HIDE DEF W
<1>8. Cardinality(W(S)) <= Cardinality(0..(N - 1))
  BY <1>6, <1>7, FS_Subset
<1>9. QED
  BY <1>5, <1>7, <1>8

\* Where the ranges of a queue begin.
Starts(m, q) == [i \in Nat |-> m.fq[q].recs[i].paddr]

\* They are disjoint and end before the block numbers do, so that sums cannot wrap.
LEMMA QueueRanges ==
  ASSUME PlaceInv, DevInv, RingInv, MarkInv, ComparedInv, QueueInv, PoolInv, pc = "accepted", NEW q \in Queues
  PROVE  /\ \A i \in DOMAIN img.fq[q].recs :
              LET r == img.fq[q].recs[i]
              IN  r.paddr \in Nat /\ r.length \in Nat /\ r.paddr + r.length <= AddrMod - BlocksPerChunk
         /\ \A i, j \in DOMAIN img.fq[q].recs : i # j => QueueRange(q, i) \cap QueueRange(q, j) = {}
<1>1. OnDisk(img) /\ pc \notin Bad /\ ~Doomed(img, pc, at, meas)
  BY DEF PlaceInv, Bad, Doomed, DevicePcs
<1>2. Address \subseteq Nat /\ AddrMod \in Nat /\ BlocksPerChunk \in Nat
  BY <1>1, AddressTypes
<1>3. ASSUME NEW i \in DOMAIN img.fq[q].recs
      PROVE  /\ img.fq[q].recs[i].paddr \in Nat /\ img.fq[q].recs[i].length \in Nat
             /\ img.fq[q].recs[i].paddr + img.fq[q].recs[i].length <= AddrMod - BlocksPerChunk
  <2> DEFINE r == img.fq[q].recs[i]
  <2>1. r.paddr \in Nat /\ r.length \in Nat
    <3>1. r \in QueueRecord
      BY <1>1, RecordPlaces
    <3>2. QED
      BY <1>2, <3>1 DEF QueueRecord
  <2>2. CASE q = "ip"
    <3>1. /\ img.ip_base \in Nat /\ img.ip_count \in Nat
          /\ r.paddr + r.length <= img.ip_base + img.ip_count
      BY <2>2, QueueInPool
    <3>2. img.ip_base + img.ip_count + BlocksPerChunk <= AddrMod
      BY <1>1 DEF ComparedInv, Compared
    <3> HIDE DEF r
    <3>3. r.paddr + r.length <= AddrMod - BlocksPerChunk
      BY <1>2, <2>1, <3>1, <3>2
    <3>4. QED
      BY <2>1, <3>3 DEF r
  <2>3. CASE q # "ip"
    <3>1. QueueDone(pc, at, q, i)
      BY DEF QueueDone, LatePcs
    <3>2. RecordRight(img, q, r)
      BY <1>1, <3>1 DEF QueueInv, QueuesOK
    <3>3. r.paddr + r.length + BlocksPerChunk <= AddrMod
      BY <2>3, <3>2 DEF RecordRight
    <3> HIDE DEF r
    <3>4. r.paddr + r.length <= AddrMod - BlocksPerChunk
      BY <1>2, <2>1, <3>3
    <3>5. QED
      BY <2>1, <3>4 DEF r
  <2>4. QED
    BY <2>2, <2>3
<1>4. ASSUME NEW i \in DOMAIN img.fq[q].recs, NEW j \in DOMAIN img.fq[q].recs, i # j
      PROVE  QueueRange(q, i) \cap QueueRange(q, j) = {}
  <2> DEFINE u == <<q, "queue", i>>
             v == <<q, "queue", j>>
  <2>1. u # v
    BY <1>4
  <2>2. CASE q = "ip"
    <3>1. u \in PoolDone(img, pc, at) /\ v \in PoolDone(img, pc, at)
      BY <2>2 DEF PoolDone, RecordUses, QueueDone, LatePcs
    <3>2. Taken(img, u) = QueueRange(q, i) /\ Taken(img, v) = QueueRange(q, j)
      BY DEF Taken, QueueRange
    <3> HIDE DEF u, v
    <3>3. QED
      BY <1>1, <2>1, <3>1, <3>2 DEF PoolInv, Pooled
  <2>3. CASE q # "ip"
    <3>1. q \in Devs
      BY <2>3 DEF Queues, Devs
    <3>2. u \in OwnUses /\ v \in OwnUses
      BY <3>1 DEF OwnUses, QueueUses
    <3>3. Use(img, u) = QueueRange(q, i) /\ Use(img, v) = QueueRange(q, j)
      BY DEF Use, QueueRange
    <3>4. Accounted(img, used, OwnUses)
      BY <1>1, AllUses DEF MarkInv
    <3> HIDE DEF u, v
    <3>5. QED
      BY <2>1, <3>2, <3>3, <3>4 DEF Accounted
  <2>4. QED
    BY <2>2, <2>3
<1>5. QED
  BY <1>3, <1>4

\* The queues of an accepted image are summed up right.
LEMMA QueuesAreRight ==
  ASSUME PlaceInv, DevInv, RingInv, MarkInv, ComparedInv, QueueInv, PoolInv
  PROVE  QueuesAccepted
<1> SUFFICES ASSUME Accepted, NEW q \in Queues
             PROVE  LET f == img.fq[q]
                    IN  /\ f.count = MapThenSumSet(LAMBDA i : f.recs[i].length, DOMAIN f.recs)
                        /\ f.oldest = IF f.recs = <<>> THEN 0 ELSE Min({f.recs[i].xid : i \in DOMAIN f.recs})
                        /\ \A i \in DOMAIN f.recs : f.recs[i].xid \in 1..img.sb_xid /\ f.recs[i].length > 0
                        /\ \A i \in DOMAIN f.recs : \A b \in QueueRange(q, i) : block_in_ip(b) <=> q = "ip"
  BY DEF QueuesAccepted, QueuesRight
<1> DEFINE f == img.fq[q]
           n == Len(f.recs)
           S == DOMAIN f.recs
           g == Lengths(img, q)
           p == Starts(img, q)
<1>1. OnDisk(img) /\ pc = "accepted" /\ pc \notin Bad
  BY DEF PlaceInv, Accepted, Bad
<1>2. S = 1..n /\ n \in Nat /\ f.recs \in Seq(QueueRecord)
  BY <1>1, RecordPlaces, DiskTypes
<1>3. /\ IsFiniteSet(S) /\ \A i \in S : g[i] = f.recs[i].length /\ g[i] \in Nat /\ g[i] \in Int
  <2>1. n \in 0..n
    BY <1>2
  <2>2. QED
    BY <1>1, <1>2, <2>1, LengthTypes
<1>4. \A i \in S : p[i] = f.recs[i].paddr
  BY <1>2 DEF Starts
<1>5. /\ \A i \in S : p[i] \in Nat /\ g[i] \in Nat /\ p[i] + g[i] <= AddrMod - BlocksPerChunk
      /\ \A i, j \in S : i # j => RangeOf(p[i], g[i]) \cap RangeOf(p[j], g[j]) = {}
  <2>1. \A i \in S : p[i] \in Nat /\ g[i] \in Nat /\ p[i] + g[i] <= AddrMod - BlocksPerChunk
    BY <1>1, <1>3, <1>4, QueueRanges
  <2>2. \A i \in S : QueueRange(q, i) = RangeOf(p[i], g[i])
    BY <1>3, <1>4 DEF QueueRange
  <2>3. \A i, j \in S : i # j => QueueRange(q, i) \cap QueueRange(q, j) = {}
    BY <1>1, QueueRanges
  <2> HIDE DEF S, g, p
  <2>4. QED
    BY <2>1, <2>2, <2>3
<1>6. \A i \in S : RecordRight(img, q, f.recs[i])
  <2>1. \A i : QueueDone(pc, at, q, i)
    BY <1>1 DEF QueueDone, LatePcs
  <2>2. QED
    BY <1>1, <2>1 DEF QueueInv, QueuesOK
<1>7. Summed(img, q, n, f)
  <2>1. QueueOver(pc, at, q)
    BY <1>1 DEF QueueOver, LatePcs
  <2>2. QED
    BY <1>1, <2>1 DEF QueueInv, QueuesOK
<1>8. f.count = Total(g, S)
  <2>1. AddrMod \in Nat \ {0} /\ BlocksPerChunk \in Nat \ {0} /\ Tier2Base \in Nat /\ img.max["tier2"] \in Nat
        /\ Tier2Base + img.max["tier2"] + BlocksPerChunk <= AddrMod
    BY <1>1, AddressTypes DEF Devs
  <2>2. AddrMod - BlocksPerChunk \in Nat
    BY <2>1
  <2>3. Total(g, S) \in Nat
    BY <1>3, TotalNat
  <2>4. f.count = Total(g, S) % AddrMod
    BY <1>2, <1>7 DEF Summed
  <2> HIDE DEF S, g, p, f
  <2>5. Total(g, S) <= AddrMod - BlocksPerChunk
    <3> DEFINE N == AddrMod - BlocksPerChunk
    <3>1. IsFiniteSet(S) /\ N \in Nat /\ Separate(S, p, g, N)
      BY <1>3, <1>5, <2>2 DEF Separate
    <3> HIDE DEF N
    <3>2. Total(g, S) <= N
      BY <3>1, RangesFit
    <3>3. QED
      BY <3>2 DEF N
  <2>6. Total(g, S) < AddrMod /\ Total(g, S) < 2 * AddrMod
    BY <2>1, <2>3, <2>5
  <2>7. QED
    BY <2>1, <2>3, <2>4, <2>6, WrapOnce
<1>9. MapThenSumSet(LAMBDA i : f.recs[i].length, S) = Total(g, S)
  <2> HIDE DEF S, g, f
  <2>1. QED
    BY <1>3, LengthSum
<1>10. f.oldest = IF f.recs = <<>> THEN 0 ELSE Min({f.recs[i].xid : i \in S})
  <2> DEFINE X(i) == f.recs[i].xid
  <2>1. /\ n = 0 => f.oldest = 0
        /\ n > 0 => \E i \in 1..n : f.oldest = X(i)
        /\ \A i \in 1..n : f.oldest <= X(i)
    BY <1>7 DEF Summed
  <2>2. \A i \in S : X(i) \in Nat
    BY <1>6 DEF RecordRight
  <2>3. CASE f.recs = <<>>
    BY <2>1, <2>3
  <2>4. CASE f.recs # <<>>
    <3>1. n > 0
      BY <1>2, <2>4
    <3> HIDE DEF X, n, S
    <3>2. PICK k \in S : f.oldest = X(k)
      BY <1>2, <2>1, <3>1
    <3>3. \A i \in S : X(k) <= X(i)
      BY <1>2, <2>1, <3>2
    <3>4. Min({X(i) : i \in S}) = X(k)
      BY <2>2, <3>3 DEF Min
    <3>5. QED
      BY <2>4, <3>2, <3>4 DEF X
  <2>5. QED
    BY <2>3, <2>4
<1>11. \A i \in S : f.recs[i].xid \in 1..img.sb_xid /\ f.recs[i].length > 0
  <2>1. ASSUME NEW i \in S PROVE f.recs[i].xid \in 1..img.sb_xid /\ f.recs[i].length > 0
    <3>1. f.recs[i].length # 0 /\ f.recs[i].xid \in 1..img.sb_xid
      BY <1>6 DEF RecordRight
    <3>2. f.recs[i].length \in Nat
      BY <1>3
    <3>3. QED
      BY <3>1, <3>2
  <2>2. QED
    BY <2>1
<1>12. ASSUME NEW i \in S, NEW b \in QueueRange(q, i) PROVE block_in_ip(b) <=> q = "ip"
  <2>1. b \in RangeOf(p[i], g[i]) /\ p[i] \in Nat /\ g[i] \in Nat
    BY <1>3, <1>4, <1>5, <1>12 DEF QueueRange
  <2>2. b \in Nat /\ b >= p[i] /\ b < p[i] + g[i]
    BY <2>1 DEF RangeOf
  <2>3. CASE q = "ip"
    <3>1. /\ img.ip_base \in Nat /\ img.ip_count \in Nat
          /\ img.ip_base <= p[i] /\ p[i] + g[i] <= img.ip_base + img.ip_count
      BY <1>1, <1>3, <1>4, <2>3, QueueInPool
    <3> HIDE DEF p, g
    <3>2. QED
      BY <2>1, <2>2, <2>3, <3>1 DEF block_in_ip
  <2>4. CASE q # "ip"
    <3> DEFINE u == <<q, "queue", i>>
               v == <<"main", "pool", 1>>
    <3>1. q \in Devs
      BY <2>4 DEF Queues, Devs
    <3>2. u \in OwnUses /\ v \in OwnUses /\ u # v
      BY <3>1 DEF OwnUses, QueueUses
    <3>3. Use(img, u) = QueueRange(q, i) /\ Use(img, v) = RangeOf(img.ip_base, img.ip_count)
      BY DEF Use, QueueRange
    <3>4. Accounted(img, used, OwnUses)
      BY <1>1, AllUses DEF MarkInv
    <3> HIDE DEF u, v
    <3>5. b \notin RangeOf(img.ip_base, img.ip_count)
      BY <1>12, <3>2, <3>3, <3>4 DEF Accounted
    <3>6. img.ip_base \in Nat /\ img.ip_count \in Nat
      BY <1>1, AddressTypes
    <3>7. ~block_in_ip(b)
      BY <2>2, <3>5, <3>6 DEF block_in_ip, RangeOf
    <3>8. QED
      BY <2>4, <3>7
  <2>5. QED
    BY <2>3, <2>4
<1>13. QED
  BY <1>8, <1>9, <1>10, <1>11, <1>12

\* Counts and oldest transactions of accepted free queues are right, although the
\* count is kept modulo 2^64, and a queue holds only blocks of its own side of the
\* pool, although only the ends of a range are looked up (parse_free_queue_record(),
\* check_spaceman_free_queue_dev()).
THEOREM QueuesCounted == Spec => []QueuesAccepted
<1>1. PlaceInv /\ DevInv /\ RingInv /\ MarkInv /\ ComparedInv /\ QueueInv /\ PoolInv => QueuesAccepted
  BY QueuesAreRight
<1>2. QED
  BY <1>1, PlacesStay, DevStays, RingStays, MarkStays, ComparedStays, QueuesStay, PoolStays, PTL
=============================================================================
