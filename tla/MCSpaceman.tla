----------------------------- MODULE MCSpaceman -----------------------------
(* Space managers for TLC: a consistent one of each shape, and families in   *)
(* which a few fields at a time take all their small values.                 *)
EXTENDS Spaceman, TLC

Zone(id, s, e) == [id |-> id, cur |-> <<s, e>>, prev |-> <<<<0, 0>>, <<0, 0>>>>, prev_index |-> 0]
NoQueue == [count |-> 0, oldest |-> 0, recs |-> <<>>, nodes |-> 0, limit |-> 1]
NullQueue == [NoQueue EXCEPT !.limit = 0]
Rec(xid, p, n) == [xid |-> xid, paddr |-> p, length |-> n]
QueueOf(recs) ==
  [count |-> FoldSeq(LAMBDA r, n : r.length + n, 0, recs),
   oldest |-> Min({recs[i].xid : i \in DOMAIN recs}), recs |-> recs, nodes |-> 1, limit |-> 1]

(* A consistent space manager for devices with m and t blocks.  The ring     *)
(* begins at block 1 and the pool after it.  In the pool there are, for each *)
(* device, the address blocks, the chunk-info blocks and the bitmaps.  The   *)
(* last bitmaps of the ring are free.  M and T are other blocks in use.      *)
Good(m, t, M, T, mainq, ipq) ==
  LET blocks == [d \in Devs |-> IF d = "main" THEN m ELSE t]
      chunks == [d \in Devs |-> CeilDiv(blocks[d], BlocksPerChunk)]
      cibs == [d \in Devs |-> CeilDiv(chunks[d], ChunksPerCib)]
      cabs == [d \in Devs |-> CabsFor(cibs[d])]
      size == 3 * (chunks["main"] + chunks["tier2"] + cibs["main"] + cibs["tier2"]
                     + cabs["main"] + cabs["tier2"])
      bm == CeilDiv(size, BlocksPerChunk)
      ipb == 1 + RingCopies * bm
      queued == UNION {r.paddr .. (r.paddr + r.length - 1) : r \in Range(mainq)}
      ipqueued == UNION {r.paddr .. (r.paddr + r.length - 1) : r \in Range(ipq)}
      inuse == [d \in Devs |-> IF d = "tier2" THEN T
                               ELSE M \cup queued \cup 1 .. (ipb + size - 1)]
      cab0 == [d \in Devs |-> IF d = "main" THEN ipb
                              ELSE ipb + cabs["main"] + cibs["main"] + chunks["main"]]
      cib0 == [d \in Devs |-> cab0[d] + cabs[d]]
      map0 == [d \in Devs |-> cib0[d] + cibs[d]]
      end == map0["tier2"] + chunks["tier2"]
      bitsOf(d, i) == {b \in 0..(BlocksPerChunk - 1) : i * BlocksPerChunk + b \in inuse[d]}
      countOf(d, i) == Min({BlocksPerChunk, blocks[d] - i * BlocksPerChunk})
      freeOf(d, i) == (countOf(d, i) - Cardinality(bitsOf(d, i))) % CountMod
      chunk(d, i) == [xid |-> 1 + (i % 2), addr |-> i * BlocksPerChunk, count |-> countOf(d, i),
                      free |-> freeOf(d, i),
                      bitmap |-> IF bitsOf(d, i) = {} THEN 0 ELSE map0[d] + i]
      cib(d, i) == LET n == Min({ChunksPerCib, chunks[d] - i * ChunksPerCib})
                   IN  [index |-> i, xid |-> IF n > 1 THEN 2 ELSE 1,
                        chunks |-> [k \in 1..n |-> chunk(d, i * ChunksPerCib + k - 1)]]
      cab(d, i) == LET n == Min({CibsPerCab, cibs[d] - i * CibsPerCab})
                   IN  [index |-> i, cibs |-> [k \in 1..n |-> cib0[d] + i * CibsPerCab + k - 1],
                        xid |-> Max({cib(d, i * CibsPerCab + k - 1).xid : k \in 1..n})]
      at0(b, base, n) == CHOOSE d \in Devs : b \in base[d] .. (base[d] + n[d] - 1)
      all(base, n) == UNION {base[d] .. (base[d] + n[d] - 1) : d \in Devs}
      maps == UNION {{map0[d] + i : i \in {i \in 0..(chunks[d] - 1) : bitsOf(d, i) # {}}} : d \in Devs}
      taken == all(cab0, cabs) \cup all(cib0, cibs) \cup maps \cup ipqueued
  IN  [ip_base |-> ipb, ip_count |-> size, bm_size |-> bm, bm_base |-> 1,
       bm_count |-> RingCopies * bm, versioned |-> TRUE,
       per_chunk |-> BlocksPerChunk, per_cib |-> ChunksPerCib, per_cab |-> CibsPerCab,
       max |-> blocks, block_count |-> m + t, xid |-> 2, sb_xid |-> 3,
       before |-> [main |-> M, tier2 |-> T],
       zones |-> [d \in Devs |-> IF d = "main" THEN <<Zone(1, 2, 4), Zone(0, 0, 0), Zone(2, 4, 8)>>
                                 ELSE <<Zone(0, 0, 0)>>],
       dev |-> [d \in Devs |->
                 [blocks |-> blocks[d], chunks |-> chunks[d], cibs |-> cibs[d], cabs |-> cabs[d],
                  free |-> MapThenSumSet(LAMBDA i : freeOf(d, i), 0..(chunks[d] - 1)),
                  addr |-> IF cabs[d] > 0 THEN [i \in 1..cabs[d] |-> cab0[d] + i - 1]
                           ELSE [i \in 1..cibs[d] |-> cib0[d] + i - 1]]],
       cab |-> [b \in all(cab0, cabs) |-> LET d == at0(b, cab0, cabs) IN cab(d, b - cab0[d])],
       cib |-> [b \in all(cib0, cibs) |-> LET d == at0(b, cib0, cibs) IN cib(d, b - cib0[d])],
       bitmap |-> [b \in maps |-> LET d == at0(b, map0, chunks) IN bitsOf(d, b - map0[d])],
       fq |-> [q \in Queues |-> IF q = "ip" THEN (IF ipq = <<>> THEN NoQueue ELSE QueueOf(ipq))
                                ELSE IF q = "main" THEN (IF mainq = <<>> THEN NoQueue ELSE QueueOf(mainq))
                                ELSE IF t > 0 THEN NoQueue ELSE NullQueue],
       free_head |-> bm, free_tail |-> RingCopies * bm - 1,
       free_next |-> [i \in 1..(RingCopies * bm) |->
                        IF i <= bm \/ i = RingCopies * bm THEN INVALID ELSE i],
       ip_bitmaps |-> [i \in 1..bm |-> i - 1],
       ring |-> [off \in 0..(RingCopies * bm - 1) |->
                   IF off < bm THEN {b \in 0..(BlocksPerChunk - 1) :
                                       off * BlocksPerChunk + b + ipb \in taken}
                   ELSE {}],
       bm_xids |-> [i \in 1..bm |-> 3],
       fs_reserve |-> 2, fs_alloc |-> 1, reserved |-> 2, alloced |-> 1]

Small == Good(12, 0, {0}, {}, <<>>, <<>>)
TwoChunks == Good(23, 0, {0}, {}, <<Rec(2, 14, 2), Rec(3, 17, 1)>>, <<Rec(1, 10, 1)>>)
Fusion == Good(24, 14, {0}, {3}, <<>>, <<>>)
Cabs == Good(59, 0, {0, 50}, {}, <<>>, <<>>)

-----------------------------------------------------------------------------
(* Families. *)

\* Any list through the ring of a small space manager.
Rings(i) ==
  \E f \in [1..RingCopies -> {INVALID} \cup 0..(RingCopies - 1)],
     h \in 0..(RingCopies - 1), l \in 0..RingCopies, o \in {0, 2}, e \in {{}, {7}} :
    i = [Small EXCEPT !.free_next = f, !.free_head = h, !.free_tail = l, !.ip_bitmaps = <<o>>,
                      !.ring = (0 :> IF o = 0 THEN @[0] ELSE {}) @@ (1 :> @[0])
                                  @@ (2 :> IF o = 2 THEN @[0] ELSE e)]
LongRings(i) ==
  \E s \in [1..Cabs.bm_size -> 0..(Cabs.bm_size)] : i = [Cabs EXCEPT !.ip_bitmaps = s]

\* Two chunks with any free counts near the right ones, either bitmap, and bits
\* of a block more or less in use.
Cib1 == TwoChunks.dev["main"].addr[1]
Maps == {TwoChunks.cib[Cib1].chunks[k].bitmap : k \in 1..2} \cup {0, 2, TwoChunks.ip_base + 8}
Chunks(i) ==
  \E df \in -1..1, dt \in -1..1, b1 \in Maps, b2 \in Maps, M \in {{0}, {}, {0, 15}, {0, 22}}, x \in 0..1 :
    i = [TwoChunks EXCEPT !.cib[Cib1].chunks[2].free = @ + df, !.cib[Cib1].chunks[1].bitmap = b1,
                          !.cib[Cib1].chunks[2].bitmap = b2, !.dev["main"].free = @ + dt,
                          !.before["main"] = M, !.cib[Cib1].chunks[1].xid = x]

\* Chunk-info blocks and their address blocks: repeated, out of order, with
\* chunks too many or of other sizes.
CabList == Cabs.dev["main"].addr
FirstCib == Cabs.cab[CabList[1]].cibs[1]
Small2 == Good(12, 12, {0}, {3}, <<>>, <<>>)
Blocks(i) ==
  \/ \E img0 \in {TwoChunks, Cabs}, a \in 1..40 : i = [img0 EXCEPT !.dev["main"].addr[1] = a]
  \/ \E k \in 1..2, x \in 1..2, s \in UNION {[1..n -> FirstCib .. (FirstCib + 2)] : n \in 1..2} :
       i = [Cabs EXCEPT !.cab[CabList[k]].cibs = s, !.cab[CabList[k]].xid = x]
  \/ \E img0 \in {Small, TwoChunks}, n \in {0, 11, 12, 13}, m \in -1..1 :
       i = [img0 EXCEPT !.cib[4].chunks[1].count = n, !.cib[4].chunks[1].free = @ + n - BlocksPerChunk,
                        !.dev["main"].blocks = @ + m, !.dev["main"].free = @ + n - BlocksPerChunk,
                        !.block_count = @ + m]
  \/ \E b \in {0, Small2.ip_base + 9} :
       LET c == Small2.dev["main"].addr[1]
       IN  i = [Small2 EXCEPT !.cib[c].chunks = @ \o <<[@[1] EXCEPT !.addr = 12, !.bitmap = b,
                                                                    !.count = 12, !.free = 12]>>]

\* A device of 48 blocks whose container has 25.  Blocks past the end are in use,
\* in the chunk of the last one and in no chunk; bits are set for other blocks
\* (X) than those in use (Y).  The count of the last chunk is that of its free
\* blocks, or what the code makes of it, which wraps.
Larger(i) ==
  \E X, Y \in SUBSET {24, 25, 26, 40}, right \in BOOLEAN :
    LET g == Good(25, 0, {0} \cup X, {}, <<>>, <<>>)
        c == g.dev["main"].addr[2]
        n == IF right THEN Cardinality({24} \ X) ELSE g.cib[c].chunks[1].free
    IN  i = [g EXCEPT !.max["main"] = 48, !.before["main"] = {0} \cup Y,
                      !.dev["main"].free = @ + n - g.cib[c].chunks[1].free,
                      !.cib[c].chunks[1].free = n]

\* A full device, whose chunks could share a bitmap.
Full == [Good(24, 0, {0} \cup 13..23, {}, <<>>, <<>>) EXCEPT !.reserved = 1, !.fs_reserve = 1]
Sharing(i) ==
  \E b \in {Full.cib[4].chunks[1].bitmap, Full.cib[4].chunks[2].bitmap}, w \in BOOLEAN :
    i = [Full EXCEPT !.cib[4].chunks[2].bitmap = b, !.ring[0] = IF w THEN @ ELSE {0, 1}]

\* The pool's queue at the end of the pool, or over it.
CabsEnd == Cabs.ip_base + Cabs.ip_count - 1
PoolEnds(i) ==
  \E n \in 1..2, x \in {{}, {5}, {5, 6}} :
    i = [Cabs EXCEPT !.fq["ip"] = QueueOf(<<Rec(1, CabsEnd, n)>>), !.ring[2] = @ \cup x]

\* Queues with up to two records.
Recs == {Rec(x, p, n) : x \in {1, 3}, p \in {3, 4, 10, 12, 13, 14, 62}, n \in {1, 2, 63}}
SomeQueues(i) ==
  \/ \E q \in Queues, r \in Recs : i = [TwoChunks EXCEPT !.fq[q] = QueueOf(<<r>>)]
  \/ \E q \in Queues, r \in Recs : i = [TwoChunks EXCEPT !.fq[q] = QueueOf(<<Rec(2, 14, 1), r>>)]
  \/ \E q \in Queues, dc \in 0..1, do \in 0..1, l \in 0..1, n \in 0..2 :
       i = [TwoChunks EXCEPT !.fq[q].count = @ + dc, !.fq[q].oldest = @ + do, !.fq[q].limit = l,
                             !.fq[q].nodes = n]
  \/ \E q \in {NoQueue, NullQueue, QueueOf(<<Rec(1, Tier2Base + 4, 1)>>)} :
       i = [Fusion EXCEPT !.fq["tier2"] = q]

\* Two zones of a device, in any position, and previous boundaries.
SomeZones(i) ==
  \/ \E a \in 0..2, b \in 1..2, s \in {0, 1, 2, 4, 6}, n \in {0, 2, 4}, r \in {2, 4} :
       i = [Small EXCEPT !.zones["main"] = <<Zone(a, s, s + n), Zone(0, 0, 0), Zone(b, r, r + 4)>>]
  \/ \E k \in 0..3, p \in {<<0, 0>>, <<2, 6>>, <<2, 0>>}, q \in {<<0, 0>>, <<4, 6>>} :
       i = [Small EXCEPT !.zones["tier2"] =
              <<[Zone(1, 2, 4) EXCEPT !.prev_index = k, !.prev = <<p, q>>]>>]

\* Sizes and totals.
Headers(i) ==
  \E img0 \in {Small, Cabs, Fusion}, d \in {0, 3}, e \in 0..1, g \in 0..1, v \in BOOLEAN,
     a \in 1..3, b \in {1, 3} :
    i = [img0 EXCEPT !.ip_count = @ + d, !.bm_size = @ + e, !.per_cib = @ + g, !.versioned = v,
                     !.fs_alloc = a, !.alloced = b]

AnyImage(i) ==
  \/ Rings(i) \/ LongRings(i) \/ Chunks(i) \/ Blocks(i) \/ SomeQueues(i) \/ SomeZones(i)
  \/ Headers(i) \/ Sharing(i) \/ PoolEnds(i) \/ Larger(i)
=============================================================================
