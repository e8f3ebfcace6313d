---------------------------- MODULE MCContainer -----------------------------
(* Containers for TLC: consistent ones, and families in which a few fields   *)
(* at a time take all their small values.                                    *)
EXTENDS ContainerProps, TLC

DeviceSize == 60
Head0(oid, xid, type, storage, body) ==
  [sum |-> TRUE, oid |-> oid, xid |-> xid, type |-> type, storage |-> storage, encrypted |-> FALSE, body |-> body]
P(b, xid, type, body) == b :> Head0(b, xid, type, "physical", body)
V(b, oid, xid, type, body) == b :> Head0(oid, xid, type, "virtual", body)
Tree(b) == [nodes |-> <<b>>]

Rec0(oid, xid, bno) ==
  [oid |-> oid, xid |-> xid, bno |-> bno, deleted |-> FALSE, noheader |-> FALSE, encrypted |-> FALSE,
   flags |-> TRUE, whole |-> TRUE]
OmapBody(tree, snaptree, n, max) ==
  [flags |-> TRUE, managed |-> FALSE, types |-> TRUE, tree |-> tree, snap_tree |-> snaptree,
   snap_count |-> n, most_recent |-> max]
Software(xid) == [id |-> "named", stamp |-> TRUE, xid |-> xid]
NoSoftware == [id |-> "none", stamp |-> FALSE, xid |-> 0]
VolumeBody ==
  [index |-> 0, magic |-> TRUE, features |-> {"hardlink_map"}, rocompat |-> {}, incompat |-> {"case"},
   flags |-> {"unencrypted"}, alloc |-> 6, reserve |-> 0, quota |-> 0, meta_crypto |-> "class_f",
   next_obj_id |-> 16, next_doc_id |-> 3, label |-> "padded", formatted_by |-> Software(1),
   modified_by |-> <<Software(2), NoSoftware>>, role |-> "none", types |-> TRUE, freed |-> 1, alloced |-> 9,
   reserved |-> FALSE, epoch |-> 0, clone_xid |-> 0, fext_type |-> "tree", fext |-> 0, integrity |-> 0,
   group_uuid |-> FALSE, doc_flags |-> {}, extref |-> 16, omap |-> 13, snap_meta |-> 15, cat |-> <<22, 23>>,
   meta_ext |-> 0, num_snapshots |-> 0]
SnapBody(n) ==
  [VolumeBody EXCEPT !.extref = 0, !.omap = 0, !.snap_meta = 0, !.meta_ext = 24, !.num_snapshots = n - 1]
MetaExt(xid) == [version |-> 1, flags |-> {}, xid |-> xid]
Meta(xid, sblock, extref, name) ==
  [kind |-> "metadata", xid |-> xid, sblock |-> sblock, extref |-> extref, name |-> name, inum |-> 16 + xid,
   length |-> TRUE, type |-> TRUE]
Name(xid, name) == [Meta(xid, 0, 0, name) EXCEPT !.kind = "name"]

(* The first volume, with n snapshots, of transactions 3 and 4. *)
VolA(n) ==
  V(12, 20, 5, "fs",
    [VolumeBody EXCEPT !.alloc = <<6, 10, 12>>[n + 1], !.num_snapshots = n, !.meta_ext = IF n > 0 THEN 24 ELSE 0])
  @@ P(13, 5, "omap", OmapBody(14, IF n > 0 THEN 18 ELSE 0, n, <<0, 3, 4>>[n + 1]))
  @@ P(14, 5, "omapnode",
       [nodes |-> <<14>>, starts |-> {},
        recs |-> (IF n > 0 THEN <<Rec0(22, 3, 21)>> ELSE <<>>) \o <<Rec0(22, 5, 17), Rec0(23, 2, 22)>>
                   \o (IF n > 0 THEN <<Rec0(24, 3, 23)>> ELSE <<>>)
                   \o (IF n > 1 THEN <<Rec0(24, 4, 26)>> ELSE <<>>)])
  @@ P(15, 5, "snapmeta",
       [nodes |-> <<15>>,
        recs |-> <<Meta(3, 19, 20, "a"), Meta(4, 24, 25, "b"), Name(3, "a"), Name(4, "b")>>])
  @@ P(16, 5, "extref", Tree(16))
  @@ V(17, 22, 5, "cat", <<>>) @@ V(22, 23, 2, "cat", <<>>)
  @@ (IF n = 0 THEN <<>>
      ELSE P(18, 4, "omapsnap", [nodes |-> <<18>>, xids |-> <<3, 4>>])
           @@ P(19, 3, "fs", SnapBody(1)) @@ P(20, 3, "extref", Tree(20))
           @@ V(21, 22, 3, "cat", <<>>) @@ V(23, 24, 3, "metaext", MetaExt(3))
           @@ P(24, 4, "fs", SnapBody(2)) @@ P(25, 4, "extref", Tree(25))
           @@ V(26, 24, 4, "metaext", MetaExt(4)))
Trim(n, o) ==
  CASE n = 0 -> [o EXCEPT ![15].body.recs = <<>>]
    [] n = 1 -> [o EXCEPT ![15].body.recs = <<@[1], @[3]>>, ![18].body.xids = <<3>>]
    [] n = 2 -> o
BlocksA(n) == 12..17 \cup {22} \cup (IF n > 0 THEN {18, 19, 20, 21, 23} ELSE {}) \cup (IF n > 1 THEN {24, 25, 26} ELSE {})

(* The second one, which may be sealed. *)
VolB(sealed) ==
  V(40, 21, 5, "fs",
    [VolumeBody EXCEPT !.index = 1, !.omap = 41, !.snap_meta = 43, !.extref = 44, !.cat = <<25>>,
       !.alloc = IF sealed THEN 7 ELSE 5, !.incompat = IF sealed THEN {"sealed"} ELSE {},
       !.role = IF sealed THEN "system" ELSE "none", !.fext = IF sealed THEN 47 ELSE 0,
       !.integrity = IF sealed THEN 26 ELSE 0, !.reserve = 2])
  @@ P(41, 5, "omap", OmapBody(42, 0, 0, 0))
  @@ P(42, 5, "omapnode",
       [nodes |-> <<42>>, starts |-> {},
        recs |-> <<[Rec0(25, 5, 45) EXCEPT !.noheader = sealed]>>
                   \o (IF sealed THEN <<Rec0(26, 5, 46)>> ELSE <<>>)])
  @@ P(43, 5, "snapmeta", [nodes |-> <<43>>, recs |-> <<>>]) @@ P(44, 5, "extref", Tree(44))
  @@ V(45, 25, 5, IF sealed THEN "noheader" ELSE "cat", <<>>)
  @@ V(46, 26, 5, "integrity",
       [version |-> 1, flags |-> {}, hash_type |-> 1, hash_off |-> 128, reserved |-> FALSE])
  @@ P(47, 5, "fext", Tree(47))
BlocksB(kind) == IF kind = "none" THEN {} ELSE 40..45 \cup (IF kind = "sealed" THEN {46, 47} ELSE {})

(* The checkpoint: a mapping block and a superblock, after older ones.  The  *)
(* space manager goes over the end of the data area.                         *)
Map0(oid, paddr, type, size) ==
  [oid |-> oid, paddr |-> paddr, type |-> type, size |-> size, whole |-> TRUE, pad |-> FALSE]
MapBlock(b, xid, ms) ==
  [sum |-> TRUE, magic |-> FALSE, type |-> "map", storage |-> "physical", oid |-> b, xid |-> xid, maps |-> ms,
   flags |-> {"last"}]
Super0(xid, fusion) ==
  [sum |-> TRUE, magic |-> TRUE, type |-> "super", storage |-> "ephemeral", oid |-> 1, xid |-> xid, bsize |-> 4096,
   block_count |-> DeviceSize + fusion, max_vols |-> get_max_volumes(DeviceSize + fusion), flags |-> {}, features |-> {},
   rocompat |-> {}, incompat |-> {"version2"} \cup (IF fusion > 0 THEN {"fusion"} ELSE {}),
   desc_base |-> 1, desc_blocks |-> 4, desc_index |-> 2, desc_next |-> 0, desc_len |-> 2,
   data_base |-> 5, data_blocks |-> 5, data_index |-> 4, data_next |-> IF fusion > 0 THEN 4 ELSE 3,
   data_len |-> IF fusion > 0 THEN 5 ELSE 4, test |-> FALSE, efi |-> 0, eph |-> 1, uuid |-> fusion > 0,
   uuid_bit |-> FALSE, keylocker |-> <<0, 0>>, mkb |-> <<0, 0>>, next_oid |-> 40, next_xid |-> xid + 1,
   omap |-> 10, reaper |-> 31, spaceman |-> 30, fs |-> <<20, 0, 0>>,
   wbc |-> IF fusion > 0 THEN <<34, 2>> ELSE <<0, 0>>, mt |-> IF fusion > 0 THEN 36 ELSE 0,
   wbc_state |-> IF fusion > 0 THEN 34 ELSE 0]
Eph(oid, type, size, body) ==
  [sum |-> TRUE, oid |-> oid, xid |-> 5, type |-> type, storage |-> "ephemeral", size |-> size, body |-> body]
Reaper0 ==
  [buffer |-> TRUE, head |-> 0, tail |-> 0, count |-> 0, next_id |-> 1, completed |-> 0, empty |-> TRUE, fs |-> 0,
   flags |-> {"bhm"}]
Part(o, i) == [obj |-> o, part |-> i]

Good(n, b, fusion) ==
  LET super == [Super0(5, fusion) EXCEPT !.fs = IF b = "none" THEN <<20, 0, 0>> ELSE <<20, 21, 0>>]
      maps0 == <<Map0(30, 9, "spaceman", 2), Map0(31, 6, "reaper", 1), Map0(32, 7, "freequeue", 1)>>
                 \o (IF fusion > 0 THEN <<Map0(34, 8, "wbc", 1)>> ELSE <<>>)
      bits == 0..11 \cup BlocksA(n) \cup BlocksB(b) \cup 50..52
                \cup (IF fusion > 0 THEN {34, 35, 36, 37, Tier2Base} ELSE {})
  IN  [size |-> DeviceSize, tier2 |-> fusion, crash_option |-> FALSE, copy |-> super,
       tier2_copy |-> [xid |-> 5, sum |-> TRUE, uuid_bit |-> TRUE, same |-> TRUE],
       desc |-> 1 :> MapBlock(1, 4, <<>>)
                @@ 2 :> [Super0(4, fusion) EXCEPT !.desc_index = 0, !.desc_next = 2]
                @@ 3 :> MapBlock(3, 5, maps0) @@ 4 :> super,
       data |-> 5 :> Part("sm", 1) @@ 6 :> Part("rp", 0) @@ 7 :> Part("fq", 0) @@ 8 :> Part("wb", 0)
                @@ 9 :> Part("sm", 0),
       eph |-> [sm |-> Eph(30, "spaceman", 2,
                            [own |-> << <<50, 3>> >>, queues |-> <<32>>, bitmap |-> bits,
                             chunked |-> [main |-> DeviceSize, tier2 |-> IF fusion > 0 THEN 20 ELSE 0],
                             reserve |-> IF b = "none" THEN 0 ELSE 2,
                             reserve_alloc |-> IF b = "none" THEN 0 ELSE 2]),
                rp |-> Eph(31, "reaper", 1, Reaper0), fq |-> Eph(32, "freequeue", 1, <<>>),
                wb |-> Eph(34, "wbc", 1, [reserved |-> FALSE]), rl |-> Eph(33, "reaplist", 1, [max |-> TRUE])],
       obj |-> P(10, 5, "omap", [OmapBody(11, 0, 0, 0) EXCEPT !.managed = TRUE])
               @@ P(11, 5, "omapnode",
                    [nodes |-> <<11>>, starts |-> {},
                     recs |-> <<Rec0(20, 5, 12)>> \o (IF b = "none" THEN <<>> ELSE <<Rec0(21, 5, 40)>>)])
               @@ Trim(n, VolA(n)) @@ (IF b = "none" THEN <<>> ELSE VolB(b = "sealed"))
               @@ (IF fusion = 0 THEN <<>>
                   ELSE P(36, 5, "fusion_mt",
                          [recs |-> <<[tier2 |-> Tier2Base + 3, main |-> 37, length |-> 1, flags |-> {"dirty"}, same |-> FALSE],
                                      [tier2 |-> Tier2Base + 5, main |-> 34, length |-> 2, flags |-> {}, same |-> TRUE]>>]))]

Plain == Good(0, "none", 0)
One == Good(1, "none", 0)
Two == Good(2, "plain", 0)
Sealed == Good(1, "sealed", 0)
Fusion == Good(0, "none", 10)
GoodImages == {Plain, One, Two, Sealed, Fusion, Good(2, "sealed", 10)}

-----------------------------------------------------------------------------
(* Families.  An update is a record with the fields that change.             *)

Head1(i, b, u) == [i EXCEPT !.obj[b] = u @@ @]
Body1(i, b, u) == [i EXCEPT !.obj[b].body = u @@ @]
Super1(i, u) == [i EXCEPT !.desc[4] = u @@ @, !.copy = u @@ @]
EphBody1(i, o, u) == [i EXCEPT !.eph[o].body = u @@ @]
Bits(i, add, drop) ==
  [i EXCEPT !.eph.sm.body.bitmap = ((@ \cup add) \ drop) \cap Described(i.eph.sm.body)]
Add(i, o) == [i EXCEPT !.obj = o @@ @]

(* What crashes leave: a copy of an older transaction, one or two torn       *)
(* superblocks, and newer ones that are not at the end of their range.       *)
Newer(sum, u) == u @@ [Super0(6, 0) EXCEPT !.sum = sum, !.next_xid = 7]
CrashImage(i) ==
  \/ \E base \in {One, Fusion}, xid \in {4, 5}, opt \in BOOLEAN, t \in {4, 5} :
       i = [base EXCEPT !.copy.xid = xid, !.crash_option = opt, !.tier2_copy.xid = t]
  \/ \E u \in {[sum |-> FALSE], [uuid_bit |-> FALSE], [same |-> FALSE]} : i = [Fusion EXCEPT !.tier2_copy = u @@ @]
  \/ i = [Fusion EXCEPT !.desc[4].uuid_bit = TRUE, !.copy.uuid_bit = TRUE]
  \/ \E u \in {[magic |-> FALSE], [bsize |-> 2048], [oid |-> 2], [sum |-> FALSE], [next_oid |-> 41],
               [flags |-> {"crypto_sw"}], [desc_blocks |-> 0], [desc_base |-> 2]} : i = [One EXCEPT !.copy = u @@ @]
  \/ \E b \in 1..2, sum \in BOOLEAN, f \in {<<20, 0, 0>>, <<20, 21, 0>>, <<19, 0, 0>>, <<22, 0, 0>>} :
       \E base \in {One, Two} : i = [base EXCEPT !.desc[b] = Newer(sum, [fs |-> f])]
  \/ \E o \in {10, 11, 13, 16} : i = [Two EXCEPT !.desc[2] = Newer(TRUE, [omap |-> o])]
  \/ i = [Two EXCEPT !.desc[2] = Newer(TRUE, [omap |-> 13, fs |-> <<22, 0, 0>>])]
  \/ i = Add([Two EXCEPT !.desc[2] = Newer(TRUE, [omap |-> 27])],
             P(27, 5, "omap", OmapBody(28, 0, 0, 0)) @@ P(28, 5, "omapnode", [nodes |-> <<28>>, starts |-> {}, recs |-> <<>>]))
  \/ \E xid \in 0..5, b \in {2, 4} : i = [One EXCEPT !.desc[b].xid = xid]
  \/ \E b \in {3, 4}, u \in {[sum |-> FALSE], [type |-> "none"], [storage |-> "virtual"], [xid |-> 4], [xid |-> 0],
                             [oid |-> 2]} : i = [One EXCEPT !.desc[b] = u @@ @]
  \/ \E x \in 3..4, n \in 0..3 : i = [One EXCEPT !.copy.xid = 4, !.copy.data_base = 6,
                                              !.desc[4].data_index = x, !.desc[4].data_next = n]

(* The checkpoint: mappings and the positions in the areas. *)
Maps1(i, ms, next, len) ==
  Super1([i EXCEPT !.desc[3].maps = ms], [data_next |-> next, data_len |-> len])
SplitMaps(k, f, g) ==
  LET ms == Plain.desc[3].maps
  IN  Super1([Plain EXCEPT !.desc[2] = [MapBlock(2, 5, SubSeq(ms, 1, k)) EXCEPT !.flags = f],
                           !.desc[3] = [MapBlock(3, 5, SubSeq(ms, k + 1, 3)) EXCEPT !.flags = g]],
             [desc_index |-> 1, desc_len |-> 3])
MapUpdates ==
  <<[size |-> 0], [size |-> 1], [size |-> 2], [size |-> 3], [oid |-> 19], [oid |-> 31], [oid |-> 33], [oid |-> 40],
    [type |-> "other"], [whole |-> FALSE], [pad |-> TRUE], [paddr |-> 0], [paddr |-> 8]>>
EphUpdates ==
  <<[sum |-> FALSE], [oid |-> 33], [xid |-> 4], [xid |-> 6], [type |-> "other"], [storage |-> "physical"], [size |-> 3]>>
Extra == Map0(33, 8, "reaplist", 1)
CheckpointImage(i) ==
  \/ \E k \in 1..3, u \in DOMAIN MapUpdates : i = [Plain EXCEPT !.desc[3].maps[k] = MapUpdates[u] @@ @]
  \/ \E ms \in {Plain.desc[3].maps, Append(Plain.desc[3].maps, Extra), SubSeq(Plain.desc[3].maps, 1, 2), <<>>},
        next \in 0..5, len \in 0..5 : i = [Maps1(Plain, ms, next, len) EXCEPT !.data[8] = Part("rl", 0)]
  \/ i = [Maps1(Plain, <<Map0(30, 9, "spaceman", 2), Map0(31, 6, "reaper", 0), Map0(32, 6, "freequeue", 1)>>, 2, 3)
           EXCEPT !.data[6] = Part("fq", 0)]
  \/ \E len \in 1..3, index \in 0..4, next \in {0, 1, 4} :
       i = Super1(Plain, [desc_len |-> len, desc_index |-> index, desc_next |-> next])
  \/ \E k \in 0..3, f, g \in SUBSET {"last", "other"} : i = SplitMaps(k, f, g)
  \/ \E xid \in 4..6 : i = [SplitMaps(1, {}, {"last"}) EXCEPT !.desc[2].xid = xid]
  \/ \E n \in 1..5 : i = [Plain EXCEPT !.desc[3].maps = [k \in 1..n |-> [Extra EXCEPT !.size = 0]]]
  \/ \E o \in {"sm", "rp", "fq"}, u \in DOMAIN EphUpdates : i = [Plain EXCEPT !.eph[o] = EphUpdates[u] @@ @]
  \/ \E b \in 5..9, p \in {Part("sm", 0), Part("sm", 1), Part("rp", 0)} : i = [Plain EXCEPT !.data[b] = p]
  \/ \E qs \in {<<>>, <<32, 32>>, <<31>>, <<30>>, <<33>>} : i = EphBody1(Plain, "sm", [queues |-> qs])
  \/ \E n \in {30, 32, 33} : i = Super1(Plain, [next_oid |-> n])

(* Two checkpoints in a range of descriptors at another place. *)
TwoCheckpoints(u) ==
  LET s == [One.copy EXCEPT !.desc_base = 53, !.desc_blocks = 5, !.desc_index = 0, !.desc_next = 4]
      ms == One.desc[3].maps
      all == [One EXCEPT !.copy = s, !.desc = 53 :> MapBlock(53, 5, ms) @@ 54 :> s @@ 55 :> MapBlock(55, 5, ms)
                                              @@ 56 :> (u @@ s)]
  IN  Add(Bits(all, 53..57, 1..4), P(58, 6, "omap", OmapBody(11, 0, 0, 0)))
RangeImage(i) == \E o \in {10, 13, 58} : i = TwoCheckpoints([omap |-> o])

(* Object maps: the records of a volume and of the container. *)
Spare == V(27, 24, 3, "metaext", MetaExt(3)) @@ V(28, 22, 3, "cat", <<>>) @@ V(29, 20, 4, "metaext", <<>>)
Recs1(i, rs, alloc, add, drop) ==
  Bits([i EXCEPT !.obj[14].body.recs = rs, !.obj[12].body.alloc = alloc], add, drop)
RecUpdates ==
  <<[deleted |-> TRUE], [noheader |-> TRUE], [encrypted |-> TRUE], [flags |-> FALSE], [whole |-> FALSE],
    [xid |-> 1], [xid |-> 3], [xid |-> 4], [xid |-> 5], [xid |-> 6], [oid |-> 19], [oid |-> 23], [oid |-> 25], [oid |-> 40],
    [bno |-> 0], [bno |-> 17], [bno |-> 21], [bno |-> 22], [bno |-> 28], [bno |-> 60], [bno |-> 105]>>
OmapImage(i) ==
  \/ \E k \in 1..4, u \in DOMAIN RecUpdates, d \in {-1, 0} :
       LET r == One.obj[14].body.recs[k]
       IN  i = Recs1(Add(One, Spare), [One.obj[14].body.recs EXCEPT ![k] = RecUpdates[u] @@ @], 10 + d, {},
                     IF d = 0 THEN {} ELSE {r.bno})
  \/ \E k \in 1..4, d \in {-1, 0} :
       LET r == One.obj[14].body.recs[k]
       IN  i = Recs1(One, RemoveAt(One.obj[14].body.recs, k), 10 + d, {}, IF d = 0 THEN {} ELSE {r.bno})
  \/ \E p \in {<<22, 28>>, <<24, 27>>, <<25, 27>>}, xid \in 2..6, del \in BOOLEAN, d \in {0, 1} :
       LET r == [Rec0(p[1], xid, p[2]) EXCEPT !.deleted = del]
       IN  i = Recs1(Add(Plain, Spare), SortSeq(Append(Plain.obj[14].body.recs, r), KeyLess), 6 + d,
                     IF d = 1 THEN {p[2]} ELSE {}, {})
  \/ \E c \in {<<22>>, <<23, 22>>, <<22, 23, 22>>, <<22, 23, 24>>, <<22, 25>>}, b \in {12, 19}, d \in {-1, 0} :
       i = Bits([Body1(One, b, [cat |-> c]) EXCEPT !.obj[12].body.alloc = 10 + d], {}, IF d = 0 THEN {} ELSE {22})
  \/ \E b \in {11, 14, 15, 16, 18, 20}, ns \in {<<14, 28>>, <<16, 16>>, <<15>>, <<27>>} : i = Body1(Add(One, Spare), b, [nodes |-> ns])
  \/ \E b \in {11, 14, 15, 16, 18, 20}, d \in {0, 1} :
       i = Bits(Body1(Add(One, P(53, One.obj[b].xid, One.obj[b].type, <<>>)), b, [nodes |-> <<b, 53>>])
                  , IF d = 1 THEN {53} ELSE {}, {})
  \/ \E b \in {14, 15, 16, 18, 20} :
       i = [Bits(Body1(Add(One, P(53, One.obj[b].xid, One.obj[b].type, <<>>)), b, [nodes |-> <<b, 53>>]), {53}, {})
              EXCEPT !.obj[12].body.alloc = 11]
  \/ \E b \in {10, 13}, u \in {[flags |-> FALSE], [types |-> FALSE], [managed |-> TRUE], [managed |-> FALSE],
                               [snap_count |-> 2], [most_recent |-> 4], [snap_tree |-> 0], [snap_tree |-> 18]} :
       i = Body1(One, b, u)

(* An object map of two leaves, with a record of the first one repeated, or    *)
(* nearly, in the second.                                                     *)
Leaves(i, root, x, k, r) ==
  LET node == P(53, 5, "omapnode", <<>>) @@ P(54, x, "omapnode", <<>>)
  IN  Bits(Body1(Add(i, node), root, [nodes |-> <<root, 53, 54>>, starts |-> {k + 1},
                                      recs |-> InsertAt(i.obj[root].body.recs, k, r)]), {53, 54}, {})
LeavesImage(i) ==
  \/ \E k \in 1..4, bno \in {0, 21}, del \in BOOLEAN, d \in 0..1, x \in {3, 5}, n \in {11, 12} :
       LET r == One.obj[14].body.recs[k]
       IN  i = [Leaves(One, 14, x, k, [r EXCEPT !.bno = bno, !.deleted = del, !.xid = @ - d])
                  EXCEPT !.obj[12].body.alloc = n]
  \/ \E k \in 1..2, bno \in {0, 12} :
       i = Leaves(Two, 11, 5, k, [Two.obj[11].body.recs[k] EXCEPT !.bno = bno])

(* The object map of the container, and apfs-label over it. *)
Deleted(oid, xid) == [Rec0(oid, xid, 0) EXCEPT !.deleted = TRUE]
LabelImage(i) ==
  \/ \E base \in {One, Two}, D \in SUBSET {Deleted(20, 2), Deleted(20, 4), Deleted(21, 4), Deleted(22, 1)} :
       i = [base EXCEPT !.obj[11].body.recs = SortSeq(@ \o SetToSeq(D), KeyLess)]
  \/ \E xid \in {4, 5, 6}, bno \in {0, 12, 19, 29, 40}, base \in {Plain, Two} :
       i = [Add(base, Spare) EXCEPT !.obj[11].body.recs[1] = [@ EXCEPT !.xid = xid, !.bno = bno]]
  \/ \E u \in {[flags |-> FALSE], [whole |-> FALSE], [encrypted |-> TRUE], [noheader |-> TRUE], [oid |-> 22]} :
       i = [Two EXCEPT !.obj[11].body.recs[1] = u @@ @]
  \/ \E r \in {Rec0(20, 4, 29), Rec0(20, 6, 29)}, d \in BOOLEAN :
       i = Bits([Add(Plain, Spare) EXCEPT !.obj[11].body.recs = SortSeq(Append(@, r), KeyLess)],
                IF d THEN {29} ELSE {}, {})

(* A fusion container with what apfs-label reads on the second device. *)
OnTier2 == Tier2Base + 2
MovedImage(i) ==
  LET moved == Bits(Fusion, {OnTier2}, {})
      old(b) == Bits([moved EXCEPT !.obj = [x \in DOMAIN @ \ {b} |-> @[x]]], {}, {b})
      copied(b) == Add(old(b), OnTier2 :> Fusion.obj[b])
      physical(b) == Add(old(b), OnTier2 :> [Fusion.obj[b] EXCEPT !.oid = OnTier2])
  IN  \/ i = [copied(12) EXCEPT !.obj[11].body.recs[1].bno = OnTier2]
      \/ i = Super1(physical(10), [omap |-> OnTier2])
      \/ i = [Body1(physical(11), 10, [tree |-> OnTier2]) EXCEPT !.obj[OnTier2].body.nodes = <<OnTier2>>]

(* Devices larger than the container, which has chunks for n blocks only.  A  *)
(* bit is missing or there is one too many.                                  *)
LargerImage(i) ==
  \E base \in {Plain, Two, Fusion}, n \in {20, 40, 60}, b \in {0, 14, 30, 41, 51} :
    LET blocks == n + base.tier2
        small == Super1([base EXCEPT !.eph.sm.body.chunked.main = n],
                        [block_count |-> blocks, max_vols |-> get_max_volumes(blocks)])
    IN  i = Bits(small, {}, {}) \/ i = Bits(small, {b}, {}) \/ i = Bits(small, {}, {b})

(* Snapshots. *)
SnapUpdates ==
  <<[xid |-> 2], [xid |-> 3], [xid |-> 4], [xid |-> 6], [name |-> "c"], [inum |-> 0], [inum |-> 19], [inum |-> 20],
    [length |-> FALSE], [type |-> FALSE], [kind |-> "name"], [kind |-> "metadata"], [sblock |-> 19], [extref |-> 20]>>
SnapSuperUpdates ==
  <<[extref |-> 16], [omap |-> 13], [snap_meta |-> 15], [num_snapshots |-> 0], [num_snapshots |-> 3], [meta_ext |-> 0],
    [meta_ext |-> 25], [meta_ext |-> 22], [reserve |-> 1], [alloc |-> 0], [index |-> 1],
    [features |-> {"volgroup"}], [flags |-> {}]>>
SnapshotImage(i) ==
  \/ \E k \in 1..4, u \in DOMAIN SnapUpdates : i = [Two EXCEPT !.obj[15].body.recs[k] = SnapUpdates[u] @@ @]
  \/ \E k \in 1..4 : i = [Two EXCEPT !.obj[15].body.recs = RemoveAt(@, k)]
  \/ \E xs \in {<<>>, <<3>>, <<4>>, <<4, 3>>, <<3, 3>>, <<3, 5>>, <<3, 6>>, <<2, 3, 4>>, <<0, 3, 4>>}, n \in 1..3, m \in 3..6 :
       i = [Body1(Two, 18, [xids |-> xs]) EXCEPT !.obj[13].body.snap_count = n, !.obj[13].body.most_recent = m]
  \/ \E n \in 0..3, base \in {Plain, One, Two} : i = Body1(base, 12, [num_snapshots |-> n])
  \/ \E b \in {19, 24}, u \in DOMAIN SnapSuperUpdates, r \in {2, 3} :
       i = EphBody1(Body1(Two, b, SnapSuperUpdates[u]), "sm", [reserve |-> r])
  \/ \E b \in {23, 26}, u \in {[version |-> 2], [flags |-> {"bad"}], [xid |-> 0], [xid |-> 4], [xid |-> 5]} :
       i = Body1(Two, b, u)
  \/ i = Body1(Plain, 12, [meta_ext |-> 22])

(* Headers of objects. *)
HeadUpdates ==
  <<[sum |-> FALSE], [oid |-> 1], [oid |-> 25], [xid |-> 0], [xid |-> 1], [xid |-> 4], [xid |-> 6], [type |-> "other"],
    [type |-> "noheader"], [storage |-> "physical"], [storage |-> "virtual"], [storage |-> "ephemeral"], [encrypted |-> TRUE]>>
HeaderImage(i) ==
  \/ \E b \in 10..23, u \in DOMAIN HeadUpdates : i = Head1(One, b, HeadUpdates[u])
  \/ \E b \in 40..47, u \in DOMAIN HeadUpdates : i = Head1(Sealed, b, HeadUpdates[u])

(* Volumes. *)
Slots1(fs, n, blocks) ==
  LET all == [Plain EXCEPT !.obj[12].body.index = n]
  IN  Super1(all, [fs |-> fs, block_count |-> blocks, max_vols |-> get_max_volumes(blocks)])
VolumeUpdates ==
  <<[index |-> 1], [magic |-> FALSE], [features |-> {"undefined"}], [rocompat |-> {"undefined"}],
    [incompat |-> {"case", "normalization"}], [incompat |-> {"pfk"}], [incompat |-> {"secondary"}],
    [incompat |-> {"undefined"}], [incompat |-> {"sealed"}],
    [flags |-> {"unencrypted", "onekey"}], [flags |-> {"unencrypted", "pfk"}], [flags |-> {}],
    [flags |-> {"undefined"}], [quota |-> 5], [quota |-> 6], [meta_crypto |-> "bad"], [next_obj_id |-> 15],
    [next_doc_id |-> 2], [label |-> "unterminated"], [label |-> "full"], [role |-> "reserved"], [role |-> "data"], [types |-> FALSE],
    [freed |-> 10], [reserved |-> TRUE], [epoch |-> 1], [fext |-> 16], [integrity |-> 22], [fext_type |-> "other"],
    [group_uuid |-> TRUE], [doc_flags |-> {"undefined"}], [omap |-> 60], [snap_meta |-> 16], [extref |-> 28],
    [alloc |-> 5], [alloc |-> 7]>>
SoftwareImage(i) ==
  \E x \in 0..3, y \in 0..5, id \in {"none", "named", "unterminated"}, z \in 0..2 :
     i = Body1(Plain, 12, [formatted_by |-> Software(x),
                           modified_by |-> <<Software(y), [id |-> id, stamp |-> id = "named", xid |-> z]>>])
Group1(f, g, r, q, u) ==
  [Two EXCEPT !.obj[12].body = [@ EXCEPT !.features = f, !.role = r, !.group_uuid = u],
              !.obj[40].body = [@ EXCEPT !.features = g, !.role = q, !.group_uuid = TRUE]]
VolumeImage(i) ==
  \/ \E fs \in {<<20, 0, 0>>, <<0, 20, 0>>, <<0, 0, 20>>, <<20, 20, 0>>, <<20, 21, 0>>, <<0, 0, 0>>, <<19, 0, 0>>},
        n \in 0..2, blocks \in {30, 60} : i = Slots1(fs, n, blocks)
  \/ \E u \in DOMAIN VolumeUpdates : i = Body1(Plain, 12, VolumeUpdates[u])
  \/ \E f, g \in {{"hardlink_map"}, {"volgroup"}}, r, q \in {"none", "data", "system"}, u \in BOOLEAN :
       i = Group1(f, g, r, q, u)
  \/ \E x \in 0..3, n \in 0..3, a \in 0..3 :
       i = EphBody1(Body1(Two, 40, [reserve |-> x]), "sm", [reserve |-> n, reserve_alloc |-> a])
  \/ \E u \in {[role |-> "data"], [fext_type |-> "none"], [fext |-> 0], [integrity |-> 0], [integrity |-> 25],
               [flags |-> {"unencrypted", "was_sealed"}]} : i = Body1(Sealed, 40, u)
  \/ \E u \in {[version |-> 3], [flags |-> {"bad"}], [flags |-> {"broken"}], [hash_type |-> 5], [hash_off |-> 120], [hash_off |-> 129],
               [hash_off |-> 4064], [hash_off |-> 4072], [reserved |-> TRUE]} : i = Body1(Sealed, 46, u)
  \* An encrypted volume.
  \/ \E e \in BOOLEAN, f \in BOOLEAN :
       i = [Body1(Plain, 12, [flags |-> {}]) EXCEPT
              !.obj[14].body.recs = [k \in DOMAIN @ |-> [@[k] EXCEPT !.encrypted = e]],
              !.obj[17].encrypted = f, !.obj[22].encrypted = f]

(* The rest of the container. *)
Reaper1(u, max) ==
  Maps1([EphBody1(EphBody1(Plain, "rp", u), "rl", [max |-> max]) EXCEPT !.data[8] = Part("rl", 0)],
        Append(Plain.desc[3].maps, Extra), 4, 5)
ReaperList == [head |-> 33, tail |-> 33, count |-> 1, next_id |-> 2, completed |-> 1]
Efi1(rs, len, u) ==
  Add(Super1(Bits(Plain, 53..55, {}), [efi |-> 53]),
      P(53, 5, "efi", u @@ [header |-> TRUE, room |-> 2, extents |-> rs, length |-> len]))
Entry(tag, len) == [tag |-> tag, keylen |-> len, padding |-> FALSE, range |-> <<55, 1>>]
Keybag1(es, u) ==
  LET bytes == FoldSeq(LAMBDA e, n : n + e.keylen + 24, 24, es)
  IN  Add(Super1(Bits(Plain, 54..55, {}), [keylocker |-> <<54, 1>>]),
          54 :> Head0(0, 5, "keybag", "none",
                      u @@ [sum |-> TRUE, oid |-> 0, type |-> TRUE, xid |-> 5, version |-> 2, padding |-> FALSE, null |-> TRUE,
                            nbytes |-> bytes, entries |-> es]))
KeybagImage(i) ==
  \/ \E tag \in {"volume_key", "unlock_records", "reserved_f8", "wrapping", "hint"}, len \in {16, 40, 488, 489} :
       i = Keybag1(<<Entry(tag, len)>>, <<>>)
  \/ \E n \in 0..8 : i = Keybag1([k \in 1..(n + 1) |-> IF k = 1 THEN Entry("unlock_records", 16) ELSE Entry("reserved_f8", 488)], <<>>)
  \/ \E u \in {[sum |-> FALSE], [oid |-> 1], [type |-> FALSE], [xid |-> 0], [xid |-> 6], [version |-> 1], [padding |-> TRUE],
               [null |-> FALSE], [nbytes |-> 24], [nbytes |-> 88], [nbytes |-> 87], [nbytes |-> 89]} :
       i = Keybag1(<<Entry("unlock_records", 16)>>, u)
  \/ i = Keybag1(<<Entry("unlock_records", 16), Entry("unlock_records", 16)>>, <<>>)

SuperUpdates ==
  <<[block_count |-> 0], [block_count |-> 61], [max_vols |-> 1], [flags |-> {"undefined"}], [features |-> {"lcfd"}],
    [rocompat |-> {"undefined"}], [incompat |-> {"fusion"}], [incompat |-> {"undefined"}], [test |-> TRUE], [eph |-> 8],
    [uuid |-> TRUE], [keylocker |-> <<0, 1>>], [keylocker |-> <<54, 1>>], [keylocker |-> <<60, 1>>], [mkb |-> <<59, 2>>], [mkb |-> <<4, 1>>],
    [mkb |-> <<54, 1>>], [next_xid |-> 5], [omap |-> 13], [omap |-> 60], [reaper |-> 30], [reaper |-> 33],
    [spaceman |-> 31], [wbc |-> <<54, 1>>], [mt |-> 36], [wbc_state |-> 34], [magic |-> FALSE], [data_blocks |-> 6], [data_base |-> 4]>>
MtUpdates ==
  <<[tier2 |-> 99], [main |-> 100], [main |-> 33], [main |-> 35], [main |-> 38], [length |-> 2], [length |-> 3], [flags |-> {}],
    [flags |-> {"dirty", "tenant"}], [flags |-> {"other"}], [same |-> TRUE], [same |-> FALSE]>>
OtherImage(i) ==
  \/ \E u \in DOMAIN SuperUpdates, add \in {{}, {54}} : i = Bits(Super1(Plain, SuperUpdates[u]), add, {})
  \/ \E fs \in {0, 20, 21}, max \in BOOLEAN : i = Reaper1(ReaperList @@ [fs |-> fs, empty |-> FALSE], max)
  \/ \E u \in {[count |-> 2], [completed |-> 2], [head |-> 32], [tail |-> 32], [flags |-> {}], [flags |-> {"bhm", "bad"}],
               [buffer |-> FALSE]} : i = Reaper1(u @@ ReaperList @@ [fs |-> 20, empty |-> FALSE], TRUE)
  \/ \E u \in {[count |-> 1], [completed |-> 1], [next_id |-> 2], [empty |-> FALSE], [fs |-> 20], [buffer |-> FALSE]} :
       i = EphBody1(Plain, "rp", u)
  \/ \E rs \in {<< <<54, 2>> >>, << <<54, 1>>, <<55, 1>> >>, << <<54, 1>>, <<54, 1>> >>, << <<54, 0>> >>, << <<59, 2>> >>},
        len \in {0, 1, 4096, 4097, 8192, 8193} : i = Efi1(rs, len, <<>>)
  \/ \E u \in {[header |-> FALSE], [room |-> 0]} : i = Efi1(<< <<54, 2>> >>, 8000, u)
  \/ \E k \in 1..2, u \in DOMAIN MtUpdates, add \in {{}, {38}} :
       i = Bits([Fusion EXCEPT !.obj[36].body.recs[k] = MtUpdates[u] @@ @], add, {})
  \/ \E w \in {<<0, 0>>, <<34, 0>>, <<34, 1>>, <<34, 3>>, <<104, 2>>} :
       i = Super1(Fusion, [wbc |-> w]) \/ i = Bits(Super1(Fusion, [wbc |-> w]), 104..105, {})
  \/ \E u \in {[mt |-> 0], [wbc_state |-> 0], [uuid |-> FALSE], [incompat |-> {"version2"}], [features |-> {"lcfd"}]} : i = Super1(Fusion, u)
  \/ i = EphBody1(Fusion, "wb", [reserved |-> TRUE])
  \/ \E base \in {Two, Fusion}, b \in {4, 21, 36, 53, 104}, add \in BOOLEAN :
       i = IF add THEN Bits(base, {b}, {}) ELSE Bits(base, {}, {b})
  \/ \E own \in {<<>>, << <<50, 2>> >>, << <<50, 3>>, <<52, 1>> >>, << <<49, 3>> >>, << <<59, 2>> >>} :
       i = EphBody1(Plain, "sm", [own |-> own])

AnyImage(i) ==
  \/ i \in GoodImages
  \/ CrashImage(i) \/ CheckpointImage(i) \/ RangeImage(i) \/ OmapImage(i) \/ LabelImage(i) \/ SnapshotImage(i)
  \/ HeaderImage(i) \/ VolumeImage(i) \/ SoftwareImage(i)
  \/ KeybagImage(i) \/ OtherImage(i) \/ LeavesImage(i) \/ MovedImage(i) \/ LargerImage(i)
=============================================================================
