----------------------------- MODULE Container ------------------------------
(***************************************************************************)
(* How apfsck goes through a whole container (apfsck/super.c, object.c,    *)
(* snapshot.c and the object maps of btree.c): the superblock copy, the    *)
(* latest checkpoint with its mappings and ephemeral objects, the object   *)
(* maps, the volumes with their snapshots, and last the comparison with    *)
(* the copy.  Then apfs-label runs on the container apfsck accepted.       *)
(*                                                                         *)
(* One action is one object read, or one record or loop iteration.  The    *)
(* container is chosen in Init.  report() exits: it is the step to         *)
(* pc = "reported"; a null pointer or an access past the device is the     *)
(* step to pc = "crashed".  The contents of catalogs and extents and the   *)
(* inside of b-tree nodes and of the space manager are the subjects of the *)
(* modules Catalog, ExtentRefs, Btree and Spaceman: here a tree is the     *)
(* list of its nodes.  The type of an object stands for type and subtype.  *)
(***************************************************************************)
EXTENDS SuperRules, Functions

CONSTANTS
  Image(_),     \* may this container be on disk?
  ReservedOids, \* APFS_OID_RESERVED_COUNT
  MapsPerBlock  \* mappings that fit in a checkpoint-mapping block

ASSUME ContainerAssumption == ReservedOids \in Nat /\ MapsPerBlock \in Nat

VARIABLES
  img,    \* what is on disk
  pc,
  cp,     \* struct checkpoint_info
  scan,   \* the loop over the descriptors: index, valid_blocks, blocks and mappings of this checkpoint
  sb,     \* struct super_block: s_raw, s_xid, s_reaper_fs_id, s_volumes
  maps,   \* s_cpoint_map_table
  used,   \* s_main_bitmap and s_tier2_bitmap
  comap,  \* s_omap_table
  omap,   \* v_omap_table of the current volume
  vol,    \* slot of the current volume
  vsb,    \* the global vsb
  latest, \* latest_vsb of check_snapshot()
  snaps,  \* v_snap_table
  place,  \* next record of the snapshot metadata tree
  todo,   \* objects to read before going on at pc "then"
  then,
  total,  \* totals over the volumes: reserves, group, was the reaper's volume seen?
  label   \* apfs-label: locals of list_labels() and omap_lookup()

volVars == <<comap, omap, vol, vsb, latest, snaps, place, total>>
readVars == <<todo, then>>
vars == <<img, pc, cp, scan, sb, maps, used, volVars, readVars, label>>

Empty == <<>> \* the function with no arguments: an empty hash table
Put(f, k, v) == [x \in DOMAIN f \cup {k} |-> IF x = k THEN v ELSE f[x]]

\* alloc_volume_super().  The pointer may also be null, or dangle.
NewVolume(snap) ==
  [state |-> "live", bno |-> 0, snap |-> snap, raw |-> FALSE, first |-> 0, encrypted |-> FALSE,
   sealed |-> FALSE, extref |-> 0, blocks |-> 0, snap_count |-> 0, max_xid |-> 0, xid |-> 0,
   inums |-> {}]
NoVolume == [NewVolume(FALSE) EXCEPT !.state = "null"]
Dangling == [NewVolume(FALSE) EXCEPT !.state = "dangling"]

NoScan == [index |-> 0, valid |-> 0, blocks |-> 0, map |-> 1, idx |-> 0]
NoTotal == [num |-> 0, alloc |-> 0, group |-> NoGroup, reaper |-> FALSE]
NoLabel == [slot |-> 0, super |-> 0, oid |-> 0, left |-> 0, right |-> 0, index |-> 0, cmp |-> 1,
            found |-> Empty]

Init ==
  /\ Image(img) /\ pc = "copy"
  /\ cp = [desc_base |-> 0, desc_blocks |-> 0, desc_index |-> 0, desc_next |-> 0,
           data_base |-> 0, data_blocks |-> 0, data_index |-> 0, data_next |-> 0, data_len |-> 0]
  /\ scan = NoScan
  /\ sb = [bno |-> 0, xid |-> 0, reaper_fs |-> 0, volumes |-> Empty]
  /\ maps = Empty /\ used = {} /\ comap = Empty /\ omap = Empty
  /\ vol = 0 /\ vsb = NoVolume /\ latest = NoVolume /\ snaps = Empty /\ place = 1
  /\ todo = <<>> /\ then = "copy" /\ total = NoTotal /\ label = NoLabel

Stop(how) ==
  /\ pc' = how
  /\ UNCHANGED <<img, cp, scan, sb, maps, used, volVars, readVars, label>>

\* A check of the code: report() unless ok, and go on with the step otherwise.
Check(ok, step) == (ok /\ step) \/ (~ok /\ Stop("reported"))

-----------------------------------------------------------------------------
(* Blocks. *)

Blocks(r) == r[1] .. (r[1] + r[2] - 1)

\* container_bmap_mark_as_used(): the range is on one device, and free so far.
OnDevice(r) ==
  IF r[1] >= Tier2Base THEN r[1] + r[2] <= Tier2Base + img.tier2 ELSE r[1] + r[2] <= img.size
\* Mutant: a block may be used twice.
CanMarkTwice(rs) == \A i \in DOMAIN rs : OnDevice(rs[i])
CanMark(rs) ==
  /\ \A i \in DOMAIN rs : OnDevice(rs[i]) /\ Blocks(rs[i]) \cap used = {}
  /\ \A i, j \in DOMAIN rs : i # j => Blocks(rs[i]) \cap Blocks(rs[j]) = {}
AllBlocks(rs) == UNION {Blocks(rs[i]) : i \in DOMAIN rs}

\* A block of the descriptor area, and an object anywhere else.  Blocks with no
\* valid checksum have no other contents here.
Garbage == [sum |-> FALSE, magic |-> FALSE, type |-> "none", oid |-> 0, xid |-> 0]
Desc(b) == IF b \in DOMAIN img.desc THEN img.desc[b] ELSE Garbage
Obj(b) == IF b \in DOMAIN img.obj THEN img.obj[b] ELSE Garbage
Body(b) == img.obj[b].body

-----------------------------------------------------------------------------
(* The checkpoint areas. *)

ReadSuperCopy ==
  /\ pc = "copy"
  /\ Check(copy_ok(img.copy), pc' = "preread" /\ UNCHANGED <<img, cp, scan, sb, maps, used, volVars, readVars, label>>)

\* read_latest_super(): of the valid superblocks the first one with the greatest
\* transaction id; none is 0.
ValidSupers(base, n) == {b \in base .. (base + n - 1) : Desc(b).magic /\ Desc(b).sum /\ Desc(b).xid > 0}
read_latest_super(base, n) ==
  LET V == ValidSupers(base, n)
  IN  IF V = {} THEN 0
      ELSE CHOOSE b \in V : \A c \in V : Desc(c).xid < Desc(b).xid \/ (Desc(c).xid = Desc(b).xid /\ b <= c)

\* preread_checkpoint_info(): the areas of block zero, and the positions in them
\* that the latest superblock reports.
PrereadInfo ==
  LET c == img.copy
      b == read_latest_super(c.desc_base, c.desc_blocks)
      s == Desc(b)
      ok == /\ b # 0
            /\ s.desc_next < c.desc_blocks /\ s.desc_index < c.desc_blocks
            /\ s.data_next < c.data_blocks /\ s.data_index < c.data_blocks
  IN  /\ pc = "preread"
      /\ Check(ok,
           /\ cp' = [desc_base |-> c.desc_base, desc_blocks |-> c.desc_blocks,
                     desc_index |-> s.desc_index, desc_next |-> s.desc_next,
                     data_base |-> c.data_base, data_blocks |-> c.data_blocks,
                     data_index |-> s.data_index, data_next |-> s.data_next, data_len |-> s.data_len]
           /\ scan' = [NoScan EXCEPT !.index = s.desc_index,
                         !.valid = (c.desc_blocks + s.desc_next - s.desc_index) % c.desc_blocks]
           /\ pc' = "checkpoint"
           /\ UNCHANGED <<img, sb, maps, used, volVars, readVars, label>>)

\* The loop of parse_filesystem() over the checkpoints, and the check after it.
NextCheckpoint ==
  /\ pc = "checkpoint" /\ scan.valid > 0
  /\ sb' = [sb EXCEPT !.bno = 0, !.xid = 0] /\ used' = {} /\ maps' = Empty
  /\ scan' = [scan EXCEPT !.blocks = 0, !.idx = cp.data_index]
  /\ pc' = "mapblock"
  /\ UNCHANGED <<img, cp, volVars, readVars, label>>
EndCheckpoints ==
  /\ pc = "checkpoint" /\ scan.valid <= 0
  /\ Check(scan.valid = 0 /\ sb.bno # 0, pc' = "compare" /\ UNCHANGED <<img, cp, scan, sb, maps, used, volVars, readVars, label>>)

\* parse_cpoint_map_blocks(): a block of mappings.  All are of one transaction.
DescBno == cp.desc_base + scan.index
MapBlockOK(d, b) ==
  /\ d.sum /\ d.type = "map" /\ d.storage = "physical" /\ d.oid = b
  /\ sb.xid # 0 => d.xid = sb.xid
  /\ d.xid # 0 /\ Len(d.maps) <= MapsPerBlock
ParseMapBlock ==
  /\ pc = "mapblock"
  /\ Check(MapBlockOK(Desc(DescBno), DescBno),
       /\ sb' = [sb EXCEPT !.xid = Desc(DescBno).xid]
       /\ scan' = [scan EXCEPT !.map = 1] /\ pc' = "map"
       /\ UNCHANGED <<img, cp, maps, used, volVars, readVars, label>>)

\* parse_cpoint_map(): each mapping begins where the one before it ended.
MapFits(m) ==
  LET off == (cp.data_blocks + scan.idx - cp.data_index) % cp.data_blocks
  IN  off < cp.data_len /\ off + m.size <= cp.data_len
MapOK(m) ==
  /\ m.oid \notin DOMAIN maps /\ m.paddr # 0 /\ m.paddr = cp.data_base + scan.idx
  /\ m.whole /\ ~m.pad
  /\ MapFits(m)
ParseMap ==
  LET m == Desc(DescBno).maps[scan.map]
  IN  /\ pc = "map" /\ scan.map <= Len(Desc(DescBno).maps)
      /\ Check(MapOK(m),
           /\ maps' = Put(maps, m.oid, [paddr |-> m.paddr, type |-> m.type, size |-> m.size, seen |-> FALSE])
           /\ scan' = [scan EXCEPT !.map = @ + 1, !.idx = (@ + m.size) % cp.data_blocks]
           /\ UNCHANGED <<img, pc, cp, sb, used, volVars, readVars, label>>)
EndMapBlock ==
  LET d == Desc(DescBno)
      last == "last" \in d.flags
      ok == /\ d.flags \subseteq {"last"}
            /\ IF last THEN scan.idx = cp.data_next ELSE scan.blocks + 1 # cp.desc_blocks
  IN  /\ pc = "map" /\ scan.map > Len(d.maps)
      /\ Check(ok,
           /\ scan' = [scan EXCEPT !.blocks = @ + 1, !.index = (@ + 1) % cp.desc_blocks,
                                   !.valid = IF last THEN @ - scan.blocks - 1 ELSE @]
           /\ pc' = IF last THEN "super" ELSE "mapblock"
           /\ UNCHANGED <<img, cp, sb, maps, used, volVars, readVars, label>>)

-----------------------------------------------------------------------------
(* Reading objects. *)

\* An object to read: through an object map, by its block, or an ephemeral one.
Physical(b, type) == [oid |-> b, table |-> "none", type |-> type, bare |-> FALSE]
Virtual(oid, type) == [oid |-> oid, table |-> "volume", type |-> type, bare |-> FALSE]
Ephemeral(oid, type) == [oid |-> oid, table |-> "cpoint", type |-> type, bare |-> FALSE]
Go(items, next) == todo' = items /\ then' = next /\ pc' = "read"

\* The nodes of a b-tree with physical objects.
TreeItems(root, type) ==
  IF Obj(root).type = type THEN [i \in DOMAIN Body(root).nodes |-> Physical(Body(root).nodes[i], type)]
  ELSE <<Physical(root, type)>>

\* s_raw
Raw == Desc(sb.bno)

\* get_latest_omap_record(): the key found, or <<>>.
LatestKey(t, oid, xid) ==
  LET X == {k[2] : k \in {k \in DOMAIN t : k[1] = oid /\ k[2] <= xid}}
  IN  IF X = {} THEN <<>> ELSE <<oid, Max(X)>>
Table(item) == IF item.table = "container" THEN comap ELSE omap
KeyOf(item) == LatestKey(Table(item), item.oid, sb.xid)

\* The part of read_object_internal() about the object map: an object has one
\* use in each snapshot, and one in the latest transaction.
InSnapshot == vsb.state = "live" /\ vsb.snap
OmapRecordOK(item) ==
  LET k == KeyOf(item)
      r == Table(item)[k]
  IN  /\ k # <<>> /\ r.bno # 0 /\ r.noheader = item.bare
      /\ ~(IF InSnapshot THEN r.seen_for_snap ELSE r.seen_for_latest)
BnoOf(item) == IF item.table = "none" THEN item.oid ELSE Table(item)[KeyOf(item)].bno
\* Virtual objects may be shared between snapshots: only the first use counts.
FirstUse(item) == item.table = "none" \/ ~Table(item)[KeyOf(item)].seen

\* What is checked before the transaction, and after it.
HeaderOK(item) ==
  LET h == Obj(BnoOf(item))
  IN  /\ IF item.bare THEN h.type = "noheader" ELSE h.sum
      /\ FirstUse(item) => CanMark(<< <<BnoOf(item), 1>> >>)
      /\ item.bare \/ h.oid = item.oid
      /\ (~item.bare /\ h.storage = "physical") \/ item.oid >= ReservedOids
      /\ item.table # "none" => item.oid < Raw.next_oid
HeaderXid(item) == IF item.bare THEN KeyOf(item)[2] ELSE Obj(BnoOf(item)).xid
HeaderEndOK(item) ==
  LET h == Obj(BnoOf(item))
  IN  item.bare \/ /\ item.table # "none" => h.xid = KeyOf(item)[2]
                   /\ h.encrypted <=> (vsb.state = "live" /\ vsb.encrypted /\ h.type = "cat")
                   /\ h.storage = IF item.table = "none" THEN "physical" ELSE "virtual"
                   /\ h.type = item.type

\* An object of a later transaction: only extent references of a snapshot, and
\* anything in a sealed one, may be.  vsb or its v_raw may be null here.
XidOutcomes(item) ==
  IF HeaderXid(item) = 0 THEN {"reported"}
  ELSE IF HeaderXid(item) <= sb.xid THEN {"ok"}
  ELSE IF vsb.state = "null" THEN {"crashed"}
  ELSE IF vsb.state = "dangling" THEN {"reported", "crashed"}
  ELSE IF ~vsb.snap THEN {"reported"}
  ELSE IF ~vsb.raw THEN {"crashed"}
  ELSE IF vsb.sealed \/ Obj(BnoOf(item)).type = "extref" THEN {"ok"} ELSE {"reported"}

ReadOutcomes(item) ==
  IF item.table # "none" /\ ~OmapRecordOK(item) THEN {"reported"}
  ELSE IF BnoOf(item) >= img.size /\ ~(BnoOf(item) - Tier2Base \in 0..(img.tier2 - 1)) THEN {"crashed"}
  ELSE IF ~HeaderOK(item) THEN {"reported"}
  ELSE IF XidOutcomes(item) = {"ok"} THEN IF HeaderEndOK(item) THEN {"ok"} ELSE {"reported"}
  ELSE XidOutcomes(item)

\* The record of the object map after the object was read.
Seen(r) == [r EXCEPT !.seen = TRUE, !.seen_for_snap = @ \/ InSnapshot, !.seen_for_latest = @ \/ ~InSnapshot]
\* The blocks of a volume: all that is first used in it but superblocks.
Counts(item) == vsb.state = "live" /\ item.type # "fs" /\ FirstUse(item)

ReadObject ==
  LET item == Head(todo)
  IN  /\ pc = "read" /\ todo # <<>> /\ item.table # "cpoint"
      /\ \/ /\ "ok" \in ReadOutcomes(item)
            /\ used' = used \cup {BnoOf(item)}
            /\ comap' = IF item.table = "container" THEN [comap EXCEPT ![KeyOf(item)] = Seen(@)] ELSE comap
            /\ omap' = IF item.table = "volume" THEN [omap EXCEPT ![KeyOf(item)] = Seen(@)] ELSE omap
            /\ vsb' = [vsb EXCEPT !.blocks = IF Counts(item) THEN @ + 1 ELSE @,
                                  !.bno = IF item.type = "fs" THEN BnoOf(item) ELSE @]
            /\ todo' = Tail(todo)
            /\ UNCHANGED <<img, pc, cp, scan, sb, maps, vol, latest, snaps, place, total, then, label>>
         \/ \E how \in ReadOutcomes(item) \ {"ok"} : Stop(how)

\* read_ephemeral_object(): the blocks wrap around the data area.
EphBlock(m, i) ==
  LET j == m.paddr - Raw.data_base
  IN  Raw.data_base + (IF j < Raw.data_blocks THEN (j + i) % Raw.data_blocks ELSE j + i)
Data(b) == IF b \in DOMAIN img.data THEN img.data[b] ELSE [obj |-> "none", part |-> 0]
EphSumOK(m) ==
  LET o == Data(m.paddr).obj
  IN  /\ o \in DOMAIN img.eph /\ img.eph[o].sum /\ img.eph[o].size = m.size
      /\ \A i \in 0..(m.size - 1) : Data(EphBlock(m, i)) = [obj |-> o, part |-> i]
EphBody(oid) == img.eph[Data(maps[oid].paddr).obj].body
EphemeralOK(item) ==
  LET m == maps[item.oid]
      o == img.eph[Data(m.paddr).obj]
  IN  /\ EphSumOK(m)
      /\ o.type = m.type /\ o.oid = item.oid /\ o.xid = sb.xid
      /\ o.storage = "ephemeral" /\ o.type = item.type
\* An empty mapping has no object: its checksum would be that of 2^32 - 8 bytes.
ReadEphemeral ==
  LET item == Head(todo)
      unused == item.oid \in DOMAIN maps /\ ~maps[item.oid].seen
  IN  /\ pc = "read" /\ todo # <<>> /\ item.table = "cpoint"
      /\ \/ /\ unused /\ maps[item.oid].size > 0 /\ EphemeralOK(item)
            /\ maps' = [maps EXCEPT ![item.oid].seen = TRUE]
            /\ todo' = Tail(todo)
            /\ UNCHANGED <<img, pc, cp, scan, sb, used, volVars, then, label>>
         \/ /\ unused /\ maps[item.oid].size = 0 /\ Stop("crashed")
         \/ /\ unused => maps[item.oid].size > 0 /\ ~EphemeralOK(item)
            /\ Stop("reported")

EndRead ==
  /\ pc = "read" /\ todo = <<>> /\ pc' = then
  /\ UNCHANGED <<img, cp, scan, sb, maps, used, volVars, readVars, label>>

-----------------------------------------------------------------------------
(* The checkpoint superblock and the structures of the container. *)

ReadCheckpointSuper ==
  LET s == Desc(DescBno)
      ok == /\ s.sum /\ s.type = "super" /\ s.storage = "ephemeral" /\ s.magic
            /\ s.desc_len = scan.blocks + 1
            /\ main_super_ok(s, sb.xid, img.size, img.tier2)
  IN  /\ pc = "super"
      /\ Check(ok,
           /\ sb' = [sb EXCEPT !.bno = DescBno]
           /\ used' = {0} \cup (IF img.tier2 > 0 THEN {Tier2Base} ELSE {})
           /\ IF s.efi = 0 THEN pc' = "superend" /\ UNCHANGED readVars
              ELSE Go(<<Physical(s.efi, "efi")>>, "efi")
           /\ UNCHANGED <<img, cp, scan, maps, volVars, label>>)

CheckEfi ==
  LET e == Body(Raw.efi)
  IN  /\ pc = "efi"
      /\ Check(efi_ok(e) /\ CanMark(e.extents),
           /\ used' = used \cup AllBlocks(e.extents) /\ pc' = "superend"
           /\ UNCHANGED <<img, cp, scan, sb, maps, volVars, readVars, label>>)

\* check_keybag(): the block is decrypted unless it has a checksum as it is.
KeybagOK(b) == b # 0 => Obj(b).type = "keybag" /\ check_keybag_plaintext(Body(b), sb.xid)
KeybagRanges(b) == IF b = 0 THEN <<>> ELSE unlock_ranges(Body(b))

\* The end of parse_main_super(), and the marks made after it.
EndSuper ==
  LET k == Raw.keylocker[1]
      rs == KeybagRanges(k) \o <<Raw.keylocker, Raw.mkb, <<cp.desc_base, cp.desc_blocks>>,
                                 <<Raw.data_base, Raw.data_blocks>> >>
  IN  /\ pc = "superend"
      /\ \/ /\ k < img.size
            /\ Check(main_super_end_ok(Raw, sb.xid) /\ KeybagOK(k) /\ CanMark(rs),
                 /\ used' = used \cup AllBlocks(rs)
                 /\ comap' = Empty
                 /\ Go(<<Physical(Raw.omap, "omap")>>, "comap")
                 /\ UNCHANGED <<img, cp, scan, sb, maps, omap, vol, vsb, latest, snaps, place, total, label>>)
         \/ k >= img.size /\ Stop("crashed")

\* parse_omap_btree() for the container.  For a second checkpoint vsb dangles,
\* and the object map is taken for that of a volume.
OmapHeaderOK(o) == o.flags /\ o.types /\ (o.snap_tree = 0 => o.snap_count = 0 /\ o.most_recent = 0)
ParseContainerOmap ==
  LET o == Body(Raw.omap)
  IN  /\ pc = "comap"
      /\ \/ /\ vsb.state = "null"
            /\ Check(OmapHeaderOK(o) /\ o.managed /\ o.snap_tree = 0,
                 /\ Go(TreeItems(o.tree, "omapnode"), "comaprecs")
                 /\ UNCHANGED <<img, cp, scan, sb, maps, used, volVars, label>>)
         \/ vsb.state = "dangling" /\ Stop("reported")
         \/ vsb.state = "dangling" /\ ~o.managed /\ Stop("crashed")

\* Records and the leaves they are in: "starts" has the first record of each leaf
\* but the first one.  A root above the leaves has the first keys of all.
SameKey(a, b) == a.oid = b.oid /\ a.xid = b.xid
KeyLess(a, b) == a.oid < b.oid \/ (a.oid = b.oid /\ a.xid < b.xid)
LeafOf(t, i) == IF Len(t.nodes) = 1 THEN 1 ELSE 2 + Cardinality({s \in t.starts : s <= i})
OmapNodesOK(t) ==
  \A i \in DOMAIN t.recs :
    /\ LeafOf(t, i) \in DOMAIN t.nodes /\ t.recs[i].xid <= Obj(t.nodes[LeafOf(t, i)]).xid
    /\ i \in {1} \cup t.starts => t.recs[i].xid <= Obj(t.nodes[1]).xid
\* parse_subtree() and parse_omap_record(), for all records of a tree.  A key may
\* be repeated over the border of two leaves if the first has no block yet.
OmapRecordsOK(t) ==
  LET rs == t.recs
  IN  /\ OmapNodesOK(t)
      /\ \A i \in DOMAIN rs : rs[i].flags /\ rs[i].whole /\ (rs[i].encrypted <=> vsb.state = "live" /\ vsb.encrypted)
      /\ \A i \in 2..Len(rs) :
           KeyLess(rs[i - 1], rs[i]) \/ (SameKey(rs[i - 1], rs[i]) /\ i \in t.starts /\ rs[i - 1].bno = 0)
\* The last record of a key stays in the table.
NewTable(rs) ==
  [k \in {<<rs[i].oid, rs[i].xid>> : i \in DOMAIN rs} |->
     LET r == rs[Max({i \in DOMAIN rs : <<rs[i].oid, rs[i].xid>> = k})]
     IN  [bno |-> r.bno, deleted |-> r.deleted, noheader |-> r.noheader,
          seen |-> FALSE, seen_for_snap |-> FALSE, seen_for_latest |-> FALSE]]

ParseContainerRecords ==
  LET t == Body(Body(Raw.omap).tree)
  IN  /\ pc = "comaprecs"
      /\ Check(OmapRecordsOK(t),
           /\ comap' = NewTable(t.recs)
           /\ Go(<<Ephemeral(Raw.reaper, "reaper")>>, "reaper")
           /\ UNCHANGED <<img, cp, scan, sb, maps, used, omap, vol, vsb, latest, snaps, place, total, label>>)

\* parse_reaper(): the identity of its volume is kept for later.
ParseReaper ==
  LET r == EphBody(Raw.reaper)
  IN  /\ pc = "reaper"
      /\ Check(reaper_ok(r),
           /\ sb' = IF r.head = 0 THEN sb ELSE [sb EXCEPT !.reaper_fs = r.fs]
           /\ Go(IF r.head = 0 THEN <<>> ELSE <<Ephemeral(r.head, "reaplist")>>, "reaperend")
           /\ UNCHANGED <<img, cp, scan, maps, used, volVars, label>>)

\* The rest of parse_reaper(), check_fusion_wbc(), and the roots of the middle
\* tree and the cache state.
EndReaper ==
  LET r == EphBody(Raw.reaper)
      ok == /\ r.head # 0 => EphBody(r.head).max
            /\ reaper_flags_ok(r)
            /\ wbc_ok(Raw) /\ (is_fusion(Raw) => CanMark(<<Raw.wbc>>))
            /\ fusion_oids_ok(Raw)
  IN  /\ pc = "reaperend"
      /\ Check(ok,
           /\ used' = used \cup Blocks(Raw.wbc)
           /\ Go(IF is_fusion(Raw)
                 THEN <<Physical(Raw.mt, "fusion_mt"), Ephemeral(Raw.wbc_state, "wbc")>> ELSE <<>>, "fusion")
           /\ UNCHANGED <<img, cp, scan, sb, maps, volVars, label>>)

\* parse_fusion_mt_record() for the whole tree, parse_fusion_wbc_state(), and
\* the start of the loop over volumes.
CheckFusion ==
  LET rs == IF is_fusion(Raw) THEN Body(Raw.mt).recs ELSE <<>>
      own == SelectSeq([i \in DOMAIN rs |-> <<rs[i].main, rs[i].length>>], LAMBDA r : ~in_wbc(Raw, r[1]))
      ok == /\ \A i \in DOMAIN rs : fusion_mt_record_ok(Raw, rs[i])
            /\ CanMark(own)
            /\ is_fusion(Raw) => ~EphBody(Raw.wbc_state).reserved
  IN  /\ pc = "fusion"
      /\ Check(ok,
           /\ used' = used \cup AllBlocks(own)
           /\ vol' = 0 /\ total' = [total EXCEPT !.reaper = FALSE] /\ pc' = "volume"
           /\ UNCHANGED <<img, cp, scan, sb, maps, comap, omap, vsb, latest, snaps, place, readVars, label>>)

-----------------------------------------------------------------------------
(* Volumes. *)

\* The loop of check_container(): an empty slot leaves vsb dangling.  The slots
\* count from zero, so that one slot more than s_max_vols may be in use.
EmptySlot ==
  /\ pc = "volume" /\ vol < MaxFileSystems /\ Raw.fs[vol + 1] = 0
  /\ vsb' = Dangling /\ vol' = vol + 1
  /\ UNCHANGED <<img, pc, cp, scan, sb, maps, used, comap, omap, latest, snaps, place, total, readVars, label>>
MapVolumeSuper ==
  /\ pc = "volume" /\ vol < MaxFileSystems /\ Raw.fs[vol + 1] # 0
  /\ Check(vol <= Raw.max_vols,
       /\ vsb' = NewVolume(FALSE) /\ omap' = Empty /\ snaps' = Empty /\ place' = 1
       /\ Go(<<[Virtual(Raw.fs[vol + 1], "fs") EXCEPT !.table = "container"]>>, "volsuper")
       /\ UNCHANGED <<img, cp, scan, sb, maps, used, comap, vol, latest, total, label>>)

\* read_volume_super(), called for a volume and for each of its snapshots: all
\* of them are added to the reserves.
WithRaw(v, b) ==
  [v EXCEPT !.raw = TRUE, !.first = first_xid(b), !.encrypted = is_encrypted(b), !.sealed = is_sealed(b),
            !.extref = b.extref]
VolumeSuperOK(b) == volume_ok(b, vol, sb.xid) /\ group_ok(b, total.group, vsb.snap)
AddVolume(b) ==
  [total EXCEPT !.num = @ + reserve_of(b).num, !.alloc = @ + reserve_of(b).alloc,
                !.group = group_after(b, @, vsb.snap),
                !.reaper = @ \/ (~vsb.snap /\ Raw.fs[vol + 1] = sb.reaper_fs)]
ReadVolumeSuper ==
  LET b == Body(vsb.bno)
  IN  /\ pc = "volsuper"
      /\ Check(VolumeSuperOK(b),
           /\ vsb' = WithRaw(vsb, b) /\ total' = AddVolume(b)
           /\ Go(<<Physical(b.omap, "omap")>>, "omap")
           /\ UNCHANGED <<img, cp, scan, sb, maps, used, comap, omap, vol, latest, snaps, place, label>>)

\* parse_omap_btree() for a volume: first the tree of its snapshots.
ParseOmap ==
  LET o == Body(Body(vsb.bno).omap)
  IN  /\ pc = "omap"
      /\ Check(OmapHeaderOK(o) /\ ~o.managed,
           /\ IF o.snap_tree = 0 THEN Go(TreeItems(o.tree, "omapnode"), "omaprecs")
              ELSE Go(TreeItems(o.snap_tree, "omapsnap"), "omapsnaps")
           /\ UNCHANGED <<img, cp, scan, sb, maps, used, volVars, label>>)

\* get_snapshot()
NoSnap == [meta |-> FALSE, named |-> FALSE, omap |-> FALSE, name |-> "none"]
get_snapshot(xid) == IF xid \in DOMAIN snaps THEN snaps[xid] ELSE NoSnap

\* parse_omap_snap_record(), for all records of the tree; they are in order.
ParseOmapSnaps ==
  LET o == Body(Body(vsb.bno).omap)
      xs == Body(o.snap_tree).xids
      max == Max({0} \cup Range(xs))
      ok == /\ \A i \in DOMAIN xs : xs[i] \in 1..sb.xid /\ (i > 1 => xs[i - 1] < xs[i])
            /\ Len(xs) = o.snap_count /\ max = o.most_recent
  IN  /\ pc = "omapsnaps"
      /\ Check(ok,
           /\ snaps' = [x \in Range(xs) |-> [NoSnap EXCEPT !.omap = TRUE]]
           /\ vsb' = [vsb EXCEPT !.max_xid = max]
           /\ Go(TreeItems(o.tree, "omapnode"), "omaprecs")
           /\ UNCHANGED <<img, cp, scan, sb, maps, used, comap, omap, vol, latest, place, total, label>>)

ParseOmapRecords ==
  LET t == Body(Body(Body(vsb.bno).omap).tree)
  IN  /\ pc = "omaprecs"
      /\ Check(OmapRecordsOK(t),
           /\ omap' = NewTable(t.recs)
           /\ Go(TreeItems(Body(vsb.bno).snap_meta, "snapmeta"), "snaprec")
           /\ UNCHANGED <<img, cp, scan, sb, maps, used, comap, vol, vsb, latest, snaps, place, total, label>>)

-----------------------------------------------------------------------------
(* Snapshots. *)

SnapRecs == Body(Body(IF vsb.snap THEN latest.bno ELSE vsb.bno).snap_meta).recs
HasSnapRec(kind) == pc = "snaprec" /\ place <= Len(SnapRecs) /\ SnapRecs[place].kind = kind

\* parse_snap_metadata_record() up to the snapshot's superblock: check_snapshot()
\* goes back to the transaction of the snapshot.
EnterSnapshot ==
  LET r == SnapRecs[place]
      s == get_snapshot(r.xid)
  IN  /\ HasSnapRec("metadata")
      /\ Check(~s.meta /\ r.length /\ r.type /\ r.inum # 0,
           /\ snaps' = Put(snaps, r.xid, [s EXCEPT !.meta = TRUE, !.name = r.name])
           /\ latest' = [vsb EXCEPT !.xid = sb.xid]
           /\ sb' = [sb EXCEPT !.xid = r.xid]
           /\ vsb' = [NewVolume(TRUE) EXCEPT !.snap_count = vsb.snap_count]
           /\ Go(<<Physical(r.sblock, "fs")>>, "snapsuper")
           /\ UNCHANGED <<img, cp, scan, maps, used, comap, omap, vol, place, total, label>>)

\* check_snapshot() up to check_volume_super(): object map, extents and list of
\* snapshots are those of the latest transaction.
\* Mutant: the marks of the snapshot before are left.
KeepSeenForSnap(t) == t
ClearSeenForSnap(t) == [k \in DOMAIN t |-> [t[k] EXCEPT !.seen_for_snap = FALSE]]
ReadSnapshotSuper ==
  LET b == Body(vsb.bno)
      r == SnapRecs[place]
  IN  /\ pc = "snapsuper"
      /\ Check(VolumeSuperOK(b) /\ b.extref = 0 /\ b.omap = 0 /\ b.snap_meta = 0,
           /\ vsb' = [WithRaw(vsb, b) EXCEPT !.extref = r.extref, !.max_xid = latest.max_xid]
           /\ total' = AddVolume(b)
           /\ omap' = ClearSeenForSnap(omap)
           /\ pc' = "integrity"
           /\ UNCHANGED <<img, cp, scan, sb, maps, used, comap, vol, latest, snaps, place, readVars, label>>)

\* parse_snap_name_record(): the metadata comes first, with the same name.
ParseSnapName ==
  LET r == SnapRecs[place]
      s == get_snapshot(r.xid)
  IN  /\ HasSnapRec("name")
      /\ Check(r.length /\ ~s.named /\ s.meta /\ s.name = r.name,
           /\ snaps' = Put(snaps, r.xid, [s EXCEPT !.named = TRUE])
           /\ place' = place + 1
           /\ UNCHANGED <<img, pc, cp, scan, sb, maps, used, comap, omap, vol, vsb, latest, total, readVars, label>>)
EndSnapRecords ==
  /\ pc = "snaprec" /\ place > Len(SnapRecs)
  /\ pc' = "integrity"
  /\ UNCHANGED <<img, cp, scan, sb, maps, used, volVars, readVars, label>>

-----------------------------------------------------------------------------
(* check_volume_super(), for the latest transaction and for snapshots. *)

ReadIntegrity ==
  /\ pc = "integrity"
  /\ Go(IF vsb.sealed THEN <<Virtual(Body(vsb.bno).integrity, "integrity")>> ELSE <<>>, "trees")
  /\ UNCHANGED <<img, cp, scan, sb, maps, used, volVars, label>>

\* The extent reference tree, the file extents of a sealed volume and the
\* catalog, whose nodes have no header in a sealed volume.
ReadTrees ==
  LET b == Body(vsb.bno)
      key == LatestKey(omap, b.integrity, sb.xid)
      cat == [i \in DOMAIN b.cat |-> [Virtual(b.cat[i], "cat") EXCEPT !.bare = vsb.sealed]]
      fext == IF vsb.sealed THEN TreeItems(b.fext, "fext") ELSE <<>>
  IN  /\ pc = "trees"
      /\ Check(vsb.sealed => integrity_ok(Body(omap[key].bno)),
           /\ Go(TreeItems(vsb.extref, "extref") \o fext \o cat, "metaext")
           /\ UNCHANGED <<img, cp, scan, sb, maps, used, volVars, label>>)

\* check_snap_meta_ext()
ReadSnapMetaExt ==
  LET b == Body(vsb.bno)
  IN  /\ pc = "metaext"
      /\ Check(b.meta_ext # 0 => vsb.max_xid # 0,
           /\ Go(IF b.meta_ext = 0 THEN <<>> ELSE <<Virtual(b.meta_ext, "metaext")>>, "voldone")
           /\ UNCHANGED <<img, cp, scan, sb, maps, used, volVars, label>>)
MetaExtOK ==
  LET b == Body(vsb.bno)
      key == LatestKey(omap, b.meta_ext, sb.xid)
  IN  b.meta_ext # 0 => snap_meta_ext_ok(Body(omap[key].bno), vsb.snap, sb.xid)

\* The end of check_volume_super() in a snapshot, and the way back from
\* check_snapshot(): the number of the snapshot may have no other use.
LeaveSnapshot ==
  LET r == SnapRecs[place]
  IN  /\ pc = "voldone" /\ vsb.snap
      /\ Check(MetaExtOK /\ Body(vsb.bno).num_snapshots >= vsb.snap_count /\ r.inum \notin latest.inums,
           /\ sb' = [sb EXCEPT !.xid = latest.xid]
           /\ vsb' = [latest EXCEPT !.blocks = @ + vsb.blocks, !.snap_count = @ + 1, !.inums = @ \cup {r.inum}]
           /\ latest' = NoVolume
           /\ place' = place + 1 /\ pc' = "snaprec"
           /\ UNCHANGED <<img, cp, scan, maps, used, comap, omap, vol, snaps, total, readVars, label>>)

\* free_snap(), for all snapshots.
\* Mutant: nothing is asked of the object map.
SnapsNamed == \A x \in DOMAIN snaps : snaps[x].named /\ snaps[x].meta
SnapsComplete == \A x \in DOMAIN snaps : snaps[x].named /\ snaps[x].meta /\ snaps[x].omap

\* free_omap_record_list(): a record that was never used must be a deleted one,
\* or extended metadata that an older driver left behind.
Unused(t) == {k \in DOMAIN t : ~t[k].deleted /\ ~t[k].seen}
\* Mutant: any old object may be left behind.
LeakAny(t, k) == k[2] < sb.xid /\ Obj(t[k].bno).sum
LeakOK(t, k) == k[2] < sb.xid /\ Obj(t[k].bno).sum /\ Obj(t[k].bno).type = "metaext"
LeakRanges(t) == LET ks == SetToSeq(Unused(t)) IN [i \in DOMAIN ks |-> <<t[ks[i]].bno, 1>>]
FreeOmapOK(t) ==
  /\ \A k \in DOMAIN t : ~(t[k].deleted /\ t[k].seen)
  /\ \A k \in Unused(t) : LeakOK(t, k)
  /\ CanMark(LeakRanges(t))

\* The end of check_volume_super() for the latest transaction.
EndVolume ==
  LET b == Body(vsb.bno)
      blocks == vsb.blocks + Cardinality(Unused(omap))
      ok == /\ MetaExtOK /\ SnapsComplete /\ FreeOmapOK(omap)
            /\ b.num_snapshots = vsb.snap_count /\ b.alloc = blocks
  IN  /\ pc = "voldone" /\ ~vsb.snap
      /\ Check(ok,
           /\ used' = used \cup AllBlocks(LeakRanges(omap))
           /\ sb' = [sb EXCEPT !.volumes = Put(@, vol, vsb.bno)]
           /\ vsb' = NoVolume /\ vol' = vol + 1 /\ pc' = "volume"
           /\ UNCHANGED <<img, cp, scan, maps, comap, omap, latest, snaps, place, total, readVars, label>>)

\* After the loop over volumes: free_omap_table() for the container takes its
\* records for those of a volume when vsb dangles.
EndVolumes ==
  LET ok == /\ sb.reaper_fs # 0 => total.reaper
            /\ FreeOmapOK(comap)
            /\ Unused(comap) # {} => vsb.state # "null"
  IN  /\ pc = "volume" /\ vol = MaxFileSystems
      /\ Check(ok,
           /\ used' = used \cup AllBlocks(LeakRanges(comap))
           /\ Go(<<Ephemeral(Raw.spaceman, "spaceman")>>, "spaceman")
           /\ UNCHANGED <<img, cp, scan, sb, maps, volVars, label>>)

-----------------------------------------------------------------------------
(* The end of a checkpoint, and of apfsck. *)

\* check_spaceman(): its inside is module Spaceman.  Here it marks blocks of
\* its own, reads the nodes of the free queues, and compares totals and bitmaps.
ReadFreeQueues ==
  /\ pc = "spaceman"
  /\ Go([i \in DOMAIN EphBody(Raw.spaceman).queues |-> Ephemeral(EphBody(Raw.spaceman).queues[i], "freequeue")],
        "bitmaps")
  /\ UNCHANGED <<img, cp, scan, sb, maps, used, volVars, label>>

\* The bitmaps of the chunks of both devices are all that is compared: a device
\* larger than the container has blocks in no chunk.
Described(m) == 0..(m.chunked.main - 1) \cup Tier2Base..(Tier2Base + m.chunked.tier2 - 1)
SpacemanOK(m) ==
  /\ CanMark(m.own)
  /\ m.reserve = total.num /\ m.reserve_alloc = total.alloc
  /\ m.bitmap = (used \cup AllBlocks(m.own)) \cap Described(m)
\* free_cpoint_map()
\* Mutant: an object that nobody read may be mapped.
MapAssigned(oid) == oid >= ReservedOids /\ oid < Raw.next_oid
MapUsed(oid) == maps[oid].seen /\ oid >= ReservedOids /\ oid < Raw.next_oid

EndCheckpoint ==
  /\ pc = "bitmaps"
  /\ Check(/\ SpacemanOK(EphBody(Raw.spaceman)) /\ check_volume_group(total.group)
           /\ \A oid \in DOMAIN maps : MapUsed(oid),
       /\ used' = used \cup AllBlocks(EphBody(Raw.spaceman).own)
       /\ total' = [total EXCEPT !.group = NoGroup]
       /\ scan' = [scan EXCEPT !.index = (@ + 1) % cp.desc_blocks, !.valid = @ - 1]
       /\ pc' = "checkpoint"
       /\ UNCHANGED <<img, cp, sb, maps, comap, omap, vol, vsb, latest, snaps, place, readVars, label>>)

\* main_super_compare() and fusion_super_compare(): a copy of another transaction
\* is what a crash leaves, and is reported only with the option -c.
CompareCopies ==
  LET c == img.copy
      same == c.xid = Raw.xid
      same2 == img.tier2_copy.xid = c.xid
      ok == /\ IF same THEN same_super(Raw, c) ELSE ~img.crash_option
            /\ is_fusion(Raw) => IF same2 THEN tier2_copy_ok(Raw, img.tier2_copy) ELSE ~img.crash_option
  IN  /\ pc = "compare"
      /\ Check(ok, pc' = "accepted" /\ UNCHANGED <<img, cp, scan, sb, maps, used, volVars, readVars, label>>)

-----------------------------------------------------------------------------
(* apfs-label on a container that apfsck accepted (apfs-label/apfs-label.c). *)

\* It has the file of the main device only.  Blocks past its end cannot be mapped
\* or read: the end of the program by an error or by a signal is "fatal".
InFile(b) == b < img.size

LabelSuperblock == Desc(label.super)
LabelOmap == Body(LabelSuperblock.omap)
LabelRecs == Body(LabelOmap.tree).recs

\* read_super() and omap_bno_to_root(): the map must be a single node.
LabelStart ==
  LET b == read_latest_super(img.copy.desc_base, img.copy.desc_blocks)
      o == Desc(b).omap
      ok == /\ \A d \in Blocks(<<img.copy.desc_base, img.copy.desc_blocks>>) : InFile(d)
            /\ Obj(o).type = "omap" /\ InFile(o)
            /\ Obj(Body(o).tree).type = "omapnode" /\ InFile(Body(o).tree)
            /\ Len(Body(Body(o).tree).nodes) = 1
  IN  /\ pc = "accepted"
      /\ \/ /\ ok
            /\ label' = [label EXCEPT !.super = b] /\ pc' = "labels"
            /\ UNCHANGED <<img, cp, scan, sb, maps, used, volVars, readVars>>
         \/ ~ok /\ Stop("fatal")

\* The loop of list_labels(), and the start of omap_lookup().
LabelNextVolume ==
  LET oid == LabelSuperblock.fs[label.slot + 1]
  IN  /\ pc = "labels" /\ label.slot < MaxFileSystems
      /\ \/ /\ oid = 0
            /\ label' = [label EXCEPT !.slot = @ + 1]
            /\ UNCHANGED <<img, pc, cp, scan, sb, maps, used, volVars, readVars>>
         \/ /\ oid # 0 /\ Len(LabelRecs) <= MaxFileSystems
            /\ label' = [label EXCEPT !.oid = oid, !.index = Len(LabelRecs), !.left = 0, !.cmp = 1]
            /\ pc' = "bisect"
            /\ UNCHANGED <<img, cp, scan, sb, maps, used, volVars, readVars>>
         \/ oid # 0 /\ Len(LabelRecs) > MaxFileSystems /\ Stop("fatal")
LabelEnd ==
  /\ pc = "labels" /\ label.slot = MaxFileSystems
  /\ pc' = "labelled" /\ UNCHANGED <<img, cp, scan, sb, maps, used, volVars, readVars, label>>

\* omap_keycmp() of record i (from zero) and the key looked for.
\* Mutant: transactions are not compared.
KeycmpOid(i) == LET r == LabelRecs[i + 1] IN r.oid - label.oid
omap_keycmp(i) ==
  LET r == LabelRecs[i + 1]
  IN  IF r.oid # label.oid THEN r.oid - label.oid ELSE r.xid - LabelSuperblock.xid

\* One iteration of the bisection of omap_lookup(): the middle is never the
\* record that is out already.
\* Mutant: the middle is always rounded down.
MiddleBelow(left, right) == (left + right) \div 2
Middle(left, right) == IF label.cmp > 0 THEN (left + right) \div 2 ELSE DivRoundUp(left + right, 2)
\* The last byte for the name of a volume is looked at: null in a "padded" label,
\* while a "full" one has its null byte earlier and other bytes after it.  A block
\* that is no superblock may have anything there.
Terminated(b) ==
  IF ~InFile(b) THEN {FALSE} ELSE IF Obj(b).type = "fs" THEN {Body(b).label = "padded"} ELSE BOOLEAN
LabelBisect ==
  LET left == IF label.cmp > 0 THEN label.left ELSE label.index
      right == IF label.cmp > 0 THEN label.index - 1 ELSE label.right
      index == Middle(left, right)
      cmp == omap_keycmp(index)
      end == cmp = 0 \/ left = right
      bno == LabelRecs[index + 1].bno
  IN  /\ pc = "bisect"
      /\ \/ right < left /\ Stop("fatal")
         \/ /\ right >= left /\ ~end
            /\ label' = [label EXCEPT !.left = left, !.right = right, !.index = index, !.cmp = cmp]
            /\ UNCHANGED <<img, pc, cp, scan, sb, maps, used, volVars, readVars>>
         \/ /\ right >= left /\ end /\ cmp <= 0 /\ TRUE \in Terminated(bno)
            /\ label' = [label EXCEPT !.found = Put(@, label.slot, bno), !.slot = @ + 1]
            /\ pc' = "labels"
            /\ UNCHANGED <<img, cp, scan, sb, maps, used, volVars, readVars>>
         \/ /\ right >= left /\ end /\ (cmp > 0 \/ FALSE \in Terminated(bno))
            /\ Stop("fatal")

-----------------------------------------------------------------------------
Ended == pc \in {"reported", "crashed", "labelled", "fatal"}
End == Ended /\ UNCHANGED vars

Steps ==
  \/ ReadSuperCopy \/ PrereadInfo \/ NextCheckpoint \/ EndCheckpoints
  \/ ParseMapBlock \/ ParseMap \/ EndMapBlock
  \/ ReadObject \/ ReadEphemeral \/ EndRead
  \/ ReadCheckpointSuper \/ CheckEfi \/ EndSuper
  \/ ParseContainerOmap \/ ParseContainerRecords \/ ParseReaper \/ EndReaper \/ CheckFusion
  \/ EmptySlot \/ MapVolumeSuper \/ ReadVolumeSuper \/ ParseOmap \/ ParseOmapSnaps \/ ParseOmapRecords
  \/ EnterSnapshot \/ ReadSnapshotSuper \/ ParseSnapName \/ EndSnapRecords
  \/ ReadIntegrity \/ ReadTrees \/ ReadSnapMetaExt \/ LeaveSnapshot \/ EndVolume \/ EndVolumes
  \/ ReadFreeQueues \/ EndCheckpoint \/ CompareCopies
  \/ LabelStart \/ LabelNextVolume \/ LabelEnd \/ LabelBisect

Next == Steps \/ End

\* apfsck and apfs-label run until they end: nothing else stops a process.
Spec == Init /\ [][Next]_vars /\ WF_vars(Steps)
=============================================================================
