--------------------------- MODULE ContainerProps ---------------------------
(***************************************************************************)
(* What an accepted container is, said of the image alone, and the         *)
(* properties of apfsck and apfs-label over it.                            *)
(***************************************************************************)
EXTENDS Container

\* The latest valid superblock, and where it is.
LatestBno == read_latest_super(img.copy.desc_base, img.copy.desc_blocks)
S == Desc(LatestBno)

\* A block of one of the devices.
OnSomeDevice(b) == b \in 0..(img.size - 1) \cup Tier2Base..(Tier2Base + img.tier2 - 1)

\* It ends the range of descriptors that it reports itself.  apfsck trusts it.
LatestInRange ==
  LatestBno = img.copy.desc_base + ((S.desc_next + img.copy.desc_blocks - 1) % img.copy.desc_blocks)

Sum(f) == FoldSeq(LAMBDA x, n : x + n, 0, f)
Distinct(f) == \A i, j \in DOMAIN f : f[i] = f[j] => i = j

-----------------------------------------------------------------------------
(* The checkpoint. *)

Descriptor(i) == Desc(img.copy.desc_base + ((S.desc_index + i - 1) % img.copy.desc_blocks))
MapBlocks == [i \in 1..(S.desc_len - 1) |-> Descriptor(i)]
Mappings == FlattenSeq([i \in DOMAIN MapBlocks |-> MapBlocks[i].maps])
DataBefore(k) == Sum([j \in 1..(k - 1) |-> Mappings[j].size])

\* Mappings with one transaction in the descriptors before the superblock; one
\* after another they take up the valid part of the data area, once.
MappingsTile ==
  /\ S.desc_len > 1 /\ (S.desc_index + S.desc_len) % img.copy.desc_blocks = S.desc_next
  /\ \A i \in DOMAIN MapBlocks :
       /\ MapBlocks[i].type = "map" /\ MapBlocks[i].xid = S.xid
       /\ "last" \in MapBlocks[i].flags <=> i = S.desc_len - 1
  /\ \A k \in DOMAIN Mappings :
       Mappings[k].paddr = img.copy.data_base + ((S.data_index + DataBefore(k)) % img.copy.data_blocks)
  /\ DataBefore(Len(Mappings) + 1) = S.data_len /\ S.data_len <= img.copy.data_blocks

\* The ephemeral object of a mapping, all its blocks in place.
EphAt(m) == img.eph[Data(m.paddr).obj]
Holds(m) ==
  /\ Data(m.paddr).obj \in DOMAIN img.eph
  /\ EphAt(m).sum /\ EphAt(m).oid = m.oid /\ EphAt(m).xid = S.xid /\ EphAt(m).size = m.size
  /\ \A i \in 0..(m.size - 1) :
       Data(S.data_base + ((m.paddr - S.data_base + i) % S.data_blocks)) = [obj |-> Data(m.paddr).obj, part |-> i]
EphOf(oid) == EphAt(Mappings[CHOOSE k \in DOMAIN Mappings : Mappings[k].oid = oid])

\* The uses of ephemeral objects.
MappedOids == {Mappings[k].oid : k \in DOMAIN Mappings}
ReaperBody == EphOf(S.reaper).body
EphemeralUses ==
  <<S.reaper, S.spaceman>> \o (IF ReaperBody.head # 0 THEN <<ReaperBody.head>> ELSE <<>>)
    \o (IF S.wbc_state # 0 THEN <<S.wbc_state>> ELSE <<>>) \o EphOf(S.spaceman).body.queues
EphemeralsUsed ==
  /\ \A k \in DOMAIN Mappings : Holds(Mappings[k])
  /\ Distinct([k \in DOMAIN Mappings |-> Mappings[k].oid])
  /\ {S.reaper, S.spaceman} \subseteq MappedOids
  /\ Distinct(EphemeralUses) /\ Range(EphemeralUses) = MappedOids

CheckpointGood == MappingsTile /\ EphemeralsUsed

-----------------------------------------------------------------------------
(* Object maps. *)

\* The version of an object in a transaction.
Versions(rs, oid, xid) == {i \in DOMAIN rs : rs[i].oid = oid /\ rs[i].xid <= xid}
VersionOf(rs, oid, xid) ==
  rs[CHOOSE i \in Versions(rs, oid, xid) : \A j \in Versions(rs, oid, xid) : rs[j].xid <= rs[i].xid]

\* The records of a tree.  Of two with one key the last one counts.
Effective(rs) ==
  LET last == {i \in DOMAIN rs : \A j \in DOMAIN rs : j > i => ~SameKey(rs[i], rs[j])}
  IN  [n \in 1..Cardinality(last) |-> rs[CHOOSE i \in last : Cardinality({j \in last : j <= i}) = n]]

ContainerTree == Body(Body(S.omap).tree)
ContainerRecs == Effective(ContainerTree.recs)
Slots == {v \in 1..MaxFileSystems : S.fs[v] # 0}
VolBno(v) == VersionOf(ContainerRecs, S.fs[v], S.xid).bno
Vol(v) == Body(VolBno(v))
OmapTree(v) == Body(Body(Vol(v).omap).tree)
Recs(v) == Effective(OmapTree(v).recs)
SnapTree(v) == Body(Vol(v).omap).snap_tree
SnapXids(v) == IF SnapTree(v) = 0 THEN {} ELSE Range(Body(SnapTree(v)).xids)
RecsOfKind(v, kind) == {r \in Range(Body(Vol(v).snap_meta).recs) : r.kind = kind}

\* The latest transaction of a volume and its snapshots.
Views(v) ==
  {[xid |-> S.xid, bno |-> VolBno(v), extref |-> Vol(v).extref]}
    \cup {[xid |-> r.xid, bno |-> r.sblock, extref |-> r.extref] : r \in RecsOfKind(v, "metadata")}
VirtualsOf(b) ==
  (IF is_sealed(b) THEN <<b.integrity>> ELSE <<>>) \o b.cat \o (IF b.meta_ext # 0 THEN <<b.meta_ext>> ELSE <<>>)

\* The block that a record points to has the object of that very transaction.
Points(r) ==
  LET h == Obj(r.bno)
  IN  IF r.noheader THEN h.type = "noheader"
      ELSE h.sum /\ h.oid = r.oid /\ h.xid = r.xid /\ h.storage = "virtual"
MayLeak(r) == r.xid < S.xid /\ Obj(r.bno).type = "metaext"
OmapGood(v) ==
  /\ \A w \in Views(v) :
       /\ Distinct(VirtualsOf(Body(w.bno)))
       /\ \A oid \in Range(VirtualsOf(Body(w.bno))) :
            /\ Versions(Recs(v), oid, w.xid) # {}
            /\ LET r == VersionOf(Recs(v), oid, w.xid) IN ~r.deleted /\ Points(r)
  /\ \A r \in Range(Recs(v)) :
       r.deleted \/ MayLeak(r)
         \/ \E w \in Views(v) : \E oid \in Range(VirtualsOf(Body(w.bno))) : VersionOf(Recs(v), oid, w.xid) = r
ContainerOmapGood ==
  /\ Distinct(SelectSeq(S.fs, LAMBDA oid : oid # 0))
  /\ \A v \in Slots : Versions(ContainerRecs, S.fs[v], S.xid) # {}
                        /\ LET r == VersionOf(ContainerRecs, S.fs[v], S.xid) IN ~r.deleted /\ Points(r)
  /\ \A r \in Range(ContainerRecs) :
       r.deleted \/ MayLeak(r) \/ \E v \in Slots : VersionOf(ContainerRecs, S.fs[v], S.xid) = r

\* Each snapshot has one entry with its metadata, one with its name and one in
\* the object map, and a superblock with none of the trees of the volume.
SnapshotsGood(v) ==
  LET M == RecsOfKind(v, "metadata")
      N == RecsOfKind(v, "name")
      metas == SelectSeq(Body(Vol(v).snap_meta).recs, LAMBDA r : r.kind = "metadata")
      names == SelectSeq(Body(Vol(v).snap_meta).recs, LAMBDA r : r.kind = "name")
  IN  /\ {r.xid : r \in M} = SnapXids(v) /\ {r.xid : r \in N} = SnapXids(v)
      /\ Distinct([i \in DOMAIN metas |-> metas[i].xid]) /\ Distinct([i \in DOMAIN names |-> names[i].xid])
      /\ Distinct([i \in DOMAIN metas |-> metas[i].inum])
      /\ \A r \in M, s \in N : r.xid = s.xid => r.name = s.name
      /\ SnapXids(v) \subseteq 1..S.xid
      /\ Body(Vol(v).omap).snap_count = Cardinality(SnapXids(v))
      /\ Body(Vol(v).omap).most_recent = Max({0} \cup SnapXids(v))
      /\ Vol(v).num_snapshots = Cardinality(SnapXids(v))
      /\ \A r \in M : Body(r.sblock).extref = 0 /\ Body(r.sblock).omap = 0 /\ Body(r.sblock).snap_meta = 0
      /\ \A r \in M : Body(r.sblock).num_snapshots >= Cardinality({x \in SnapXids(v) : x < r.xid})

-----------------------------------------------------------------------------
(* Blocks: who owns them. *)

\* An owner is a use, a volume, and two numbers that tell it from others like it.
Own(tag, r) == {<<tag, b>> : b \in Blocks(r)}
OwnNodes(use, v, k, root) ==
  {<< <<use, v, k, i>>, Body(root).nodes[i] >> : i \in DOMAIN Body(root).nodes}
OwnRecs(v, rs) == {<< <<"record", v, r.oid, r.xid>>, r.bno >> : r \in {r \in Range(rs) : ~r.deleted}}

\* All blocks of a volume but superblocks: what apfs_fs_alloc_count counts, apart
\* from the data of files.
VolumeOwned(v) ==
  Own(<<"omap", v, 0, 0>>, <<Vol(v).omap, 1>>) \cup OwnNodes("omapnode", v, 0, Body(Vol(v).omap).tree)
    \cup (IF SnapTree(v) # 0 THEN OwnNodes("omapsnap", v, 0, SnapTree(v)) ELSE {})
    \cup OwnNodes("snapmeta", v, 0, Vol(v).snap_meta)
    \cup UNION {OwnNodes("extref", v, w.xid, w.extref) : w \in Views(v)}
    \cup UNION {OwnNodes("fext", v, w.xid, Body(w.bno).fext) : w \in {w \in Views(v) : is_sealed(Body(w.bno))}}
    \cup OwnRecs(v, Recs(v))
OwnMt(i) ==
  LET r == Body(S.mt).recs[i] IN IF in_wbc(S, r.main) THEN {} ELSE Own(<<"mt", 0, i, 0>>, <<r.main, r.length>>)
OwnExtents(use, rs) == UNION {Own(<<use, 0, i, 0>>, rs[i]) : i \in DOMAIN rs}
Owned ==
  Own(<<"zero", 0, 0, 0>>, <<0, 1>>) \cup (IF img.tier2 > 0 THEN Own(<<"zero", 0, 1, 0>>, <<Tier2Base, 1>>) ELSE {})
    \cup OwnExtents("area", <<<<S.desc_base, S.desc_blocks>>, <<S.data_base, S.data_blocks>>, S.keylocker, S.mkb, S.wbc>>)
    \cup (IF S.keylocker[1] = 0 THEN {} ELSE OwnExtents("unlock", unlock_ranges(Body(S.keylocker[1]))))
    \cup (IF S.efi = 0 THEN {} ELSE Own(<<"efi", 0, 0, 0>>, <<S.efi, 1>>) \cup OwnExtents("efi", Body(S.efi).extents))
    \cup (IF S.mt = 0 THEN {}
          ELSE Own(<<"mt", 0, 0, 0>>, <<S.mt, 1>>) \cup UNION {OwnMt(i) : i \in DOMAIN Body(S.mt).recs})
    \cup Own(<<"omap", 0, 0, 0>>, <<S.omap, 1>>) \cup OwnNodes("omapnode", 0, 0, Body(S.omap).tree)
    \cup OwnRecs(0, ContainerRecs)
    \cup UNION {VolumeOwned(v) : v \in Slots}
    \cup UNION {{<< <<"sblock", v, r.xid, 0>>, r.sblock>> : r \in RecsOfKind(v, "metadata")} : v \in Slots}
    \cup OwnExtents("spaceman", EphOf(S.spaceman).body.own)
OwnedBlocks == {p[2] : p \in Owned}
BlocksGood ==
  /\ Cardinality(OwnedBlocks) = Cardinality(Owned)
  /\ OwnedBlocks \cap Described(EphOf(S.spaceman).body) = EphOf(S.spaceman).body.bitmap
  /\ \A b \in OwnedBlocks : OnSomeDevice(b)
  /\ \A v \in Slots : Vol(v).alloc = Cardinality(VolumeOwned(v))

-----------------------------------------------------------------------------
(* Structure: what is referenced is there, with the right type. *)

Typed(b, type) == Obj(b).type = type
EphTyped(oid, type) == oid \in MappedOids /\ EphOf(oid).type = type
Versioned(rs, oid, xid, types) ==
  Versions(rs, oid, xid) # {} /\ Obj(VersionOf(rs, oid, xid).bno).type \in types
ViewStructured(v, w) ==
  LET b == Body(w.bno)
  IN  /\ Typed(w.bno, "fs") /\ Typed(w.extref, "extref")
      /\ \A oid \in Range(b.cat) : Versioned(Recs(v), oid, w.xid, {"cat", "noheader"})
      /\ b.meta_ext # 0 => Versioned(Recs(v), b.meta_ext, w.xid, {"metaext"})
      /\ is_sealed(b) => Typed(b.fext, "fext") /\ Versioned(Recs(v), b.integrity, w.xid, {"integrity"})
VolumeStructured(v) ==
  /\ Versioned(ContainerRecs, S.fs[v], S.xid, {"fs"})
  /\ Typed(Vol(v).omap, "omap") /\ Typed(Body(Vol(v).omap).tree, "omapnode")
  /\ SnapTree(v) # 0 => Typed(SnapTree(v), "omapsnap")
  /\ Typed(Vol(v).snap_meta, "snapmeta")
  /\ \A w \in Views(v) : ViewStructured(v, w)
Structured ==
  /\ LatestBno # 0 /\ LatestInRange /\ S.type = "super"
  /\ \A i \in DOMAIN MapBlocks : MapBlocks[i].type = "map"
  /\ \A k \in DOMAIN Mappings : Data(Mappings[k].paddr).obj \in DOMAIN img.eph
  /\ EphTyped(S.reaper, "reaper") /\ EphTyped(S.spaceman, "spaceman")
  /\ ReaperBody.head # 0 => EphTyped(ReaperBody.head, "reaplist")
  /\ \A oid \in Range(EphOf(S.spaceman).body.queues) : EphTyped(oid, "freequeue")
  /\ is_fusion(S) => Typed(S.mt, "fusion_mt") /\ EphTyped(S.wbc_state, "wbc")
  /\ S.efi # 0 => Typed(S.efi, "efi")
  /\ S.keylocker[1] # 0 => Typed(S.keylocker[1], "keybag")
  /\ Typed(S.omap, "omap") /\ Typed(Body(S.omap).tree, "omapnode")
  /\ \A v \in Slots : VolumeStructured(v)

-----------------------------------------------------------------------------
(* The rest: fields that are right by themselves, and headers. *)

Headed(b, type) ==
  LET h == Obj(b)
  IN  /\ h.sum /\ h.type = type /\ h.storage = "physical" /\ h.oid = b /\ ~h.encrypted
      /\ h.xid > 0
Past(b) == Obj(b).xid <= S.xid
TreeHeaded(root, type) == Headed(root, type) /\ \A b \in Range(Body(root).nodes) : Headed(b, type)
Ordered(t) == OmapNodesOK(t) /\ \A i \in 2..Len(t.recs) : KeyLess(t.recs[i - 1], t.recs[i])
VolumeFields(v) ==
  /\ Headed(Vol(v).omap, "omap") /\ TreeHeaded(Body(Vol(v).omap).tree, "omapnode")
  /\ OmapHeaderOK(Body(Vol(v).omap)) /\ ~Body(Vol(v).omap).managed
  /\ SnapTree(v) # 0 => TreeHeaded(SnapTree(v), "omapsnap") /\ SortSeq(Body(SnapTree(v)).xids, <) = Body(SnapTree(v)).xids
  /\ TreeHeaded(Vol(v).snap_meta, "snapmeta")
  /\ Ordered(OmapTree(v))
  /\ \A i \in DOMAIN Recs(v) :
       LET r == Recs(v)[i]
       IN  /\ r.flags /\ r.whole /\ (r.encrypted <=> is_encrypted(Vol(v)))
           /\ r.oid \in ReservedOids..(S.next_oid - 1)
           /\ r.noheader \/ r.deleted \/ (Obj(r.bno).encrypted <=> (is_encrypted(Vol(v)) /\ Typed(r.bno, "cat")))
  /\ \A i, j \in DOMAIN Body(Vol(v).snap_meta).recs :
       LET rs == Body(Vol(v).snap_meta).recs
       IN  /\ i < j => rs[i].kind = "metadata" \/ rs[j].kind = "name"
           /\ i < j /\ rs[i].kind = rs[j].kind => rs[i].xid < rs[j].xid
           /\ rs[i].length /\ rs[i].type /\ rs[i].inum # 0
  /\ \A r \in RecsOfKind(v, "metadata") : Headed(r.sblock, "fs") /\ Obj(r.sblock).xid <= r.xid
  /\ \A w \in Views(v) :
       LET b == Body(w.bno)
       IN  /\ volume_ok(b, v - 1, w.xid) /\ TreeHeaded(w.extref, "extref")
           /\ is_encrypted(b) = is_encrypted(Vol(v)) /\ is_sealed(b) = is_sealed(Vol(v))
           /\ is_sealed(b) => TreeHeaded(b.fext, "fext")
           /\ is_sealed(b) => LET r == VersionOf(Recs(v), b.integrity, w.xid)
                              IN ~r.noheader /\ Obj(r.bno).type = "integrity" /\ integrity_ok(Body(r.bno))
           /\ \A oid \in Range(b.cat) :
                LET r == VersionOf(Recs(v), oid, w.xid)
                IN r.noheader = is_sealed(b) /\ (~r.noheader => Obj(r.bno).type = "cat")
           /\ b.meta_ext # 0 =>
                LET r == VersionOf(Recs(v), b.meta_ext, w.xid)
                IN  ~r.noheader /\ Obj(r.bno).type = "metaext" /\ SnapXids(v) # {}
                      /\ snap_meta_ext_ok(Body(r.bno), w.bno # VolBno(v), w.xid)
           /\ in_group(b) = in_group(Vol(v)) /\ (~in_group(b) => ~b.group_uuid)

GroupRoles == {Vol(v).role : v \in {v \in Slots : in_group(Vol(v))}}
Reserves(f(_)) ==
  FoldSet(LAMBDA v, n : n + FoldSet(LAMBDA w, k : k + f(Body(w.bno)), 0, Views(v)), 0, Slots)
FieldsGood ==
  /\ copy_ok(img.copy) /\ S.sum /\ S.storage = "ephemeral" /\ S.type = "super"
  /\ main_super_ok(S, S.xid, img.size, img.tier2) /\ main_super_end_ok(S, S.xid)
  /\ S.desc_base = img.copy.desc_base /\ S.desc_blocks = img.copy.desc_blocks
  /\ S.data_base = img.copy.data_base /\ S.data_blocks = img.copy.data_blocks
  /\ \A i \in DOMAIN MapBlocks :
       /\ MapBlocks[i].sum /\ MapBlocks[i].storage = "physical" /\ Len(MapBlocks[i].maps) <= MapsPerBlock
       /\ MapBlocks[i].flags \subseteq {"last"}
       /\ MapBlocks[i].oid = S.desc_base + ((S.desc_index + i - 1) % S.desc_blocks)
  /\ \A k \in DOMAIN Mappings :
       /\ Mappings[k].whole /\ ~Mappings[k].pad /\ Mappings[k].size > 0
       /\ Mappings[k].oid \in ReservedOids..(S.next_oid - 1)
       /\ EphAt(Mappings[k]).storage = "ephemeral" /\ EphAt(Mappings[k]).type = Mappings[k].type
  /\ reaper_ok(ReaperBody) /\ reaper_flags_ok(ReaperBody)
  /\ ReaperBody.head # 0 =>
       /\ EphOf(ReaperBody.head).body.max
       /\ ReaperBody.fs # 0 => ReaperBody.fs \in Range(S.fs)
  /\ S.keylocker[1] # 0 => check_keybag_plaintext(Body(S.keylocker[1]), S.xid)
  /\ S.efi # 0 => Headed(S.efi, "efi") /\ Past(S.efi) /\ efi_ok(Body(S.efi))
  /\ wbc_ok(S) /\ fusion_oids_ok(S)
  /\ is_fusion(S) =>
       /\ Headed(S.mt, "fusion_mt") /\ Past(S.mt)
       /\ \A i \in DOMAIN Body(S.mt).recs : fusion_mt_record_ok(S, Body(S.mt).recs[i])
       /\ ~EphOf(S.wbc_state).body.reserved
  /\ Headed(S.omap, "omap") /\ Past(S.omap) /\ OmapHeaderOK(Body(S.omap)) /\ Body(S.omap).managed
  /\ Body(S.omap).snap_tree = 0
  /\ TreeHeaded(Body(S.omap).tree, "omapnode") /\ \A b \in Range(Body(Body(S.omap).tree).nodes) : Past(b)
  /\ Ordered(ContainerTree)
  /\ \A i \in DOMAIN ContainerRecs :
       LET r == ContainerRecs[i]
       IN  /\ r.flags /\ r.whole /\ ~r.encrypted /\ ~r.noheader
           /\ r.oid \in ReservedOids..(S.next_oid - 1)
  /\ \A r \in Range(ContainerRecs) : r.deleted \/ \E v \in Slots : VolBno(v) = r.bno
  /\ \A v \in Slots : ~Obj(VolBno(v)).encrypted /\ v - 1 <= S.max_vols /\ VolumeFields(v)
  /\ \A b \in DOMAIN img.obj : Typed(b, "keybag") \/ Past(b)
  /\ \A v, w \in Slots : v # w /\ in_group(Vol(v)) /\ in_group(Vol(w)) => Vol(v).role # Vol(w).role
  /\ GroupRoles \subseteq {"data", "system"} /\ (GroupRoles # {} => "system" \in GroupRoles)
  /\ EphOf(S.spaceman).body.reserve = Reserves(LAMBDA b : reserve_of(b).num)
  /\ EphOf(S.spaceman).body.reserve_alloc = Reserves(LAMBDA b : reserve_of(b).alloc)

\* The copies of the superblock: what a clean unmount leaves, or a crash.
CopiesGood ==
  /\ img.copy.xid = S.xid => same_super(S, img.copy)
  /\ is_fusion(S) /\ img.tier2_copy.xid = img.copy.xid => tier2_copy_ok(S, img.tier2_copy)
NotUnmounted == img.copy.xid # S.xid \/ (is_fusion(S) /\ img.tier2_copy.xid # img.copy.xid)

-----------------------------------------------------------------------------
Accepted == pc = "accepted"

\* In an accepted checkpoint the mappings and nothing else fill the valid part of
\* the data area, and each ephemeral object is mapped once, used once and of the
\* transaction of the superblock (parse_cpoint_map_blocks(), free_cpoint_map()).
CheckpointAccepted == Accepted /\ LatestInRange => CheckpointGood

\* In an accepted container the version that each snapshot sees of each object
\* is there, and no version is kept that nobody sees (read_object_internal(),
\* free_omap_record_list()).
OmapsAccepted ==
  Accepted /\ LatestInRange => ContainerOmapGood /\ \A v \in Slots : OmapGood(v)

\* Accepted snapshots are complete, wherever one reads of them (free_snap()).
SnapshotsAccepted == Accepted /\ LatestInRange => \A v \in Slots : SnapshotsGood(v)

\* In an accepted container each block has one owner, the bitmaps have the blocks
\* with an owner, and volumes count theirs, those of snapshots too.  A block with
\* an owner may be in no bitmap only past the last chunk of its device.
BlocksAccepted == Accepted /\ LatestInRange => BlocksGood

\* apfs-label reads the labels of the very superblocks that apfsck checked.  It
\* fails on an accepted container only if the object map has more than one node or
\* too many records, if what it reads is on the second device, or if a label has
\* bytes after its null byte, up to the last one: apfsck accepts all of these.
LabelsMatch ==
  pc \in {"labelled", "fatal"} /\ LatestInRange =>
    /\ pc = "labelled" => label.found = sb.volumes
    /\ pc = "fatal" => \/ Len(ContainerTree.nodes) > 1 \/ Len(ContainerRecs) > MaxFileSystems
                       \/ S.omap >= Tier2Base \/ Body(S.omap).tree >= Tier2Base
                       \/ \E v \in Slots : VolBno(v) >= Tier2Base \/ Vol(v).label = "full"

\* A consistent container is not reported, a crash before the last writes of the
\* copies included, unless the option -c asks for it.
NoFalseAlarm ==
  pc \in {"reported", "crashed"} =>
    ~(/\ Structured /\ CheckpointGood /\ ContainerOmapGood
      /\ \A v \in Slots : SnapshotsGood(v) /\ OmapGood(v)
      /\ FieldsGood /\ BlocksGood /\ CopiesGood
      /\ ~(NotUnmounted /\ img.crash_option))

\* apfsck ends on every container, and so does apfs-label.
Terminates == <>Ended
=============================================================================
