----------------------------- MODULE SuperRules -----------------------------
(***************************************************************************)
(* The checks that apfsck/super.c makes on the fields of one structure:    *)
(* the container superblock, the boot driver, a volume superblock, the     *)
(* integrity metadata of a sealed volume, the reaper and the structures of *)
(* a fusion drive.  A flag field is a set of flags, "undefined" standing   *)
(* for bits out of the valid mask.  Without -u and -w the calls of         *)
(* report_unknown() and report_weird() do nothing.                         *)
(***************************************************************************)
EXTENDS Integers, Sequences, FiniteSets, FiniteSetsExt, SequencesExt, Parameters

CONSTANTS
  BlockSize,
  MaxFileSystems,  \* APFS_NX_MAX_FILE_SYSTEMS
  BlocksPerVolume, \* blocks in 512 MiB
  SmallContainer,  \* blocks in 128 MiB
  Tier2Base        \* APFS_FUSION_TIER2_DEVICE_BYTE_ADDR, in blocks

ASSUME SuperAssumption ==
  /\ {BlockSize, MaxFileSystems, BlocksPerVolume, SmallContainer} \subseteq Nat \ {0}
  /\ Tier2Base \in Nat

OID_NX_SUPERBLOCK == 1
MIN_USER_INO_NUM == 16
MIN_DOC_ID == 3
EPH_MIN_BLOCK_COUNT == 8
DivRoundUp(a, b) == (a + b - 1) \div b

-----------------------------------------------------------------------------
(* The container superblock. *)

\* blksize_bits()
block_size_ok(size) == size \in {2^k : k \in 12..30}

\* The checks of read_super_copy() on block zero.
copy_ok(c) ==
  /\ c.magic /\ block_size_ok(c.bsize)
  /\ c.sum /\ c.oid = OID_NX_SUPERBLOCK

get_max_volumes(blocks) == Min({MaxFileSystems, DivRoundUp(blocks, BlocksPerVolume)})

is_fusion(s) == "fusion" \in s.incompat

\* check_main_flags() and the three checks of features.
main_features_ok(s, tier2) ==
  /\ s.flags \subseteq {"crypto_sw"}
  /\ s.features \subseteq {"defrag", "lcfd"} /\ ("lcfd" \in s.features => is_fusion(s))
  /\ s.rocompat = {}
  /\ s.incompat \subseteq {"version2", "fusion"} /\ (is_fusion(s) <=> tier2 > 0)

check_ephemeral_information(s) ==
  s.eph = IF s.block_count < SmallContainer THEN main_fq_node_limit(s.block_count)
          ELSE EPH_MIN_BLOCK_COUNT

\* The checkpoint data area: position and length that the superblock reports.
data_area_ok(s) ==
  /\ s.data_index < s.data_blocks /\ s.data_len <= s.data_blocks
  /\ (s.data_index + s.data_len) % s.data_blocks = s.data_next

\* parse_main_super(), except for what it marks as used: up to the boot driver,
\* and after it.  The transaction is the one of the mappings, and the next one
\* follows it.
main_super_ok(s, xid, size, tier2) ==
  /\ s.xid = xid
  /\ s.block_count > 0 /\ s.block_count <= size + tier2
  /\ s.max_vols = get_max_volumes(s.block_count)
  /\ main_features_ok(s, tier2)
  /\ data_area_ok(s)
  /\ ~s.test
main_super_end_ok(s, xid) ==
  /\ check_ephemeral_information(s)
  /\ s.uuid <=> is_fusion(s)
  /\ s.keylocker[1] = 0 => s.keylocker[2] = 0
  /\ s.next_xid = xid + 1

\* check_efi_information(): the driver fills its extents but for the end of the
\* last block.
efi_ok(e) ==
  LET blocks == FoldSeq(LAMBDA r, n : r[2] + n, 0, e.extents)
  IN  /\ e.header /\ Len(e.extents) <= e.room
      /\ \A i \in DOMAIN e.extents : e.extents[i][2] > 0
      /\ e.length > 0 /\ e.length <= blocks * BlockSize /\ e.length > (blocks - 1) * BlockSize

-----------------------------------------------------------------------------
(* The keybag of the container, after decryption. *)

KeybagEntrySize == 24
KeybagEntryMax == 512
KeybagLockerSize == 16

\* check_keybag_entry(), with the bytes left in the locker, a u16.
keybag_entry_ok(e, remaining) ==
  /\ remaining % 65536 >= KeybagEntrySize
  /\ e.keylen <= KeybagEntryMax - KeybagEntrySize /\ e.keylen + KeybagEntrySize <= remaining % 65536
  /\ ~e.padding
  /\ e.tag \in {"volume_key", "unlock_records", "reserved_f8", "wrapping"}
  /\ e.tag = "volume_key" => e.keylen = 40
  /\ e.tag = "unlock_records" => e.keylen = 16

\* check_keybag_locker(): after the entries comes a null one.
BytesLeft(l, k) == FoldSeq(LAMBDA e, n : n - e.keylen - KeybagEntrySize, l.nbytes, SubSeq(l.entries, 1, k - 1))
check_keybag_locker(l) ==
  /\ l.version = 2 /\ ~l.padding /\ l.nbytes <= BlockSize - KeybagLockerSize
  /\ \A k \in DOMAIN l.entries : keybag_entry_ok(l.entries[k], BytesLeft(l, k))
  /\ BytesLeft(l, Len(l.entries) + 1) = KeybagEntrySize /\ l.null
check_keybag_plaintext(k, xid) ==
  k.sum /\ k.oid = 0 /\ k.type /\ k.xid \in 1..xid /\ check_keybag_locker(k)

\* check_volume_unlock_records_entry(): the keybags of volumes.
unlock_ranges(l) ==
  LET es == SelectSeq(l.entries, LAMBDA e : e.tag = "unlock_records")
  IN  [i \in DOMAIN es |-> es[i].range]

-----------------------------------------------------------------------------
(* Volume superblocks. *)

\* check_volume_flags() and the three checks of features of a volume.
is_sealed(v) == "sealed" \in v.incompat
is_encrypted(v) == "unencrypted" \notin v.flags
vol_features_ok(v) ==
  /\ v.features \subseteq {"defrag", "hardlink_map", "strictatime", "volgroup"}
  /\ v.rocompat = {}
  /\ v.incompat \subseteq {"case", "normalization", "dataless", "enc_rolled", "incomplete",
                            "sealed", "pfk", "prealloc", "secondary"}
  /\ ~({"case", "normalization"} \subseteq v.incompat)
  /\ v.flags \subseteq {"unencrypted", "onekey", "effaceable", "spilled", "cleaner",
                         "check_extentref", "was_sealed", "pfk", "unknown_200"}
  /\ is_encrypted(v) \/ v.flags \cap {"onekey", "effaceable"} = {}
  /\ "pfk" \in v.flags <=> "pfk" \in v.incompat
  /\ ~("was_sealed" \in v.flags /\ is_sealed(v))
  /\ "secondary" \in v.incompat => "spilled" \in v.flags

\* check_software_information(): the entries with an id come first, the most
\* recent at the front, and the one that made the volume is older than all.
software_named(e) == e.id = "named"
software_entry_ok(e) == e.id # "unterminated" /\ (e.id = "none" => ~e.stamp /\ e.xid = 0)
software_count(m) == Cardinality({i \in DOMAIN m : \A j \in 1..i : software_named(m[j])})
check_software_information(v, xid) ==
  LET m == v.modified_by
      n == software_count(m)
      before(i) == IF i = 1 THEN xid + 1 ELSE m[i - 1].xid
  IN  /\ \A i \in DOMAIN m : software_entry_ok(m[i]) /\ (i > n => m[i].id = "none")
      /\ \A i \in 1..n : m[i].xid < before(i)
      /\ software_named(v.formatted_by) /\ v.formatted_by.xid < before(n + 1)
first_xid(v) == v.formatted_by.xid
last_xid(v) == Max({first_xid(v)} \cup {v.modified_by[i].xid : i \in 1..software_count(v.modified_by)})

\* role_is_valid() and check_volume_role(): "reserved" stands for three roles.
check_volume_role(v) == v.role \in {"none", "system", "data", "user", "vm"}

\* parse_cloneinfo_epoch()
parse_cloneinfo_epoch(v) == v.epoch > 0 /\ v.clone_xid = 0 => first_xid(v) = last_xid(v)

\* The rules of sealed volumes.
sealed_ok(v) ==
  IF is_sealed(v) THEN v.role \in {"none", "system"} /\ v.fext_type = "tree" /\ v.fext # 0 /\ v.integrity # 0
  ELSE v.fext = 0 /\ v.integrity = 0 /\ v.fext_type \in {"none", "tree"}

\* read_volume_super(), for volume number vol and transaction xid.
volume_ok(v, vol, xid) ==
  /\ v.index = vol /\ v.magic
  /\ vol_features_ok(v)
  /\ v.quota > 0 => v.alloc <= v.quota /\ v.reserve <= v.quota
  /\ v.meta_crypto \in {"empty", "class_f", "other_class"}
  /\ v.next_obj_id >= MIN_USER_INO_NUM /\ v.next_doc_id >= MIN_DOC_ID
  /\ v.label \in {"full", "padded"}
  /\ check_software_information(v, xid)
  /\ check_volume_role(v)
  /\ v.types /\ v.freed <= v.alloced /\ ~v.reserved
  /\ parse_cloneinfo_epoch(v)
  /\ sealed_ok(v)
  /\ v.doc_flags = {}

\* What a volume adds to the totals of the space manager.
reserve_of(v) == [num |-> v.reserve, alloc |-> Min({v.reserve, v.alloc})]

\* parse_volume_group_info(): no group is <<>>.  Without -u the second group is
\* taken for the first.  A snapshot only makes sure that there is a group.
in_group(v) == "volgroup" \in v.features
group_ok(v, g, snap) ==
  IF in_group(v)
  THEN snap \/ (v.role \in {"data", "system"} /\ v.role \notin g.seen)
  ELSE ~v.group_uuid
group_after(v, g, snap) ==
  IF ~in_group(v) THEN g
  ELSE [exists |-> TRUE, seen |-> IF snap THEN g.seen ELSE g.seen \cup {v.role}]
NoGroup == [exists |-> FALSE, seen |-> {}]
\* check_volume_group()
check_volume_group(g) == g.exists => "system" \in g.seen

\* parse_integrity_meta(): 128 is the size of the structure, 32 of the hash.
integrity_meta_256_from_off(off) == off % 8 = 0 /\ off >= 128 /\ off < BlockSize /\ off + 32 <= BlockSize
integrity_ok(m) ==
  /\ m.version \in 1..2 /\ m.flags \subseteq {"broken"}
  /\ m.hash_type \in 1..4 /\ ~m.reserved
  /\ integrity_meta_256_from_off(m.hash_off)

\* check_snap_meta_ext(), after its object was read.
snap_meta_ext_ok(m, snap, xid) ==
  m.version = 1 /\ m.flags = {} /\ m.xid # 0 /\ (snap => m.xid = xid)

-----------------------------------------------------------------------------
(* The reaper and the fusion drive. *)

\* parse_reaper(), before the list is read and after it.
reaper_ok(r) ==
  /\ r.buffer
  /\ IF r.head # 0
     THEN r.next_id > r.completed /\ r.head - r.tail + 1 = r.count
     ELSE r.completed = 0 /\ r.count = 0 /\ r.next_id = 1 /\ r.empty /\ r.fs = 0
reaper_flags_ok(r) == r.flags \subseteq {"bhm", "continue"} /\ "bhm" \in r.flags

\* check_fusion_wbc(), and whether a fusion drive has what it must have.  The
\* number of a block is compared with the address in bytes of the second device.
wbc_ok(s) ==
  IF is_fusion(s) THEN s.wbc[1] # 0 /\ s.wbc[2] # 0 /\ s.wbc[1] < Tier2Base * BlockSize
  ELSE s.wbc = <<0, 0>>
fusion_oids_ok(s) == (is_fusion(s) <=> s.mt # 0) /\ (is_fusion(s) <=> s.wbc_state # 0)

\* range_in_wbc(): an empty range ends before it begins, and one that has only
\* one end in the cache is reported.
in_wbc(s, b) == b >= s.wbc[1] /\ b < s.wbc[1] + s.wbc[2]
overruns_wbc(s, r) == in_wbc(s, r.main) # in_wbc(s, r.main + r.length - 1)

\* parse_fusion_mt_record(): tier 2 blocks with a copy on the main device, the
\* same one unless it is dirty.
fusion_mt_record_ok(s, r) ==
  /\ r.tier2 >= Tier2Base /\ r.main < Tier2Base
  /\ ~overruns_wbc(s, r)
  /\ r.flags \subseteq {"dirty", "tenant"} /\ r.flags # {"dirty", "tenant"}
  /\ "dirty" \in r.flags \/ r.same

\* main_super_compare(), for copies of the same transaction: all but the flags,
\* the checksum and the counters is compared.
same_super(s, c) == [s EXCEPT !.flags = {}, !.sum = TRUE] = [c EXCEPT !.flags = {}, !.sum = TRUE]

\* fusion_super_compare(), for copies of the same transaction.
tier2_copy_ok(s, t) == t.sum /\ ~s.uuid_bit /\ t.uuid_bit /\ t.same
=============================================================================
