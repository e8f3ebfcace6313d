----------------------------- MODULE BtreeKeys -----------------------------
(***************************************************************************)
(* The keys of the b-trees (apfsck/key.c): which raw keys the checker      *)
(* takes, the key in memory it makes of one, and their order.  Sizes are   *)
(* in units of two bytes.  A raw key is a record of its fields; a name is  *)
(* a number that gives its place in the order of strcmp(), and 0 is a null *)
(* pointer.                                                                *)
(***************************************************************************)
EXTENDS Integers, Sequences

CONSTANTS
  BlockSize, \* s_blocksize
  MaxName    \* 256 bytes, the size of name_buf in parse_subtree()

ASSUME KeyAssumption == BlockSize \in Nat \ {0} /\ MaxName \in Nat

SNAP_METADATA == 1
EXTENT == 2
XATTR == 4
SIBLING_LINK == 5
FILE_EXTENT == 8
DIR_REC == 9
SNAP_NAME == 11
FILE_INFO == 13
MAX_VALID == 13
SnapNameId == 1000  \* ~0ULL & APFS_OBJ_ID_MASK

HeaderSize == 4     \* struct apfs_key_header

-----------------------------------------------------------------------------
(* keycmp() *)

NoKey == <<0, 0, 0, 0>>  \* struct key last_key = {0}

\* Ids first, then types, numbers and names; a key without a name ends the
\* comparison.
keycmp(k1, k2) ==
  IF k1[1] # k2[1] THEN (IF k1[1] < k2[1] THEN -1 ELSE 1)
  ELSE IF k1[2] # k2[2] THEN (IF k1[2] < k2[2] THEN -1 ELSE 1)
  ELSE IF k1[3] # k2[3] THEN (IF k1[3] < k2[3] THEN -1 ELSE 1)
  ELSE IF k1[4] = 0 \/ k1[4] = k2[4] THEN 0
  ELSE IF k1[4] < k2[4] THEN -1 ELSE 1

-----------------------------------------------------------------------------
(* The read_*_key() functions: TRUE if nothing is reported. *)

\* A name after a header of the given size: read_xattr_key() and
\* read_snap_name_key(), and read_dir_rec_key() once the hash is checked.
NameOK(raw, size, header) ==
  /\ size > header
  /\ raw.nul                           \* the last byte ends the name
  /\ raw.namelen <= MaxName
  /\ raw.strlen = raw.namelen          \* both count the null byte
  /\ size = header + raw.namelen

DirRecKeyOK(raw, size, hashed) ==
  /\ NameOK(raw, size, IF hashed THEN 6 ELSE 5)
  /\ hashed => raw.number = raw.hash   \* dentry_hash(), of the name

FileExtentKeyOK(raw, size) == size = 8 /\ raw.number % BlockSize = 0

FileInfoKeyOK(raw, size) == size = 8 /\ raw.data_hash /\ raw.number % BlockSize = 0

CatKeyOK(raw, size, hashed) ==
  /\ size >= HeaderSize
  /\ raw.type \in 1..MAX_VALID \ {EXTENT, SNAP_METADATA, SNAP_NAME}
  /\ CASE raw.type = DIR_REC -> DirRecKeyOK(raw, size, hashed)
       [] raw.type = XATTR -> NameOK(raw, size, 5)
       [] raw.type = FILE_EXTENT -> FileExtentKeyOK(raw, size)
       [] raw.type = FILE_INFO -> FileInfoKeyOK(raw, size)
       [] raw.type = SIBLING_LINK -> size = 8
       [] OTHER -> size = HeaderSize

SnapKeyOK(raw, size) ==
  /\ size >= HeaderSize
  /\ \/ raw.type = SNAP_METADATA /\ size = HeaderSize
     \/ raw.type = SNAP_NAME /\ raw.id = SnapNameId /\ NameOK(raw, size, 5)

ExtentrefKeyOK(raw, size) == size = HeaderSize /\ raw.type = EXTENT

\* The tree's own function, by the type of the tree.  In an object map the
\* number is a transaction, in a free queue it is the id that is one.
KeyOK(tree, hashed, raw, size) ==
  CASE tree = "omap" -> size = 8 /\ raw.number # 0
    [] tree = "free_queue" -> size = 8 /\ raw.id # 0
    [] tree = "catalog" -> CatKeyOK(raw, size, hashed)
    [] tree = "extentref" -> ExtentrefKeyOK(raw, size)
    [] tree = "snap_meta" -> SnapKeyOK(raw, size)
    [] tree = "snapshots" -> size = 4
    [] tree = "fext" -> size = 8 /\ raw.number % BlockSize = 0
    [] tree = "fusion_mt" -> size = 4

\* The key in memory.  The unhashed directory records, like most types of
\* records, have no number.
Named(raw) == raw.type \in {DIR_REC, XATTR, SNAP_NAME}
MemoryKey(tree, hashed, raw) ==
  CASE tree \in {"omap", "free_queue", "fext"} -> <<raw.id, 0, raw.number, 0>>
    [] tree \in {"snapshots", "fusion_mt"} -> <<raw.id, 0, 0, 0>>
    [] OTHER ->
         <<raw.id, raw.type,
           IF raw.type \in {FILE_EXTENT, FILE_INFO, SIBLING_LINK} \/ (raw.type = DIR_REC /\ hashed)
           THEN raw.number ELSE 0,
           IF Named(raw) THEN raw.name ELSE 0>>
=============================================================================
