---------------------------- MODULE CatalogRules ----------------------------
(***************************************************************************)
(* The records of a catalog, their order, and what a consistent catalog    *)
(* is, stated of the whole set of its records.  Catalog models how apfsck  *)
(* decides that in one pass over the ordered records, with tables.         *)
(*                                                                         *)
(* A record has a key (id, type, num, name) and a value v; two records of  *)
(* one key differ in copy.  Its fields are those that the checks relate to *)
(* each other: sizes are counted in blocks, names are numbers (0: none).   *)
(*   INODE        v.parent, private, ftype, nlink, name, flags, xf (the    *)
(*                kinds of its xfields), sparse, size, alloced, crypto,     *)
(*                stat                                                     *)
(*   XATTR        name is the attribute; v.ds (0: embedded), size,         *)
(*                alloced, crypto                                          *)
(*   SIBLING_LINK num is the sibling id; v.parent, name                    *)
(*   DSTREAM_ID   v.refcnt                                                 *)
(*   CRYPTO_STATE v.refcnt                                                 *)
(*   FILE_EXTENT  num is the logical address; v.len, hole, prealloc,       *)
(*                crypto                                                   *)
(*   DIR_REC      id is the parent; v.ino, dtype, purg, sib (0: none)      *)
(*   DIR_STATS    v.num_children, total_size                               *)
(*   SIBLING_MAP  id is the sibling id; v.file                             *)
(***************************************************************************)
EXTENDS Integers, FiniteSets, FiniteSetsExt

CONSTANTS
  Ids,           \* catalog ids that appear in the records
  NextObjId,     \* v_next_obj_id: this id and those above it are free
  Encrypted,     \* v_encrypted: does the volume have crypto states?
  PreallocFlag   \* does the volume flag preallocated extents?

ROOT_DIR_PARENT == 1
ROOT_DIR_INO_NUM == 2
PRIV_DIR_INO_NUM == 3
SNAP_DIR_INO_NUM == 6
PURGEABLE_DIR_INO_NUM == 7
MIN_USER_INO_NUM == 16

ASSUME IdAssumption ==
  /\ Ids \subseteq Nat /\ 0 \notin Ids
  /\ {ROOT_DIR_PARENT, ROOT_DIR_INO_NUM, PRIV_DIR_INO_NUM, PURGEABLE_DIR_INO_NUM} \subseteq Ids
  /\ NextObjId \in Nat /\ NextObjId > MIN_USER_INO_NUM
  /\ Encrypted \in BOOLEAN /\ PreallocFlag \in BOOLEAN

\* Record types, in key order.
INODE == 3
XATTR == 4
SIBLING_LINK == 5
DSTREAM_ID == 6
CRYPTO_STATE == 7
FILE_EXTENT == 8
DIR_REC == 9
DIR_STATS == 10
SIBLING_MAP == 12

\* The attributes with a meaning for the filesystem; any other is above these.
SYMLINK_XATTR == 1
RSRC_FORK_XATTR == 2
SECURITY_XATTR == 3
FINDER_INFO_XATTR == 4

\* Crypto ids with a meaning; the last one stands for 2^64 - 1.
CRYPTO_SW_ID == 4
CRYPTO_RESERVED_5 == 5
UNASSIGNED_CRYPTO_ID == 99

FileTypes == {"reg", "dir", "lnk", "special"}

\* Names with a fixed form: "root", "private-dir", "0x<ino>-dead" and
\* "0x<size>-0x<ino>:<owner>"; ordinary names are below 100.
RootName == 100
PrivName == 101
OverprovName == 102
DeadName(ino) == 500 + ino
PurgeableName(size, ino) == 1000 + 100 * size + ino

-----------------------------------------------------------------------------
(* Order of the keys. *)

Key(r) == <<r.id, r.type, r.num, r.name>>

\* keycmp(a, b) < 0, on keys
KeyLess(a, b) ==
  \E i \in 1 .. 4 : a[i] < b[i] /\ \A j \in 1 .. (i - 1) : a[j] = b[j]

\* check_inode_ids()
ValidIds(ino, parent) ==
  /\ ino < NextObjId /\ parent < NextObjId
  /\ IF ino < MIN_USER_INO_NUM
     THEN /\ ino \in {ROOT_DIR_INO_NUM, PRIV_DIR_INO_NUM, SNAP_DIR_INO_NUM}
          /\ parent = ROOT_DIR_PARENT
     ELSE \/ parent >= MIN_USER_INO_NUM
          \/ parent \in {ROOT_DIR_INO_NUM, PRIV_DIR_INO_NUM, SNAP_DIR_INO_NUM,
                         PURGEABLE_DIR_INO_NUM}

UsableId(id) == id >= MIN_USER_INO_NUM /\ id < NextObjId

-----------------------------------------------------------------------------
(* What the records of a catalog c say. *)

Of(c, t) == {r \in c : r.type = t}
HasInode(c, i) == \E r \in Of(c, INODE) : r.id = i
InodeOf(c, i) == CHOOSE r \in Of(c, INODE) : r.id = i

Children(c, i) == {d \in Of(c, DIR_REC) : d.id = i}

\* The hard links of an inode: its entry in the purgeable directory is none.
Names(c, i) == {d \in Of(c, DIR_REC) : d.v.ino = i /\ d.id # PURGEABLE_DIR_INO_NUM}
Purgeable(c, i) == {d \in Of(c, DIR_REC) : d.v.ino = i /\ d.id = PURGEABLE_DIR_INO_NUM}

\* An inode is an orphan if its first name is in the private directory.
Orphan(c, i) ==
  \E d \in Names(c, i) :
    /\ d.id = PRIV_DIR_INO_NUM
    /\ \A e \in Names(c, i) : ~KeyLess(Key(e), Key(d))

Links(c, i) == {l \in Of(c, SIBLING_LINK) : l.id = i}
HasXattr(c, i, x) == \E r \in Of(c, XATTR) : r.id = i /\ r.name = x

\* The inodes and the xattrs whose contents are the data stream d.
InodeUsers(c, d) == {r \in Of(c, INODE) : "dstream" \in r.v.xf /\ r.v.private = d}
XattrUsers(c, d) == {r \in Of(c, XATTR) : r.v.ds = d}
Users(c, d) == InodeUsers(c, d) \cup XattrUsers(c, d)
Streams(c) == {d \in Ids : Users(c, d) # {}}
ExtentsOf(c, d) == {e \in Of(c, FILE_EXTENT) : e.id = d}
Blocks(es) == MapThenSumSet(LAMBDA e : e.v.len, es)
Holes(c, d) == Blocks({e \in ExtentsOf(c, d) : e.v.hole})

-----------------------------------------------------------------------------
(* A consistent catalog. *)

KeysUnique(c) == \A r, q \in c : Key(r) = Key(q) => r = q

\* Every entry of a directory is a name of an inode of its type.
EntriesValid(c) ==
  \A d \in Of(c, DIR_REC) :
    /\ ValidIds(d.v.ino, d.id)
    /\ HasInode(c, d.v.ino)
    /\ d.id \notin {ROOT_DIR_PARENT, PURGEABLE_DIR_INO_NUM} =>
         HasInode(c, d.id) /\ InodeOf(c, d.id).v.ftype = "dir"
    /\ d.v.purg <=> d.id = PURGEABLE_DIR_INO_NUM
    /\ ~d.v.purg => d.v.dtype = InodeOf(c, d.v.ino).v.ftype
    /\ d.v.ino = ROOT_DIR_INO_NUM => d.name = RootName
    /\ d.v.ino = PRIV_DIR_INO_NUM => d.name = PrivName
    /\ d.id = PRIV_DIR_INO_NUM => d.name = DeadName(d.v.ino)

\* Every inode has the links, or the children, that it counts.
LinkCounts(c) ==
  \A r \in Of(c, INODE) :
    /\ Names(c, r.id) # {}
    /\ r.v.ftype = "dir" =>
         /\ Cardinality(Names(c, r.id)) = 1
         /\ r.v.nlink = Cardinality(Children(c, r.id))
         /\ Orphan(c, r.id) => r.v.nlink = 0
    /\ r.v.ftype # "dir" =>
         IF Orphan(c, r.id) THEN Cardinality(Names(c, r.id)) = 1 /\ r.v.nlink = 0
         ELSE r.v.nlink = Cardinality(Names(c, r.id))

\* The sibling links of an inode are its names, if it has several; the one with
\* the lowest id is the primary name.  Each has a map back to the inode, and an
\* id that nothing else has.
SiblingsMatch(c) ==
  /\ \A d \in Of(c, DIR_REC) : d.v.sib # 0 =>
       \E l \in Links(c, d.v.ino) :
         l.num = d.v.sib /\ l.v.parent = d.id /\ l.v.name = d.name
  /\ \A l \in Of(c, SIBLING_LINK) :
       /\ HasInode(c, l.id) /\ UsableId(l.num)
       /\ \E d \in Of(c, DIR_REC) :
            d.v.ino = l.id /\ d.v.sib = l.num /\ d.id = l.v.parent /\ d.name = l.v.name
       /\ \E m \in Of(c, SIBLING_MAP) : m.id = l.num /\ m.v.file = l.id
       /\ ~HasInode(c, l.num) /\ l.num \notin Streams(c)
       /\ \A k \in Of(c, SIBLING_LINK) : k.num = l.num => k.id = l.id
  /\ \A m \in Of(c, SIBLING_MAP) : \E l \in Links(c, m.v.file) : l.num = m.id
  /\ \A r \in Of(c, INODE) :
       IF Links(c, r.id) = {}
       THEN ~Orphan(c, r.id) =>
              \E d \in Names(c, r.id) :
                Names(c, r.id) = {d} /\ r.v.name = d.name /\ r.v.parent = d.id
       ELSE /\ ~Orphan(c, r.id)
            /\ Cardinality(Links(c, r.id)) = Cardinality(Names(c, r.id))
            /\ \E l \in Links(c, r.id) :
                 /\ \A k \in Links(c, r.id) : l.num <= k.num
                 /\ r.v.name = l.v.name /\ r.v.parent = l.v.parent

\* No two entries of directories, and no two sibling links, have the same key.
NamesUnique(c) ==
  \A r, q \in Of(c, DIR_REC) \cup Of(c, SIBLING_LINK) : Key(r) = Key(q) => r = q

\* The fields of an inode agree with each other and with its xattrs.
InodesValid(c) ==
  \A r \in Of(c, INODE) :
    /\ ValidIds(r.id, r.v.parent) /\ r.v.parent # PRIV_DIR_INO_NUM
    /\ r.id # r.v.private => "cloned" \in r.v.flags
    /\ "name" \in r.v.xf /\ r.v.name # 0
    /\ "dstream" \in r.v.xf => r.v.ftype = "reg"
    /\ "stats" \in r.v.xf => r.v.ftype = "dir"
    /\ \A f \in {"stats", "sparse"} : f \in r.v.xf <=> f \in r.v.flags
    /\ "origin" \in r.v.flags => "stats" \in r.v.flags
    /\ "trimmed" \in r.v.flags => /\ r.v.name = OverprovName
                                  /\ Cardinality(Names(c, r.id)) = 1
    /\ "rsrc" \in r.v.flags <=> HasXattr(c, r.id, RSRC_FORK_XATTR)
    /\ "security" \in r.v.flags <=> HasXattr(c, r.id, SECURITY_XATTR)
    /\ r.v.ftype = "lnk" <=> HasXattr(c, r.id, SYMLINK_XATTR)
    /\ "finder" \in r.v.flags <=> HasXattr(c, r.id, FINDER_INFO_XATTR) \/ "finder" \in r.v.xf
    /\ ~(HasXattr(c, r.id, FINDER_INFO_XATTR) /\ "finder" \in r.v.xf)
    /\ "purgeable" \in r.v.flags <=> Purgeable(c, r.id) # {}
    /\ \A d \in Purgeable(c, r.id) :
         d.name = PurgeableName(IF "dstream" \in r.v.xf THEN Blocks(ExtentsOf(c, r.v.private))
                                ELSE 0, r.id)
    /\ Cardinality(Purgeable(c, r.id)) <= 1

\* The extents of a stream leave no gap, after the part an orphan has lost.
Tiled(es) ==
  es # {} =>
    LET start == Min({e.num : e \in es})
    IN  \A e \in es : e.num = start + Blocks({f \in es : f.num < e.num})

\* Every data stream has the references it counts, and the extents it needs.
StreamsMatch(c) ==
  /\ \A r \in Of(c, FILE_EXTENT) \cup Of(c, DSTREAM_ID) : r.id \in Streams(c)
  /\ \A x \in Of(c, XATTR) : HasInode(c, x.id)
  /\ \A d \in Streams(c) :
       /\ UsableId(d)
       /\ \A r, q \in Users(c, d) : r.v.size = q.v.size /\ r.v.alloced = q.v.alloced
       /\ \/ /\ XattrUsers(c, d) = {}
             /\ \E n \in Of(c, DSTREAM_ID) :
                  n.id = d /\ n.v.refcnt = Cardinality(InodeUsers(c, d))
             /\ Cardinality(InodeUsers(c, d)) > 1 =>
                  \A r \in InodeUsers(c, d) : "cloned" \in r.v.flags
          \/ /\ Cardinality(Users(c, d)) = 1 /\ InodeUsers(c, d) = {}
             /\ \A n \in Of(c, DSTREAM_ID) : n.id # d
             /\ Holes(c, d) = 0
       /\ Tiled(ExtentsOf(c, d))
       /\ \A r \in Users(c, d) :
            IF \E o \in InodeUsers(c, d) : Orphan(c, o.id) THEN r.v.size <= r.v.alloced
            ELSE /\ \A e \in ExtentsOf(c, d) : \E f \in ExtentsOf(c, d) : f.num = 0
                 /\ Blocks(ExtentsOf(c, d)) = r.v.alloced /\ r.v.size <= r.v.alloced
  /\ \A r \in Of(c, INODE) :
       IF "dstream" \in r.v.xf
       THEN ~Orphan(c, r.id) => r.v.sparse = Holes(c, r.v.private)
       ELSE r.v.sparse = 0

\* The inodes, xattrs and extents that are encrypted with the crypto state k.
CryptoUsers(c, k) ==
  {r \in Of(c, INODE) \cup Of(c, XATTR) \cup Of(c, FILE_EXTENT) :
     /\ r.v.crypto = k
     /\ r.type = INODE => "dstream" \in r.v.xf /\ k # UNASSIGNED_CRYPTO_ID
     /\ r.type = XATTR => r.v.ds # 0}
UsedCrypto(c) ==
  {r.v.crypto : r \in Of(c, INODE) \cup Of(c, XATTR) \cup Of(c, FILE_EXTENT)}
    \ {0, CRYPTO_SW_ID}

\* Every crypto state in use has a record that counts its users, and every record
\* is of a state that has one such (the same, where keys are unique).  Only a clone
\* may be without a state.
CryptoMatch(c) ==
  /\ \A k \in UsedCrypto(c) : CryptoUsers(c, k) # {} =>
       \E r \in Of(c, CRYPTO_STATE) : r.id = k
  /\ \A r \in Of(c, CRYPTO_STATE) :
       /\ Encrypted /\ r.v.refcnt > 0
       /\ r.id \notin {CRYPTO_SW_ID, CRYPTO_RESERVED_5, UNASSIGNED_CRYPTO_ID}
       /\ \E q \in Of(c, CRYPTO_STATE) :
            Key(q) = Key(r) /\ q.v.refcnt = Cardinality(CryptoUsers(c, r.id))
  /\ \A r \in Of(c, INODE) :
       "dstream" \in r.v.xf /\ r.v.crypto = UNASSIGNED_CRYPTO_ID => "cloned" \in r.v.flags

\* A preallocated extent begins after the end of the file.
PreallocValid(c) ==
  \A e \in Of(c, FILE_EXTENT) :
    e.v.prealloc <=> PreallocFlag /\ \A r \in Users(c, e.id) : e.num >= r.v.size

\* The statistics that the parent of an inode keeps.  Orphans take part in none.
StatAbove(c, r) == IF HasInode(c, r.v.parent) THEN InodeOf(c, r.v.parent).v.stat ELSE 0
Live(c) == {r \in Of(c, INODE) : ~Orphan(c, r.id)}
DirsWith(c, s) == {r \in Live(c) : r.v.stat = s}
FilesBelow(c, s) ==
  {r \in Live(c) : r.v.ftype # "dir" /\ "dstream" \in r.v.xf /\ StatAbove(c, r) = s}
StatIds(c) == {r.v.stat : r \in Of(c, INODE)} \ {0}
StatRecords(c, s) == {q \in Of(c, DIR_STATS) : q.id = s}

\* The files with data that some statistics measure.
MeasuredFiles(c) == {r \in UNION {FilesBelow(c, s) : s \in StatIds(c)} : r.v.size > 0}

\* The statistics of a tree of directories: it begins at one origin, and one of
\* the records of its key, if there is any, counts the children of its directories
\* and has a total size that SizeOK accepts.
StatsMatch(c, SizeOK(_, _)) ==
  /\ \A r \in Live(c) :
       /\ r.v.stat # 0 =>
            IF StatAbove(c, r) = 0 THEN "origin" \in r.v.flags ELSE r.v.stat = StatAbove(c, r)
       /\ r.v.ftype = "dir" /\ StatAbove(c, r) # 0 => r.v.stat # 0
  /\ \A q \in Of(c, DIR_STATS) : q.id \in StatIds(c)
  /\ \A s \in StatIds(c) :
       /\ StatRecords(c, s) # {} =>
            \E q \in StatRecords(c, s) :
              /\ q.v.num_children = MapThenSumSet(LAMBDA r : r.v.nlink, DirsWith(c, s))
              /\ SizeOK(q, MapThenSumSet(LAMBDA r : r.v.size, FilesBelow(c, s)))
       /\ Cardinality({r \in Of(c, INODE) : r.v.stat = s /\ "origin" \in r.v.flags}) = 1

\* The directories in D that keep statistics have a record of them.
StatsRecorded(c, D) == \A r \in D : r.v.stat # 0 => StatRecords(c, r.v.stat) # {}

\* A record that says how much data there is.
ExactSize(q, size) == q.v.total_size = size

\* The root directory and the private directory are there.
RootsPresent(c) == HasInode(c, ROOT_DIR_INO_NUM) /\ HasInode(c, PRIV_DIR_INO_NUM)

\* The inodes that the superblock counts: those with no name for orphans.
CountedInodes(c, t) ==
  {r \in Of(c, INODE) :
     /\ r.v.ftype = t /\ r.id >= MIN_USER_INO_NUM
     /\ \A d \in Names(c, r.id) : d.id # PRIV_DIR_INO_NUM}

\* The superblock's counts.
TotalsMatch(c, totals) ==
  \A t \in DOMAIN totals : totals[t] = Cardinality(CountedInodes(c, t))
=============================================================================
