------------------------------- MODULE Catalog -------------------------------
(***************************************************************************)
(* How apfsck checks the catalog of a volume (apfsck/inode.c, dir.c,       *)
(* xattr.c, htable.c and the dstreams of extents.c): one pass over the     *)
(* ordered records fills tables of inodes, siblings, data streams and      *)
(* directory statistics; then the tables are freed one after the other, in *)
(* the order of their hash buckets, and what a freed entry has gathered is *)
(* compared with what it should be.                                        *)
(*                                                                         *)
(* One action stands for one record or for one entry of a table.  report() *)
(* exits: it is the step to pc = "reported".  The options -c, -u and -w    *)
(* are off: report_crash(), report_unknown() and report_weird() do nothing.*)
(***************************************************************************)
EXTENDS CatalogRules

CONSTANTS
  Volume(_, _),  \* may a volume have these records, and these counts of each
                 \* type of file in its superblock?
  LeafBreaks,  \* {FALSE}: a single node; BOOLEAN: any two records may be in two leaves
  Buckets,     \* HTABLE_BUCKETS
  CountMod     \* the counts of files and ds_total_size wrap at CountMod (u64)

ASSUME CatalogAssumption ==
  /\ LeafBreaks \subseteq BOOLEAN
  /\ Buckets \in Nat \ {0} /\ CountMod \in Nat \ {0}

VARIABLES
  cat,        \* the records of the catalog
  totals,     \* apfs_num_directories and so on, in the superblock
  left,       \* records not parsed yet
  last_key,   \* last_key of parse_subtree()
  inode,      \* v_inode_table
  sib,        \* the i_siblings: the entry of each <<inode, sibling id>> in them
  dstream,    \* v_dstream_table
  dirstat,    \* v_dirstat_table
  crypto,     \* v_crypto_table: the entries that are in it
  cnid,       \* v_cnid_table: where each id was seen (c_state)
  count,      \* v_file_count, v_dir_count, v_symlink_count, v_special_count
  roots,      \* v_has_root and v_has_priv
  todo,       \* entries of the table being visited that are still to come
  pc

volVars == <<cat, totals>>
treeVars == <<left, last_key>>
tables == <<inode, sib, dstream, dirstat, crypto>>
seenVars == <<count, roots>>
vars == <<volVars, treeVars, tables, cnid, seenVars, todo, pc>>

-----------------------------------------------------------------------------
(* Zeroed entries, as get_htable_entry() makes them. *)

NoInode == [there |-> FALSE, seen |-> FALSE, private |-> 0, parent |-> 0, mode |-> "none",
            nlink |-> 0, flags |-> {}, xf |-> {}, sparse |-> 0, name |-> 0, ds |-> 0,
            purg |-> 0, stat |-> 0, xattrs |-> {}, children |-> 0, links |-> 0,
            first_name |-> 0, first_parent |-> 0]
NoSibling == [name |-> 0, parent |-> 0, checked |-> FALSE, mapped |-> FALSE]
NoDstream == [there |-> FALSE, type |-> "none", seen |-> FALSE, orphan |-> FALSE, size |-> 0,
              alloced |-> 0, refcnt |-> 0, start |-> 0, bytes |-> 0, sparse |-> 0, refs |-> 0]
NoDirstat == [there |-> FALSE, seen |-> FALSE, origin_seen |-> FALSE, num_children |-> 0,
              total_size |-> 0, child_count |-> 0, child_size |-> 0]
NoCrypto == [refcnt |-> 0, refs |-> 0]

Init ==
  /\ Volume(cat, totals)
  /\ left = cat /\ last_key = <<0, 0, 0, 0>>
  /\ inode = [i \in Ids |-> NoInode]
  /\ sib = [k \in {} |-> NoSibling]
  /\ dstream = [d \in Ids |-> NoDstream]
  /\ dirstat = [s \in Ids |-> NoDirstat]
  /\ crypto = [k \in {} |-> NoCrypto]
  /\ cnid = [c \in Ids |-> {}]
  /\ count = [t \in FileTypes |-> 0]
  /\ roots = {} /\ todo = {} /\ pc = "records"

Stop(how) ==
  /\ pc' = how
  /\ UNCHANGED <<volVars, treeVars, tables, cnid, seenVars, todo>>

Report == Stop("reported")

-----------------------------------------------------------------------------
(* The records, in order. *)

\* parse_subtree() took the record: keys are in order.
Consume(r) ==
  /\ left' = left \ {r} /\ last_key' = Key(r)
  /\ UNCHANGED <<volVars, cnid, todo, pc>>

\* read_dstream_xfield() and parse_xattr_dstream(): the stream id is used by one
\* more inode or xattr, and must be what its other users say.
SameStream(id, type, v) ==
  LET d == dstream[id]
  IN  d.refs > 0 => d.type = type /\ d.size = v.size /\ d.alloced = v.alloced

Referenced(id, type, v) ==
  LET d == dstream[id]
  IN  [dstream EXCEPT ![id] = [d EXCEPT !.there = TRUE, !.refs = d.refs + 1, !.type = type,
                                        !.size = v.size, !.alloced = v.alloced]]

\* get_crypto_state(), and the table with the entry x of state k.
GetCrypto(k) == IF k \in DOMAIN crypto THEN crypto[k] ELSE NoCrypto
WithCrypto(k, x) == [j \in DOMAIN crypto \cup {k} |-> IF j = k THEN x ELSE crypto[j]]

\* The table after one more reference to the id k, if it is one of a state.
Encrypts(k) ==
  IF k \in {0, CRYPTO_SW_ID} THEN crypto
  ELSE WithCrypto(k, [GetCrypto(k) EXCEPT !.refs = @ + 1])

\* read_dir_stats_xfield(): statistics are for directories, and have one origin.
StatsFieldOK(v) ==
  v.ftype = "dir" /\ ("origin" \in v.flags => ~dirstat[v.stat].origin_seen)

\* parse_inode_xfields(): each xfield of the inode is valid for it, and is
\* there if and only if its flag is.
XfieldsOK(v) ==
  /\ "dstream" \in v.xf => /\ v.ftype = "reg" /\ SameStream(v.private, "inode", v)
                           /\ v.crypto = UNASSIGNED_CRYPTO_ID => "cloned" \in v.flags
  /\ "stats" \in v.xf => StatsFieldOK(v)
  /\ \A f \in {"stats", "sparse"} : f \in v.xf <=> f \in v.flags

\* check_inode_internal_flags()
InternalFlagsOK(flags) == "origin" \in flags => "stats" \in flags

\* The checks of parse_inode_record().
InodeOK(r) ==
  /\ ~inode[r.id].seen
  /\ ValidIds(r.id, r.v.parent) /\ r.v.parent # PRIV_DIR_INO_NUM
  /\ InternalFlagsOK(r.v.flags)
  /\ r.id # r.v.private => "cloned" \in r.v.flags
  /\ inode[r.id].mode \in {"none", r.v.ftype}
  /\ XfieldsOK(r.v)

ParseInode(r) ==
  /\ r.type = INODE
  /\ \/ ~InodeOK(r) /\ Report
     \/ /\ InodeOK(r)
        /\ inode' = [inode EXCEPT ![r.id] =
             [@ EXCEPT !.there = TRUE, !.seen = TRUE, !.private = r.v.private,
                       !.parent = r.v.parent, !.flags = r.v.flags, !.mode = r.v.ftype,
                       !.nlink = r.v.nlink, !.xf = r.v.xf,
                       !.sparse = IF "sparse" \in r.v.xf THEN r.v.sparse ELSE 0,
                       !.name = IF "name" \in r.v.xf THEN r.v.name ELSE 0,
                       !.ds = IF "dstream" \in r.v.xf THEN r.v.private ELSE 0,
                       !.stat = IF "stats" \in r.v.xf THEN r.v.stat ELSE 0]]
        /\ dstream' = IF "dstream" \in r.v.xf THEN Referenced(r.v.private, "inode", r.v)
                      ELSE dstream
        /\ dirstat' = IF "stats" \in r.v.xf
                      THEN [dirstat EXCEPT ![r.v.stat].there = TRUE,
                                           ![r.v.stat].origin_seen = @ \/ "origin" \in r.v.flags]
                      ELSE dirstat
        /\ crypto' = IF "dstream" \in r.v.xf /\ r.v.crypto # UNASSIGNED_CRYPTO_ID
                     THEN Encrypts(r.v.crypto) ELSE crypto
        /\ count' = IF r.v.ftype = "dir" /\ r.id < MIN_USER_INO_NUM THEN count
                    ELSE [count EXCEPT ![r.v.ftype] = (@ + 1) % CountMod]
        /\ roots' = roots \cup ({r.id} \cap {ROOT_DIR_INO_NUM, PRIV_DIR_INO_NUM})
        /\ UNCHANGED sib /\ Consume(r)

\* parse_xattr_record(); decmpfs headers are not modelled.
XattrOK(r) ==
  /\ inode[r.id].seen
  /\ r.v.ds # 0 => SameStream(r.v.ds, "xattr", r.v)
  /\ r.name <= FINDER_INFO_XATTR => r.name \notin inode[r.id].xattrs

ParseXattr(r) ==
  /\ r.type = XATTR
  /\ \/ ~XattrOK(r) /\ Report
     \/ /\ XattrOK(r)
        /\ inode' = [inode EXCEPT ![r.id].xattrs =
                       IF r.name <= FINDER_INFO_XATTR THEN @ \cup {r.name} ELSE @]
        /\ dstream' = IF r.v.ds # 0 THEN Referenced(r.v.ds, "xattr", r.v) ELSE dstream
        /\ crypto' = IF r.v.ds # 0 THEN Encrypts(r.v.crypto) ELSE crypto
        /\ UNCHANGED <<sib, dirstat, seenVars>> /\ Consume(r)

\* get_sibling(), and the lists with the entry x of sibling s of inode i.
GetSibling(i, s) == IF <<i, s>> \in DOMAIN sib THEN sib[<<i, s>>] ELSE NoSibling
WithSibling(i, s, x) ==
  [k \in DOMAIN sib \cup {<<i, s>>} |-> IF k = <<i, s>> THEN x ELSE sib[k]]

\* set_or_check_sibling(): whichever comes first, dentry or sibling, sets the
\* fields, and the other one is compared with them.
SiblingOK(s, parent, name) == s.name # 0 => s.name = name /\ s.parent = parent

\* Mutant: only the dentry's call marks the pair as checked.
PairedInOrder(s, parent, name) ==
  IF s.name = 0 THEN [s EXCEPT !.name = name, !.parent = parent]
  ELSE [s EXCEPT !.checked = parent > MIN_USER_INO_NUM]

Paired(s, parent, name) ==
  IF s.name = 0 THEN [s EXCEPT !.name = name, !.parent = parent]
  ELSE [s EXCEPT !.checked = TRUE]

SiblingLinkOK(r) ==
  /\ inode[r.id].seen /\ UsableId(r.num)
  /\ SiblingOK(GetSibling(r.id, r.num), r.v.parent, r.v.name)

ParseSibling(r) ==
  /\ r.type = SIBLING_LINK
  /\ \/ ~SiblingLinkOK(r) /\ Report
     \/ /\ SiblingLinkOK(r)
        /\ sib' = WithSibling(r.id, r.num, Paired(GetSibling(r.id, r.num), r.v.parent, r.v.name))
        /\ UNCHANGED <<inode, dstream, dirstat, crypto, seenVars>> /\ Consume(r)

ParseSiblingMap(r) ==
  /\ r.type = SIBLING_MAP
  /\ inode' = [inode EXCEPT ![r.v.file].there = TRUE]
  /\ sib' = WithSibling(r.v.file, r.id, [GetSibling(r.v.file, r.id) EXCEPT !.mapped = TRUE])
  /\ UNCHANGED <<dstream, dirstat, crypto, seenVars>> /\ Consume(r)

ParseDstreamId(r) ==
  /\ r.type = DSTREAM_ID
  /\ dstream' = [dstream EXCEPT ![r.id] = [@ EXCEPT !.there = TRUE, !.seen = TRUE,
                                                    !.refcnt = r.v.refcnt]]
  /\ UNCHANGED <<inode, sib, dirstat, crypto, seenVars>> /\ Consume(r)

\* parse_crypto_state_record(), without the checks of single fields.
CryptoStateOK(r) ==
  /\ Encrypted /\ r.v.refcnt > 0
  /\ r.id \notin {0, CRYPTO_SW_ID, CRYPTO_RESERVED_5, UNASSIGNED_CRYPTO_ID}

ParseCryptoState(r) ==
  /\ r.type = CRYPTO_STATE
  /\ \/ ~CryptoStateOK(r) /\ Report
     \/ /\ CryptoStateOK(r)
        /\ crypto' = WithCrypto(r.id, [GetCrypto(r.id) EXCEPT !.refcnt = r.v.refcnt])
        /\ UNCHANGED <<inode, sib, dstream, dirstat, seenVars>> /\ Consume(r)

\* parse_extent_record(); the physical side is in ExtentRefs.
LogicStart(r) ==
  IF dstream[r.id].bytes = 0 /\ r.num # 0 THEN r.num ELSE dstream[r.id].start

ExtentOK(r) ==
  /\ r.v.len > 0
  /\ LogicStart(r) + dstream[r.id].bytes = r.num
  /\ r.v.prealloc = (PreallocFlag /\ r.num >= dstream[r.id].size)

ParseExtent(r) ==
  /\ r.type = FILE_EXTENT
  /\ \/ ~ExtentOK(r) /\ Report
     \/ /\ ExtentOK(r)
        /\ dstream' = [dstream EXCEPT ![r.id] =
             [@ EXCEPT !.there = TRUE, !.start = LogicStart(r), !.bytes = @ + r.v.len,
                       !.sparse = IF r.v.hole THEN @ + r.v.len ELSE @]]
        /\ crypto' = Encrypts(r.v.crypto)
        /\ UNCHANGED <<inode, sib, dirstat, seenVars>> /\ Consume(r)

ParseDirStats(r) ==
  /\ r.type = DIR_STATS
  /\ dirstat' = [dirstat EXCEPT ![r.id] =
       [@ EXCEPT !.there = TRUE, !.seen = TRUE, !.num_children = r.v.num_children,
                 !.total_size = r.v.total_size]]
  /\ UNCHANGED <<inode, sib, dstream, crypto, seenVars>> /\ Consume(r)

\* The checks of parse_dentry_record().
DentryOK(r) ==
  LET n == inode[r.v.ino]
  IN  /\ r.v.ino = ROOT_DIR_INO_NUM => r.name = RootName
      /\ r.v.ino = PRIV_DIR_INO_NUM => r.name = PrivName
      /\ r.id = PRIV_DIR_INO_NUM => r.name = DeadName(r.v.ino)
      /\ r.id = PURGEABLE_DIR_INO_NUM => n.purg = 0
      /\ ValidIds(r.v.ino, r.id)
      /\ r.id \notin {ROOT_DIR_PARENT, PURGEABLE_DIR_INO_NUM} =>
           inode[r.id].seen /\ inode[r.id].mode = "dir"
      /\ r.v.purg <=> r.id = PURGEABLE_DIR_INO_NUM
      /\ ~r.v.purg => n.mode \in {"none", r.v.dtype}
      /\ r.v.sib # 0 => SiblingOK(GetSibling(r.v.ino, r.v.sib), r.id, r.name)

\* What a dentry does to the inode it names.
Named(n, r) ==
  IF r.v.purg THEN [n EXCEPT !.there = TRUE, !.purg = r.name]
  ELSE [n EXCEPT !.there = TRUE, !.links = n.links + 1, !.mode = r.v.dtype,
                 !.first_name = IF n.first_name = 0 THEN r.name ELSE n.first_name,
                 !.first_parent = IF n.first_name = 0 THEN r.id ELSE n.first_parent]

\* Orphans are not counted, but parse_inode_record() cannot tell: the count is
\* corrected at the dentry, which comes before the inode record, below zero.
WithoutOrphan(t) == [count EXCEPT ![t] = (@ - 1) % CountMod]

ParseDentry(r) ==
  /\ r.type = DIR_REC
  /\ \/ ~DentryOK(r) /\ Report
     \/ /\ DentryOK(r)
        /\ inode' = [i \in Ids |->
             LET n == IF i = r.v.ino THEN Named(inode[i], r) ELSE inode[i]
             IN  IF i = r.id /\ i \notin {ROOT_DIR_PARENT, PURGEABLE_DIR_INO_NUM}
                 THEN [n EXCEPT !.children = n.children + 1] ELSE n]
        /\ count' = IF \/ r.id # PRIV_DIR_INO_NUM
                       \/ r.v.dtype = "dir" /\ r.v.ino < MIN_USER_INO_NUM
                    THEN count ELSE WithoutOrphan(r.v.dtype)
        /\ sib' = IF r.v.sib = 0 THEN sib
                  ELSE WithSibling(r.v.ino, r.v.sib,
                                   Paired(GetSibling(r.v.ino, r.v.sib), r.id, r.name))
        /\ UNCHANGED <<dstream, dirstat, crypto, roots>> /\ Consume(r)

\* parse_subtree(): the next record in key order.  Two records of one leaf may
\* not have the same key; the first of a leaf may have that of the one before it.
ParseRecord ==
  /\ pc = "records"
  /\ \E r \in left :
       /\ \A q \in left : ~KeyLess(Key(q), Key(r))
       /\ \/ Key(r) = last_key /\ FALSE \in LeafBreaks /\ Report
          \/ /\ Key(r) # last_key \/ TRUE \in LeafBreaks
             /\ \/ ParseInode(r) \/ ParseXattr(r) \/ ParseSibling(r) \/ ParseDstreamId(r)
                \/ ParseExtent(r) \/ ParseDentry(r) \/ ParseDirStats(r) \/ ParseSiblingMap(r)
                \/ ParseCryptoState(r)

-----------------------------------------------------------------------------
(* The tables, visited in the order of their buckets; each bucket is sorted. *)

Before(a, b) == a % Buckets < b % Buckets \/ (a % Buckets = b % Buckets /\ a < b)
Turn(i) == i \in todo /\ \A j \in todo \ {i} : Before(i, j)

Entries(table) == {i \in Ids : table[i].there}

\* collect_dirstats(): the statistics that the inode's parent belongs to.
ParentStat(n) == IF n.parent >= MIN_USER_INO_NUM THEN inode[n.parent].stat ELSE 0


CollectOK(n) ==
  LET up == ParentStat(n)
  IN  /\ n.stat # 0 /\ up # 0 => n.stat = up
      /\ "stats" \in n.flags => /\ dirstat[n.stat].seen
                                /\ "origin" \in n.flags \/ up # 0
      /\ "stats" \notin n.flags /\ up # 0 => n.mode # "dir"

\* What an inode adds to the statistics.
Collected(n) ==
  LET up == ParentStat(n)
  IN  IF "stats" \in n.flags
      THEN [dirstat EXCEPT ![n.stat].child_count = @ + n.nlink]
      ELSE IF up # 0 /\ n.ds # 0
           THEN [dirstat EXCEPT ![up].total_size = (@ + dstream[n.ds].size) % CountMod]
           ELSE dirstat

\* apply_on_htable() has read the next entry of the bucket before it calls
\* collect_dirstats(i): an entry p put in the table by the call is visited in a
\* later bucket, or behind that next entry.
StillToVisit(i, p) ==
  \/ p % Buckets > i % Buckets
  \/ \E j \in todo \ {i} : j % Buckets = p % Buckets /\ j < p

\* One call of collect_dirstats(), which may put the parent in the table.
Collect(i) ==
  /\ pc = "collect" /\ Turn(i)
  /\ LET n == inode[i]
         new == {p \in {n.parent} : p >= MIN_USER_INO_NUM /\ ~inode[p].there}
     IN \/ /\ n.first_parent = PRIV_DIR_INO_NUM
           /\ todo' = todo \ {i}
           /\ UNCHANGED <<volVars, treeVars, tables, cnid, seenVars, pc>>
        \/ /\ n.first_parent # PRIV_DIR_INO_NUM /\ ~CollectOK(n) /\ Report
        \/ /\ n.first_parent # PRIV_DIR_INO_NUM /\ CollectOK(n)
           /\ dirstat' = Collected(n)
           /\ inode' = [p \in Ids |-> IF p \in new THEN [inode[p] EXCEPT !.there = TRUE]
                                      ELSE inode[p]]
           /\ todo' = (todo \ {i}) \cup {p \in new : StillToVisit(i, p)}
           /\ UNCHANGED <<volVars, treeVars, sib, dstream, crypto, cnid, seenVars, pc>>

\* Mutant: any link count will do for an orphan.
LinksOKUnlessOrphan(n) ==
  /\ n.mode = "dir" => n.links = 1 /\ n.nlink = n.children
  /\ n.mode # "dir" => n.nlink = n.links \/ n.first_parent = PRIV_DIR_INO_NUM

\* The first half of check_inode_stats(): links and children.
LinksOK(n) ==
  /\ n.mode = "dir" =>
       /\ n.links = 1 /\ n.nlink = n.children
       /\ n.first_parent = PRIV_DIR_INO_NUM => n.nlink = 0
  /\ n.mode # "dir" =>
       IF n.first_parent = PRIV_DIR_INO_NUM THEN n.links = 1 /\ n.nlink = 0
       ELSE n.nlink = n.links

\* The second half: sparse bytes, xattrs and flags, with check_finder_info().
FlagsOK(n) ==
  /\ IF n.ds = 0 THEN n.sparse = 0
     ELSE /\ dstream[n.ds].refcnt > 1 => "cloned" \in n.flags
          /\ n.first_parent # PRIV_DIR_INO_NUM => dstream[n.ds].sparse = n.sparse
  /\ SYMLINK_XATTR \in n.xattrs <=> n.mode = "lnk"
  /\ RSRC_FORK_XATTR \in n.xattrs <=> "rsrc" \in n.flags
  /\ SECURITY_XATTR \in n.xattrs <=> "security" \in n.flags
  /\ n.purg # 0 <=> "purgeable" \in n.flags
  /\ ~("finder" \in n.xf /\ FINDER_INFO_XATTR \in n.xattrs)
  /\ "finder" \in n.flags <=> "finder" \in n.xf \/ FINDER_INFO_XATTR \in n.xattrs

\* Mutant: the size in a purgeable name is not checked.
NamesOKAnySize(i) ==
  inode[i].name # 0 /\ inode[i].first_name # 0

\* The first checks of free_inode_names(), with check_purgeable_name().
NamesOK(i) ==
  LET n == inode[i]
  IN  /\ n.name # 0 /\ n.first_name # 0
      /\ "trimmed" \in n.flags => n.name = OverprovName /\ n.links = 1
      /\ n.purg # 0 =>
           n.purg = PurgeableName(IF n.ds = 0 THEN 0 ELSE dstream[n.ds].bytes, i)

Siblings(i) == {k[2] : k \in {k \in DOMAIN sib : k[1] = i}}
Primary(i) == sib[<<i, Min(Siblings(i))>>]

\* The primary name is that of the first sibling, or of the only dentry.
PrimaryOK(i) ==
  LET n == inode[i]
  IN  IF Siblings(i) # {} THEN n.name = Primary(i).name /\ n.parent = Primary(i).parent
      ELSE n.first_parent # PRIV_DIR_INO_NUM =>
             n.name = n.first_name /\ n.parent = n.first_parent

\* Mutant: the sibling maps are not checked.
SiblingsOKUnmapped(i) ==
  /\ \A s \in Siblings(i) : "link" \notin cnid[s] /\ sib[<<i, s>>].checked
  /\ \/ inode[i].links = 1 /\ Siblings(i) = {}
     \/ Cardinality(Siblings(i)) = inode[i].links

SiblingsOK(i) ==
  /\ \A s \in Siblings(i) : /\ "link" \notin cnid[s] /\ sib[<<i, s>>].checked
                            /\ sib[<<i, s>>].mapped
  /\ IF inode[i].first_parent = PRIV_DIR_INO_NUM THEN Siblings(i) = {}
     ELSE \/ inode[i].links = 1 /\ Siblings(i) = {}
          \/ Cardinality(Siblings(i)) = inode[i].links

\* free_inode().  A sibling known from its map record alone has no name, and
\* strcmp() is called on the null pointer if it is the first one.
FreeInode(i) ==
  /\ pc = "inodes" /\ Turn(i)
  /\ LET n == inode[i]
         first == "inode" \notin cnid[i] /\ LinksOK(n) /\ FlagsOK(n) /\ NamesOK(i)
         nameless == Siblings(i) # {} /\ Primary(i).name = 0
         rest == PrimaryOK(i) /\ SiblingsOK(i)
     IN \/ ~first /\ Report
        \/ first /\ nameless /\ Stop("crashed")
        \/ first /\ ~nameless /\ ~rest /\ Report
        \/ /\ first /\ ~nameless /\ rest
           /\ cnid' = [c \in Ids |-> cnid[c] \cup (IF c = i THEN {"inode"} ELSE {})
                                             \cup (IF c \in Siblings(i) THEN {"link"} ELSE {})]
           /\ dstream' = IF n.ds # 0 /\ n.first_parent = PRIV_DIR_INO_NUM
                         THEN [dstream EXCEPT ![n.ds].orphan = TRUE] ELSE dstream
           /\ todo' = todo \ {i}
           /\ UNCHANGED <<volVars, treeVars, inode, sib, dirstat, crypto, seenVars, pc>>

\* Mutant: leading extents may be missing in any stream.
DstreamOKAnyStart(id) ==
  LET d == dstream[id]
  IN  /\ d.refs > 0 /\ UsableId(id)
      /\ IF d.type = "xattr" THEN ~d.seen /\ d.refs = 1 /\ d.sparse = 0
         ELSE d.seen /\ d.refcnt = d.refs
      /\ IF d.orphan THEN d.size <= d.alloced
         ELSE d.bytes >= d.size /\ d.bytes = d.alloced

\* check_dstream_stats()
DstreamOK(id) ==
  LET d == dstream[id]
  IN  /\ d.refs > 0 /\ UsableId(id)
      /\ IF d.type = "xattr" THEN ~d.seen /\ d.refs = 1 /\ d.sparse = 0
         ELSE d.seen /\ d.refcnt = d.refs
      /\ IF d.orphan THEN d.size <= d.alloced
         ELSE d.start = 0 /\ d.bytes >= d.size /\ d.bytes = d.alloced

\* free_dstream(); the extents are counted in ExtentRefs.
FreeDstream(d) ==
  /\ pc = "dstreams" /\ Turn(d)
  /\ LET ok == "dstream" \notin cnid[d] /\ DstreamOK(d)
     IN \/ ~ok /\ Report
        \/ /\ ok
           /\ cnid' = [cnid EXCEPT ![d] = @ \cup {"dstream"}]
           /\ todo' = todo \ {d}
           /\ UNCHANGED <<volVars, treeVars, tables, seenVars, pc>>

\* free_cnid()
CnidOK(c) == "link" \in cnid[c] => cnid[c] = {"link"}

FreeCnid(c) ==
  /\ pc = "cnids" /\ Turn(c)
  /\ \/ ~CnidOK(c) /\ Report
     \/ /\ CnidOK(c) /\ todo' = todo \ {c}
        /\ UNCHANGED <<volVars, treeVars, tables, cnid, seenVars, pc>>

\* free_dirstat()
DirstatOK(s) ==
  LET d == dirstat[s]
  IN  d.origin_seen /\ d.num_children = d.child_count /\ d.total_size = d.child_size

FreeDirstat(s) ==
  /\ pc = "dirstats" /\ Turn(s)
  /\ \/ ~DirstatOK(s) /\ Report
     \/ /\ DirstatOK(s) /\ todo' = todo \ {s}
        /\ UNCHANGED <<volVars, treeVars, tables, cnid, seenVars, pc>>

\* free_crypto_state(): a state without a record has a count of zero.
FreeCrypto(k) ==
  /\ pc = "cryptos" /\ Turn(k)
  /\ \/ crypto[k].refcnt # crypto[k].refs /\ Report
     \/ /\ crypto[k].refcnt = crypto[k].refs /\ todo' = todo \ {k}
        /\ UNCHANGED <<volVars, treeVars, tables, cnid, seenVars, pc>>

\* check_volume_super() goes from the catalog to each table.
NextTable ==
  /\ \/ pc = "records" /\ left = {} /\ pc' = "collect" /\ todo' = Entries(inode)
     \/ pc = "collect" /\ todo = {} /\ pc' = "inodes" /\ todo' = Entries(inode)
     \/ pc = "inodes" /\ todo = {} /\ pc' = "dstreams" /\ todo' = Entries(dstream)
     \/ pc = "dstreams" /\ todo = {} /\ pc' = "cnids" /\ todo' = {c \in Ids : cnid[c] # {}}
     \/ pc = "cnids" /\ todo = {} /\ pc' = "dirstats" /\ todo' = Entries(dirstat)
     \/ pc = "dirstats" /\ todo = {} /\ pc' = "cryptos" /\ todo' = DOMAIN crypto
     \/ pc = "cryptos" /\ todo = {} /\ pc' = "totals" /\ todo' = {}
  /\ UNCHANGED <<volVars, treeVars, tables, cnid, seenVars>>

\* The last checks of check_volume_super(); a wrong number of regular files is
\* reported only with -w.
TotalsOK ==
  /\ roots = {ROOT_DIR_INO_NUM, PRIV_DIR_INO_NUM}
  /\ \A t \in FileTypes \ {"reg"} : totals[t] = count[t]

CheckTotals ==
  /\ pc = "totals"
  /\ \/ ~TotalsOK /\ Report
     \/ TotalsOK /\ Stop("clean")

Done == pc \in {"reported", "crashed", "clean"} /\ UNCHANGED vars

Next ==
  \/ ParseRecord \/ NextTable \/ CheckTotals \/ Done
  \/ \E k \in DOMAIN crypto : FreeCrypto(k)
  \/ \E i \in Ids : Collect(i) \/ FreeInode(i) \/ FreeDstream(i) \/ FreeCnid(i) \/ FreeDirstat(i)

Spec == Init /\ [][Next]_vars

-----------------------------------------------------------------------------
(* Properties. *)

\* An accepted volume has a valid tree: every entry names an inode of its type in
\* a directory, and the links and children of each inode are those it counts.  It
\* has both special directories, and as many directories, symlinks and special
\* files, without the orphans, as its superblock says.
TreeAccepted ==
  pc = "clean" =>
    /\ EntriesValid(cat) /\ LinkCounts(cat) /\ RootsPresent(cat)
    /\ TotalsMatch(cat, [t \in FileTypes \ {"reg"} |-> totals[t]])

\* An accepted volume has, for every hard link, its sibling link and map, the
\* right primary name, and no sibling id that is used elsewhere.  This is not said
\* of volumes where a dentry or a sibling link is there twice, on both sides of a
\* leaf border: the two copies agree with each other, and set_or_check_sibling()
\* does not tell them from a dentry that agrees with its sibling link.
SiblingsAccepted == pc = "clean" /\ NamesUnique(cat) => SiblingsMatch(cat)

\* An accepted volume has inodes whose flags agree with their xattrs, xfields
\* and purgeable entries, wherever in the catalog these are.
InodesAccepted == pc = "clean" => InodesValid(cat)

\* An accepted volume has data streams and crypto states with the right reference
\* counts, and streams with all the extents that their users say.  Where a record
\* with such a count is there twice, on both sides of a leaf border, one is right.
StreamsAccepted ==
  pc = "clean" => StreamsMatch(cat) /\ PreallocValid(cat) /\ CryptoMatch(cat)


Consistent ==
  /\ KeysUnique(cat) /\ EntriesValid(cat) /\ LinkCounts(cat) /\ SiblingsMatch(cat)
  /\ InodesValid(cat) /\ StreamsMatch(cat) /\ PreallocValid(cat) /\ CryptoMatch(cat)
  /\ StatsMatch(cat, ExactSize) /\ StatsRecorded(cat, Of(cat, INODE))
  /\ RootsPresent(cat) /\ TotalsMatch(cat, [t \in FileTypes \ {"reg"} |-> totals[t]])

\* A consistent volume is never reported: neither the order in which dentries,
\* siblings and inodes meet in the catalog, nor that of the tables, matters.
NoFalseAlarm == pc \in {"reported", "crashed"} => ~Consistent

\* The same where no directory with statistics has a file with data.
NoFalseAlarmWithoutData == NoFalseAlarm \/ MeasuredFiles(cat) # {}
=============================================================================
