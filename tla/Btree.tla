------------------------------- MODULE Btree -------------------------------
(***************************************************************************)
(* How apfsck parses a b-tree (apfsck/btree.c): the header of each node,   *)
(* the lists of free space in its key and value areas, the records in the  *)
(* order of the table of contents, the order of the keys over the whole    *)
(* tree, and the footer of the root; and how it looks up a record by       *)
(* bisection, in a tree already parsed or, for the catalog, in one it is   *)
(* parsing.                                                                *)
(*                                                                         *)
(* The tree is chosen in Init.  Offsets and sizes are in units of two      *)
(* bytes.  What the value of a leaf record means is checked elsewhere      *)
(* (CatalogRules, ExtentRefs, Spaceman, Container).  report() exits: it is *)
(* the step to pc = "reported".                                            *)
(***************************************************************************)
EXTENDS BtreeKeys, FiniteSets, FiniteSetsExt, Functions

CONSTANTS
  Image(_),   \* may this tree be on disk?
  Lookups,    \* pairs of an id and an offset that may be looked up
  MaxDepth    \* 12, the limit on the depth of a query

ASSUME BtreeAssumption == MaxDepth \in Nat \ {0} /\ Lookups \subseteq Nat \X Nat

INVALID == -1 \* APFS_BTOFF_INVALID
HEAD == 28    \* sizeof(struct apfs_btree_node_phys)
INFO == 20    \* sizeof(struct apfs_btree_info)
NLOC == 2     \* sizeof(struct apfs_nloc)
KVOFF == 2
KVLOC == 4

FixedTrees == {"omap", "free_queue", "snapshots", "fext", "fusion_mt"}
TreeTypes == FixedTrees \cup {"catalog", "extentref", "snap_meta"}
PhysicalChecked == {"omap", "extentref", "snap_meta", "snapshots", "fext"}

VARIABLES
  img,    \* the tree on disk
  pc,
  cur,    \* the struct node that is being read
  walk,   \* locals of node_parse_key_free_list() and node_parse_val_free_list()
  stack,  \* the nodes in the calls of parse_subtree(), with their bitmaps
  last,   \* last_key
  seen,   \* nodes whose blocks are marked as used
  stats,  \* struct btree: what was measured
  query   \* struct query and the locals of node_query()

vars == <<img, pc, cur, walk, stack, last, seen, stats, query>>

-----------------------------------------------------------------------------
(* Nodes. *)

node_is_leaf(n) == "leaf" \in n.flags
node_is_root(n) == "root" \in n.flags
node_has_fixed_kv_size(n) == "fixed" \in n.flags

SealedCat == img.type = "catalog" /\ img.sealed
Node(id) == img.nodes[id]

\* The areas of a node: offsets of the table, of the keys and of the values in
\* the block.  Only a root has a footer.
TocStart(n) == HEAD + n.table.off
KeyStart(n) == TocStart(n) + n.table.len
DataStart(n) == KeyStart(n) + n.free.off + n.free.len
DataEnd(n) == BlockSize - (IF node_is_root(n) THEN INFO ELSE 0)
KeyArea(n) == n.free.off
ValArea(n) == DataEnd(n) - DataStart(n)

FixedKeyLen(tree) == IF tree \in {"snapshots", "fusion_mt"} THEN 4 ELSE 8
FixedValLen(tree, leaf) == IF leaf /\ tree # "free_queue" THEN 8 ELSE 4

\* node_min_table_size(): trees of fixed sizes preallocate the table.
node_min_table_size(n) ==
  IF n.subtype \notin FixedTrees THEN KVLOC
  ELSE KVOFF * ((BlockSize - HEAD)
                  \div (FixedKeyLen(n.subtype) + FixedValLen(n.subtype, node_is_leaf(n)) + KVOFF))

\* node_is_valid()
node_is_valid(n) ==
  /\ "invalid" \notin n.flags
  /\ node_is_root(n) \/ n.nkeys > 0
  /\ TocStart(n) = HEAD
  /\ DataStart(n) <= DataEnd(n)
  /\ n.table.len >= node_min_table_size(n)
  /\ node_has_fixed_kv_size(n) /\ n.subtype # "free_queue" => n.table.len = node_min_table_size(n)
  /\ n.nkeys * (IF node_has_fixed_kv_size(n) THEN KVOFF ELSE KVLOC) <= n.table.len

\* The checks of read_node() on the header.  Nobody checks the subtype in a
\* fusion middle-tree.
HeaderOK(n) ==
  /\ node_is_valid(n)
  /\ ("noheader" \in n.flags) = SealedCat /\ ("hashed" \in n.flags) = SealedCat
  /\ SealedCat \/ n.type = (IF node_is_root(n) THEN "btree" ELSE "btree_node")
  /\ SealedCat \/ img.type = "fusion_mt" \/ n.subtype = img.type

\* The place of record i: cells of the key area and of the value area.  The
\* code never checks that a value ends inside its area.
KeyLen(n, i) == IF node_has_fixed_kv_size(n) THEN FixedKeyLen(img.type) ELSE n.toc[i].klen
KeyCells(n, i) == n.toc[i].k .. (n.toc[i].k + KeyLen(n, i) - 1)
\* node_locate_key()
KeyInside(n, i) == n.toc[i].k + KeyLen(n, i) <= KeyArea(n)

Ghost(n, i) == img.type = "free_queue" /\ n.toc[i].v = INVALID
\* The length is not set for a node of fixed sizes in a tree with none; only
\* a query meets one, since parse_subtree() has reported it before.
ValLens(n, i) ==
  IF ~node_has_fixed_kv_size(n) THEN {n.toc[i].vlen}
  ELSE IF Ghost(n, i) THEN {0}
  ELSE IF img.type \in FixedTrees THEN {FixedValLen(img.type, node_is_leaf(n))}
  ELSE {0, 4, 10}
ValStart(n, i) == ValArea(n) - n.toc[i].v
ValCells(n, i, len) == ValStart(n, i) .. (ValStart(n, i) + len - 1)
\* node_locate_data()
ValInside(n, i) == Ghost(n, i) \/ (ValStart(n, i) >= 0 /\ ValStart(n, i) < ValArea(n))
Overruns(n, i, len) == ~Ghost(n, i) /\ ValStart(n, i) + len > ValArea(n)

Key(n, i) == MemoryKey(img.type, img.hashed, n.keys[i])
Child(n, i) == n.vals[i].child + (IF SealedCat THEN img.root ELSE 0)

-----------------------------------------------------------------------------
(* The start: the parse_*_btree() functions. *)

Frame(id, hash) == [id |-> id, i |-> 0, fk |-> {}, fv |-> {}, uk |-> {}, uv |-> {}, hash |-> hash]
NoStats == [keys |-> 0, nodes |-> 0, longest_key |-> 0, longest_val |-> 0]
NoQuery == [state |-> "idle", key |-> NoKey, node |-> 0, left |-> 0, right |-> 0, index |-> 0,
            cmp |-> 1, depth |-> 0, back |-> "parsed"]

\* What can be on disk, for a tree of one of the types that are parsed: fields
\* are unsigned, an offset may be the invalid one, each record of the table of
\* contents is somewhere, and so is an entry of a list.  A name that was read
\* is never a null pointer.
Offset == Nat \cup {INVALID}
RawKeyOnDisk(raw) ==
  {raw.id, raw.type, raw.number, raw.name} \subseteq Nat /\ (Named(raw) => raw.name # 0)
ListOnDisk(head, list) ==
  /\ head \in [off : Offset, len : Nat]
  /\ IsFiniteSet(DOMAIN list) /\ DOMAIN list \subseteq Nat
  /\ \A o \in DOMAIN list : list[o] \in [off : Offset, len : Nat]
NodeOnDisk(n) ==
  /\ {n.nkeys, n.level, n.xid, n.table.off, n.table.len, n.free.off, n.free.len} \subseteq Nat
  /\ ListOnDisk(n.kfree, n.kraw) /\ ListOnDisk(n.vfree, n.vraw)
  /\ \A i \in 1..n.nkeys : /\ n.toc[i] \in [k : Nat, klen : Nat, v : Offset, vlen : Nat]
                           /\ RawKeyOnDisk(n.keys[i])
                           /\ {n.vals[i].child, n.vals[i].blocks, n.vals[i].hash} \subseteq Nat
OnDisk(i) ==
  /\ i.type \in TreeTypes /\ {i.info.longest_key, i.info.longest_val} \subseteq Nat
  /\ {i.root, i.root_hash} \subseteq Nat /\ IsFiniteSet(DOMAIN i.nodes) /\ DOMAIN i.nodes \subseteq Nat \ {0}
  /\ \A m \in DOMAIN i.nodes : NodeOnDisk(i.nodes[m])

Init ==
  /\ Image(img) /\ OnDisk(img)
  /\ pc = "start" /\ cur = Frame(0, 0) /\ walk = [off |-> 0, total |-> 0]
  /\ stack = <<>> /\ last = NoKey /\ seen = {} /\ stats = NoStats /\ query = NoQuery

Report ==
  /\ pc' = "reported"
  /\ UNCHANGED <<img, cur, walk, stack, last, seen, stats, query>>

\* A check of the code: report() unless ok, and go on with the step otherwise.
Check(ok, step) == (ok /\ step) \/ (~ok /\ Report)

\* A free queue may be missing, and the fusion middle-tree must be there in
\* fusion drives only.
Missing == img.root = 0 /\ img.type \in {"free_queue", "fusion_mt"}
StartTree ==
  /\ pc = "start"
  /\ Check(img.type = "fusion_mt" => img.fusion = (img.root # 0),
           /\ pc' = IF Missing THEN "parsed" ELSE "read"
           /\ cur' = Frame(img.root, img.root_hash)
           /\ UNCHANGED <<img, walk, stack, last, seen, stats, query>>)

-----------------------------------------------------------------------------
(* read_node() *)

Querying == query.state = "running"

\* The object is read (for object.c, see Container): its block must not be in
\* use, unless this is a query.
Readable(id) == id \in DOMAIN img.nodes /\ (Querying \/ id \notin seen)

\* Hashes are checked in sealed catalogs; a query has none to check.
ReadNode ==
  /\ pc = "read"
  /\ Check(/\ Readable(cur.id)
           /\ SealedCat /\ ~Querying => Node(cur.id).hash = cur.hash
           /\ HeaderOK(Node(cur.id)),
           /\ seen' = IF Querying THEN seen ELSE seen \cup {cur.id}
           /\ walk' = [off |-> Node(cur.id).kfree.off, total |-> Node(cur.id).kfree.len]
           /\ pc' = "key_list"
           /\ UNCHANGED <<img, cur, stack, last, stats, query>>)

\* What is found at an offset, read as an entry of the list.
Entry(list, off) == IF off \in DOMAIN list THEN list[off] ELSE [off |-> 0, len |-> 0]

\* Mutant: an entry may be as short as it wants.
KeyEntryAny(n, off) ==
  /\ off + NLOC <= KeyArea(n)
  /\ off + Entry(n.kraw, off).len <= KeyArea(n)
  /\ (off .. (off + Entry(n.kraw, off).len - 1)) \cap cur.fk = {}
\* One entry of the list of free keys.
KeyEntryOK(n, off) ==
  /\ off + NLOC <= KeyArea(n)
  /\ Entry(n.kraw, off).len >= NLOC
  /\ off + Entry(n.kraw, off).len <= KeyArea(n)
  /\ (off .. (off + Entry(n.kraw, off).len - 1)) \cap cur.fk = {}

\* One entry of the list of free values; offsets are backwards from the end.
FreeVal(n, off) == (ValArea(n) - off) .. (ValArea(n) - off + Entry(n.vraw, off).len - 1)
ValEntryOK(n, off) ==
  /\ off >= NLOC
  /\ Entry(n.vraw, off).len >= NLOC
  /\ off <= ValArea(n) /\ Entry(n.vraw, off).len <= off
  /\ FreeVal(n, off) \cap cur.fv = {}

\* Mutant: the total is taken for the sum of the list.
WalkGoesOnToTotal == walk.total > 0
\* Tiny free areas may be missing from the lists: the walk ends at the end of
\* the list, or when the total in the header of the node is reached.
WalkGoesOn == walk.total > 0 /\ walk.off # INVALID

WalkKeyList ==
  /\ pc = "key_list" /\ WalkGoesOn
  /\ LET n == Node(cur.id)
         e == Entry(n.kraw, walk.off)
     IN  Check(KeyEntryOK(n, walk.off),
               /\ cur' = [cur EXCEPT !.fk = @ \cup (walk.off .. (walk.off + e.len - 1))]
               /\ walk' = [off |-> e.off, total |-> walk.total - e.len]
               /\ UNCHANGED <<img, pc, stack, last, seen, stats, query>>)

EndKeyList ==
  /\ pc = "key_list" /\ ~WalkGoesOn
  /\ Check(walk.off = INVALID,
           /\ pc' = "value_list"
           /\ walk' = [off |-> Node(cur.id).vfree.off, total |-> Node(cur.id).vfree.len]
           /\ UNCHANGED <<img, cur, stack, last, seen, stats, query>>)

WalkValList ==
  /\ pc = "value_list" /\ WalkGoesOn
  /\ LET n == Node(cur.id)
         e == Entry(n.vraw, walk.off)
     IN  Check(ValEntryOK(n, walk.off),
               /\ cur' = [cur EXCEPT !.fv = @ \cup FreeVal(n, walk.off)]
               /\ walk' = [off |-> e.off, total |-> walk.total - e.len]
               /\ UNCHANGED <<img, pc, stack, last, seen, stats, query>>)

EndValList ==
  /\ pc = "value_list" /\ ~WalkGoesOn
  /\ Check(walk.off = INVALID,
           /\ pc' = "enter"
           /\ UNCHANGED <<img, cur, walk, stack, last, seen, stats, query>>)

-----------------------------------------------------------------------------
(* parse_subtree() *)

Top == stack[Len(stack)]
SetTop(f) == [stack EXCEPT ![Len(stack)] = f]

\* What the caller checks in the child it has read.
ChildOK(n) ==
  stack # <<>> => /\ n.level = Node(Top.id).level - 1
                  /\ ~node_is_root(n)
                  /\ img.type \in PhysicalChecked => Node(Top.id).xid >= n.xid

\* A leaf is at level 0, and the sizes are fixed or not by the type of the tree.
NodeOK(n) ==
  /\ node_is_leaf(n) => n.level = 0
  /\ node_has_fixed_kv_size(n) = (img.type \in FixedTrees)

EnterNode ==
  /\ pc = "enter" /\ ~Querying
  /\ LET n == Node(cur.id)
     IN  Check(ChildOK(n) /\ NodeOK(n),
               /\ stack' = Append(stack, cur)
               /\ stats' = [stats EXCEPT !.keys = @ + (IF node_is_leaf(n) THEN n.nkeys ELSE 0),
                                         !.nodes = @ + 1]
               /\ pc' = "record"
               /\ UNCHANGED <<img, cur, walk, last, seen, query>>)

\* bmap_mark_as_used(): the bits of a record must be clear.
KeyFree(n, i) == KeyInside(n, i) /\ KeyCells(n, i) \cap Top.uk = {}
ValFree(n, i, len) == ValInside(n, i) /\ ValCells(n, i, len) \cap Top.uv = {}

\* Mutant: the first key of a child only has to follow the key of the parent.
InOrderAnyFirst(n, i) ==
  /\ keycmp(last, Key(n, i)) <= 0
  /\ i # 1 /\ node_is_leaf(n) => keycmp(last, Key(n, i)) # 0
\* The order of the keys.
InOrder(n, i) ==
  /\ keycmp(last, Key(n, i)) <= 0
  /\ i = 1 /\ ~node_is_root(n) => keycmp(last, Key(n, i)) = 0
  /\ i # 1 /\ node_is_leaf(n) => keycmp(last, Key(n, i)) # 0

RecordOK(n, i, len) ==
  /\ KeyFree(n, i)
  /\ KeyOK(img.type, img.hashed, n.keys[i], KeyLen(n, i))
  /\ img.type = "omap" => Key(n, i)[3] <= n.xid
  /\ InOrder(n, i)
  /\ ValFree(n, i, len)
  /\ ~node_is_leaf(n) => len = (IF SealedCat THEN 20 ELSE 4)
  /\ node_is_leaf(n) /\ img.type = "extentref" => len = 10 /\ n.vals[i].blocks > 0

\* A physical extent is followed as if its key were that of its last block.
LastKey(n, i) ==
  IF node_is_leaf(n) /\ img.type = "extentref"
  THEN [Key(n, i) EXCEPT ![1] = @ + n.vals[i].blocks - 1] ELSE Key(n, i)

\* One record.  The bits of a value that runs over its end are set beyond the
\* bitmap: what is there may be reported as an overlap, or be overwritten.
ReadRecord ==
  /\ pc = "record" /\ Top.i < Node(Top.id).nkeys
  /\ LET n == Node(Top.id)
         i == Top.i + 1
     IN  \E len \in ValLens(n, i) :
           \/ Check(RecordOK(n, i, len),
                /\ stack' = SetTop([Top EXCEPT !.i = i, !.uk = @ \cup KeyCells(n, i),
                                               !.uv = @ \cup {c \in ValCells(n, i, len) : c < ValArea(n)}])
                /\ last' = LastKey(n, i)
                /\ stats' = [stats EXCEPT
                     !.longest_key = IF KeyLen(n, i) > @ THEN KeyLen(n, i) ELSE @,
                     !.longest_val = IF node_is_leaf(n) /\ len > @ THEN len ELSE @]
                /\ IF node_is_leaf(n) THEN UNCHANGED <<pc, cur>>
                   ELSE /\ cur' = Frame(Child(n, i), n.vals[i].hash)
                        /\ pc' = "read"
                /\ UNCHANGED <<img, walk, seen, query>>)
           \/ Overruns(n, i, len) /\ Report

\* node_compare_bmaps(): no record lies in space listed as free, and the total
\* counts all the space without records, listed or not.
\* Mutant: only the total is checked.
BmapsMatchTotal(n, f) ==
  /\ n.kfree.len = KeyArea(n) - Cardinality(f.uk)
  /\ n.vfree.len = ValArea(n) - Cardinality(f.uv)
BmapsMatch(n, f) ==
  /\ f.fk \cap f.uk = {} /\ n.kfree.len = KeyArea(n) - Cardinality(f.uk)
  /\ f.fv \cap f.uv = {} /\ n.vfree.len = ValArea(n) - Cardinality(f.uv)

EndNode ==
  /\ pc = "record" /\ Top.i = Node(Top.id).nkeys
  /\ Check(BmapsMatch(Node(Top.id), Top),
           /\ stack' = SubSeq(stack, 1, Len(stack) - 1)
           /\ pc' = IF Len(stack) = 1 THEN "footer" ELSE "record"
           /\ UNCHANGED <<img, cur, walk, last, seen, stats, query>>)

-----------------------------------------------------------------------------
(* check_btree_footer() *)

\* check_btree_footer_flags()
FooterFlagsOK(flags) ==
  /\ flags \cap {"invalid", "nonpersistent"} = {}
  /\ ("nonaligned" \in flags) = (img.type \notin FixedTrees)
  /\ ("ghosts" \in flags) = (img.type = "free_queue")
  /\ ("ephemeral" \in flags) = (img.type = "free_queue")
  /\ ("physical" \in flags) = (img.type \notin {"catalog", "free_queue"})
  /\ ("hashed" \in flags) = SealedCat /\ ("noheader" \in flags) = SealedCat

\* An empty tree may have no longest key and value.
Exactly(size, want, maybe_empty) == size = want \/ (maybe_empty /\ size = 0 /\ stats.keys = 0)

SizesOK(info) ==
  LET k == FixedKeyLen(img.type)
      v == FixedValLen(img.type, TRUE)
  IN  IF img.type \in FixedTrees
      THEN /\ info.key_size = k /\ info.val_size = v
           /\ Exactly(info.longest_key, k, img.type \in {"omap", "fusion_mt"})
           /\ IF img.type = "free_queue" THEN info.longest_val >= stats.longest_val
              ELSE Exactly(info.longest_val, v, img.type \in {"omap", "fusion_mt"})
      ELSE /\ info.key_size = 0 /\ info.val_size = 0
           /\ IF img.type = "extentref"
              THEN Exactly(info.longest_key, 4, TRUE) /\ Exactly(info.longest_val, 10, TRUE)
              ELSE info.longest_key >= stats.longest_key /\ info.longest_val >= stats.longest_val

FooterOK(info) ==
  /\ node_is_root(Node(img.root)) /\ FooterFlagsOK(info.flags)
  /\ info.key_count = stats.keys /\ info.node_count = stats.nodes
  /\ SizesOK(info)

CheckFooter ==
  /\ pc = "footer"
  /\ Check(FooterOK(img.info),
           /\ pc' = "parsed"
           /\ UNCHANGED <<img, cur, walk, stack, last, seen, stats, query>>)

-----------------------------------------------------------------------------
(* Queries: fext_tree_lookup(), file_extent_lookup() and                     *)
(* extentref_tree_lookup().                                                  *)

\* init_fext_key(), init_file_extent_key() and init_extref_key()
LookupKey(id, number) ==
  CASE img.type = "fext" -> <<id, 0, number, 0>>
    [] img.type = "catalog" -> <<id, FILE_EXTENT, number, 0>>
    [] img.type = "extentref" -> <<id, EXTENT, 0, 0>>
LookupValLen == CASE img.type = "fext" -> 8 [] img.type = "catalog" -> 12 [] img.type = "extentref" -> 10

\* An attribute of a file that is not sealed may be read while its catalog is
\* being parsed; the other trees are read once they are parsed.  The query
\* begins in the root, which is in memory.  One query is enough: it changes
\* nothing that another reads.
MayLookUp ==
  \/ pc = "parsed" /\ ~Missing /\ img.type \in {"catalog", "extentref", "fext"}
  \/ pc = "record" /\ img.type = "catalog" /\ node_is_leaf(Node(Top.id)) /\ Top.i > 0
StartQuery ==
  /\ MayLookUp /\ query.state = "idle" /\ ~SealedCat
  /\ \E l \in Lookups :
       query' = [NoQuery EXCEPT !.state = "running", !.key = LookupKey(l[1], l[2]),
                                !.node = img.root, !.index = Node(img.root).nkeys, !.back = pc]
  /\ pc' = "bisect"
  /\ UNCHANGED <<img, cur, walk, stack, last, seen, stats>>

DepthOK(depth) == depth < MaxDepth

\* The child was read: the query structure is used again for it.
EnterChild ==
  /\ pc = "enter" /\ Querying
  /\ Check(DepthOK(query.depth + 1),
           /\ query' = [query EXCEPT !.node = cur.id, !.index = Node(cur.id).nkeys,
                                     !.left = 0, !.right = 0, !.cmp = 1, !.depth = @ + 1]
           /\ pc' = "bisect"
           /\ UNCHANGED <<img, cur, walk, stack, last, seen, stats>>)

\* The new middle of the range.
Middle(q, left, right) ==
  IF q.cmp > 0 THEN (left + right) \div 2 ELSE (left + right + 1) \div 2

\* One iteration of the loop of node_query(), on the range of records
\* left..right, which begin at 0.
Bisected(q) ==
  LET left == IF q.cmp > 0 THEN q.left ELSE q.index
      right == IF q.cmp > 0 THEN q.index - 1 ELSE q.right
      index == Middle(q, left, right)
  IN  [q EXCEPT !.left = left, !.right = right, !.index = index,
                !.cmp = keycmp(Key(Node(q.node), index + 1), q.key)]
NothingLeft(q) == q.cmp > 0 /\ q.index - 1 < q.left
\* Mutant: the last two records are not told apart.
BisectingShort(q) == q.cmp # 0 /\ q.left + 1 < q.right
Bisecting(q) == q.cmp # 0 /\ q.left # q.right

\* The record was not found.  A tree of extents of a snapshot is then passed
\* over; the other callers report.
QueryFails ==
  IF img.type # "extentref" THEN Report
  ELSE /\ query' = [query EXCEPT !.state = "failed"] /\ pc' = query.back
       /\ UNCHANGED <<img, cur, walk, stack, last, seen, stats>>

Bisect ==
  /\ pc = "bisect"
  /\ \/ NothingLeft(query) /\ QueryFails
     \/ /\ ~NothingLeft(query)
        /\ LET q == Bisected(query)
               n == Node(query.node)
           IN  Check(/\ KeyInside(n, q.index + 1)
                     /\ KeyOK(img.type, img.hashed, n.keys[q.index + 1], KeyLen(n, q.index + 1)),
                     /\ query' = q
                     /\ pc' = IF Bisecting(q) THEN "bisect" ELSE "bisected"
                     /\ UNCHANGED <<img, cur, walk, stack, last, seen, stats>>)

\* The loop is over: the value is that of the record in a leaf, or the child
\* to search next (child_from_query()).
EndBisection ==
  /\ pc = "bisected"
  /\ LET n == Node(query.node)
         i == query.index + 1
     IN  IF query.cmp > 0 THEN QueryFails
         ELSE \E len \in ValLens(n, i) :
                Check(ValInside(n, i) /\ len = (IF node_is_leaf(n) THEN LookupValLen ELSE 4),
                      IF node_is_leaf(n)
                      THEN /\ query' = [query EXCEPT !.state = "found"] /\ pc' = query.back
                           /\ UNCHANGED <<img, cur, walk, stack, last, seen, stats>>
                      ELSE /\ cur' = Frame(Child(n, i), 0) /\ pc' = "read"
                           /\ UNCHANGED <<img, walk, stack, last, seen, stats, query>>)

Terminated == pc \in {"parsed", "reported"} /\ UNCHANGED vars

Next ==
  \/ StartTree \/ ReadNode \/ WalkKeyList \/ EndKeyList \/ WalkValList \/ EndValList
  \/ EnterNode \/ ReadRecord \/ EndNode \/ CheckFooter
  \/ StartQuery \/ EnterChild \/ Bisect \/ EndBisection
  \/ Terminated

\* The program runs until it exits.
Spec == Init /\ [][Next]_vars /\ WF_vars(Next)

-----------------------------------------------------------------------------
(* What a tree should be, whoever parses it. *)

Accepted == pc = "parsed" /\ ~Missing

Records(n) == 1..n.nkeys
Children(n) == IF node_is_leaf(n) THEN {} ELSE {Child(n, i) : i \in Records(n)}
\* What can be reached from one place, if next gives the places after each.
Reach(start, next) ==
  LET size == Cardinality(DOMAIN next)
      within[d \in 0..size] ==
        IF d = 0 THEN {start}
        ELSE within[d - 1] \cup UNION {next[m] : m \in within[d - 1] \cap DOMAIN next}
  IN  within[size]
\* The nodes of a subtree.
Subtree(id) == Reach(id, [m \in DOMAIN img.nodes |-> Children(Node(m))])
Tree == Subtree(img.root)
\* Records are named by their node and their place in it.
RecordsOf(ids) == UNION {{<<m, i>> : i \in Records(Node(m))} : m \in ids}
LeafRecords(ids) == RecordsOf({m \in ids : node_is_leaf(Node(m))})
KeyOf(r) == Key(Node(r[1]), r[2])

\* The keys of a leaf grow, and those under a record of an index node are from
\* its key, which is the first of them, to the key of the next record.
OrderRight ==
  \A m \in Tree : LET n == Node(m) IN
    \A i \in Records(n) :
      IF node_is_leaf(n)
      THEN i > 1 => keycmp(Key(n, i - 1), Key(n, i)) < 0
      ELSE LET below == {KeyOf(r) : r \in LeafRecords(Subtree(Child(n, i)))}
           IN  /\ Key(n, i) \in below
               /\ \A k \in below : /\ keycmp(Key(n, i), k) <= 0
                                   /\ i < n.nkeys => keycmp(k, Key(n, i + 1)) <= 0
\* Extents of a leaf do not overlap, and the last one of a leaf ends at most in
\* the first block of the next (ExtentRefs shows that this one is a flaw).
ExtentsRight ==
  img.type = "extentref" =>
    \A r, s \in LeafRecords(Tree) :
      KeyOf(r)[1] < KeyOf(s)[1] =>
        KeyOf(r)[1] + Node(r[1]).vals[r[2]].blocks <= KeyOf(s)[1] + (IF r[1] = s[1] THEN 0 ELSE 1)

\* Free space of a node: the entries of a list are those reached from its head.
ListFrom(list, head) == Reach(head.off, [o \in DOMAIN list |-> {list[o].off}])
KeyFreeCells(n, o) == o .. (o + Entry(n.kraw, o).len - 1)
Disjoint(S, cells(_)) == \A a, b \in S : a # b => cells(a) \cap cells(b) = {}
RecordCells(n, i) == ValCells(n, i, Max(ValLens(n, i)))
NoOverrun(n) == \A i \in Records(n) : ~Overruns(n, i, Max(ValLens(n, i)))

\* Records and listed free space share no byte and lie in their areas, and the
\* totals are what the records leave.
SpaceRight(n) ==
  LET ks == {o \in ListFrom(n.kraw, n.kfree) : o # INVALID}
      vs == {o \in ListFrom(n.vraw, n.vfree) : o # INVALID}
      kused == UNION {KeyCells(n, i) : i \in Records(n)}
      vused == UNION {RecordCells(n, i) : i \in Records(n)}
      keyFree(o) == KeyFreeCells(n, o)
      valFree(o) == FreeVal(n, o)
      keyAt(i) == KeyCells(n, i)
      valAt(i) == RecordCells(n, i)
  IN  /\ Disjoint(Records(n), keyAt) /\ kused \subseteq 0..(KeyArea(n) - 1)
      /\ Disjoint(Records(n), valAt) /\ vused \subseteq 0..(ValArea(n) - 1)
      /\ n.kfree.len = KeyArea(n) - Cardinality(kused)
      /\ n.vfree.len = ValArea(n) - Cardinality(vused)
      /\ n.kfree.len > 0 => /\ ks \subseteq DOMAIN n.kraw /\ Disjoint(ks, keyFree)
                            /\ \A o \in ks : keyFree(o) \subseteq (0..(KeyArea(n) - 1)) \ kused
      /\ n.vfree.len > 0 => /\ vs \subseteq DOMAIN n.vraw /\ Disjoint(vs, valFree)
                            /\ \A o \in vs : valFree(o) \subseteq (0..(ValArea(n) - 1)) \ vused

CountsRight ==
  /\ Tree \subseteq DOMAIN img.nodes
  /\ img.info.node_count = Cardinality(Tree)
  /\ img.info.key_count = Cardinality(LeafRecords(Tree))
  \* Each node is the child of one record, and no path is a cycle.
  /\ \A m \in Tree :
       Cardinality({r \in RecordsOf(Tree) : ~node_is_leaf(Node(r[1])) /\ Child(Node(r[1]), r[2]) = m})
         = IF m = img.root THEN 0 ELSE 1

-----------------------------------------------------------------------------
(* Properties *)

\* The comparisons of each key with last_key only are enough: in a tree that
\* parse_subtree() accepts all the keys of a subtree lie between the two keys
\* of its parent, however deep, and extents do not overlap.  Its footer counts
\* the nodes and the keys that can be reached from the root, each by one path.
OrderAccepted == Accepted => OrderRight /\ ExtentsRight /\ CountsRight

\* In each node of an accepted tree the bitmaps of node_compare_bmaps() prove
\* that records and free space tile the areas.  Values over the end of the
\* block are excepted: nothing checks them.
SpaceAccepted == Accepted => \A m \in Tree : NoOverrun(Node(m)) => SpaceRight(Node(m))

\* btree_query(): the bisection in each node finds the record with the last
\* key that is not after the one looked up, and fails only if there is none;
\* also if it ran while the tree, accepted in the end, was being parsed.
QueryFinds ==
  Accepted /\ query.state \in {"found", "failed"} =>
    LET before == {r \in LeafRecords(Tree) : keycmp(KeyOf(r), query.key) <= 0}
    IN  IF query.state = "failed" THEN before = {}
        ELSE /\ <<query.node, query.index + 1>> \in before
             /\ \A r \in before : keycmp(KeyOf(r), KeyOf(<<query.node, query.index + 1>>)) <= 0

\* A tree with nothing wrong in it is parsed to its end, without a report.
ParentsRight ==
  \A m \in Tree : LET n == Node(m) IN
    /\ HeaderOK(n) /\ NodeOK(n) /\ NoOverrun(n) /\ node_is_root(n) = (m = img.root)
    /\ \A c \in Children(n) : /\ Node(c).level = n.level - 1
                              /\ img.type \in PhysicalChecked => Node(c).xid <= n.xid
    /\ \A i \in Records(n) :
         /\ KeyOK(img.type, img.hashed, n.keys[i], KeyLen(n, i))
         /\ img.type = "omap" => Key(n, i)[3] <= n.xid
         /\ ValLens(n, i) = {IF node_is_leaf(n)
                             THEN (IF img.type = "extentref" THEN 10 ELSE Max(ValLens(n, i)))
                             ELSE IF SealedCat THEN 20 ELSE 4}
         /\ SealedCat /\ ~node_is_leaf(n) => Node(Child(n, i)).hash = n.vals[i].hash
         /\ Ghost(n, i) \/ n.toc[i].v \in 1..ValArea(n)
         /\ img.type = "extentref" /\ node_is_leaf(n) => n.vals[i].blocks > 0
\* A list of free space that the walk can follow to its end.
ListsRight(n) ==
  /\ INVALID \in ListFrom(n.kraw, n.kfree) /\ INVALID \in ListFrom(n.vraw, n.vfree)
  /\ n.kfree.len = 0 => n.kfree.off = INVALID
  /\ n.vfree.len = 0 => n.vfree.off = INVALID
  /\ \A o \in ListFrom(n.kraw, n.kfree) \ {INVALID} : Entry(n.kraw, o).len >= NLOC
  /\ \A o \in ListFrom(n.vraw, n.vfree) \ {INVALID} : Entry(n.vraw, o).len \in NLOC..o
FooterRight ==
  /\ FooterFlagsOK(img.info.flags)
  /\ img.info.key_size = (IF img.type \in FixedTrees THEN FixedKeyLen(img.type) ELSE 0)
  /\ img.info.val_size = (IF img.type \in FixedTrees THEN FixedValLen(img.type, TRUE) ELSE 0)
  /\ \A m \in Tree : \A i \in Records(Node(m)) :
       /\ img.info.longest_key >= KeyLen(Node(m), i)
       /\ node_is_leaf(Node(m)) => img.info.longest_val >= Max(ValLens(Node(m), i))
  /\ img.type \in FixedTrees \ {"free_queue"} =>
       img.info.longest_key = FixedKeyLen(img.type) /\ img.info.longest_val = 8
  /\ img.type = "free_queue" => img.info.longest_key = 8
  /\ img.type = "extentref" => img.info.longest_key = 4 /\ img.info.longest_val = 10
\* No two records have the same key, nor do two extents share a block.
NoRepeats ==
  \A r, s \in LeafRecords(Tree) :
    r # s => /\ KeyOf(r) # KeyOf(s)
             /\ img.type = "extentref" /\ KeyOf(r)[1] < KeyOf(s)[1] =>
                  KeyOf(r)[1] + Node(r[1]).vals[r[2]].blocks <= KeyOf(s)[1]
Consistent ==
  /\ img.root # 0 /\ (img.type = "fusion_mt" => img.fusion)
  /\ CountsRight /\ ParentsRight /\ OrderRight /\ NoRepeats /\ FooterRight
  /\ \A m \in Tree : SpaceRight(Node(m)) /\ ListsRight(Node(m))
  /\ SealedCat => Node(img.root).hash = img.root_hash
NoFalseAlarm == pc = "reported" /\ query.state = "idle" => ~Consistent

\* parse_subtree() and btree_query() come to an end, whatever is on disk:
\* lists and children that lead back are met, also by a query that follows
\* pointers not yet checked.
Terminates == <>[](pc \in {"parsed", "reported"})
=============================================================================
