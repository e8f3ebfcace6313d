-------------------------- MODULE ExtentRefs_audit --------------------------
(***************************************************************************)
(* Proofs about what the audit of ExtentRefs concludes: the bitmap and the *)
(* block count agree with the table, the records of a tree do not overlap, *)
(* the searches report only what is missing, and the counts that a pass    *)
(* accepts are the counts of owners.                                       *)
(***************************************************************************)
EXTENDS ExtentRefs_proofs, FiniteSums

-----------------------------------------------------------------------------
(* The table, the bitmap and v_block_count. *)

\* The blocks of the device are finitely many, and so are those marked.
LEMMA UsedFinite ==
  ASSUME TypeOK
  PROVE  IsFiniteSet(used) /\ IsFiniteSet(used \ Reserved)
<1>1. IsFiniteSet(Block)
  <2>1. 0 \in Int /\ DevBlocks - 1 \in Int
    BY DevAssumption DEF DevAssumption
  <2> QED
    BY <2>1, FS_Interval DEF Block
<1>2. used \subseteq Block /\ (used \ Reserved) \subseteq Block
  BY DEF TypeOK
<1> QED
  BY <1>1, <1>2, FS_Subset

\* Only a NEW record changes which blocks the entries cover.
LEMMA CoveredKept ==
  ASSUME Inv, Inv', [Next]_vars, ~ParseRecord
  PROVE  Covered(ext') = Covered(ext)
<1>1. CASE ext' = ext
  BY <1>1 DEF Covered, Covers
<1>2. CASE ApplyUpdate
  BY <1>2, AbstractPiece DEF Abstract!UpdatePiece
<1>3. CASE CountReference
  BY <1>3, AbstractReference DEF Abstract!vars
<1>4. CASE EndPass
  <2>1. ext \in [Block -> Extent] /\ ext' = [b \in Block |-> [ext[b] EXCEPT !.refs = 0]]
    BY <1>4 DEF EndPass, Inv, TypeOK
  <2>2. \A s \in Block : ext'[s].old = ext[s].old /\ ext'[s].blocks = ext[s].blocks
    BY <2>1 DEF Extent
  <2> QED
    BY <2>2 DEF Covered, Covers
<1>5. CASE \/ \E b \in Block : ReadNode(b)
           \/ ParseCatalog
           \/ LookupFail \/ SubextentFail \/ BadCount
  BY <1>1, <1>5
  DEF ReadNode, ParseCatalog, AttachExtent, LookupFail, SubextentFail, BadCount,
      Report, tableVars
<1>6. CASE \/ FinishTree \/ FinishCatalog \/ FinishDstream
           \/ \E d \in Dstreams : FreeDstream(d)
           \/ \E p \in Paddr : CountExtent(p)
  BY <1>1, <1>6
  DEF FinishTree, FinishCatalog, FinishDstream, FreeDstream, CountExtent, tableVars
<1>7. CASE LookupHit \/ LookupMiss \/ SearchBase \/ SkipBlock \/ SkipExtent
  BY <1>1, <1>7
  DEF LookupHit, LookupMiss, SearchBase, SkipBlock, SkipExtent, Report, tableVars
<1>8. CASE UNCHANGED vars
  BY <1>1, <1>8 DEF vars, tableVars
<1> QED
  BY <1>2, <1>3, <1>4, <1>5, <1>6, <1>7, <1>8 DEF Next, Exited

\* Only a NEW record and the read of a node mark blocks.
LEMMA MarksKept ==
  ASSUME Inv, [Next]_vars, ~ParseRecord, ~\E b \in Block : ReadNode(b)
  PROVE  UNCHANGED <<used, block_count, meta>>
<1>1. CASE ApplyUpdate \/ CountReference \/ EndPass
  BY <1>1 DEF ApplyUpdate, CountReference, EndPass, Report, tableVars, histVars
<1>2. CASE \/ ParseCatalog
           \/ LookupFail \/ SubextentFail \/ BadCount
  BY <1>2
  DEF ParseCatalog, AttachExtent, LookupFail, SubextentFail, BadCount,
      Report, tableVars, histVars
<1>3. CASE \/ FinishTree \/ FinishCatalog \/ FinishDstream
           \/ \E d \in Dstreams : FreeDstream(d)
           \/ \E p \in Paddr : CountExtent(p)
  BY <1>3
  DEF FinishTree, FinishCatalog, FinishDstream, FreeDstream, CountExtent, tableVars,
      histVars
<1>4. CASE LookupHit \/ LookupMiss \/ SearchBase \/ SkipBlock \/ SkipExtent
  BY <1>4
  DEF LookupHit, LookupMiss, SearchBase, SkipBlock, SkipExtent, Report, tableVars,
      histVars
<1>5. CASE UNCHANGED vars
  BY <1>5 DEF vars, tableVars, histVars
<1> QED
  BY <1>1, <1>2, <1>3, <1>4, <1>5 DEF Next, Exited

\* A NEW record marks the blocks of its entry, none of which was in use.
LEMMA BitmapNew ==
  ASSUME Inv, Inv', TableMatchesBitmap,
         NEW r \in Record, NEW first \in BOOLEAN, ParseNew(r, first)
  PROVE  TableMatchesBitmap'
<1> DEFINE new == Span(r.paddr, r.len)
<1>1. /\ r.paddr \in Nat /\ r.len \in Nat \ {0} /\ r.paddr + r.len <= DevBlocks
      /\ DevBlocks \in Nat
  BY DevAssumption, BoundAssumption
  DEF ParseNew, Record, Malformed, Markable, Paddr, DevAssumption, BoundAssumption
<1>2. /\ used' = used \cup new /\ new \cap used = {}
      /\ block_count' = block_count + r.len /\ meta' = meta
  BY DEF ParseNew, Markable, histVars
<1>3. Abstract!Range(r.paddr, r.len) = new
  BY <1>1 DEF Abstract!Range, Span, Block
<1>4. Covered(ext') = Covered(ext) \cup new
  BY <1>3, AbstractNew DEF Abstract!New
<1>5. Reserved \subseteq used /\ meta \subseteq used
  BY DEF TableMatchesBitmap
<1>6. used' = Reserved \cup meta' \cup Covered(ext')
  BY <1>2, <1>4 DEF TableMatchesBitmap
<1>7. Covered(ext') \cap (Reserved \cup meta') = {}
  BY <1>2, <1>4, <1>5 DEF TableMatchesBitmap
<1>8. block_count' = Cardinality((used \ Reserved)')
  <2>1. (used \ Reserved)' = (used \ Reserved) \cup new
    BY <1>2, <1>5
  <2>2. IsFiniteSet(used \ Reserved)
    BY UsedFinite DEF Inv
  <2>3. IsFiniteSet(new) /\ Cardinality(new) = r.len
    <3>1. /\ r.paddr \in Int /\ r.paddr + r.len - 1 \in Int
          /\ ~(r.paddr > r.paddr + r.len - 1)
          /\ (r.paddr + r.len - 1) - r.paddr + 1 = r.len
      BY <1>1, SMTT(30)
    <3> QED
      BY <3>1, FS_Interval DEF Span
  <2>4. (used \ Reserved) \cap new = {}
    BY <1>2
  <2>5. Cardinality((used \ Reserved) \cup new) = Cardinality(used \ Reserved) + r.len - 0
    BY <2>2, <2>3, <2>4, FS_Union, FS_EmptySet
  <2>6. block_count = Cardinality(used \ Reserved) /\ block_count \in Nat
    BY DEF TableMatchesBitmap, Inv, TypeOK
  <2>7. block_count' = Cardinality((used \ Reserved) \cup new)
    BY <1>1, <1>2, <2>5, <2>6
  <2> QED
    BY <2>1, <2>7, Zenon
<1> QED
  BY <1>6, <1>7, <1>8 DEF TableMatchesBitmap, Covered, Covers

\* A node that is read is marked, and its block was not in use.
LEMMA BitmapNode ==
  ASSUME Inv, Inv', TableMatchesBitmap, NEW b \in Block, ReadNode(b)
  PROVE  TableMatchesBitmap'
<1>0. CASE Report
  BY <1>0 DEF Report, TableMatchesBitmap, Covered, Covers, tableVars, histVars
<1>1. CASE ~Report
  <2>1. ~ongoing_query
    BY DEF ReadNode, Inv, LoopsOK
  <2>2. /\ used' = used \cup {b} /\ block_count' = block_count + 1
        /\ meta' = meta \cup {b} /\ ext' = ext /\ Markable(b, 1)
    BY <1>1, <2>1 DEF ReadNode
  <2>3. b \notin used
    BY <2>2 DEF Markable, Span, Block
  <2>4. Covered(ext') = Covered(ext)
    BY <2>2 DEF Covered, Covers
  <2>5. used' = Reserved \cup meta' \cup Covered(ext')
    BY <2>2, <2>4 DEF TableMatchesBitmap
  <2>6. Covered(ext') \cap (Reserved \cup meta') = {}
    BY <2>2, <2>3, <2>4 DEF TableMatchesBitmap
  <2>7. block_count' = Cardinality((used \ Reserved)')
    <3>1. (used \ Reserved)' = (used \ Reserved) \cup {b}
      BY <2>2, <2>3 DEF TableMatchesBitmap
    <3>2. IsFiniteSet(used \ Reserved) /\ b \notin used \ Reserved
      BY <2>3, UsedFinite DEF Inv
    <3>3. Cardinality((used \ Reserved) \cup {b}) = Cardinality(used \ Reserved) + 1
      BY <3>2, FS_AddElement
    <3> QED
      BY <2>2, <3>1, <3>3 DEF TableMatchesBitmap
  <2> QED
    BY <2>5, <2>6, <2>7 DEF TableMatchesBitmap, Covered, Covers
<1> QED
  BY <1>0, <1>1

\* The agreement is kept by every step.
LEMMA BitmapNext ==
  ASSUME Inv, Inv', TableMatchesBitmap, [Next]_vars
  PROVE  TableMatchesBitmap'
<1>1. CASE ParseRecord
  <2>1. PICK r \in Record, first \in BOOLEAN :
          RejectRecord(r, first) \/ ParseNew(r, first) \/ ParseUpdate(r, first)
    BY <1>1, BoundAssumption DEF ParseRecord, BoundAssumption
  <2>2. CASE RejectRecord(r, first) \/ ParseUpdate(r, first)
    BY <2>2
    DEF RejectRecord, ParseUpdate, Report, TableMatchesBitmap, Covered, Covers,
        tableVars, histVars
  <2> QED
    BY <2>1, <2>2, BitmapNew
<1>2. CASE \E b \in Block : ReadNode(b)
  BY <1>2, BitmapNode
<1>3. CASE ~ParseRecord /\ ~\E b \in Block : ReadNode(b)
  <2>1. Covered(ext') = Covered(ext) /\ UNCHANGED <<used, block_count, meta>>
    BY <1>3, CoveredKept, MarksKept
  <2> QED
    BY <2>1 DEF TableMatchesBitmap, Covered, Covers
<1> QED
  BY <1>1, <1>2, <1>3

\* For every device, tree, catalog and order of the hash tables: the blocks
\* marked in the bitmap are those of the container, of the nodes read and of
\* the entries, no block is both data and metadata, and v_block_count is the
\* number of blocks that the volume has marked.
THEOREM BitmapMatches == Spec => []TableMatchesBitmap
<1>1. Init => TableMatchesBitmap
  <2> SUFFICES ASSUME Init PROVE TableMatchesBitmap
    OBVIOUS
  <2>1. Covered(ext) = {}
    BY DEF Init, NoExtent, Covered, Covers
  <2>2. used \ Reserved = {}
    BY DEF Init
  <2> QED
    BY <2>1, <2>2, FS_EmptySet DEF Init, TableMatchesBitmap
<1>2. Inv /\ Inv' /\ TableMatchesBitmap /\ [Next]_vars => TableMatchesBitmap'
  BY BitmapNext
<1> QED
  BY <1>1, <1>2, Invariance, PTL DEF Spec

-----------------------------------------------------------------------------
(* The trees that parse_subtree() accepts, and the searches in them and in the *)
(* table.                                                                      *)

\* How many blocks of a record the one after it may repeat: the key that begins
\* a leaf may be the last block of the leaf before it.
Slack == IF TRUE \in LeafBreaks THEN 1 ELSE 0

\* No record of the tree begins before an earlier one ends.
Ordered(recs) ==
  \A i, j \in DOMAIN recs :
    i < j => recs[i].paddr + recs[i].len <= recs[j].paddr + Slack

\* The tree being parsed and those of the snapshots are in order, and last_key
\* is where the last record ends.
TreesOrdered ==
  /\ Ordered(tree)
  /\ \A i \in DOMAIN tree : tree[i].paddr + tree[i].len <= last_key + 1
  /\ \A i \in DOMAIN snap_extrefs : Ordered(snap_extrefs[i])

\* Only a record and the end of a tree change the trees.
LEMMA TreesKept ==
  ASSUME [Next]_vars, ~ParseRecord, ~FinishTree
  PROVE  UNCHANGED <<tree, last_key, snap_extrefs>>
<1>1. CASE ApplyUpdate \/ CountReference \/ EndPass
  BY <1>1 DEF ApplyUpdate, CountReference, EndPass, Report, treeVars
<1>2. CASE \/ \E b \in Block : ReadNode(b)
           \/ ParseCatalog \/ LookupFail \/ SubextentFail \/ BadCount
  BY <1>2
  DEF ReadNode, ParseCatalog, AttachExtent, LookupFail, SubextentFail, BadCount,
      Report, treeVars
<1>3. CASE \/ FinishCatalog \/ FinishDstream
           \/ \E d \in Dstreams : FreeDstream(d)
           \/ \E p \in Paddr : CountExtent(p)
  BY <1>3 DEF FinishCatalog, FinishDstream, FreeDstream, CountExtent, treeVars
<1>4. CASE LookupHit \/ LookupMiss \/ SearchBase \/ SkipBlock \/ SkipExtent
  BY <1>4 DEF LookupHit, LookupMiss, SearchBase, SkipBlock, SkipExtent, Report, treeVars
<1>5. CASE UNCHANGED vars
  BY <1>5 DEF vars, treeVars
<1> QED
  BY <1>1, <1>2, <1>3, <1>4, <1>5 DEF Next, Exited

\* What a query reads of a record is a block number and a length.
LEMMA RangeTypes ==
  ASSUME NEW recs \in Seq(RecordRange), NEW i \in DOMAIN recs
  PROVE  /\ recs[i].paddr \in Nat /\ recs[i].len \in Nat \ {0}
         /\ recs[i].len <= MaxLen
<1>1. recs[i] \in RecordRange
  OBVIOUS
<1> QED
  BY <1>1, DevAssumption, BoundAssumption
  DEF RecordRange, Paddr, DevAssumption, BoundAssumption

\* A record that parse_subtree() accepts begins after the one before it ends.
LEMMA OrderedConsume ==
  ASSUME Inv, TreesOrdered, NEW r \in Record, NEW brk \in LeafBreaks,
         KeyInOrder(r.paddr, brk \/ tree = << >>), r.len # 0, Consume(r)
  PROVE  TreesOrdered'
<1>1. /\ r.paddr \in Nat /\ r.len \in Nat /\ last_key \in Nat
      /\ tree \in Seq(RecordRange)
  BY DevAssumption, BoundAssumption
  DEF Record, Paddr, Inv, TypeOK, DevAssumption, BoundAssumption
<1>2. /\ tree' = Append(tree, RangeOf(r)) /\ last_key' + 1 = r.paddr + r.len
      /\ snap_extrefs' = snap_extrefs
  BY <1>1 DEF Consume
<1>3. /\ DOMAIN tree' = 1 .. (Len(tree) + 1) /\ DOMAIN tree = 1 .. Len(tree)
      /\ Len(tree) \in Nat
      /\ \A i \in DOMAIN tree : tree'[i] = tree[i]
      /\ tree'[Len(tree) + 1] = RangeOf(r)
  BY <1>1, <1>2
<1>4. RangeOf(r).paddr = r.paddr /\ RangeOf(r).len = r.len
  BY DEF RangeOf
<1>5. \A i \in DOMAIN tree : tree[i].paddr \in Nat /\ tree[i].len \in Nat
  BY <1>1, RangeTypes
<1>6. Slack \in Nat /\ (brk => Slack = 1)
  BY BoundAssumption DEF Slack, BoundAssumption
<1>7. tree # << >> => last_key + 1 <= r.paddr + Slack
  BY <1>1, <1>6 DEF KeyInOrder
<1>8. ASSUME NEW i \in DOMAIN tree
      PROVE  tree[i].paddr + tree[i].len <= r.paddr + Slack
  <2>1. tree # << >> /\ tree[i].paddr + tree[i].len <= last_key + 1
    BY <1>1 DEF TreesOrdered
  <2> QED
    BY <1>1, <1>5, <1>6, <1>7, <2>1
<1>9. Ordered(tree)'
  <2>1. \A i, j \in DOMAIN tree' : i < j =>
          tree'[i].paddr + tree'[i].len <= tree'[j].paddr + Slack
    BY <1>3, <1>4, <1>8 DEF TreesOrdered, Ordered
  <2> QED
    BY <2>1 DEF Ordered, Slack
<1>10. \A i \in DOMAIN tree' : tree'[i].paddr + tree'[i].len <= last_key' + 1
  <2>1. ASSUME NEW i \in DOMAIN tree
        PROVE  tree[i].paddr + tree[i].len <= r.paddr + r.len
    <3>1. Slack <= 1
      BY DEF Slack
    <3> QED
      BY <1>1, <1>5, <1>6, <1>8, <3>1
  <2>2. ASSUME NEW i \in DOMAIN tree'
        PROVE  tree'[i].paddr + tree'[i].len <= r.paddr + r.len
    <3>1. CASE i \in DOMAIN tree
      BY <1>3, <2>1, <3>1
    <3>2. CASE i = Len(tree) + 1
      BY <1>1, <1>3, <1>4, <3>2
    <3> QED
      BY <1>3, <3>1, <3>2
  <2> QED
    BY <1>2, <2>2
<1>11. \A i \in DOMAIN snap_extrefs' : Ordered(snap_extrefs[i])'
  BY <1>2 DEF TreesOrdered, Ordered, Slack
<1> QED
  BY <1>9, <1>10, <1>11 DEF TreesOrdered

\* The tree that joins the list of the snapshots' trees is in order.
LEMMA OrderedFinish ==
  ASSUME Inv, TreesOrdered, FinishTree
  PROVE  TreesOrdered'
<1>1. tree' = << >> /\ tree \in Seq(RecordRange) /\ snap_extrefs \in Seq(Seq(RecordRange))
  BY DEF FinishTree, Inv, TypeOK
<1>2. \A i \in DOMAIN snap_extrefs' : Ordered(snap_extrefs'[i])
  <2>1. CASE snap_extrefs' = snap_extrefs
    BY <2>1 DEF TreesOrdered
  <2>2. CASE snap_extrefs' = <<tree>> \o snap_extrefs
    <3>1. \A i \in DOMAIN snap_extrefs' :
             snap_extrefs'[i] = tree
             \/ (i - 1 \in DOMAIN snap_extrefs /\ snap_extrefs'[i] = snap_extrefs[i - 1])
      BY <1>1, <2>2
    <3> QED
      BY <3>1 DEF TreesOrdered
  <2> QED
    BY <2>1, <2>2 DEF FinishTree
<1>3. Ordered(tree)' /\ \A i \in DOMAIN tree' : tree'[i].paddr + tree'[i].len <= last_key' + 1
  BY <1>1 DEF Ordered
<1> QED
  BY <1>2, <1>3 DEF TreesOrdered, Ordered, Slack

\* Every step keeps the records in order.
LEMMA OrderedNext ==
  ASSUME Inv, TreesOrdered, [Next]_vars
  PROVE  TreesOrdered'
<1>1. CASE ParseRecord
  <2>1. PICK r \in Record, brk \in LeafBreaks :
          LET first == brk \/ tree = << >>
          IN  RejectRecord(r, first) \/ ParseNew(r, first) \/ ParseUpdate(r, first)
    BY <1>1 DEF ParseRecord
  <2>2. CASE RejectRecord(r, brk \/ tree = << >>)
    BY <2>2 DEF RejectRecord, Report, treeVars, TreesOrdered, Ordered, Slack
  <2>3. CASE ~RejectRecord(r, brk \/ tree = << >>)
    <3>1. KeyInOrder(r.paddr, brk \/ tree = << >>) /\ r.len # 0 /\ Consume(r)
      BY <2>1, <2>3 DEF ParseNew, ParseUpdate, Malformed
    <3> QED
      BY <3>1, OrderedConsume
  <2> QED
    BY <2>2, <2>3
<1>2. CASE FinishTree
  BY <1>2, OrderedFinish
<1>3. CASE ~ParseRecord /\ ~FinishTree
  BY <1>3, TreesKept DEF TreesOrdered, Ordered, Slack
<1> QED
  BY <1>1, <1>2, <1>3

\* However the records are spread over leaves, the trees stay in order.
THEOREM TreesStayOrdered == Spec => []TreesOrdered
<1>1. Init => TreesOrdered
  BY DEF Init, TreesOrdered, Ordered
<1>2. Inv /\ TreesOrdered /\ [Next]_vars => TreesOrdered'
  BY OrderedNext
<1> QED
  BY <1>1, <1>2, Invariance, PTL DEF Spec

\* A tree of a single leaf that parse_subtree() accepts has no two records that
\* share a block.
THEOREM LeafRecordsDontOverlap ==
  ASSUME TRUE \notin LeafBreaks
  PROVE  Spec => RecordsDontOverlap
<1>1. TreesOrdered /\ Inv =>
        (FinishTree => \A i, j \in DOMAIN tree :
                         i < j => tree[i].paddr + tree[i].len <= tree[j].paddr)
  <2> SUFFICES ASSUME TreesOrdered, Inv, NEW i \in DOMAIN tree, NEW j \in DOMAIN tree, i < j
               PROVE  tree[i].paddr + tree[i].len <= tree[j].paddr
    OBVIOUS
  <2>1. tree[i].paddr + tree[i].len <= tree[j].paddr + 0
    BY DEF TreesOrdered, Ordered, Slack
  <2>2. tree[j].paddr \in Nat
    BY RangeTypes DEF Inv, TypeOK
  <2> QED
    BY <2>1, <2>2
<1> QED
  BY <1>1, Invariance, TreesStayOrdered, PTL DEF RecordsDontOverlap

\* Where a leaf begins with the last block of the leaf before, the two records
\* share that block; no tree that is accepted has more than this ("Physical
\* extents must not overlap" fails by one block at most).
OverlapBounded ==
  [][FinishTree => \A i, j \in DOMAIN tree :
                     i < j => tree[i].paddr + tree[i].len <= tree[j].paddr + 1]_vars

\* With any number of leaves, two records share one block at most.
THEOREM LeavesOverlapBounded == Spec => OverlapBounded
<1>1. TreesOrdered /\ Inv =>
        (FinishTree => \A i, j \in DOMAIN tree :
                         i < j => tree[i].paddr + tree[i].len <= tree[j].paddr + 1)
  <2> SUFFICES ASSUME TreesOrdered, Inv, NEW i \in DOMAIN tree, NEW j \in DOMAIN tree, i < j
               PROVE  tree[i].paddr + tree[i].len <= tree[j].paddr + 1
    OBVIOUS
  <2>1. tree[i].paddr + tree[i].len <= tree[j].paddr + Slack
    BY DEF TreesOrdered, Ordered
  <2>2. tree[j].paddr \in Nat /\ tree[i].paddr \in Nat /\ tree[i].len \in Nat
    BY RangeTypes DEF Inv, TypeOK
  <2>3. Slack \in Nat /\ Slack <= 1
    BY DEF Slack
  <2> QED
    BY <2>1, <2>2, <2>3
<1> QED
  BY <1>1, Invariance, TreesStayOrdered, PTL DEF OverlapBounded

-----------------------------------------------------------------------------
(* The searches. *)

\* The first n blocks of a record at p have entries, and one begins at p.
InTable(e, p, n) ==
  n > 0 => /\ p \in Block /\ e[p].old
           /\ Span(p, n) \subseteq Covered(e)

\* The update of the last record of the tree has reached block b, with n left.
Reached(e, rec, b, n) ==
  /\ rec.paddr + rec.len = b + n
  /\ rec.paddr <= b
  /\ InTable(e, rec.paddr, b - rec.paddr)

\* The records of the tree have entries; that of the update o in progress has
\* them up to the block the update has reached.
TreeInTable(e, recs, o) ==
  \A j \in DOMAIN recs :
    IF o.what = "update" /\ j = Len(recs) THEN Reached(e, recs[j], o.bno, o.left)
    ELSE InTable(e, recs[j].paddr, recs[j].len)

SnapsInTable(e, snaps) ==
  \A i \in DOMAIN snaps : \A j \in DOMAIN snaps[i] :
    InTable(e, snaps[i][j].paddr, snaps[i][j].len)

\* Every record read so far has entries for its blocks.
RecordsInTable == SnapsInTable(ext, snap_extrefs) /\ TreeInTable(ext, tree, op)

\* Does some record of the tree hold block b?
Holds(recs, b) == \E i \in DOMAIN recs : b \in Span(recs[i].paddr, recs[i].len)

\* What a search has ruled out so far.
SearchesOK ==
  /\ pc = "lookup" =>
       /\ op.tree > 0
       /\ \A i \in DOMAIN snap_extrefs : i < op.tree => ~Holds(snap_extrefs[i], op.bno)
  /\ pc = "base" =>
       /\ op.limit \in 1 .. ScanLimit
       /\ \/ /\ op.base + (ScanLimit - op.limit) = op.bno
             /\ \A s \in Block : op.base < s /\ s <= op.bno => ~ext[s].old
          \/ \A s \in Block : s <= op.bno => ~ext[s].old
  /\ pc = "subextent" =>
       /\ \A s \in Block : Covers(ext, s, op.bno) => op.base <= s
       /\ op.what = "update" => op.bno \in Covered(ext)

\* An entry that exists is never removed, and no block ever loses its entry.
LEMMA EntriesStay ==
  ASSUME Inv, Inv', [Next]_vars
  PROVE  /\ \A s \in Block : ext[s].old => ext'[s].old
         /\ Covered(ext) \subseteq Covered(ext')
<1>1. ASSUME ext' = ext PROVE \A s \in Block : ext[s].old => ext'[s].old
  BY <1>1
<1>2. ASSUME NEW f, f = Carve(ext, op.base, op.bno, op.left), Found, op.what # "none",
             \A s \in Block : ext'[s].old = f[s].old
      PROVE  \A s \in Block : ext[s].old => ext'[s].old
  <2>1. ext \in [Block -> Extent] /\ op.base \in Block /\ ext[op.base].old
    BY <1>2, FoundFacts DEF Covers
  <2> QED
    BY <1>2, <2>1, ZenonT(60) DEF Carve, NewExtent, NoExtent, Extent
<1>3. CASE ParseRecord
  <2>1. PICK r \in Record, first \in BOOLEAN :
          RejectRecord(r, first) \/ ParseNew(r, first) \/ ParseUpdate(r, first)
    BY <1>3, BoundAssumption DEF ParseRecord, BoundAssumption
  <2>2. CASE RejectRecord(r, first) \/ ParseUpdate(r, first)
    BY <2>2 DEF RejectRecord, ParseUpdate, Report, tableVars, Covered, Covers
  <2>3. CASE ParseNew(r, first)
    <3>1. Covered(ext) \subseteq Covered(ext')
      BY <2>3, AbstractNew DEF Abstract!New
    <3>2. \A s \in Block : ext[s].old => ext'[s].old
      BY <2>3 DEF ParseNew, NewExtent, NoExtent, Inv, TypeOK
    <3> QED
      BY <3>1, <3>2
  <2> QED
    BY <2>1, <2>2, <2>3
<1>4. CASE ~ParseRecord
  <2>1. Covered(ext') = Covered(ext)
    BY <1>4, CoveredKept
  <2> DEFINE f == Carve(ext, op.base, op.bno, op.left)
  <2>2. CASE ApplyUpdate
    <3>1. /\ Found /\ op.what # "none" /\ op.bno \in Block
          /\ f \in [Block -> Extent]
          /\ ext' = [f EXCEPT ![op.bno].refcnt = (@ + op.diff) % RefMod]
      BY <2>2, FoundFacts, CarveType DEF ApplyUpdate
    <3>2. \A s \in Block : ext'[s].old = f[s].old
      <4> HIDE DEF f
      <4> QED
        BY <3>1 DEF Extent
    <3> QED
      BY <1>2, <2>1, <3>1, <3>2
  <2>3. CASE CountReference /\ ~Report
    <3>1. /\ Found /\ op.what # "none" /\ op.bno \in Block
          /\ f \in [Block -> Extent]
          /\ ext' = [f EXCEPT ![op.bno] = Reference(@, DOwner[cur], DType[cur])]
      BY <2>3, FoundFacts, CarveType DEF CountReference
    <3>2. \A s \in Block : ext'[s].old = f[s].old
      <4> HIDE DEF f
      <4> QED
        BY <3>1 DEF Extent, Reference
    <3> QED
      BY <1>2, <2>1, <3>1, <3>2
  <2>4. CASE EndPass
    BY <2>1, <2>4, ZenonT(60) DEF EndPass, Inv, TypeOK, Extent
  <2>5. CASE ~ApplyUpdate /\ ~(CountReference /\ ~Report) /\ ~EndPass
    <3>1. CASE \/ \E b \in Block : ReadNode(b)
               \/ ParseCatalog \/ LookupFail \/ SubextentFail \/ BadCount \/ Report
      BY <2>1, <3>1
      DEF ReadNode, ParseCatalog, AttachExtent, LookupFail, SubextentFail, BadCount,
          Report, tableVars
    <3>2. CASE \/ FinishTree \/ FinishCatalog \/ FinishDstream
               \/ \E d \in Dstreams : FreeDstream(d)
               \/ \E p \in Paddr : CountExtent(p)
      BY <2>1, <3>2
      DEF FinishTree, FinishCatalog, FinishDstream, FreeDstream, CountExtent, tableVars
    <3>3. CASE LookupHit \/ LookupMiss \/ SearchBase \/ SkipBlock \/ SkipExtent
      BY <2>1, <3>3
      DEF LookupHit, LookupMiss, SearchBase, SkipBlock, SkipExtent, Report, tableVars
    <3>4. CASE UNCHANGED vars
      BY <2>1, <3>4 DEF vars, tableVars
    <3> QED
      BY <1>4, <2>5, <3>1, <3>2, <3>3, <3>4 DEF Next, Exited
  <2> QED
    BY <2>2, <2>3, <2>4, <2>5
<1> QED
  BY <1>3, <1>4

\* So a record whose blocks have entries keeps them.
LEMMA InTableStays ==
  ASSUME Inv, Inv', [Next]_vars, NEW p, NEW n, InTable(ext, p, n)
  PROVE  InTable(ext', p, n)
<1>1. /\ \A s \in Block : ext[s].old => ext'[s].old
      /\ Covered(ext) \subseteq Covered(ext')
  BY EntriesStay
<1> QED
  BY <1>1 DEF InTable

\* Only a record and an iteration of change_extent_refcnts() move the range of
\* an update.
LEMMA UpdateKept ==
  ASSUME Inv, [Next]_vars, ~ParseRecord, ~ApplyUpdate
  PROVE  \/ op.what # "update" /\ op'.what # "update"
         \/ op'.what = op.what /\ op'.bno = op.bno /\ op'.left = op.left
<1>1. CASE op' = op
  BY <1>1
<1>2. CASE \/ \E b \in Block : ReadNode(b)
           \/ ParseCatalog \/ LookupFail \/ SubextentFail \/ BadCount \/ EndPass
  BY <1>1, <1>2
  DEF ReadNode, ParseCatalog, AttachExtent, LookupFail, SubextentFail, BadCount,
      EndPass, Report
<1>3. CASE FinishTree \/ FinishCatalog \/ FinishDstream \/ \E d \in Dstreams : FreeDstream(d)
  BY <1>1, <1>3 DEF FinishTree, FinishCatalog, FinishDstream, FreeDstream
<1>4. CASE \E p \in Paddr : CountExtent(p)
  BY <1>4 DEF CountExtent, StartRange, Inv, LoopsOK
<1>5. CASE CountReference
  BY <1>1, <1>5 DEF CountReference, Report, Advance, StartRange, NoOp
<1>6. CASE LookupHit \/ LookupMiss \/ SearchBase \/ SkipBlock \/ SkipExtent
  <2>1. \/ op' = op
        \/ \E x : op' = [op EXCEPT !.base = x]
        \/ \E x : op' = [op EXCEPT !.tree = x]
        \/ \E x, l : op' = [op EXCEPT !.limit = l, !.base = x]
    BY <1>6 DEF LookupHit, LookupMiss, SearchBase, SkipBlock, SkipExtent, Report
  <2>2. op \in Operation
    BY DEF Inv, TypeOK
  <2> QED
    BY <2>1, <2>2 DEF Operation
<1>7. CASE UNCHANGED vars
  BY <1>1, <1>7 DEF vars
<1> QED
  BY <1>2, <1>3, <1>4, <1>5, <1>6, <1>7 DEF Next, Exited

\* An accepted NEW record has its entry.
LEMMA NewInTable ==
  ASSUME Inv, Inv', NEW r \in Record, NEW first \in BOOLEAN, ParseNew(r, first)
  PROVE  InTable(ext', r.paddr, r.len)
<1>1. /\ r.paddr \in Nat /\ r.len \in Nat \ {0} /\ r.paddr + r.len <= DevBlocks
      /\ DevBlocks \in Nat
  BY DevAssumption, BoundAssumption
  DEF ParseNew, Record, Malformed, Markable, Paddr, DevAssumption, BoundAssumption
<1>2. r.paddr \in Block /\ Abstract!Range(r.paddr, r.len) = Span(r.paddr, r.len)
  BY <1>1 DEF Abstract!Range, Span, Block
<1>3. Span(r.paddr, r.len) \subseteq Covered(ext')
  BY <1>2, AbstractNew DEF Abstract!New
<1>4. ext'[r.paddr].old
  BY <1>2 DEF ParseNew, NewExtent, NoExtent, Inv, TypeOK
<1> QED
  BY <1>2, <1>3, <1>4 DEF InTable

\* An iteration of change_extent_refcnts() finds the entries of its piece, and
\* leaves one that begins where the piece does.
LEMMA PieceInTable ==
  ASSUME Inv, Inv', ApplyUpdate
  PROVE  LET p == PartLen(ext, op.base, op.bno, op.left)
         IN  /\ p \in Nat \ {0} /\ p <= op.left /\ op.bno \in Block
             /\ InTable(ext', op.bno, p)
<1> DEFINE p == PartLen(ext, op.base, op.bno, op.left)
           f == Carve(ext, op.base, op.bno, op.left)
<1>1. /\ Found /\ op.what # "none" /\ op.bno \in Block /\ op.bno \in Nat
      /\ ext \in [Block -> Extent] /\ op.base \in Block /\ Covers(ext, op.base, op.bno)
      /\ op.left \in Nat \ {0} /\ op \in Operation
  BY FoundFacts DEF ApplyUpdate, Block
<1>2. p \in Nat \ {0} /\ p <= op.left /\ (op.bno - op.base) + p <= ext[op.base].blocks
  BY <1>1, PartLenBounds
<1>3. f \in [Block -> Extent] /\ f[op.bno].old
  <2>1. f \in [Block -> Extent]
    BY <1>1, CarveType
  <2>2. f[op.bno].old
    BY <1>1 DEF Carve, NewExtent, NoExtent, Extent, Covers
  <2> QED
    BY <2>1, <2>2
<1>4. ext'[op.bno].old
  <2>1. ext' = [f EXCEPT ![op.bno].refcnt = (@ + op.diff) % RefMod]
    BY DEF ApplyUpdate
  <2> HIDE DEF f
  <2> QED
    BY <1>1, <1>3, <2>1 DEF Extent
<1>5. Abstract!Range(op.bno, p) \subseteq Covered(ext)
  BY AbstractPiece DEF Abstract!UpdatePiece, Updating, ApplyUpdate
<1>6. Span(op.bno, p) = Abstract!Range(op.bno, p)
  <2>1. /\ op.base \in Nat /\ ext[op.base].blocks \in Nat /\ DevBlocks \in Nat
        /\ op.base + ext[op.base].blocks <= DevBlocks
    BY <1>1, DevAssumption
    DEF Inv, ExtentsDisjoint, Disjoint, Covers, Block, Extent, DevAssumption
  <2>2. op.bno + p <= DevBlocks
    BY <1>1, <1>2, <2>1
  <2> QED
    BY <1>1, <1>2, <2>1, <2>2, SMTT(30) DEF Abstract!Range, Span, Block
<1>7. Covered(ext') = Covered(ext)
  BY AbstractPiece DEF Abstract!UpdatePiece
<1> QED
  BY <1>1, <1>2, <1>4, <1>5, <1>6, <1>7 DEF InTable

\* Two stretches of blocks with entries, one after the other, are one.
LEMMA InTableJoin ==
  ASSUME NEW e, NEW p \in Nat, NEW m \in Nat, NEW n \in Nat \ {0},
         InTable(e, p, m), InTable(e, p + m, n)
  PROVE  InTable(e, p, m + n)
<1>1. CASE m = 0
  BY <1>1
<1>2. CASE m > 0
  <2>1. \A c \in Span(p, m + n) : c \in Span(p, m) \/ c \in Span(p + m, n)
    BY DEF Span
  <2> QED
    BY <1>2, <2>1 DEF InTable
<1> QED
  BY <1>1, <1>2
\* Another record, with the records before it complete.
LEMMA TreeGrows ==
  ASSUME Inv, Inv', [Next]_vars, TreeInTable(ext, tree, op), op.what # "update",
         NEW r \in Record, Consume(r),
         IF op'.what = "update" THEN Reached(ext', RangeOf(r), op'.bno, op'.left)
         ELSE InTable(ext', r.paddr, r.len)
  PROVE  TreeInTable(ext', tree', op')
<1>1. tree \in Seq(RecordRange) /\ tree' = Append(tree, RangeOf(r))
  BY DEF Inv, TypeOK, Consume
<1>2. /\ DOMAIN tree' = 1 .. (Len(tree) + 1) /\ DOMAIN tree = 1 .. Len(tree)
      /\ Len(tree) \in Nat /\ Len(tree') = Len(tree) + 1
      /\ \A i \in DOMAIN tree : tree'[i] = tree[i]
      /\ tree'[Len(tree) + 1] = RangeOf(r)
  BY <1>1
<1>3. ASSUME NEW j \in DOMAIN tree
      PROVE  InTable(ext', tree[j].paddr, tree[j].len)
  <2>1. InTable(ext, tree[j].paddr, tree[j].len)
    BY DEF TreeInTable
  <2> QED
    BY <2>1, InTableStays
<1>4. RangeOf(r).paddr = r.paddr /\ RangeOf(r).len = r.len
  BY DEF RangeOf
<1>5. ASSUME NEW j \in DOMAIN tree'
      PROVE  IF op'.what = "update" /\ j = Len(tree')
             THEN Reached(ext', tree'[j], op'.bno, op'.left)
             ELSE InTable(ext', tree'[j].paddr, tree'[j].len)
  <2>1. CASE j \in DOMAIN tree
    <3>1. j # Len(tree') /\ tree'[j] = tree[j]
      BY <1>2, <2>1
    <3> QED
      BY <1>3, <2>1, <3>1
  <2>2. CASE j = Len(tree) + 1
    BY <1>2, <1>4, <2>2
  <2> QED
    BY <1>2, <2>1, <2>2
<1> QED
  BY <1>5 DEF TreeInTable

\* A record that is read has its entries, or its update begins.
LEMMA InTableRecord ==
  ASSUME Inv, Inv', RecordsInTable, [Next]_vars, ParseRecord
  PROVE  RecordsInTable'
<1>1. PICK r \in Record, first \in BOOLEAN :
        RejectRecord(r, first) \/ ParseNew(r, first) \/ ParseUpdate(r, first)
  BY BoundAssumption DEF ParseRecord, BoundAssumption
<1>2. CASE RejectRecord(r, first)
  BY <1>2 DEF RejectRecord, Report, tableVars, treeVars, RecordsInTable
<1>3. ASSUME Consume(r) PROVE SnapsInTable(ext', snap_extrefs')
  <2>1. snap_extrefs' = snap_extrefs
    BY <1>3 DEF Consume
  <2> QED
    BY <2>1, InTableStays DEF RecordsInTable, SnapsInTable
<1>4. CASE ParseNew(r, first)
  <2>1. Consume(r) /\ op' = op /\ op.what # "update"
    BY <1>4 DEF ParseNew, Inv, LoopsOK
  <2>2. InTable(ext', r.paddr, r.len)
    BY <1>4, NewInTable
  <2> QED
    BY <1>3, <2>1, <2>2, TreeGrows DEF RecordsInTable
<1>5. CASE ParseUpdate(r, first)
  <2>1. /\ Consume(r) /\ op.what # "update"
        /\ op'.what = "update" /\ op'.bno = r.paddr /\ op'.left = r.len
    BY <1>5 DEF ParseUpdate, StartRange, Inv, LoopsOK
  <2>2. r.paddr \in Nat /\ r.len \in Nat
    BY DevAssumption, BoundAssumption
    DEF Record, Paddr, DevAssumption, BoundAssumption
  <2>3. Reached(ext', RangeOf(r), op'.bno, op'.left)
    BY <2>1, <2>2 DEF Reached, RangeOf, InTable
  <2> QED
    BY <1>3, <2>1, <2>3, TreeGrows DEF RecordsInTable
<1> QED
  BY <1>1, <1>2, <1>4, <1>5

\* The piece that is updated joins the blocks that the update has reached.
LEMMA InTableUpdate ==
  ASSUME Inv, Inv', RecordsInTable, ApplyUpdate
  PROVE  RecordsInTable'
<1> DEFINE n == PartLen(ext, op.base, op.bno, op.left)
<1>0. [Next]_vars /\ ~ParseRecord /\ ~FinishTree
  BY DEF ApplyUpdate, Found, Next, ParseRecord, RejectRecord, ParseNew, ParseUpdate,
         FinishTree
<1>1. UNCHANGED <<tree, snap_extrefs>> /\ op.what = "update"
  BY DEF ApplyUpdate, treeVars
<1>2. SnapsInTable(ext', snap_extrefs')
  BY <1>0, <1>1, InTableStays DEF RecordsInTable, SnapsInTable
<1>3. /\ n \in Nat \ {0} /\ n <= op.left /\ InTable(ext', op.bno, n)
      /\ op.bno \in Nat /\ op.left \in Nat
  BY PieceInTable DEF Inv, TypeOK, Operation
<1>4. Advance(n)
  BY DEF ApplyUpdate
<1> HIDE DEF n
<1>5. IF op.left = n THEN op'.what = "none"
      ELSE /\ op'.what = "update" /\ op'.bno = op.bno + n /\ op'.left = op.left - n
  BY <1>1, <1>4 DEF Advance, StartRange, NoOp
<1>6. tree \in Seq(RecordRange)
  BY DEF Inv, TypeOK
<1>7. ASSUME NEW j \in DOMAIN tree
      PROVE  IF op'.what = "update" /\ j = Len(tree)
             THEN Reached(ext', tree[j], op'.bno, op'.left)
             ELSE InTable(ext', tree[j].paddr, tree[j].len)
  <2> DEFINE p == tree[j].paddr
             l == tree[j].len
  <2>1. p \in Nat /\ l \in Nat \ {0}
    BY <1>6, RangeTypes
  <2>2. CASE j = Len(tree)
    <3>1. Reached(ext, tree[j], op.bno, op.left)
      BY <1>1, <2>2 DEF RecordsInTable, TreeInTable
    <3>2. p + l = op.bno + op.left /\ p <= op.bno /\ InTable(ext, p, op.bno - p)
      BY <3>1 DEF Reached
    <3>3. InTable(ext', p, op.bno - p)
      BY <1>0, <3>2, InTableStays
    <3>4. op.bno - p \in Nat /\ p + (op.bno - p) = op.bno
      BY <1>3, <2>1, <3>2
    <3>5. InTable(ext', p, (op.bno - p) + n)
      <4>1. InTable(ext', p + (op.bno - p), n)
        BY <1>3, <3>4
      <4> HIDE DEF p
      <4> QED
        BY <1>3, <2>1, <3>3, <3>4, <4>1, InTableJoin
    <3>6. CASE op.left = n
      <4>1. (op.bno - p) + n = l
        BY <1>3, <2>1, <3>2, <3>6
      <4> QED
        BY <1>5, <3>5, <3>6, <4>1
    <3>7. CASE op.left # n
      <4>1. /\ (op.bno + n) - p = (op.bno - p) + n /\ p <= op.bno + n
            /\ p + l = (op.bno + n) + (op.left - n)
        BY <1>3, <2>1, <3>2
      <4>2. InTable(ext', p, (op.bno + n) - p)
        BY <3>5, <4>1, Zenon
      <4>3. Reached(ext', tree[j], op.bno + n, op.left - n)
        BY <4>1, <4>2 DEF Reached
      <4> QED
        BY <1>5, <2>2, <3>7, <4>3
    <3> QED
      BY <3>6, <3>7
  <2>3. CASE j # Len(tree)
    <3>1. InTable(ext, p, l)
      BY <2>3 DEF RecordsInTable, TreeInTable
    <3> QED
      BY <1>0, <2>3, <3>1, InTableStays
  <2> QED
    BY <2>2, <2>3
<1>8. TreeInTable(ext', tree', op')
  BY <1>1, <1>7 DEF TreeInTable
<1> QED
  BY <1>2, <1>8 DEF RecordsInTable

\* Every step keeps the records in the table.
LEMMA InTableNext ==
  ASSUME Inv, Inv', RecordsInTable, [Next]_vars
  PROVE  RecordsInTable'
<1>1. CASE ParseRecord
  BY <1>1, InTableRecord
<1>2. CASE ApplyUpdate
  BY <1>2, InTableUpdate
<1>3. CASE FinishTree
  <2>1. /\ op.what = "none" /\ tree' = << >> /\ tree \in Seq(RecordRange)
        /\ snap_extrefs \in Seq(Seq(RecordRange))
    BY <1>3 DEF FinishTree, Inv, LoopsOK, TypeOK
  <2>2. ASSUME NEW i \in DOMAIN snap_extrefs', NEW j \in DOMAIN snap_extrefs'[i]
        PROVE  InTable(ext', snap_extrefs'[i][j].paddr, snap_extrefs'[i][j].len)
    <3>1. \/ snap_extrefs'[i] = tree
          \/ i \in DOMAIN snap_extrefs /\ snap_extrefs'[i] = snap_extrefs[i]
          \/ i - 1 \in DOMAIN snap_extrefs /\ snap_extrefs'[i] = snap_extrefs[i - 1]
      <4>1. CASE snap_extrefs' = snap_extrefs
        BY <4>1
      <4>2. CASE snap_extrefs' = <<tree>> \o snap_extrefs
        BY <2>1, <4>2
      <4> QED
        BY <1>3, <4>1, <4>2 DEF FinishTree
    <3>2. InTable(ext, snap_extrefs'[i][j].paddr, snap_extrefs'[i][j].len)
      BY <2>1, <2>2, <3>1 DEF RecordsInTable, TreeInTable, SnapsInTable
    <3> QED
      BY <3>2, InTableStays
  <2>3. SnapsInTable(ext', snap_extrefs')
    BY <2>2 DEF SnapsInTable
  <2>4. TreeInTable(ext', tree', op')
    BY <2>1 DEF TreeInTable
  <2> QED
    BY <2>3, <2>4 DEF RecordsInTable
<1>4. CASE ~ParseRecord /\ ~ApplyUpdate /\ ~FinishTree
  <2>1. UNCHANGED <<tree, snap_extrefs>>
    BY <1>4, TreesKept
  <2>2. \/ op.what # "update" /\ op'.what # "update"
        \/ op'.what = op.what /\ op'.bno = op.bno /\ op'.left = op.left
    BY <1>4, UpdateKept
  <2>3. \A p, n : InTable(ext, p, n) => InTable(ext', p, n)
    BY InTableStays
  <2>4. SnapsInTable(ext', snap_extrefs')
    BY <2>1, <2>3 DEF RecordsInTable, SnapsInTable
  <2>5. TreeInTable(ext', tree', op')
    BY <2>1, <2>2, <2>3 DEF RecordsInTable, TreeInTable, Reached
  <2> QED
    BY <2>4, <2>5 DEF RecordsInTable
<1> QED
  BY <1>1, <1>2, <1>3, <1>4

\* The snapshot's tree that a lookup passes over has no record of the block.
LEMMA MissMeansMissing ==
  ASSUME NEW recs \in Seq(RecordRange), NEW b \in Nat, Ordered(recs), Slack = 0,
         \/ BestMatch(recs, b) = {}
         \/ \E i \in BestMatch(recs, b) : recs[i].paddr + recs[i].len <= b
  PROVE  ~Holds(recs, b)
<1> SUFFICES ASSUME NEW j \in DOMAIN recs, b \in Span(recs[j].paddr, recs[j].len)
             PROVE  FALSE
  BY DEF Holds
<1>1. \A i \in DOMAIN recs : recs[i].paddr \in Nat /\ recs[i].len \in Nat \ {0}
  BY RangeTypes
<1>2. recs[j].paddr <= b /\ b < recs[j].paddr + recs[j].len
  BY <1>1 DEF Span
<1>3. \A i, k \in DOMAIN recs : i < k => recs[i].paddr + recs[i].len <= recs[k].paddr
  BY <1>1 DEF Ordered
<1>4. DOMAIN recs = 1 .. Len(recs) /\ Len(recs) \in Nat
  OBVIOUS
<1>5. CASE BestMatch(recs, b) = {}
  <2> DEFINE T == {i \in DOMAIN recs : recs[i].paddr <= b}
  <2>1. T \subseteq Nat /\ T # {} /\ \A i \in T : i <= Len(recs)
    BY <1>2, <1>4
  <2>2. PICK i \in T : \A k \in T : k <= i
    BY <1>4, <2>1, GreatestNat
  <2>3. \A k \in DOMAIN recs : recs[k].paddr <= b => recs[k].paddr <= recs[i].paddr
    <3> SUFFICES ASSUME NEW k \in DOMAIN recs, recs[k].paddr <= b
                 PROVE  recs[k].paddr <= recs[i].paddr
      OBVIOUS
    <3>1. k <= i /\ k \in Nat /\ i \in Nat /\ i \in DOMAIN recs
      BY <1>4, <2>2
    <3>2. k = i \/ k < i
      BY <3>1
    <3>3. k < i => recs[k].paddr + recs[k].len <= recs[i].paddr
      BY <1>3, <3>1
    <3>4. /\ recs[k].paddr \in Nat /\ recs[i].paddr \in Nat /\ recs[k].len \in Nat
      BY <1>1, <3>1
    <3> QED
      BY <3>2, <3>3, <3>4
  <2>4. i \in BestMatch(recs, b)
    BY <2>2, <2>3 DEF BestMatch
  <2> QED
    BY <1>5, <2>4
<1>6. CASE \E i \in BestMatch(recs, b) : recs[i].paddr + recs[i].len <= b
  <2>1. PICK i \in DOMAIN recs : /\ recs[j].paddr <= recs[i].paddr
                                 /\ recs[i].paddr + recs[i].len <= b
                                 /\ recs[i].paddr <= b
    BY <1>2, <1>6 DEF BestMatch
  <2>2. i \in Nat /\ j \in Nat
    BY <1>4
  <2>3. /\ i < j => recs[i].paddr + recs[i].len <= recs[j].paddr
        /\ j < i => recs[j].paddr + recs[j].len <= recs[i].paddr
    BY <1>3
  <2>4. /\ recs[i].paddr \in Nat /\ recs[i].len \in Nat \ {0}
        /\ recs[j].paddr \in Nat /\ recs[j].len \in Nat \ {0}
    BY <1>1
  <2>5. i < j \/ j < i \/ i = j
    BY <2>2
  <2> QED
    BY <1>2, <2>1, <2>3, <2>4, <2>5
<1> QED
  BY <1>5, <1>6

\* A search that starts has ruled out nothing.
LEMMA SearchStarts ==
  ASSUME Inv, NEW w \in {"update", "ref"}, NEW b \in Nat, NEW n, NEW d,
         StartRange(w, b, n, d), snap_extrefs' \in Seq(Seq(RecordRange))
  PROVE  SearchesOK'
<1>1. ScanLimit \in Nat \ {0}
  BY DevAssumption DEF DevAssumption
<1>2. /\ op'.bno = b /\ op'.base = b /\ op'.limit = ScanLimit /\ op'.tree = 1
      /\ pc' \in {"lookup", "base"}
  BY DEF StartRange, Again
<1>3. \A i \in DOMAIN snap_extrefs' : ~(i < 1)
  OBVIOUS
<1>4. \A s \in Block : s \in Nat
  BY DEF Block
<1>5. pc' = "base" => /\ op'.limit \in 1 .. ScanLimit
                      /\ op'.base + (ScanLimit - op'.limit) = op'.bno
                      /\ \A s \in Block : op'.base < s /\ s <= op'.bno => ~ext'[s].old
  BY <1>1, <1>2, <1>4
<1> QED
  BY <1>2, <1>3, <1>5 DEF SearchesOK

\* The block that a lookup finds has an entry, at or after the record's block.
LEMMA SearchHit ==
  ASSUME Inv, RecordsInTable, LookupHit
  PROVE  SearchesOK'
<1>1. PICK i \in BestMatch(snap_extrefs[op.tree], op.bno) :
        LET r == snap_extrefs[op.tree][i]
        IN  op.bno < r.paddr + r.len /\ op' = [op EXCEPT !.base = r.paddr]
  BY DEF LookupHit
<1> DEFINE r == snap_extrefs[op.tree][i]
<1>2. /\ op.tree \in DOMAIN snap_extrefs /\ i \in DOMAIN snap_extrefs[op.tree]
      /\ r.paddr <= op.bno
  BY <1>1 DEF LookupHit, BestMatch
<1>3. /\ snap_extrefs[op.tree] \in Seq(RecordRange) /\ op \in Operation
      /\ ext \in [Block -> Extent] /\ op.bno \in Nat
  BY <1>2 DEF Inv, TypeOK, Operation
<1>4. r.paddr \in Nat /\ r.len \in Nat \ {0}
  BY <1>2, <1>3, RangeTypes
<1>5. InTable(ext, r.paddr, r.len)
  BY <1>2 DEF RecordsInTable, SnapsInTable
<1> HIDE DEF r
<1>6. r.paddr \in Block /\ ext[r.paddr].old /\ op.bno \in Covered(ext)
  <2>1. op.bno \in Span(r.paddr, r.len)
    BY <1>1, <1>2, <1>3, <1>4 DEF Span, r
  <2> QED
    BY <1>4, <1>5, <2>1 DEF InTable
<1>7. ASSUME NEW s \in Block, Covers(ext, s, op.bno) PROVE r.paddr <= s
  <2>1. s \in Nat /\ ext[s].blocks \in Nat /\ ext[s].old /\ op.bno < s + ext[s].blocks
    BY <1>3, <1>7 DEF Covers, Extent, Block
  <2>2. s < r.paddr => s + ext[s].blocks <= r.paddr
    BY <1>6, <2>1 DEF Inv, ExtentsDisjoint, Disjoint
  <2> QED
    BY <1>2, <1>3, <1>4, <2>1, <2>2
<1>8. /\ pc' = "subextent" /\ op'.base = r.paddr /\ op'.bno = op.bno /\ ext' = ext
  BY <1>1, <1>3 DEF LookupHit, tableVars, Operation, r
<1>9. /\ \A s \in Block : Covers(ext', s, op'.bno) => op'.base <= s
      /\ op'.bno \in Covered(ext')
  BY <1>6, <1>7, <1>8
<1> QED
  BY <1>8, <1>9 DEF SearchesOK

\* One more tree has no record of the block.
LEMMA SearchMiss ==
  ASSUME Inv, SearchesOK, TreesOrdered, Slack = 0, LookupMiss
  PROVE  SearchesOK'
<1> DEFINE recs == snap_extrefs[op.tree]
<1>1. /\ pc = "lookup" /\ pc' = pc /\ op.tree \in DOMAIN snap_extrefs
      /\ op' = [op EXCEPT !.tree = op.tree + 1] /\ snap_extrefs' = snap_extrefs
      /\ \/ BestMatch(recs, op.bno) = {}
         \/ \E i \in BestMatch(recs, op.bno) : recs[i].paddr + recs[i].len <= op.bno
  BY DEF LookupMiss, treeVars
<1>2. /\ op \in Operation /\ op.bno \in Nat /\ op.tree \in Nat
      /\ recs \in Seq(RecordRange) /\ Ordered(recs) /\ snap_extrefs \in Seq(Seq(RecordRange))
  BY <1>1 DEF Inv, TypeOK, Operation, TreesOrdered
<1>3. ~Holds(recs, op.bno)
  <2> HIDE DEF recs
  <2> QED
    BY <1>1, <1>2, MissMeansMissing
<1>4. op'.tree = op.tree + 1 /\ op'.bno = op.bno
  BY <1>1, <1>2 DEF Operation
<1>5. \A i \in DOMAIN snap_extrefs : i < op.tree => ~Holds(snap_extrefs[i], op.bno)
  BY <1>1 DEF SearchesOK
<1>6. \A i \in DOMAIN snap_extrefs : i < op.tree + 1 => ~Holds(snap_extrefs[i], op.bno)
  <2> SUFFICES ASSUME NEW i \in DOMAIN snap_extrefs, i < op.tree + 1
               PROVE  ~Holds(snap_extrefs[i], op.bno)
    OBVIOUS
  <2>1. i \in Nat
    BY <1>2
  <2>2. i < op.tree \/ i = op.tree
    BY <1>2, <2>1
  <2> QED
    BY <1>3, <1>5, <2>2
<1>7. op'.tree > 0
  BY <1>2, <1>4
<1> QED
  BY <1>1, <1>4, <1>6, <1>7 DEF SearchesOK

\* The search backwards has passed over blocks where no entry begins; one that
\* goes below block 0 has passed over all that could cover the block.
LEMMA SearchBack ==
  ASSUME Inv, SearchesOK, SearchBase, pc' # "reported"
  PROVE  SearchesOK'
<1>1. /\ op \in Operation /\ op.base \in Nat /\ op.bno \in Nat /\ op.limit \in Nat
      /\ ScanLimit \in Nat \ {0} /\ ext \in [Block -> Extent] /\ ext' = ext
      /\ \A s \in Block : s \in Nat /\ ext[s].blocks \in Nat
  <2>1. op \in Operation /\ ext \in [Block -> Extent]
    BY DEF Inv, TypeOK
  <2>2. \A s \in Block : s \in Nat /\ ext[s].blocks \in Nat
    BY <2>1 DEF Extent, Block
  <2> QED
    BY <2>1, <2>2, DevAssumption
    DEF Operation, DevAssumption, SearchBase, tableVars, Report
<1>2. /\ pc = "base" /\ op.what = "ref" /\ op.limit \in 1 .. ScanLimit
      /\ \/ /\ op.base + (ScanLimit - op.limit) = op.bno
            /\ \A s \in Block : op.base < s /\ s <= op.bno => ~ext[s].old
         \/ \A s \in Block : s <= op.bno => ~ext[s].old
  BY DEF SearchesOK, SearchBase, Inv, LoopsOK
<1>3. CASE Exists(op.base)
  <2>1. pc' = "subextent" /\ op' = op
    BY <1>3 DEF SearchBase, Report
  <2>2. ASSUME NEW s \in Block, Covers(ext, s, op.bno) PROVE op.base <= s
    <3>1. s <= op.bno /\ ext[s].old /\ op.bno < s + ext[s].blocks
      BY <2>2 DEF Covers
    <3>2. op.base <= op.bno
      BY <1>1, <1>2, <3>1
    <3>3. s < op.base => s + ext[s].blocks <= op.base
      BY <1>3, <3>1 DEF Exists, Inv, ExtentsDisjoint, Disjoint
    <3> QED
      BY <1>1, <3>1, <3>2, <3>3
  <2> QED
    BY <1>1, <1>2, <2>1, <2>2 DEF SearchesOK
<1>4. CASE ~Exists(op.base)
  <2>1. /\ op.limit > 1 /\ pc' = pc
        /\ op' = [op EXCEPT !.limit = op.limit - 1,
                            !.base = IF op.base = 0 THEN MaxAddr ELSE op.base - 1]
    BY <1>4 DEF SearchBase, Report
  <2>2. /\ op'.limit = op.limit - 1 /\ op'.bno = op.bno
        /\ op'.base = IF op.base = 0 THEN MaxAddr ELSE op.base - 1
    BY <1>1, <2>1 DEF Operation
  <2>3. \A s \in Block : s = op.base => ~ext[s].old
    BY <1>4 DEF Exists
  <2>4. op'.limit \in 1 .. ScanLimit
    BY <1>1, <1>2, <2>1, <2>2
  <2>5. \/ /\ op'.base + (ScanLimit - op'.limit) = op'.bno
           /\ \A s \in Block : op'.base < s /\ s <= op'.bno => ~ext'[s].old
        \/ \A s \in Block : s <= op'.bno => ~ext'[s].old
    <3>1. CASE \A s \in Block : s <= op.bno => ~ext[s].old
      BY <1>1, <2>2, <3>1
    <3>2. CASE /\ op.base = 0
               /\ \A s \in Block : op.base < s /\ s <= op.bno => ~ext[s].old
      <4>1. \A s \in Block : s <= op.bno => ~ext[s].old
        BY <1>1, <2>3, <3>2
      <4> QED
        BY <1>1, <2>2, <4>1
    <3>3. CASE /\ op.base # 0 /\ op.base + (ScanLimit - op.limit) = op.bno
               /\ \A s \in Block : op.base < s /\ s <= op.bno => ~ext[s].old
      <4>1. op'.base = op.base - 1 /\ op'.base + (ScanLimit - op'.limit) = op'.bno
        BY <1>1, <2>2, <3>3
      <4>2. \A s \in Block : op.base - 1 < s => s = op.base \/ op.base < s
        BY <1>1
      <4>3. \A s \in Block : op.base - 1 < s /\ s <= op.bno => ~ext[s].old
        BY <2>3, <3>3, <4>2
      <4> QED
        BY <1>1, <2>2, <4>1, <4>3
    <3> QED
      BY <1>2, <3>1, <3>2, <3>3
  <2> QED
    BY <1>2, <2>1, <2>4, <2>5 DEF SearchesOK
<1> QED
  BY <1>3, <1>4

\* The search forward never passes over the entry of the block.
LEMMA SearchForward ==
  ASSUME Inv, SearchesOK, SkipBlock \/ SkipExtent
  PROVE  SearchesOK'
<1>1. /\ op \in Operation /\ op.base \in Nat /\ op.bno \in Nat
      /\ ext \in [Block -> Extent]
  BY DEF Inv, TypeOK, Operation
<1>2. /\ pc = "subextent" /\ pc' = pc /\ ext' = ext
      /\ \A s \in Block : Covers(ext, s, op.bno) => op.base <= s
      /\ op.what = "update" => op.bno \in Covered(ext)
  BY DEF SkipBlock, SkipExtent, tableVars, SearchesOK
<1>3. \A s \in Block : s \in Nat /\ ext[s].blocks \in Nat
  BY <1>1 DEF Extent, Block
<1>4. PICK x : op' = [op EXCEPT !.base = x]
  BY DEF SkipBlock, SkipExtent
<1>5. op'.base = x /\ op'.bno = op.bno /\ op'.what = op.what
  BY <1>1, <1>4 DEF Operation
<1>6. ASSUME NEW s \in Block, Covers(ext, s, op.bno) PROVE x <= s
  <2>1. op.base <= s /\ ext[s].old /\ op.bno < s + ext[s].blocks
    BY <1>2, <1>6 DEF Covers
  <2>2. CASE SkipBlock
    <3>1. x = op.base + 1
      BY <1>1, <1>5, <2>2 DEF SkipBlock, Operation
    <3>2. s # op.base
      BY <2>1, <2>2 DEF SkipBlock, Exists
    <3> QED
      BY <1>1, <1>3, <2>1, <3>1, <3>2
  <2>3. CASE SkipExtent
    <3>1. x = op.base + ext[op.base].blocks
      BY <1>1, <1>5, <2>3 DEF SkipExtent, Operation
    <3>2. op.base \in Block /\ ext[op.base].old /\ op.base + ext[op.base].blocks <= op.bno
      BY <2>3 DEF SkipExtent, Exists
    <3>3. op.base < s => op.base + ext[op.base].blocks <= s
      BY <2>1, <3>2 DEF Inv, ExtentsDisjoint, Disjoint
    <3> QED
      BY <1>1, <1>3, <2>1, <3>1, <3>2, <3>3
  <2> QED
    BY <2>2, <2>3
<1>7. \A s \in Block : Covers(ext', s, op'.bno) => op'.base <= s
  BY <1>2, <1>5, <1>6
<1> QED
  BY <1>2, <1>5, <1>7 DEF SearchesOK

\* Every step keeps what the searches rely on.
LEMMA SearchNext ==
  ASSUME Inv, Inv', SearchesOK, TreesOrdered, RecordsInTable, Slack = 0, [Next]_vars
  PROVE  SearchesOK'
<1>0. /\ op \in Operation /\ snap_extrefs' \in Seq(Seq(RecordRange))
      /\ op.bno \in Nat
  BY DEF Inv, TypeOK, Operation
<1>1. ASSUME pc' \notin {"lookup", "base", "subextent"} PROVE SearchesOK'
  BY <1>1 DEF SearchesOK
<1>2. CASE ParseRecord
  <2>1. PICK r \in Record, first \in BOOLEAN :
          RejectRecord(r, first) \/ ParseNew(r, first) \/ ParseUpdate(r, first)
    BY <1>2, BoundAssumption DEF ParseRecord, BoundAssumption
  <2>2. CASE RejectRecord(r, first) \/ ParseNew(r, first)
    BY <1>1, <2>2 DEF RejectRecord, ParseNew, Report
  <2>3. CASE ParseUpdate(r, first)
    <3>1. r.paddr \in Nat /\ StartRange("update", r.paddr, r.len, r.refcnt)
      BY <2>3, DevAssumption DEF ParseUpdate, Record, Paddr, DevAssumption
    <3> QED
      BY <1>0, <3>1, SearchStarts
  <2> QED
    BY <2>1, <2>2, <2>3
<1>3. CASE ApplyUpdate \/ CountReference
  <2>1. CASE Report
    BY <1>1, <2>1 DEF Report
  <2>2. CASE ~Report
    <3> DEFINE n == PartLen(ext, op.base, op.bno, op.left)
    <3>1. Found /\ op.what \in {"update", "ref"} /\ op.what # "none" /\ Advance(n)
      BY <1>3, <2>2 DEF ApplyUpdate, CountReference
    <3>2. n \in Nat
      BY <1>0, <3>1, FoundFacts, PartLenBounds
    <3> HIDE DEF n
    <3>3. CASE op.left = n
      BY <1>1, <3>1, <3>3 DEF Advance, Resume
    <3>4. CASE op.left # n
      <4>1. StartRange(op.what, op.bno + n, op.left - n, op.diff) /\ op.bno + n \in Nat
        BY <1>0, <3>1, <3>2, <3>4 DEF Advance
      <4> QED
        BY <1>0, <3>1, <4>1, SearchStarts
    <3> QED
      BY <3>3, <3>4
  <2> QED
    BY <2>1, <2>2
<1>4. CASE \E p \in Paddr : CountExtent(p)
  <2>1. PICK p \in Paddr : CountExtent(p)
    BY <1>4
  <2>2. p \in Nat /\ StartRange("ref", p, dext[cur][p], 0)
    BY <2>1, DevAssumption DEF CountExtent, Paddr, DevAssumption
  <2> QED
    BY <1>0, <2>2, SearchStarts
<1>5. CASE LookupHit
  BY <1>5, SearchHit
<1>6. CASE LookupMiss
  BY <1>6, SearchMiss
<1>7. CASE SearchBase
  BY <1>1, <1>7, SearchBack
<1>8. CASE SkipBlock \/ SkipExtent
  BY <1>8, SearchForward
<1>9. CASE \/ \E b \in Block : ReadNode(b)
           \/ ParseCatalog \/ LookupFail \/ SubextentFail \/ BadCount
           \/ FinishTree \/ FinishCatalog \/ FinishDstream \/ EndPass
           \/ \E d \in Dstreams : FreeDstream(d)
  BY <1>1, <1>9
  DEF ReadNode, ParseCatalog, AttachExtent, LookupFail, SubextentFail, BadCount,
      FinishTree, FinishCatalog, FinishDstream, EndPass, FreeDstream, Report
<1>10. CASE UNCHANGED vars
  BY <1>10 DEF vars, tableVars, treeVars, SearchesOK
<1> QED
  BY <1>2, <1>3, <1>4, <1>5, <1>6, <1>7, <1>8, <1>9, <1>10 DEF Next, Exited

\* A lookup fails only after every tree has been passed over.
LEMMA LookupAlarm ==
  ASSUME Inv, SearchesOK, LookupFail,
         NEW i \in DOMAIN snap_extrefs, NEW j \in DOMAIN snap_extrefs[i]
  PROVE  op.bno \notin Span(snap_extrefs[i][j].paddr, snap_extrefs[i][j].len)
<1>1. /\ pc = "lookup" /\ op.tree \notin DOMAIN snap_extrefs
      /\ op.tree \in Nat /\ snap_extrefs \in Seq(Seq(RecordRange))
  BY DEF LookupFail, Inv, TypeOK, Operation
<1>2. op.tree = 0 \/ i < op.tree
  BY <1>1
<1>3. op.tree # 0
  BY <1>1 DEF SearchesOK
<1> QED
  BY <1>1, <1>2, <1>3 DEF SearchesOK, Holds

\* The search backwards gives up only if no entry that begins less than
\* ScanLimit blocks before the block covers it.
LEMMA BaseAlarm ==
  ASSUME Inv, SearchesOK, SearchBase, pc' = "reported",
         NEW s \in Block, Covers(ext, s, op.bno)
  PROVE  s + ScanLimit <= op.bno
<1>1. /\ pc = "base" /\ ~Exists(op.base) /\ op.limit = 1
      /\ op.bno \in Nat /\ op.base \in Nat /\ ScanLimit \in Nat
      /\ s \in Nat /\ s <= op.bno /\ ext[s].old
  BY DevAssumption
  DEF SearchBase, Inv, TypeOK, Operation, Covers, Block, DevAssumption
<1>2. /\ op.base + (ScanLimit - 1) = op.bno
      /\ ~(op.base < s)
  BY <1>1 DEF SearchesOK
<1>3. s # op.base
  BY <1>1 DEF Exists
<1> QED
  BY <1>1, <1>2, <1>3

\* get_subextent() fails only for a reference to a block that no entry covers.
LEMMA SubextentAlarm ==
  ASSUME Inv, SearchesOK, SubextentFail
  PROVE  op.what = "ref" /\ \A s \in Block : ~Covers(ext, s, op.bno)
<1>1. /\ pc = "subextent" /\ Unusable /\ op.what \in {"update", "ref"}
      /\ op.base \in Nat /\ op.bno \in Nat
  BY DEF SubextentFail, Inv, LoopsOK, TypeOK, Operation
<1>2. ~(Exists(op.base) /\ ext[op.base].blocks = 0)
  BY DEF Inv, ExtentsDisjoint, Disjoint, Exists
<1>3. ~(Found /\ CarveClash(ext, op.base, op.bno, op.left))
  BY <1>1, FoundFacts, CarveDisjoint
<1>4. op.base > op.bno
  BY <1>1, <1>2, <1>3 DEF Unusable
<1>5. ASSUME NEW s \in Block PROVE ~Covers(ext, s, op.bno)
  <2>1. Covers(ext, s, op.bno) => op.base <= s /\ s <= op.bno /\ s \in Nat
    BY <1>1 DEF SearchesOK, Covers, Block
  <2> QED
    BY <1>1, <1>4, <2>1
<1>6. op.what # "update"
  BY <1>1, <1>5 DEF SearchesOK, Covered
<1> QED
  BY <1>1, <1>5, <1>6

\* A reference is refused only for an extent whose owners have another type.
LEMMA MixedAlarm ==
  ASSUME Inv, CountReference, pc' = "reported",
         NEW s \in Block, Covers(ext, s, op.bno)
  PROVE  ext[s].type # DType[cur]
<1>1. /\ Found /\ op.what # "none" /\ op.what = "ref" /\ op.bno \in Block
      /\ ext \in [Block -> Extent] /\ Disjoint(ext) /\ op.base \in Block
      /\ Covers(ext, op.base, op.bno)
  BY FoundFacts DEF CountReference
<1> DEFINE f == Carve(ext, op.base, op.bno, op.left)
<1>2. f[op.bno].refs > 0 /\ f[op.bno].type # DType[cur]
  <2>1. CASE ~(f[op.bno].refs > 0 /\ f[op.bno].type # DType[cur])
    <3>1. Advance(PartLen(ext, op.base, op.bno, op.left))
      BY <2>1 DEF CountReference
    <3>2. pc' # "reported"
      BY <1>1, <3>1 DEF Advance, StartRange, Resume, Again
    <3> QED
      BY <3>2
  <2> QED
    BY <2>1
<1>3. f[op.bno] = IF op.base = op.bno
                  THEN [ext[op.base] EXCEPT !.blocks = PartLen(ext, op.base, op.bno, op.left)]
                  ELSE NewExtent(PartLen(ext, op.base, op.bno, op.left), ext[op.base].refcnt)
  BY <1>1 DEF Carve
<1>4. op.base = op.bno /\ f[op.bno].type = ext[op.base].type
  BY <1>1, <1>2, <1>3 DEF NewExtent, NoExtent, Extent
<1>5. s = op.base
  BY <1>1, CoverUnique
<1> QED
  BY <1>2, <1>4, <1>5

\* The step that reports from inside a search is one of these.
LEMMA AlarmStep ==
  ASSUME [Next]_vars, pc' = "reported", pc \in {"lookup", "base", "subextent"}
  PROVE  \/ pc = "lookup" /\ LookupFail
         \/ pc = "base" /\ SearchBase
         \/ pc = "subextent" /\ (SubextentFail \/ CountReference)
<1>1. CASE ParseRecord \/ \E b \in Block : ReadNode(b)
  BY <1>1 DEF ParseRecord, RejectRecord, ParseNew, ParseUpdate, ReadNode
<1>2. CASE \/ FinishTree \/ FinishCatalog \/ FinishDstream \/ EndPass \/ BadCount
           \/ ParseCatalog \/ (\E d \in Dstreams : FreeDstream(d))
           \/ \E p \in Paddr : CountExtent(p)
  BY <1>2
  DEF FinishTree, FinishCatalog, FinishDstream, EndPass, BadCount, ParseCatalog,
      AttachExtent, FreeDstream, CountExtent
<1>3. CASE LookupHit \/ LookupMiss \/ SkipBlock \/ SkipExtent \/ UNCHANGED vars
  BY <1>3 DEF LookupHit, LookupMiss, SkipBlock, SkipExtent, vars
<1>4. CASE ApplyUpdate
  BY <1>4 DEF ApplyUpdate, Advance, StartRange, Resume, Again
<1>5. CASE LookupFail \/ SearchBase \/ SubextentFail \/ CountReference
  BY <1>5 DEF LookupFail, SearchBase, SubextentFail, CountReference, Found
<1> QED
  BY <1>1, <1>2, <1>3, <1>4, <1>5 DEF Next, Exited

\* No step raises a false alarm.
LEMMA AlarmNext ==
  ASSUME Inv, SearchesOK, [Next]_vars, pc' = "reported"
  PROVE  /\ pc = "lookup" =>
              \A i \in DOMAIN snap_extrefs : \A j \in DOMAIN snap_extrefs[i] :
                op.bno \notin Span(snap_extrefs[i][j].paddr, snap_extrefs[i][j].len)
         /\ pc = "base" =>
              \A s \in Block : Covers(ext, s, op.bno) => s + ScanLimit <= op.bno
         /\ pc = "subextent" =>
              /\ op.what = "ref"
              /\ \A s \in Block : Covers(ext, s, op.bno) => ext[s].type # DType[cur]
<1>1. CASE pc = "lookup"
  BY <1>1, AlarmStep, LookupAlarm
<1>2. CASE pc = "base"
  BY <1>2, AlarmStep, BaseAlarm
<1>3. CASE pc = "subextent"
  <2>1. CASE SubextentFail
    BY <1>3, <2>1, SubextentAlarm
  <2>2. CASE CountReference
    BY <1>3, <2>2, MixedAlarm DEF CountReference
  <2> QED
    BY <1>3, <2>1, <2>2, AlarmStep
<1> QED
  BY <1>1, <1>2, <1>3

\* The records, the trees and the searches stay consistent, if every tree is a
\* single leaf.
SearchInv == TreesOrdered /\ RecordsInTable /\ SearchesOK

\* The searches find what they look for in every reachable state.
LEMMA SearchInvariance ==
  ASSUME TRUE \notin LeafBreaks
  PROVE  Spec => []SearchInv
<1>1. Slack = 0
  BY DEF Slack
<1>2. Init => SearchInv
  <2> SUFFICES ASSUME Init PROVE SearchInv
    OBVIOUS
  <2>1. TreesOrdered
    BY DEF Init, TreesOrdered, Ordered
  <2>2. RecordsInTable
    BY DEF Init, RecordsInTable, SnapsInTable, TreeInTable
  <2>3. SearchesOK
    BY DEF Init, SearchesOK
  <2> QED
    BY <2>1, <2>2, <2>3 DEF SearchInv
<1>3. Inv /\ Inv' /\ SearchInv /\ [Next]_vars => SearchInv'
  BY <1>1, OrderedNext, InTableNext, SearchNext DEF SearchInv
<1> QED
  BY <1>2, <1>3, Invariance, PTL DEF Spec

\* The searches report only what is really missing: whatever the snapshots'
\* trees (of one leaf each), splits and counted references, a lookup fails only
\* for a block of no record, the search backwards only for a block whose extent
\* begins ScanLimit blocks before it or that has none, and get_subextent()
\* never for an update.
THEOREM SearchesTrusted ==
  ASSUME TRUE \notin LeafBreaks
  PROVE  Spec => NoFalseAlarm
<1>1. SearchInv => SearchesOK
  BY DEF SearchInv
<1> QED
  BY <1>1, AlarmNext, Invariance, SearchInvariance, PTL DEF Spec, NoFalseAlarm

-----------------------------------------------------------------------------
(* The counts of references. *)

\* R are the owners behind the references of the entry x at s, in a pass with
\* the given dstreams left, dstream being freed, owners counted by block and
\* splits of counted extents: they are distinct, all of the entry's type and
\* all counted for each of its blocks; e_latest_owner is one of them, and it is
\* the dstream being freed if that one is among them.
OwnersBehind(x, s, R, left, freed, by, split) ==
  /\ IsFiniteSet(R)
  /\ R \subseteq {DOwner[d] : d \in {e \in Dstreams \ left : DType[e] = x.type}}
  /\ x.refs = Cardinality(R)
  /\ x.refs > 0 => x.owner \in R
  /\ \A d \in Dstreams : d = freed /\ DType[d] = x.type /\ DOwner[d] \in R
                           => x.owner = DOwner[d]
  /\ \A b \in Span(s, x.blocks) : R \subseteq by[b] /\ (~split => R = by[b])

\* Every entry of the table e has such owners.
TableOwned(e, left, freed, by, split) ==
  \A s \in Block : e[s].old =>
    \E R : OwnersBehind(e[s], s, R, left, freed, by, split)

\* No dstream has counted a block before its turn.
CountedInTurn(by, left) ==
  \A b \in Block : /\ IsFiniteSet(by[b])
                   /\ by[b] \subseteq {DOwner[d] : d \in Dstreams \ left}

\* The references of the table are owners that have been counted in turn, and
\* none has been counted while records are read.
ReferencesOK ==
  /\ TableOwned(ext, todo, cur, counted, lost)
  /\ CountedInTurn(counted, todo)
  /\ pc \in {"records", "lookup", "catalog"} \/ op.what = "update"
       => todo = Dstreams /\ cur = NoOwner
  /\ pc = "dstreams" => cur = NoOwner
  /\ cur \notin todo

\* Two dstreams of one inode have different types: e_latest_owner alone tells
\* the owners of an extent apart.
DistinctOwners ==
  \A d, e \in Dstreams : DOwner[d] = DOwner[e] /\ DType[d] = DType[e] => d = e

\* An entry without references is behind no owner.
LEMMA NoOwners ==
  ASSUME NEW x, NEW s, NEW left, NEW freed, NEW by, NEW split, x.refs = 0,
         ~split => \A b \in Span(s, x.blocks) : by[b] = {}
  PROVE  OwnersBehind(x, s, {}, left, freed, by, split)
<1>1. IsFiniteSet({}) /\ Cardinality({}) = 0
  BY FS_EmptySet
<1> QED
  BY <1>1 DEF OwnersBehind

\* The entry after a split: each piece keeps the owners of the whole, or starts
\* from none; it is the split that loses them.
LEMMA CarveOwners ==
  ASSUME Inv, Found, op.what # "none", TableOwned(ext, todo, cur, counted, lost)
  PROVE  TableOwned(Carve(ext, op.base, op.bno, op.left), todo, cur, counted,
                    lost \/ Drops)
<1> DEFINE w == op.base
           b == op.bno
           p == PartLen(ext, op.base, op.bno, op.left)
           f == Carve(ext, op.base, op.bno, op.left)
<1>1. /\ w \in Block /\ b \in Block /\ ext \in [Block -> Extent] /\ Disjoint(ext)
      /\ op.left \in Nat \ {0} /\ Covers(ext, w, b) /\ w \in Nat /\ b \in Nat
      /\ ext[w] \in Extent /\ ext[w].old /\ ext[w].blocks \in Nat
      /\ w <= b /\ b < w + ext[w].blocks
  BY FoundFacts DEF Block, Covers, Extent
<1>2. /\ p \in Nat \ {0}
      /\ (b - w) + p <= ext[w].blocks
      /\ ~HasTail(ext, w, b, op.left) => (b - w) + p = ext[w].blocks
  BY <1>1, PartLenBounds
<1>3. PICK R : OwnersBehind(ext[w], w, R, todo, cur, counted, lost)
  BY <1>1 DEF TableOwned
<1>4. ~(lost \/ Drops) /\ p # ext[w].blocks =>
        \A c \in Span(w, ext[w].blocks) : counted[c] = {}
  <2> SUFFICES ASSUME ~lost, ~Drops, p # ext[w].blocks, NEW c \in Span(w, ext[w].blocks)
               PROVE  counted[c] = {}
    OBVIOUS
  <2>1. ~(ext[w].refs > 0) /\ ext[w].refs \in Nat
    BY <1>1 DEF Drops, Extent
  <2>2. IsFiniteSet(R) /\ Cardinality(R) = 0 /\ counted[c] = R
    BY <1>3, <2>1 DEF OwnersBehind
  <2> QED
    BY <2>2, FS_EmptySet
<1>5. ASSUME NEW x \in Extent, NEW s \in Nat, x.refs = ext[w].refs, x.owner = ext[w].owner,
             x.type = ext[w].type, Span(s, x.blocks) \subseteq Span(w, ext[w].blocks)
      PROVE  OwnersBehind(x, s, R, todo, cur, counted, lost \/ Drops)
  BY <1>3, <1>5 DEF OwnersBehind
<1>6. ASSUME NEW n \in Nat, NEW s \in Nat, p # ext[w].blocks,
             Span(s, n) \subseteq Span(w, ext[w].blocks)
      PROVE  OwnersBehind(NewExtent(n, ext[w].refcnt), s, {}, todo, cur, counted, lost \/ Drops)
  <2>1. /\ NewExtent(n, ext[w].refcnt).refs = 0
        /\ NewExtent(n, ext[w].refcnt).blocks = n
    BY DEF NewExtent, NoExtent
  <2> QED
    BY <1>4, <1>6, <2>1, NoOwners
<1> SUFFICES ASSUME NEW s \in Block, f[s].old
             PROVE  \E Q : OwnersBehind(f[s], s, Q, todo, cur, counted, lost \/ Drops)
  BY DEF TableOwned
<1>7. f[s] = IF s = b
             THEN IF w = b THEN [ext[w] EXCEPT !.blocks = p]
                  ELSE NewExtent(p, ext[w].refcnt)
             ELSE IF s = w THEN [ext[w] EXCEPT !.blocks = b - w]
             ELSE IF HasTail(ext, w, b, op.left) /\ s = b + p
                  THEN NewExtent(ext[w].blocks - (b - w) - p, ext[w].refcnt)
             ELSE ext[s]
  BY DEF Carve
<1> HIDE DEF f, p
<1>8. CASE s = b /\ w = b
  <2>1. f[s] = [ext[w] EXCEPT !.blocks = p]
    BY <1>7, <1>8
  <2>2. /\ f[s] \in Extent /\ f[s].refs = ext[w].refs /\ f[s].owner = ext[w].owner
        /\ f[s].type = ext[w].type /\ f[s].blocks = p
    BY <1>1, <1>2, <2>1 DEF Extent
  <2>3. Span(s, p) \subseteq Span(w, ext[w].blocks)
    BY <1>1, <1>2, <1>8 DEF Span
  <2> QED
    BY <1>1, <1>5, <1>8, <2>2, <2>3
<1>9. CASE s = b /\ w # b
  <2>1. Span(s, p) \subseteq Span(w, ext[w].blocks) /\ p # ext[w].blocks /\ s \in Nat
    BY <1>1, <1>2, <1>9 DEF Span
  <2> QED
    BY <1>2, <1>6, <1>7, <1>9, <2>1
<1>10. CASE s # b /\ s = w
  <2>1. f[s] = [ext[w] EXCEPT !.blocks = b - w]
    BY <1>7, <1>10
  <2>2. /\ f[s] \in Extent /\ f[s].refs = ext[w].refs /\ f[s].owner = ext[w].owner
        /\ f[s].type = ext[w].type /\ f[s].blocks = b - w
    BY <1>1, <1>2, <2>1 DEF Extent
  <2>3. Span(s, b - w) \subseteq Span(w, ext[w].blocks)
    BY <1>1, <1>10 DEF Span
  <2> QED
    BY <1>1, <1>5, <1>10, <2>2, <2>3
<1>11. CASE s # b /\ s # w /\ HasTail(ext, w, b, op.left) /\ s = b + p
  <2> DEFINE n == ext[w].blocks - (b - w) - p
  <2>1. /\ n \in Nat /\ Span(s, n) \subseteq Span(w, ext[w].blocks)
        /\ p # ext[w].blocks /\ s \in Nat
    BY <1>1, <1>2, <1>11 DEF Span, HasTail, p
  <2>2. f[s] = NewExtent(n, ext[w].refcnt)
    BY <1>7, <1>11
  <2> HIDE DEF n
  <2> QED
    BY <1>6, <2>1, <2>2
<1>12. CASE s # b /\ s # w /\ ~(HasTail(ext, w, b, op.left) /\ s = b + p)
  <2>1. f[s] = ext[s] /\ ext[s].old
    BY <1>7, <1>12
  <2>2. PICK Q : OwnersBehind(ext[s], s, Q, todo, cur, counted, lost)
    BY <2>1 DEF TableOwned
  <2> QED
    BY <2>1, <2>2 DEF OwnersBehind
<1> QED
  BY <1>8, <1>9, <1>10, <1>11, <1>12

\* Counting an owner for the blocks of an entry adds it to those behind it, if
\* it was not there yet.
LEMMA CountOwner ==
  ASSUME NEW x \in Extent, NEW s \in Nat, NEW left \in SUBSET Dstreams,
         NEW d \in Dstreams, d \notin left, NEW by, NEW split, NEW more,
         NEW R, OwnersBehind(x, s, R, left, d, by, split),
         x.refs > 0 => x.type = DType[d],
         \A b \in Span(s, x.blocks) : more[b] = by[b] \cup {DOwner[d]}
  PROVE  \E Q : OwnersBehind(Reference(x, DOwner[d], DType[d]), s, Q, left, d, more, split)
<1> DEFINE o == DOwner[d]
           y == Reference(x, DOwner[d], DType[d])
<1>1. /\ y.refs = (IF x.refs = 0 \/ x.owner # o THEN x.refs + 1 ELSE x.refs)
      /\ y.owner = o /\ y.type = DType[d] /\ y.blocks = x.blocks /\ x.refs \in Nat
  BY DEF Reference, Extent
<1>2. IsFiniteSet(R) /\ x.refs = Cardinality(R)
  BY DEF OwnersBehind
<1>3. o \in {DOwner[c] : c \in {e \in Dstreams \ left : DType[e] = DType[d]}}
  OBVIOUS
<1> HIDE DEF y
<1>4. CASE x.refs = 0
  <2>1. R = {}
    BY <1>2, <1>4, FS_EmptySet
  <2>2. IsFiniteSet({o}) /\ Cardinality({o}) = 1
    BY FS_Singleton
  <2>3. y.refs = 1
    BY <1>1, <1>4
  <2>4. \A b \in Span(s, x.blocks) : {o} \subseteq more[b] /\ (~split => {o} = more[b])
    BY <2>1 DEF OwnersBehind
  <2>5. OwnersBehind(y, s, {o}, left, d, more, split)
    BY <1>1, <1>3, <2>2, <2>3, <2>4 DEF OwnersBehind
  <2> QED
    BY <2>5 DEF y
<1>5. CASE x.refs > 0 /\ x.owner = o
  <2>1. o \in R /\ x.type = DType[d] /\ y.refs = x.refs
    BY <1>1, <1>5 DEF OwnersBehind
  <2>2. \A b \in Span(s, x.blocks) : R \subseteq more[b] /\ (~split => R = more[b])
    BY <2>1 DEF OwnersBehind
  <2>3. OwnersBehind(y, s, R, left, d, more, split)
    BY <1>1, <2>1, <2>2 DEF OwnersBehind
  <2> QED
    BY <2>3 DEF y
<1>6. CASE x.refs > 0 /\ x.owner # o
  <2>1. o \notin R /\ x.type = DType[d] /\ y.refs = x.refs + 1
    BY <1>1, <1>6 DEF OwnersBehind
  <2>2. IsFiniteSet(R \cup {o}) /\ Cardinality(R \cup {o}) = Cardinality(R) + 1
    BY <1>2, <2>1, FS_AddElement
  <2>3. \A b \in Span(s, x.blocks) : /\ R \cup {o} \subseteq more[b]
                                     /\ ~split => R \cup {o} = more[b]
    BY DEF OwnersBehind
  <2>4. R \cup {o} \subseteq {DOwner[c] : c \in {e \in Dstreams \ left : DType[e] = DType[d]}}
    BY <1>3, <2>1 DEF OwnersBehind
  <2>5. OwnersBehind(y, s, R \cup {o}, left, d, more, split)
    BY <1>1, <1>2, <2>1, <2>2, <2>3, <2>4 DEF OwnersBehind
  <2> QED
    BY <2>5 DEF y
<1> QED
  BY <1>1, <1>4, <1>5, <1>6

\* A reference is counted for every block of its piece, and for no other.
LEMMA OwnersReference ==
  ASSUME Inv, ReferencesOK, CountReference, ~Report
  PROVE  ReferencesOK'
<1> DEFINE f == Carve(ext, op.base, op.bno, op.left)
           p == PartLen(ext, op.base, op.bno, op.left)
<1>1. /\ Found /\ op.what = "ref" /\ op.what # "none" /\ op.bno \in Block
      /\ op.bno \in Nat /\ cur \in Dstreams /\ todo \subseteq Dstreams
  BY FoundFacts DEF CountReference, Inv, LoopsOK, TypeOK, Block
<1>2. /\ f \in [Block -> Extent] /\ Disjoint(f) /\ f[op.bno].blocks = p
      /\ p \in Nat \ {0} /\ Span(op.bno, p) \subseteq Block
  <2>1. /\ f \in [Block -> Extent] /\ Disjoint(f) /\ p \in Nat \ {0}
    BY <1>1, FoundFacts, CarveType, CarveDisjoint, PartLenBounds
  <2>2. f[op.bno].blocks = p /\ f[op.bno].old
    BY <1>1, FoundFacts DEF Carve, NewExtent, NoExtent, Extent, Covers
  <2>3. op.bno + p <= DevBlocks
    BY <1>1, <2>1, <2>2 DEF Disjoint
  <2> HIDE DEF f, p
  <2>4. Span(op.bno, p) \subseteq Block
    BY <1>1, <2>1, <2>3, DevAssumption DEF Span, Block, DevAssumption
  <2> QED
    BY <2>1, <2>2, <2>4
<1>3. /\ ~(f[op.bno].refs > 0 /\ f[op.bno].type # DType[cur])
      /\ ext' = [f EXCEPT ![op.bno] = Reference(f[op.bno], DOwner[cur], DType[cur])]
      /\ counted' = [b \in Block |-> IF b \in Span(op.bno, p)
                                     THEN counted[b] \cup {DOwner[cur]}
                                     ELSE counted[b]]
      /\ lost' = (lost \/ Drops) /\ Advance(p) /\ todo' = todo /\ cur' = cur
  BY DEF CountReference, catVars
<1>4. TableOwned(f, todo, cur, counted, lost \/ Drops)
  BY <1>1, CarveOwners DEF ReferencesOK
<1> HIDE DEF f, p
<1>5. ASSUME NEW s \in Block, ext'[s].old
      PROVE  \E R : OwnersBehind(ext'[s], s, R, todo, cur, counted', lost \/ Drops)
  <2>1. CASE s = op.bno
    <3>1. f[s].old
      BY <1>2, <1>3, <1>5, <2>1 DEF Reference, Extent
    <3>2. PICK R : OwnersBehind(f[s], s, R, todo, cur, counted, lost \/ Drops)
      BY <1>4, <3>1 DEF TableOwned
    <3>3. \A b \in Span(s, f[s].blocks) : counted'[b] = counted[b] \cup {DOwner[cur]}
      BY <1>2, <1>3, <2>1
    <3>4. ext'[s] = Reference(f[s], DOwner[cur], DType[cur]) /\ f[s] \in Extent /\ s \in Nat
      BY <1>1, <1>2, <1>3, <2>1
    <3>5. cur \notin todo /\ (f[s].refs > 0 => f[s].type = DType[cur])
      BY <1>3, <2>1 DEF ReferencesOK
    <3> QED
      BY <1>1, <3>2, <3>3, <3>4, <3>5, CountOwner
  <2>2. CASE s # op.bno
    <3>1. ext'[s] = f[s] /\ f[s] \in Extent
      BY <1>2, <1>3, <2>2
    <3>2. PICK R : OwnersBehind(f[s], s, R, todo, cur, counted, lost \/ Drops)
      BY <1>4, <1>5, <3>1 DEF TableOwned
    <3>3. ASSUME NEW c \in Span(s, f[s].blocks) PROVE counted'[c] = counted[c]
      <4>1. s \in Nat /\ f[s].blocks \in Nat /\ DevBlocks \in Nat
        BY <3>1, DevAssumption DEF Block, Extent, DevAssumption
      <4>2. c \in Nat /\ s <= c /\ c < s + f[s].blocks /\ s + f[s].blocks <= DevBlocks
        BY <1>2, <1>5, <3>1, <4>1 DEF Span, Disjoint
      <4>3. c \in Block
        BY <4>1, <4>2 DEF Block
      <4>4. f[op.bno].old
        BY <1>2, <1>1, FoundFacts DEF f, Carve, NewExtent, NoExtent, Extent, Covers
      <4>5. /\ s < op.bno => s + f[s].blocks <= op.bno
            /\ op.bno < s => op.bno + p <= s
        BY <1>1, <1>2, <1>5, <3>1, <4>4 DEF Disjoint
      <4>6. c \notin Span(op.bno, p)
        BY <1>1, <1>2, <2>2, <4>1, <4>2, <4>5 DEF Span
      <4> QED
        BY <1>3, <4>3, <4>6
    <3>4. OwnersBehind(f[s], s, R, todo, cur, counted', lost \/ Drops)
      BY <3>2, <3>3 DEF OwnersBehind
    <3> QED
      BY <3>1, <3>4
  <2> QED
    BY <2>1, <2>2
<1>6. TableOwned(ext', todo', cur', counted', lost')
  BY <1>3, <1>5 DEF TableOwned
<1>7. CountedInTurn(counted', todo')
  <2> SUFFICES ASSUME NEW b \in Block
               PROVE  /\ IsFiniteSet(counted'[b])
                      /\ counted'[b] \subseteq {DOwner[d] : d \in Dstreams \ todo}
    BY <1>3 DEF CountedInTurn
  <2>1. /\ IsFiniteSet(counted[b])
        /\ counted[b] \subseteq {DOwner[d] : d \in Dstreams \ todo}
    BY DEF ReferencesOK, CountedInTurn
  <2>2. IsFiniteSet(counted[b] \cup {DOwner[cur]})
    BY <2>1, FS_AddElement
  <2>3. DOwner[cur] \in {DOwner[d] : d \in Dstreams \ todo}
    BY <1>1 DEF ReferencesOK
  <2> QED
    BY <1>3, <2>1, <2>2, <2>3
<1>8. pc' \in {"extents", "base"} /\ op'.what # "update"
  BY <1>1, <1>3 DEF Advance, StartRange, NoOp, Resume, Again
<1>9. cur' \notin todo'
  BY <1>3 DEF ReferencesOK
<1> QED
  BY <1>6, <1>7, <1>8, <1>9 DEF ReferencesOK

\* An update splits entries while no block has been counted.
LEMMA OwnersUpdate ==
  ASSUME Inv, ReferencesOK, ApplyUpdate
  PROVE  ReferencesOK'
<1> DEFINE f == Carve(ext, op.base, op.bno, op.left)
<1>1. /\ Found /\ op.what = "update" /\ op.what # "none" /\ op.bno \in Block
      /\ f \in [Block -> Extent]
  BY FoundFacts, CarveType DEF ApplyUpdate
<1>2. /\ ext' = [f EXCEPT ![op.bno].refcnt = (f[op.bno].refcnt + op.diff) % RefMod]
      /\ lost' = (lost \/ Drops) /\ UNCHANGED <<todo, cur, counted>>
      /\ Advance(PartLen(ext, op.base, op.bno, op.left))
  BY DEF ApplyUpdate, catVars
<1>3. TableOwned(f, todo, cur, counted, lost \/ Drops)
  BY <1>1, CarveOwners DEF ReferencesOK
<1> HIDE DEF f
<1>4. \A s \in Block : /\ ext'[s].old = f[s].old /\ ext'[s].blocks = f[s].blocks
                       /\ ext'[s].refs = f[s].refs /\ ext'[s].owner = f[s].owner
                       /\ ext'[s].type = f[s].type
  BY <1>1, <1>2 DEF Extent
<1>5. TableOwned(ext', todo', cur', counted', lost')
  <2> SUFFICES ASSUME NEW s \in Block, ext'[s].old
               PROVE  \E R : OwnersBehind(ext'[s], s, R, todo, cur, counted, lost \/ Drops)
    BY <1>2 DEF TableOwned
  <2>1. PICK R : OwnersBehind(f[s], s, R, todo, cur, counted, lost \/ Drops)
    BY <1>3, <1>4 DEF TableOwned
  <2>2. OwnersBehind(ext'[s], s, R, todo, cur, counted, lost \/ Drops)
    BY <1>4, <2>1 DEF OwnersBehind
  <2> QED
    BY <2>2
<1>6. pc' \in {"records", "lookup"}
  BY <1>1, <1>2 DEF Advance, StartRange, Resume, Again
<1>7. todo = Dstreams /\ cur = NoOwner
  BY <1>1 DEF ReferencesOK
<1> QED
  BY <1>2, <1>5, <1>6, <1>7 DEF ReferencesOK, CountedInTurn

\* A new entry has no references, and no owner has counted its blocks.
LEMMA OwnersNew ==
  ASSUME Inv, Inv', ReferencesOK, NEW r \in Record, NEW first \in BOOLEAN,
         ParseNew(r, first)
  PROVE  ReferencesOK'
<1>1. /\ pc = "records" /\ todo = Dstreams /\ UNCHANGED <<todo, cur, counted, lost, pc, op>>
      /\ ext' = [ext EXCEPT ![r.paddr] = NewExtent(r.len, r.refcnt)]
      /\ ext \in [Block -> Extent]
  BY DEF ParseNew, ReferencesOK, catVars, histVars, Inv, TypeOK
<1>2. \A b \in Block : counted[b] = {}
  BY <1>1 DEF ReferencesOK, CountedInTurn
<1>3. ASSUME NEW s \in Block, ext'[s].old
      PROVE  \E R : OwnersBehind(ext'[s], s, R, todo, cur, counted, lost)
  <2>1. CASE s = r.paddr
    <3>1. ext'[s].refs = 0
      BY <1>1, <2>1 DEF NewExtent, NoExtent
    <3>2. \A b \in Span(s, ext'[s].blocks) : b \in Block
      <4>1. s + ext'[s].blocks <= DevBlocks
        BY <1>3 DEF Inv, ExtentsDisjoint, Disjoint
      <4>2. s \in Nat /\ ext'[s].blocks \in Nat /\ DevBlocks \in Nat
        BY DevAssumption DEF Block, Inv, TypeOK, Extent, DevAssumption
      <4> QED
        BY <4>1, <4>2 DEF Span, Block
    <3> QED
      BY <1>2, <3>1, <3>2, NoOwners
  <2>2. CASE s # r.paddr
    BY <1>1, <1>3, <2>2 DEF ReferencesOK, TableOwned
  <2> QED
    BY <2>1, <2>2
<1>4. TableOwned(ext', todo', cur', counted', lost')
  BY <1>1, <1>3 DEF TableOwned
<1> QED
  BY <1>1, <1>4 DEF ReferencesOK, CountedInTurn

\* The next dstream to be freed is behind no entry of its type.
LEMMA OwnersFree ==
  ASSUME Inv, ReferencesOK, DistinctOwners, NEW d \in Dstreams, FreeDstream(d)
  PROVE  ReferencesOK'
<1>1. /\ d \in todo /\ cur' = d /\ todo' = todo \ {d} /\ pc' = "extents"
      /\ UNCHANGED <<ext, counted, lost>> /\ op'.what = "none"
  BY DEF FreeDstream, tableVars, histVars, Inv, LoopsOK
<1>2. ASSUME NEW s \in Block, ext[s].old
      PROVE  \E R : OwnersBehind(ext[s], s, R, todo', d, counted, lost)
  <2>1. PICK R : OwnersBehind(ext[s], s, R, todo, cur, counted, lost)
    BY <1>2 DEF ReferencesOK, TableOwned
  <2>2. ~(DType[d] = ext[s].type /\ DOwner[d] \in R)
    <3> SUFFICES ASSUME DType[d] = ext[s].type, DOwner[d] \in R PROVE FALSE
      OBVIOUS
    <3>1. PICK e \in Dstreams \ todo : DType[e] = ext[s].type /\ DOwner[e] = DOwner[d]
      BY <2>1 DEF OwnersBehind
    <3>2. e = d
      BY <3>1 DEF DistinctOwners
    <3> QED
      BY <1>1, <3>1, <3>2
  <2>3. R \subseteq {DOwner[c] : c \in {e \in Dstreams \ todo' : DType[e] = ext[s].type}}
    BY <1>1, <2>1 DEF OwnersBehind
  <2>4. OwnersBehind(ext[s], s, R, todo', d, counted, lost)
    BY <2>1, <2>2, <2>3 DEF OwnersBehind
  <2> QED
    BY <2>4
<1>3. TableOwned(ext', todo', cur', counted', lost')
  BY <1>1, <1>2 DEF TableOwned
<1>4. CountedInTurn(counted', todo')
  BY <1>1 DEF ReferencesOK, CountedInTurn
<1> QED
  BY <1>1, <1>3, <1>4 DEF ReferencesOK

\* The end of a pass forgets all references and all owners.
LEMMA OwnersEnd ==
  ASSUME Inv, ReferencesOK, EndPass
  PROVE  ReferencesOK'
<1>1. /\ pc = "dstreams" /\ cur = NoOwner /\ cur' = cur /\ op' = op /\ op.what = "none"
      /\ (pc' = "clean" /\ todo' = todo) \/ (pc' = "records" /\ todo' = Dstreams)
      /\ ext' = [b \in Block |-> [ext[b] EXCEPT !.refs = 0]]
      /\ counted' = [b \in Block |-> {}] /\ ext \in [Block -> Extent]
      /\ todo = {}
  BY DEF EndPass, ReferencesOK, Inv, LoopsOK, TypeOK
<1>2. ASSUME NEW s \in Block, ext'[s].old
      PROVE  OwnersBehind(ext'[s], s, {}, todo', cur', counted', lost')
  <2>1. ext'[s].refs = 0 /\ ext'[s].old = ext[s].old /\ ext'[s].blocks = ext[s].blocks
    BY <1>1 DEF Extent
  <2>2. \A b \in Span(s, ext[s].blocks) : b \in Block
    <3>1. s + ext[s].blocks <= DevBlocks
      BY <1>2, <2>1 DEF Inv, ExtentsDisjoint, Disjoint
    <3>2. s \in Nat /\ ext[s].blocks \in Nat /\ DevBlocks \in Nat
      BY DevAssumption DEF Block, Inv, TypeOK, Extent, DevAssumption
    <3> QED
      BY <3>1, <3>2 DEF Span, Block
  <2> QED
    BY <1>1, <2>1, <2>2, NoOwners
<1>3. TableOwned(ext', todo', cur', counted', lost')
  BY <1>2 DEF TableOwned
<1>4. CountedInTurn(counted', todo')
  BY <1>1, FS_EmptySet DEF CountedInTurn
<1>5. NoOwner \notin Dstreams
  BY DstreamAssumption DEF DstreamAssumption
<1> QED
  BY <1>1, <1>3, <1>4, <1>5 DEF ReferencesOK

\* The other steps leave the table and the owners alone.
LEMMA OwnersKept ==
  ASSUME Inv, ReferencesOK, UNCHANGED <<ext, todo, cur, counted, lost>>,
         pc' \in {"records", "lookup", "catalog"} \/ op'.what = "update"
           => pc \in {"records", "lookup", "catalog"} \/ op.what = "update",
         pc' = "dstreams" => pc \in {"records", "lookup", "catalog"}
  PROVE  ReferencesOK'
  BY DEF ReferencesOK

\* Every step keeps a witness for each counted reference.
LEMMA OwnersNext ==
  ASSUME Inv, Inv', ReferencesOK, DistinctOwners, [Next]_vars
  PROVE  ReferencesOK'
<1>1. CASE Report
  BY <1>1, OwnersKept DEF Report, tableVars, catVars, histVars
<1>2. CASE ParseRecord
  <2>1. PICK r \in Record, first \in BOOLEAN :
          RejectRecord(r, first) \/ ParseNew(r, first) \/ ParseUpdate(r, first)
    BY <1>2, BoundAssumption DEF ParseRecord, BoundAssumption
  <2>2. CASE ParseUpdate(r, first)
    BY <2>2, OwnersKept
    DEF ParseUpdate, StartRange, Again, tableVars, catVars, histVars
  <2> QED
    BY <1>1, <2>1, <2>2, OwnersNew DEF RejectRecord
<1>3. CASE ApplyUpdate \/ (CountReference /\ ~Report) \/ EndPass
  BY <1>3, OwnersUpdate, OwnersReference, OwnersEnd
<1>4. CASE \E d \in Dstreams : FreeDstream(d)
  BY <1>4, OwnersFree
<1>5. CASE FinishDstream
  <2>1. /\ UNCHANGED <<ext, todo, counted, lost, op>> /\ cur' = NoOwner
        /\ pc' = "dstreams" /\ op.what = "none" /\ NoOwner \notin Dstreams
        /\ todo \subseteq Dstreams
    BY <1>5, DstreamAssumption
    DEF FinishDstream, tableVars, histVars, Inv, LoopsOK, TypeOK, DstreamAssumption
  <2>2. TableOwned(ext', todo', cur', counted', lost')
    BY <2>1 DEF ReferencesOK, TableOwned, OwnersBehind
  <2> QED
    BY <2>1, <2>2 DEF ReferencesOK
<1>6. CASE (\E b \in Block : ReadNode(b)) /\ ~Report
  BY <1>6, OwnersKept DEF ReadNode, catVars
<1>7. CASE FinishTree \/ FinishCatalog
  BY <1>7, OwnersKept DEF FinishTree, FinishCatalog, tableVars, catVars, histVars
<1>8. CASE ParseCatalog /\ ~Report
  BY <1>8, OwnersKept DEF ParseCatalog, AttachExtent, tableVars, histVars
<1>9. CASE \E p \in Paddr : CountExtent(p)
  BY <1>9, OwnersKept DEF CountExtent, StartRange, Again, tableVars, histVars
<1>10. CASE LookupHit \/ LookupMiss
  <2>1. pc = "lookup" /\ pc' \in {"lookup", "subextent"}
    BY <1>10 DEF LookupHit, LookupMiss
  <2> QED
    BY <1>10, <2>1, OwnersKept DEF LookupHit, LookupMiss, tableVars, catVars, histVars
<1>11. CASE (SearchBase \/ SkipBlock \/ SkipExtent) /\ ~Report
  <2>1. op'.what = op.what /\ pc' \in {"base", "subextent"}
    <3>1. op \in Operation
      BY DEF Inv, TypeOK
    <3>2. \/ op' = op
          \/ \E x : op' = [op EXCEPT !.base = x]
          \/ \E x, l : op' = [op EXCEPT !.limit = l, !.base = x]
      BY <1>11 DEF SearchBase, SkipBlock, SkipExtent
    <3> QED
      BY <1>11, <3>1, <3>2 DEF Operation, SearchBase, SkipBlock, SkipExtent
  <2> QED
    BY <1>11, <2>1, OwnersKept
    DEF SearchBase, SkipBlock, SkipExtent, tableVars, catVars, histVars
<1>12. CASE LookupFail \/ SubextentFail \/ BadCount
  BY <1>1, <1>12 DEF LookupFail, SubextentFail, BadCount
<1>13. CASE UNCHANGED vars
  BY <1>13, OwnersKept DEF vars, tableVars, catVars, histVars, ReferencesOK
<1> QED
  BY <1>1, <1>2, <1>3, <1>4, <1>5, <1>6, <1>7, <1>8, <1>9, <1>10, <1>11, <1>12, <1>13
  DEF Next, Exited

\* What check_extent() accepts.
LEMMA CountsNext ==
  ASSUME Inv, ReferencesOK, EndPass, NEW s \in Block,
         NEW b \in Span(s, ext[s].blocks), ext[s].old
  PROVE  /\ ext[s].refcnt <= Cardinality(counted[b])
         /\ ~lost => ext[s].refcnt = Cardinality(counted[b])
<1>1. PICK R : OwnersBehind(ext[s], s, R, todo, cur, counted, lost)
  BY DEF ReferencesOK, TableOwned
<1>2. ext[s].refcnt = Cardinality(R) /\ R \subseteq counted[b] /\ (~lost => R = counted[b])
  BY <1>1 DEF OwnersBehind, EndPass, Balanced
<1>3. b \in Block
  <2>1. s + ext[s].blocks <= DevBlocks
    BY DEF Inv, ExtentsDisjoint, Disjoint
  <2>2. s \in Nat /\ ext[s].blocks \in Nat /\ DevBlocks \in Nat
    BY DevAssumption DEF Block, Inv, TypeOK, Extent, DevAssumption
  <2> QED
    BY <2>1, <2>2 DEF Span, Block
<1>4. IsFiniteSet(counted[b])
  BY <1>3 DEF ReferencesOK, CountedInTurn
<1>5. Cardinality(R) <= Cardinality(counted[b])
  BY <1>2, <1>4, FS_Subset
<1> QED
  BY <1>2, <1>5

\* A pass that check_extent() accepts has at least as many owners of every block
\* as its extent's reference count says, and exactly as many if no split has
\* taken blocks away from counted references: for every table, every order of
\* the dstreams and every sequence of splits, as long as no two dstreams of one
\* type have the same owner.
THEOREM AcceptedCounts ==
  ASSUME DistinctOwners
  PROVE  Spec => CountsTrusted
<1>1. Init => ReferencesOK
  <2> SUFFICES ASSUME Init PROVE ReferencesOK
    OBVIOUS
  <2>1. TableOwned(ext, todo, cur, counted, lost)
    BY DEF Init, TableOwned, NoExtent
  <2>2. CountedInTurn(counted, todo)
    BY FS_EmptySet DEF Init, CountedInTurn
  <2>3. NoOwner \notin Dstreams
    BY DstreamAssumption DEF DstreamAssumption
  <2> QED
    BY <2>1, <2>2, <2>3 DEF Init, ReferencesOK, NoOp
<1>2. Inv /\ Inv' /\ ReferencesOK /\ [Next]_vars => ReferencesOK'
  BY OwnersNext
<1>3. Spec => []ReferencesOK
  BY <1>1, <1>2, Invariance, PTL DEF Spec
<1>4. Inv /\ ReferencesOK =>
        (EndPass =>
           \A s \in Block : \A b \in Span(s, ext[s].blocks) : ext[s].old =>
             /\ ext[s].refcnt <= Cardinality(counted[b])
             /\ ~lost => ext[s].refcnt = Cardinality(counted[b]))
  BY CountsNext
<1> QED
  BY <1>3, <1>4, Invariance, PTL DEF CountsTrusted
=============================================================================
