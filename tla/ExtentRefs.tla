----------------------------- MODULE ExtentRefs -----------------------------
(***************************************************************************)
(* How apfsck audits the reference counts of the physical extents of one   *)
(* volume and of all its snapshots (apfsck/extents.c, with the callers in  *)
(* btree.c, super.c and snapshot.c).                                       *)
(*                                                                         *)
(* A volume is checked in passes: one for each snapshot, oldest first, and *)
(* one for the latest transaction.  Each pass parses an extent reference   *)
(* tree, whose NEW records create extents and whose UPDATE records change  *)
(* the reference count of blocks known from earlier snapshots, then parses *)
(* a catalog that attaches logical extents to dstreams, then counts every  *)
(* dstream's extents, and at last compares the counts.  The hash table of  *)
(* extents is shared by all the passes, and get_subextent() splits its     *)
(* entries as ranges are updated or counted.                               *)
(*                                                                         *)
(* One action stands for one iteration of a loop of the code.  report()    *)
(* prints a message and exits: it is the step to pc = "reported".          *)
(***************************************************************************)
EXTENDS Integers, Sequences, FiniteSets

CONSTANTS
  DevBlocks,   \* blocks of the device (s_max_main_blkcnt)
  Reserved,    \* blocks the container uses, marked before the volume is read
  MaxAddr,     \* largest block number a u64 holds
  RefMod,      \* reference counts are kept modulo RefMod (a u32)
  ScanLimit,   \* how far increase_extent_references() looks back (5000)
  Dstreams,    \* data streams of the catalog
  DOwner,      \* d_owner of each dstream
  DType,       \* d_obj_type of each dstream
  NoOwner,     \* e_latest_owner and e_obj_type of a zeroed entry
  LeafBreaks,  \* {FALSE}: every tree is a single node; BOOLEAN: several leaves
  MaxSnaps,    \* bound: snapshots of the volume
  MaxRecords,  \* bound: records of an extent reference tree
  MaxLen,      \* bound: blocks of a record
  MaxRefcnt,   \* bound: reference count of a NEW record
  MaxListed,   \* bound: logical extents of a dstream
  MaxNodes     \* bound: metadata blocks read while a volume is checked

ASSUME DevAssumption ==
  /\ DevBlocks \in Nat \ {0}
  /\ Reserved \subseteq 0 .. (DevBlocks - 1)
  /\ MaxAddr \in Nat
  /\ DevBlocks <= MaxAddr
  /\ RefMod \in Nat \ {0, 1}
  /\ ScanLimit \in Nat \ {0}

ASSUME DstreamAssumption ==
  /\ NoOwner \notin Dstreams
  /\ NoOwner \notin {DOwner[d] : d \in Dstreams}
  /\ NoOwner \notin {DType[d] : d \in Dstreams}

ASSUME BoundAssumption ==
  /\ MaxSnaps \in Nat /\ MaxRecords \in Nat /\ MaxLen \in Nat
  /\ MaxRefcnt \in Nat /\ MaxListed \in Nat /\ MaxNodes \in Nat
  /\ MaxRefcnt < RefMod
  /\ LeafBreaks \subseteq BOOLEAN

Block == 0 .. (DevBlocks - 1)
Paddr == 0 .. DevBlocks   \* DevBlocks stands for every address past the device
Owners == {DOwner[d] : d \in Dstreams}
Types == {DType[d] : d \in Dstreams}

\* The blocks of a range.
Span(b, n) == b .. (b + n - 1)

VARIABLES
  ext,            \* v_extent_table: the entry of each block number, if any
  used,           \* s_main_bitmap: the blocks marked as used
  block_count,    \* v_block_count: blocks of extents and of tree nodes
  snap_extrefs,   \* v_snap_extrefs: the trees of the snapshots, latest first
  tree,           \* ranges of the records read so far from the current tree
  last_key,       \* last_key.id of parse_subtree()
  ongoing_query,  \* the global that makes read_object() ignore the bitmap
  snaps_left,     \* snapshots still to be checked; v_in_snapshot iff not 0
  dext,           \* d_extents of each dstream: physical address -> blocks
  todo,           \* dstreams that free_dstream_table() has not freed yet
  cur,            \* the dstream being freed
  op,             \* range being updated or counted
  pc              \* where the checker is

tableVars == <<ext, used, block_count>>
treeVars == <<snap_extrefs, tree, last_key, snaps_left>>
catVars == <<dext, todo, cur>>

(***************************************************************************)
(* History variables: which owners have counted each block in this pass,   *)
(* whether a split has separated blocks from references already counted,   *)
(* and which blocks hold metadata.                                         *)
(***************************************************************************)
VARIABLES counted, lost, meta
histVars == <<counted, lost, meta>>

vars == <<tableVars, treeVars, ongoing_query, catVars, op, pc, histVars>>

-----------------------------------------------------------------------------
(* The extent table. *)

\* A zeroed struct extent: no entry of the hash table is like this for long,
\* because every function that creates one sets e_old_entry at once.
NoExtent == [old |-> FALSE, blocks |-> 0, refcnt |-> 0, refs |-> 0,
             owner |-> NoOwner, type |-> NoOwner]

\* What get_extent() and the assignments after it leave in a new entry.
NewExtent(n, r) == [NoExtent EXCEPT !.old = TRUE, !.blocks = n, !.refcnt = r]

\* extent_exists()
Exists(b) == b \in Block /\ ext[b].old

\* Does the entry at block s cover block b?
Covers(e, s, b) == e[s].old /\ s <= b /\ b < s + e[s].blocks

Covered(e) == {b \in Block : \E s \in Block : Covers(e, s, b)}

\* The entry that covers b.
CoverOf(e, b) == CHOOSE s \in Block : Covers(e, s, b)

-----------------------------------------------------------------------------
(* Ranges in progress.  what: "update" inside change_extent_refcnts(), "ref" *)
(* inside increase_extent_references(); bno and left: its loop variables;    *)
(* base: whole_bno or base_bno; limit: tries left for the search backwards;  *)
(* diff: refdiff; tree: the snapshot tree being searched.                    *)

NoOp == [what |-> "none", bno |-> 0, left |-> 0, base |-> 0, limit |-> 0,
         diff |-> 0, tree |-> 0]

\* Where a loop goes when its range is exhausted, and where it continues.
Resume(w) == IF w = "update" THEN "records" ELSE "extents"
Again(w) == IF w = "update" THEN "lookup" ELSE "base"

\* Mutant: the search backwards tries one block less.
StartRangeShort(w, b, n, d) ==
  /\ op' = [what |-> w, bno |-> b, left |-> n, base |-> b, limit |-> ScanLimit - 1,
            diff |-> d, tree |-> 1]
  /\ pc' = Again(w)

StartRange(w, b, n, d) ==
  /\ op' = [what |-> w, bno |-> b, left |-> n, base |-> b, limit |-> ScanLimit,
            diff |-> d, tree |-> 1]
  /\ pc' = Again(w)

\* Mutant: the range left shrinks by one block instead of n.
AdvanceByOne(n) ==
  IF op.left = n
  THEN /\ op' = NoOp
       /\ pc' = Resume(op.what)
  ELSE StartRange(op.what, op.bno + n, op.left - 1, op.diff)

\* The end of an iteration that dealt with n blocks of the range.
Advance(n) ==
  IF op.left = n
  THEN /\ op' = NoOp
       /\ pc' = Resume(op.what)
  ELSE StartRange(op.what, op.bno + n, op.left - n, op.diff)

\* report(): everything is left as it is and the program exits.
Report ==
  /\ pc' = "reported"
  /\ UNCHANGED <<tableVars, treeVars, ongoing_query, catVars, op, histVars>>

-----------------------------------------------------------------------------
(* A volume with no pass started. *)

Init ==
  /\ ext = [b \in Block |-> NoExtent]
  /\ used = Reserved
  /\ block_count = 0
  /\ snap_extrefs = << >>
  /\ tree = << >>
  /\ last_key = 0
  /\ ongoing_query = FALSE
  /\ snaps_left \in 0 .. MaxSnaps
  /\ dext = [d \in Dstreams |-> [p \in Paddr |-> 0]]
  /\ todo = Dstreams
  /\ cur = NoOwner
  /\ op = NoOp
  /\ pc = "records"
  /\ counted = [b \in Block |-> {}]
  /\ lost = FALSE
  /\ meta = {}

-----------------------------------------------------------------------------
(* parse_subtree() and parse_phys_ext_record() on an extent reference tree. *)

Record == [paddr : Paddr, len : 0 .. MaxLen, refcnt : 0 .. (RefMod - 1),
           kind : {"NEW", "UPDATE"}, owned : BOOLEAN]

\* The checks on the fields of a record that lead to report().
Malformed(r) == r.len = 0 \/ r.refcnt = 0 \/ r.owned # (r.kind = "NEW")

\* Is the key of a record accepted after last_key?  The first record of a leaf
\* is compared with the index key above it, which may repeat last_key; the
\* other records of a leaf may not.
KeyInOrder(p, first) == last_key < p \/ (first /\ last_key = p)

\* Mutant: bits that are already set are not noticed.
MarkableUnchecked(p, n) == p + n <= DevBlocks

\* container_bmap_mark_as_used() succeeds on the range.
Markable(p, n) == p + n <= DevBlocks /\ Span(p, n) \cap used = {}

\* A record that parse_subtree() or parse_phys_ext_record() reports, or a NEW
\* record of blocks that are in use or out of range.
RejectRecord(r, first) ==
  /\ pc = "records" /\ Len(tree) < MaxRecords
  /\ \/ ~KeyInOrder(r.paddr, first)
     \/ Malformed(r)
     \/ /\ r.kind = "NEW"
        /\ Exists(r.paddr) \/ ~Markable(r.paddr, r.len)
  /\ Report

\* What a lookup reads of a record.
RecordRange == [paddr : Paddr, len : 1 .. MaxLen]
RangeOf(r) == [paddr |-> r.paddr, len |-> r.len]

\* The record is consumed; last_key becomes the last block it covers.
Consume(r) ==
  /\ tree' = Append(tree, RangeOf(r))
  /\ last_key' = r.paddr + r.len - 1
  /\ UNCHANGED <<snap_extrefs, snaps_left>>

ParseNew(r, first) ==
  /\ pc = "records" /\ Len(tree) < MaxRecords
  /\ r.kind = "NEW" /\ r.refcnt <= MaxRefcnt
  /\ KeyInOrder(r.paddr, first) /\ ~Malformed(r)
  /\ ~Exists(r.paddr) /\ Markable(r.paddr, r.len)
  /\ ext' = [ext EXCEPT ![r.paddr] = NewExtent(r.len, r.refcnt)]
  /\ used' = used \cup Span(r.paddr, r.len)
  /\ block_count' = block_count + r.len
  /\ Consume(r)
  /\ UNCHANGED <<ongoing_query, catVars, op, pc, histVars>>

\* The record starts change_extent_refcnts(); its refcnt is a difference.
ParseUpdate(r, first) ==
  /\ pc = "records" /\ Len(tree) < MaxRecords
  /\ r.kind = "UPDATE"
  /\ KeyInOrder(r.paddr, first) /\ ~Malformed(r)
  /\ Consume(r)
  /\ StartRange("update", r.paddr, r.len, r.refcnt)
  /\ UNCHANGED <<tableVars, ongoing_query, catVars, histVars>>

ParseRecord ==
  \E r \in Record, brk \in LeafBreaks :
    LET first == brk \/ tree = << >>
    IN  RejectRecord(r, first) \/ ParseNew(r, first) \/ ParseUpdate(r, first)

\* read_object() on a node of one of the volume's trees.  A set ongoing_query
\* would leave the node's block unmarked.
ReadNode(b) ==
  /\ pc \in {"records", "catalog"}
  /\ Cardinality(meta) < MaxNodes
  /\ \/ ~ongoing_query /\ ~Markable(b, 1) /\ Report
     \/ /\ ongoing_query \/ Markable(b, 1)
        /\ used' = IF ongoing_query THEN used ELSE used \cup {b}
        /\ block_count' = IF ongoing_query THEN block_count ELSE block_count + 1
        /\ meta' = meta \cup {b}
        /\ UNCHANGED <<ext, treeVars, ongoing_query, catVars, op, pc, counted,
                       lost>>

\* The tree is done; a snapshot's tree joins the list, most recent first.
FinishTree ==
  /\ pc = "records"
  /\ pc' = "catalog"
  /\ snap_extrefs' = IF snaps_left > 0 THEN <<tree>> \o snap_extrefs
                     ELSE snap_extrefs
  /\ tree' = << >>
  /\ last_key' = 0
  /\ UNCHANGED <<tableVars, snaps_left, ongoing_query, catVars, op, histVars>>

-----------------------------------------------------------------------------
(* extentref_update_lookup(): one query of one snapshot's tree. *)

\* Mutant: a query returns the last key below b.
BestMatchBelow(recs, b) ==
  {i \in DOMAIN recs : /\ recs[i].paddr < b
                       /\ \A j \in DOMAIN recs : recs[j].paddr < b
                                               => recs[j].paddr <= recs[i].paddr}

\* Records that a query for b may return: those with the last key up to b.
BestMatch(recs, b) ==
  {i \in DOMAIN recs : /\ recs[i].paddr <= b
                       /\ \A j \in DOMAIN recs : recs[j].paddr <= b
                                               => recs[j].paddr <= recs[i].paddr}

\* extentref_tree_lookup() finds a record that holds the block.
LookupHit ==
  /\ pc = "lookup" /\ op.tree \in DOMAIN snap_extrefs
  /\ LET recs == snap_extrefs[op.tree]
     IN \E i \in BestMatch(recs, op.bno) :
          /\ op.bno < recs[i].paddr + recs[i].len
          /\ op' = [op EXCEPT !.base = recs[i].paddr]
  /\ ongoing_query' = FALSE
  /\ pc' = "subextent"
  /\ UNCHANGED <<tableVars, treeVars, catVars, histVars>>

\* It finds another record, or fails, and then leaves ongoing_query set; the
\* next tree is tried.
LookupMiss ==
  /\ pc = "lookup" /\ op.tree \in DOMAIN snap_extrefs
  /\ LET recs == snap_extrefs[op.tree]
         best == BestMatch(recs, op.bno)
     IN \/ best = {} /\ ongoing_query' = TRUE
        \/ /\ \E i \in best : recs[i].paddr + recs[i].len <= op.bno
           /\ ongoing_query' = FALSE
  /\ op' = [op EXCEPT !.tree = op.tree + 1]
  /\ UNCHANGED <<tableVars, treeVars, catVars, pc, histVars>>

LookupFail ==
  /\ pc = "lookup" /\ op.tree \notin DOMAIN snap_extrefs
  /\ Report

-----------------------------------------------------------------------------
(* The catalog: parse_extent_record() and attach_extent_to_dstream(). *)

\* Physical addresses listed for a dstream, and the blocks at each of them.
Listed(d) == {p \in Paddr : dext[d][p] > 0}

\* A second logical extent with the same physical address is ignored, whatever
\* its length; a hole (p = 0) is not listed.
AttachExtent(d, p, n) ==
  /\ pc = "catalog" /\ p > 0
  /\ \/ p + n > MaxAddr /\ Report
     \/ /\ p + n <= MaxAddr /\ dext[d][p] = 0
        /\ Cardinality(Listed(d)) < MaxListed
        /\ dext' = [dext EXCEPT ![d][p] = n]
        /\ UNCHANGED <<tableVars, treeVars, ongoing_query, todo, cur, op, pc,
                       histVars>>

ParseCatalog ==
  \E d \in Dstreams, p \in Paddr, n \in 1 .. MaxLen : AttachExtent(d, p, n)

FinishCatalog ==
  /\ pc = "catalog"
  /\ pc' = "dstreams"
  /\ UNCHANGED <<tableVars, treeVars, ongoing_query, catVars, op, histVars>>

-----------------------------------------------------------------------------
(* free_dstream_table(), in any order: the order is that of a hash table. *)

FreeDstream(d) ==
  /\ pc = "dstreams" /\ d \in todo
  /\ cur' = d
  /\ todo' = todo \ {d}
  /\ pc' = "extents"
  /\ UNCHANGED <<tableVars, treeVars, ongoing_query, dext, op, histVars>>

\* The next listed extent, by physical address, goes through
\* increase_extent_references().
CountExtent(p) ==
  /\ pc = "extents"
  /\ p \in Listed(cur) /\ \A q \in Listed(cur) : p <= q
  /\ dext' = [dext EXCEPT ![cur][p] = 0]
  /\ StartRange("ref", p, dext[cur][p], 0)
  /\ UNCHANGED <<tableVars, treeVars, ongoing_query, todo, cur, histVars>>

FinishDstream ==
  /\ pc = "extents" /\ Listed(cur) = {}
  /\ cur' = NoOwner
  /\ pc' = "dstreams"
  /\ UNCHANGED <<tableVars, treeVars, ongoing_query, dext, todo, op, histVars>>

\* Mutant: the search backwards has no limit.
SearchBaseForever ==
  /\ pc = "base"
  /\ \/ Exists(op.base) /\ pc' = "subextent" /\ op' = op
     \/ /\ ~Exists(op.base) /\ pc' = pc
        /\ op' = [op EXCEPT !.base = IF op.base = 0 THEN MaxAddr ELSE op.base - 1]
  /\ UNCHANGED <<tableVars, treeVars, ongoing_query, catVars, histVars>>

\* Look backwards for an entry; u64 arithmetic wraps below zero.
SearchBase ==
  /\ pc = "base"
  /\ \/ /\ Exists(op.base)
        /\ pc' = "subextent"
        /\ UNCHANGED <<tableVars, treeVars, ongoing_query, catVars, op, histVars>>
     \/ /\ ~Exists(op.base) /\ op.limit = 1
        /\ Report
     \/ /\ ~Exists(op.base) /\ op.limit > 1
        /\ op' = [op EXCEPT !.limit = op.limit - 1,
                            !.base = IF op.base = 0 THEN MaxAddr ELSE op.base - 1]
        /\ UNCHANGED <<tableVars, treeVars, ongoing_query, catVars, pc, histVars>>

-----------------------------------------------------------------------------
(* get_subextent(whole_bno, part_bno, part_blkcnt). *)

\* The search forward from whole_bno for the entry that covers part_bno.
SkipBlock ==
  /\ pc = "subextent" /\ op.base <= op.bno /\ ~Exists(op.base)
  /\ op' = [op EXCEPT !.base = op.base + 1]
  /\ UNCHANGED <<tableVars, treeVars, ongoing_query, catVars, pc, histVars>>

SkipExtent ==
  /\ pc = "subextent" /\ op.base <= op.bno /\ Exists(op.base)
  /\ ext[op.base].blocks # 0
  /\ op.base + ext[op.base].blocks <= op.bno
  /\ op' = [op EXCEPT !.base = op.base + ext[op.base].blocks]
  /\ UNCHANGED <<tableVars, treeVars, ongoing_query, catVars, pc, histVars>>

\* Mutant: the part is not cut at the end of the range.
PartLenRest(e, w, b, n) == e[w].blocks - (b - w)

\* How many blocks the part gets, and whether pieces of the whole are left
\* before and after it.
PartLen(e, w, b, n) ==
  LET rest == e[w].blocks - (b - w) IN IF n < rest THEN n ELSE rest
HasTail(e, w, b, n) == (b - w) + PartLen(e, w, b, n) < e[w].blocks

\* Mutant: the entry that is split keeps its length.
CarveWhole(e, w, b, n) ==
  LET part == PartLen(e, w, b, n)
  IN [s \in Block |->
        IF s = b /\ w # b THEN NewExtent(part, e[w].refcnt)
        ELSE IF s = b + part /\ HasTail(e, w, b, n)
             THEN NewExtent(e[w].blocks - (b - w) - part, e[w].refcnt)
        ELSE e[s]]
\* The table after the entry at w has been split so that the part of at most n
\* blocks that begins at b has an entry of its own.  The entry at w keeps the
\* references counted so far; the new entries start from none.
Carve(e, w, b, n) ==
  LET part == PartLen(e, w, b, n)
      tail == HasTail(e, w, b, n)
  IN [s \in Block |->
        IF s = b
        THEN IF w = b THEN [e[w] EXCEPT !.blocks = part]
             ELSE NewExtent(part, e[w].refcnt)
        ELSE IF s = w THEN [e[w] EXCEPT !.blocks = b - w]
        ELSE IF tail /\ s = b + part
             THEN NewExtent(e[w].blocks - (b - w) - part, e[w].refcnt)
        ELSE e[s]]

\* "weird overlapping extents": a piece would begin where an entry exists.
CarveClash(e, w, b, n) ==
  \/ w # b /\ e[b].old
  \/ HasTail(e, w, b, n) /\ e[b + PartLen(e, w, b, n)].old

\* The entry that covers part_bno is at whole_bno.
Found ==
  /\ pc = "subextent" /\ op.base <= op.bno /\ Exists(op.base)
  /\ op.bno < op.base + ext[op.base].blocks

\* "BUG!", "has no blocks?", "update for nonexisting extent." and "weird
\* overlapping extents."
Unusable ==
  \/ op.base > op.bno
  \/ Exists(op.base) /\ ext[op.base].blocks = 0
  \/ Found /\ CarveClash(ext, op.base, op.bno, op.left)

SubextentFail == pc = "subextent" /\ Unusable /\ Report

\* The split, if any, takes blocks away from references already counted.
Drops ==
  /\ ext[op.base].refs > 0
  /\ PartLen(ext, op.base, op.bno, op.left) # ext[op.base].blocks

\* The rest of an iteration of change_extent_refcnts(): e_refcnt is a u32.
ApplyUpdate ==
  /\ Found /\ ~Unusable /\ op.what = "update"
  /\ ext' = [Carve(ext, op.base, op.bno, op.left) EXCEPT
               ![op.bno].refcnt = (@ + op.diff) % RefMod]
  /\ lost' = (lost \/ Drops)
  /\ Advance(PartLen(ext, op.base, op.bno, op.left))
  /\ UNCHANGED <<used, block_count, treeVars, ongoing_query, catVars, counted,
                 meta>>

\* The rest of an iteration of increase_extent_references().
Reference(x, o, t) ==
  [x EXCEPT !.refs = IF x.refs = 0 \/ x.owner # o THEN x.refs + 1 ELSE x.refs,
            !.owner = o,
            !.type = t]

CountReference ==
  /\ Found /\ ~Unusable /\ op.what = "ref"
  /\ LET carved == Carve(ext, op.base, op.bno, op.left)
         part == PartLen(ext, op.base, op.bno, op.left)
         mixed == carved[op.bno].refs > 0 /\ carved[op.bno].type # DType[cur]
     IN \/ mixed /\ Report
        \/ /\ ~mixed
           /\ ext' = [carved EXCEPT ![op.bno] = Reference(@, DOwner[cur], DType[cur])]
           /\ counted' = [b \in Block |-> IF b \in Span(op.bno, part)
                                          THEN counted[b] \cup {DOwner[cur]}
                                          ELSE counted[b]]
           /\ lost' = (lost \/ Drops)
           /\ Advance(part)
           /\ UNCHANGED <<used, block_count, treeVars, ongoing_query, catVars,
                          meta>>

-----------------------------------------------------------------------------
(* check_extent() on the whole table, at the end of a pass. *)

\* Mutant: an extent that nothing references is not checked.
BalancedIfReferenced ==
  \A b \in Block : ext[b].old /\ ext[b].refs > 0 => ext[b].refcnt = ext[b].refs

Balanced == \A b \in Block : ext[b].old => ext[b].refcnt = ext[b].refs

BadCount == pc = "dstreams" /\ todo = {} /\ ~Balanced /\ Report

\* Mutant: the references of a snapshot are those of the next one too.
EndPassKept ==
  /\ pc = "dstreams" /\ todo = {} /\ Balanced
  /\ counted' = [b \in Block |-> {}]
  /\ lost' = FALSE
  /\ \/ snaps_left = 0 /\ pc' = "clean" /\ UNCHANGED <<snaps_left, todo>>
     \/ /\ snaps_left > 0
        /\ pc' = "records"
        /\ snaps_left' = snaps_left - 1
        /\ todo' = Dstreams
  /\ UNCHANGED <<ext, used, block_count, snap_extrefs, tree, last_key, ongoing_query,
                 dext, cur, op, meta>>

\* check_and_reset_extent_table() after a snapshot, free_extent_table() after
\* the latest transaction.  The next pass starts with empty catalog tables.
EndPass ==
  /\ pc = "dstreams" /\ todo = {} /\ Balanced
  /\ ext' = [b \in Block |-> [ext[b] EXCEPT !.refs = 0]]
  /\ counted' = [b \in Block |-> {}]
  /\ lost' = FALSE
  /\ \/ snaps_left = 0 /\ pc' = "clean" /\ UNCHANGED <<snaps_left, todo>>
     \/ /\ snaps_left > 0
        /\ pc' = "records"
        /\ snaps_left' = snaps_left - 1
        /\ todo' = Dstreams
  /\ UNCHANGED <<used, block_count, snap_extrefs, tree, last_key, ongoing_query,
                 dext, cur, op, meta>>

Exited == pc \in {"reported", "clean"} /\ UNCHANGED vars

-----------------------------------------------------------------------------
Next ==
  \/ ParseRecord
  \/ \E b \in Block : ReadNode(b)
  \/ FinishTree
  \/ LookupHit \/ LookupMiss \/ LookupFail
  \/ ParseCatalog
  \/ FinishCatalog
  \/ \E d \in Dstreams : FreeDstream(d)
  \/ \E p \in Paddr : CountExtent(p)
  \/ FinishDstream
  \/ SearchBase
  \/ SkipBlock \/ SkipExtent \/ SubextentFail
  \/ ApplyUpdate \/ CountReference
  \/ BadCount \/ EndPass
  \/ Exited

Spec == Init /\ [][Next]_vars

\* apfsck is a single thread that never waits: it always takes its next step.
FairSpec == Spec /\ WF_vars(Next)

-----------------------------------------------------------------------------
(* Properties. *)

Extent == [old : BOOLEAN, blocks : Nat, refcnt : 0 .. (RefMod - 1), refs : Nat,
           owner : Owners \cup {NoOwner}, type : Types \cup {NoOwner}]

Operation == [what : {"none", "update", "ref"}, bno : Nat, left : Nat,
              base : Nat, limit : Nat, diff : Nat, tree : Nat]

Pc == {"records", "lookup", "subextent", "catalog", "dstreams", "extents",
       "base", "reported", "clean"}

\* The variables keep their types: in particular the loop variables of the two
\* range loops never go below zero, and every entry lies on the device.
TypeOK ==
  /\ ext \in [Block -> Extent]
  /\ used \subseteq Block
  /\ block_count \in Nat
  /\ snap_extrefs \in Seq(Seq(RecordRange))
  /\ tree \in Seq(RecordRange)
  /\ last_key \in Nat
  /\ ongoing_query \in BOOLEAN
  /\ snaps_left \in Nat
  /\ dext \in [Dstreams -> [Paddr -> Nat]]
  /\ todo \subseteq Dstreams
  /\ cur \in Dstreams \cup {NoOwner}
  /\ op \in Operation
  /\ pc \in Pc
  /\ counted \in [Block -> SUBSET Owners]
  /\ lost \in BOOLEAN
  /\ meta \subseteq Block

\* A table whose entries have blocks, stay on the device and share none.
Disjoint(e) ==
  \A s \in Block : e[s].old =>
    /\ e[s].blocks > 0
    /\ s + e[s].blocks <= DevBlocks
    /\ \A t \in Block : e[t].old /\ s < t => s + e[s].blocks <= t

\* No split of get_subextent() and no NEW record ever leaves two entries that
\* share a block, an entry without blocks, or one that leaves the device.
ExtentsDisjoint == Disjoint(ext)

\* The loop variables make sense wherever the checker is: a range is in progress
\* exactly inside the two range loops, it is not exhausted, a dstream is being
\* freed while its extents are counted, and no failed lookup has left
\* ongoing_query set outside extentref_update_lookup().
LoopsOK ==
  /\ pc \in {"records", "catalog", "dstreams", "extents", "clean"} => op.what = "none"
  /\ pc = "lookup" => op.what = "update"
  /\ pc = "base" => op.what = "ref"
  /\ pc = "subextent" => op.what \in {"update", "ref"}
  /\ op.what # "none" => op.left > 0 /\ op.left <= MaxLen
  /\ op.what = "ref" \/ pc = "extents" => cur \in Dstreams
  /\ \A d \in Dstreams, p \in Paddr : dext[d][p] <= MaxLen
  /\ ongoing_query => pc \in {"lookup", "reported"}

\* Every block of an extent is marked in the bitmap.
EntriesUsed ==
  \A s \in Block : ext[s].old => Span(s, ext[s].blocks) \subseteq used

\* The inductive invariant behind the proofs.
Inv == TypeOK /\ ExtentsDisjoint /\ EntriesUsed /\ LoopsOK

\* The entries cover exactly the blocks that container_bmap_mark_as_used() was
\* given for extents: splits neither lose nor invent blocks, every node read is
\* marked (no read happens while ongoing_query is set by a failed lookup), no
\* block is both data and metadata, and v_block_count counts each block once.
TableMatchesBitmap ==
  /\ used = Reserved \cup meta \cup Covered(ext)
  /\ Covered(ext) \cap (Reserved \cup meta) = {}
  /\ block_count = Cardinality(used \ Reserved)

\* The records of an extent reference tree that was parsed without a report do
\* not overlap ("Physical extents must not overlap", parse_subtree()).
RecordsDontOverlap ==
  [][FinishTree => \A i, j \in DOMAIN tree :
                     i < j => tree[i].paddr + tree[i].len <= tree[j].paddr]_vars

\* The searches report only what is really missing: a lookup fails only if no
\* snapshot's tree has a record of the block; the search backwards fails only
\* if no extent that begins less than ScanLimit blocks before covers it; and
\* get_subextent() never fails for an update, and for a reference only if the
\* block is not covered or the owners' types differ.
NoFalseAlarm ==
  [][pc' = "reported" =>
       /\ pc = "lookup" =>
            \A i \in DOMAIN snap_extrefs : \A j \in DOMAIN snap_extrefs[i] :
              op.bno \notin Span(snap_extrefs[i][j].paddr, snap_extrefs[i][j].len)
       /\ pc = "base" =>
            \A s \in Block : Covers(ext, s, op.bno) => s + ScanLimit <= op.bno
       /\ pc = "subextent" =>
            /\ op.what = "ref"
            /\ \A s \in Block : Covers(ext, s, op.bno) => ext[s].type # DType[cur]
    ]_vars

\* A pass that check_extent() accepts has, for every block, at least as many
\* owners as its extent's reference count says; and exactly as many if no split
\* took blocks away from references that were already counted.
CountsTrusted ==
  [][EndPass =>
       \A s \in Block : \A b \in Span(s, ext[s].blocks) : ext[s].old =>
         /\ ext[s].refcnt <= Cardinality(counted[b])
         /\ ~lost => ext[s].refcnt = Cardinality(counted[b])]_vars

\* e_references is the "actual reference count to extent" (extents.h): a pass
\* that check_extent() accepts has as many owners of every block as its
\* extent's reference count says.
AcceptedCountsAreReal ==
  [][EndPass =>
       \A s \in Block : \A b \in Span(s, ext[s].blocks) :
         ext[s].old => ext[s].refcnt = Cardinality(counted[b])]_vars

\* The checker always ends, with a report or with a clean volume: the searches
\* for entries and the loops over ranges cannot go on for ever.
Terminates == <>(pc \in {"reported", "clean"})

(***************************************************************************)
(* The table, split as it may be, is a map from blocks to counts.          *)
(***************************************************************************)
CountOf(e) == [b \in Block |-> IF b \in Covered(e) THEN e[CoverOf(e, b)].refcnt
                               ELSE 0]
Updating == op.what = "update"

Abstract == INSTANCE BlockRefs WITH
  Blocks <- Block, Addrs <- Paddr, Lens <- 0 .. MaxLen, known <- Covered(ext), count <- CountOf(ext),
  from <- IF Updating THEN op.bno ELSE 0,
  left <- IF Updating THEN op.left ELSE 0,
  diff <- IF Updating THEN op.diff ELSE 0

\* However NEW and UPDATE records, splits and counted references alternate over
\* the passes, the table behaves as one reference count for each block, to
\* which every UPDATE record adds its difference exactly once.
ImplementsBlockRefs == Abstract!Init /\ [][Abstract!Next]_(Abstract!vars)
=============================================================================
