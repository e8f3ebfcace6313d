-------------------------- MODULE ExtentRefs_proofs --------------------------
(***************************************************************************)
(* Proofs about ExtentRefs, for every device, every number of snapshots    *)
(* and every set of dstreams.                                              *)
(***************************************************************************)
EXTENDS ExtentRefs, TLAPS, FiniteSetTheorems, SequenceTheorems

-----------------------------------------------------------------------------
(* get_subextent(): what a split does to the table. *)

\* The part that is cut out is not empty, fits in the range asked for and in
\* the whole extent, and the blocks left for the tail are the rest of it.
LEMMA PartLenBounds ==
  ASSUME NEW e \in [Block -> Extent], NEW w \in Block, NEW b \in Nat,
         NEW n \in Nat \ {0}, Covers(e, w, b)
  PROVE  /\ PartLen(e, w, b, n) \in Nat \ {0}
         /\ PartLen(e, w, b, n) <= n
         /\ (b - w) + PartLen(e, w, b, n) <= e[w].blocks
         /\ ~HasTail(e, w, b, n) => (b - w) + PartLen(e, w, b, n) = e[w].blocks
<1>1. /\ e[w].blocks \in Nat /\ w \in Nat
      /\ w <= b /\ b < w + e[w].blocks
  BY DevAssumption DEF Covers, Extent, Block, DevAssumption
<1> QED
  BY <1>1 DEF PartLen, HasTail

\* A split of an entry of a well-formed table gives a well-typed table.
LEMMA CarveType ==
  ASSUME NEW e \in [Block -> Extent], NEW w \in Block, NEW b \in Block,
         NEW n \in Nat \ {0}, Covers(e, w, b)
  PROVE  Carve(e, w, b, n) \in [Block -> Extent]
<1> DEFINE p == PartLen(e, w, b, n)
<1>2. e[w] \in Extent /\ w \in Nat /\ b \in Nat /\ b - w \in Nat
  BY DEF Block, Covers
<1>1. /\ p \in Nat \ {0}
      /\ (b - w) + p <= e[w].blocks
  BY <1>2, PartLenBounds
<1>3. NewExtent(p, e[w].refcnt) \in Extent
  BY <1>1, <1>2, DevAssumption DEF NewExtent, NoExtent, Extent, DevAssumption
<1>4. e[w].blocks - (b - w) - p \in Nat
  BY <1>1, <1>2 DEF Extent
<1>5. NewExtent(e[w].blocks - (b - w) - p, e[w].refcnt) \in Extent
  BY <1>4, <1>2, DevAssumption DEF NewExtent, NoExtent, Extent, DevAssumption
<1>6. /\ [e[w] EXCEPT !.blocks = p] \in Extent
      /\ [e[w] EXCEPT !.blocks = b - w] \in Extent
  BY <1>1, <1>2 DEF Extent
<1> QED
  BY <1>3, <1>5, <1>6 DEF Carve

\* A split keeps the table disjoint, and never begins a piece where another
\* entry is: "weird overlapping extents." cannot be reported.
LEMMA CarveDisjoint ==
  ASSUME NEW e \in [Block -> Extent], NEW w \in Block, NEW b \in Block,
         NEW n \in Nat \ {0}, Covers(e, w, b), Disjoint(e)
  PROVE  /\ Disjoint(Carve(e, w, b, n))
         /\ ~CarveClash(e, w, b, n)
<1> DEFINE p == PartLen(e, w, b, n)
           f == Carve(e, w, b, n)
<1>1. /\ w \in Nat /\ b \in Nat /\ e[w].old
      /\ e[w].blocks \in Nat /\ w <= b /\ b < w + e[w].blocks
      /\ DevBlocks \in Nat
  BY DevAssumption DEF Covers, Extent, Block, DevAssumption
<1>2. /\ p \in Nat \ {0}
      /\ (b - w) + p <= e[w].blocks
      /\ ~HasTail(e, w, b, n) => (b - w) + p = e[w].blocks
  BY <1>1, PartLenBounds
<1>3. \A s \in Block : /\ s \in Nat /\ s < DevBlocks
                       /\ e[s].blocks \in Nat
  BY <1>1 DEF Block, Extent
<1>4. w + e[w].blocks <= DevBlocks
  BY <1>1 DEF Disjoint
<1>5. HasTail(e, w, b, n) => b + p \in Block /\ b + p < w + e[w].blocks
  BY <1>1, <1>2, <1>4 DEF HasTail, Block
<1>6. \A s \in Block : e[s].old /\ w < s => w + e[w].blocks <= s
  BY <1>1 DEF Disjoint
<1>7. \A s \in Block : e[s].old /\ s < w => s + e[s].blocks <= w
  BY <1>1 DEF Disjoint
<1>8. ~CarveClash(e, w, b, n)
  BY <1>1, <1>2, <1>3, <1>5, <1>6 DEF CarveClash
<1>9. ASSUME NEW s \in Block
      PROVE  /\ s = b => f[s].old /\ f[s].blocks = p
             /\ s = w /\ w # b => f[s].old /\ f[s].blocks = b - w
             /\ s # b /\ s # w /\ HasTail(e, w, b, n) /\ s = b + p
                  => f[s].old /\ f[s].blocks = e[w].blocks - (b - w) - p
             /\ s # b /\ s # w /\ ~(HasTail(e, w, b, n) /\ s = b + p)
                  => f[s] = e[s]
  BY <1>1 DEF Carve, NewExtent, NoExtent, Extent
<1>10. ASSUME NEW s \in Block, f[s].old
       PROVE  \/ s = b /\ f[s].blocks = p
              \/ s = w /\ w < b /\ f[s].blocks = b - w
              \/ /\ HasTail(e, w, b, n) /\ s = b + p
                 /\ f[s].blocks = w + e[w].blocks - s
              \/ /\ e[s].old /\ f[s].blocks = e[s].blocks
                 /\ s + e[s].blocks <= w \/ w + e[w].blocks <= s
  BY <1>1, <1>2, <1>3, <1>6, <1>7, <1>9, <1>10
<1>11. Disjoint(f)
  <2> SUFFICES ASSUME NEW s \in Block, f[s].old
               PROVE  /\ f[s].blocks > 0
                      /\ s + f[s].blocks <= DevBlocks
                      /\ \A t \in Block : f[t].old /\ s < t => s + f[s].blocks <= t
    BY DEF Disjoint
  <2>1. e[s].old => /\ e[s].blocks > 0
                    /\ s + e[s].blocks <= DevBlocks
                    /\ \A t \in Block : e[t].old /\ s < t => s + e[s].blocks <= t
    BY DEF Disjoint
  <2>2. f[s].blocks > 0 /\ s + f[s].blocks <= DevBlocks
    BY <1>1, <1>2, <1>3, <1>4, <1>5, <1>10, <2>1 DEF HasTail
  <2>3. ASSUME NEW t \in Block, f[t].old, s < t
        PROVE  s + f[s].blocks <= t
    BY <1>1, <1>2, <1>3, <1>4, <1>5, <1>10, <2>1, <2>3 DEF HasTail
  <2> QED
    BY <2>2, <2>3
<1> QED
  BY <1>8, <1>11

\* Two entries of a disjoint table never cover the same block.
LEMMA CoverUnique ==
  ASSUME NEW e \in [Block -> Extent], Disjoint(e), NEW b \in Block,
         NEW s \in Block, NEW t \in Block, Covers(e, s, b), Covers(e, t, b)
  PROVE  s = t
<1>1. /\ s \in Nat /\ t \in Nat /\ b \in Nat
      /\ e[s].blocks \in Nat /\ e[t].blocks \in Nat
  BY DEF Block, Extent
<1>2. /\ e[s].old /\ b < s + e[s].blocks /\ s <= b
      /\ e[t].old /\ b < t + e[t].blocks /\ t <= b
  BY DEF Covers
<1>3. /\ s < t => s + e[s].blocks <= t
      /\ t < s => t + e[t].blocks <= s
  BY <1>2 DEF Disjoint
<1> QED
  BY <1>1, <1>2, <1>3

\* A split moves no block: each block keeps an entry with its count.
LEMMA CarveCovers ==
  ASSUME NEW e \in [Block -> Extent], NEW w \in Block, NEW b \in Block,
         NEW n \in Nat \ {0}, Covers(e, w, b), Disjoint(e), NEW c \in Block
  PROVE  LET f == Carve(e, w, b, n)
         IN  /\ \A s \in Block : Covers(f, s, c) =>
                  \E t \in Block : Covers(e, t, c) /\ e[t].refcnt = f[s].refcnt
             /\ \A t \in Block : Covers(e, t, c) =>
                  \E s \in Block : Covers(f, s, c)
             /\ Covers(f, b, c) <=> b <= c /\ c < b + PartLen(e, w, b, n)
<1> DEFINE p == PartLen(e, w, b, n)
           f == Carve(e, w, b, n)
<1>1. /\ w \in Nat /\ b \in Nat /\ c \in Nat /\ e[w].old
      /\ e[w].blocks \in Nat /\ w <= b /\ b < w + e[w].blocks
      /\ DevBlocks \in Nat
  BY DevAssumption DEF Covers, Extent, Block, DevAssumption
<1>2. /\ p \in Nat \ {0}
      /\ (b - w) + p <= e[w].blocks
      /\ ~HasTail(e, w, b, n) => (b - w) + p = e[w].blocks
  BY <1>1, PartLenBounds
<1>3. \A s \in Block : s \in Nat /\ e[s].blocks \in Nat
  BY <1>1 DEF Block, Extent
<1>4. w + e[w].blocks <= DevBlocks
  BY <1>1 DEF Disjoint
<1>5. HasTail(e, w, b, n) => b + p \in Block /\ b + p < w + e[w].blocks /\ b + p # w
  BY <1>1, <1>2, <1>4 DEF HasTail, Block
<1>6. HasTail(e, w, b, n) => ~e[b + p].old
  BY <1>1, <1>2, <1>5 DEF Disjoint
<1>7. b # w => ~e[b].old
  BY <1>1 DEF Disjoint
<1>8. ASSUME NEW s \in Block
      PROVE  /\ s = b => f[s].old /\ f[s].blocks = p /\ f[s].refcnt = e[w].refcnt
             /\ s = w /\ w # b => f[s].old /\ f[s].blocks = b - w /\ f[s].refcnt = e[w].refcnt
             /\ s # b /\ s # w /\ HasTail(e, w, b, n) /\ s = b + p
                  => /\ f[s].old /\ f[s].blocks = e[w].blocks - (b - w) - p
                     /\ f[s].refcnt = e[w].refcnt
             /\ s # b /\ s # w /\ ~(HasTail(e, w, b, n) /\ s = b + p)
                  => f[s] = e[s]
  BY <1>1 DEF Carve, NewExtent, NoExtent, Extent
<1>9. ASSUME NEW s \in Block, Covers(f, s, c)
      PROVE  \E t \in Block : Covers(e, t, c) /\ e[t].refcnt = f[s].refcnt
  <2>1. s = b \/ s = w \/ (HasTail(e, w, b, n) /\ s = b + p)
          => Covers(e, w, c) /\ e[w].refcnt = f[s].refcnt
    BY <1>1, <1>2, <1>3, <1>5, <1>8, <1>9 DEF Covers
  <2>2. s # b /\ s # w /\ ~(HasTail(e, w, b, n) /\ s = b + p)
          => Covers(e, s, c) /\ e[s].refcnt = f[s].refcnt
    BY <1>8, <1>9 DEF Covers
  <2> QED
    BY <2>1, <2>2
<1>10. ASSUME NEW t \in Block, Covers(e, t, c)
       PROVE  \E s \in Block : Covers(f, s, c)
  <2>1. CASE t # w
    <3>1. t # b /\ ~(HasTail(e, w, b, n) /\ t = b + p)
      BY <1>6, <1>7, <1>10, <2>1 DEF Covers
    <3> QED
      BY <1>8, <1>10, <2>1, <3>1 DEF Covers
  <2>2. CASE t = w /\ c < b
    BY <1>1, <1>8, <1>10, <2>2 DEF Covers
  <2>3. CASE t = w /\ b <= c /\ c < b + p
    BY <1>1, <1>2, <1>8, <1>10, <2>3 DEF Covers
  <2>4. CASE t = w /\ b + p <= c
    <3>1. HasTail(e, w, b, n)
      BY <1>1, <1>2, <1>10, <2>4 DEF Covers
    <3> QED
      BY <1>1, <1>2, <1>5, <1>8, <1>10, <2>4, <3>1 DEF Covers
  <2> QED
    BY <1>1, <1>2, <2>1, <2>2, <2>3, <2>4
<1>11. Covers(f, b, c) <=> b <= c /\ c < b + p
  BY <1>1, <1>2, <1>8 DEF Covers
<1> QED
  BY <1>9, <1>10, <1>11

-----------------------------------------------------------------------------
(* The inductive invariant. *)

\* Nothing but pc changes when the program exits with report().
LEMMA ReportStep == ASSUME Inv, Report PROVE Inv'
<1> USE DEF Inv, Report, tableVars, treeVars, catVars, histVars
<1>1. TypeOK'
  BY DEF TypeOK, Pc
<1>2. ExtentsDisjoint' /\ EntriesUsed'
  BY DEF ExtentsDisjoint, Disjoint, EntriesUsed
<1>3. LoopsOK'
  BY DEF LoopsOK
<1> QED
  BY <1>1, <1>2, <1>3

\* The checker starts from an empty table.
LEMMA InitInv == Init => Inv
<1> SUFFICES ASSUME Init PROVE Inv
  OBVIOUS
<1>1. NoExtent \in Extent /\ NoOp \in Operation
  BY DevAssumption DEF NoExtent, Extent, NoOp, Operation, DevAssumption
<1>2. TypeOK
  <2>1. used \subseteq Block /\ snaps_left \in Nat
    BY DevAssumption, BoundAssumption
    DEF Init, DevAssumption, BoundAssumption, Block
  <2>2. /\ ext \in [Block -> Extent]
        /\ dext \in [Dstreams -> [Paddr -> Nat]]
        /\ counted \in [Block -> SUBSET Owners]
    BY <1>1 DEF Init
  <2>3. snap_extrefs \in Seq(Seq(RecordRange)) /\ tree \in Seq(RecordRange)
    BY DEF Init
  <2>4. /\ block_count \in Nat /\ last_key \in Nat /\ todo \subseteq Dstreams
        /\ cur \in Dstreams \cup {NoOwner} /\ op \in Operation /\ pc \in Pc
        /\ meta \subseteq Block
    BY <1>1 DEF Init, Pc
  <2>5. ongoing_query \in BOOLEAN /\ lost \in BOOLEAN
    BY DEF Init
  <2> QED
    BY <2>1, <2>2, <2>3, <2>4, <2>5 DEF TypeOK
<1>3. \A b \in Block : ~ext[b].old
  BY DEF Init, NoExtent
<1>4. ExtentsDisjoint /\ EntriesUsed
  BY <1>3 DEF ExtentsDisjoint, Disjoint, EntriesUsed
<1>5. LoopsOK
  BY BoundAssumption DEF Init, LoopsOK, NoOp, BoundAssumption
<1> QED
  BY <1>2, <1>4, <1>5 DEF Inv

\* A NEW record creates an entry over blocks that no entry covers.
LEMMA ParseNewStep ==
  ASSUME Inv, NEW r \in Record, NEW first \in BOOLEAN, ParseNew(r, first)
  PROVE  Inv'
<1> USE DEF Inv
<1>1. /\ r.paddr \in Nat /\ r.len \in Nat \ {0} /\ r.len \in 1 .. MaxLen
      /\ r.refcnt \in 0 .. (RefMod - 1)
      /\ r.paddr + r.len <= DevBlocks /\ r.paddr \in Paddr
      /\ DevBlocks \in Nat
  BY DevAssumption, BoundAssumption
  DEF ParseNew, Record, Malformed, Markable, Paddr, DevAssumption, BoundAssumption
<1>2. r.paddr \in Block /\ Span(r.paddr, r.len) \subseteq Block
  BY <1>1 DEF Block, Span
<1>3. NewExtent(r.len, r.refcnt) \in Extent
  BY <1>1 DEF NewExtent, NoExtent, Extent
<1>4. /\ ext' \in [Block -> Extent]
      /\ ext'[r.paddr].old /\ ext'[r.paddr].blocks = r.len
      /\ \A s \in Block : s # r.paddr => ext'[s] = ext[s]
  BY <1>2, <1>3 DEF ParseNew, TypeOK, NewExtent, NoExtent
<1>5. tree' \in Seq(RecordRange) /\ last_key' \in Nat
  <2>1. RangeOf(r) \in RecordRange
    BY <1>1 DEF RangeOf, RecordRange
  <2>2. tree' = Append(tree, RangeOf(r)) /\ last_key' = r.paddr + r.len - 1
    BY DEF ParseNew, Consume
  <2>3. tree' \in Seq(RecordRange)
    BY <2>1, <2>2 DEF TypeOK
  <2> QED
    BY <1>1, <2>2, <2>3
<1>6. TypeOK'
  <2>1. used' \subseteq Block
    BY <1>2 DEF TypeOK, ParseNew
  <2>2. block_count' \in Nat
    BY <1>1 DEF TypeOK, ParseNew
  <2>3. UNCHANGED <<snap_extrefs, snaps_left, ongoing_query, dext, todo, cur, op, pc,
                    counted, lost, meta>>
    BY DEF ParseNew, Consume, catVars, histVars
  <2> QED
    BY <1>4, <1>5, <2>1, <2>2, <2>3 DEF TypeOK
<1>7. \A s \in Block : s \in Nat /\ ext[s].blocks \in Nat
  BY DEF TypeOK, Extent, Block
<1>8. ASSUME NEW s \in Block, ext[s].old
      PROVE  /\ s < r.paddr => s + ext[s].blocks <= r.paddr
             /\ r.paddr < s => r.paddr + r.len <= s
             /\ s # r.paddr
  <2>1. s \in used /\ (s <= r.paddr /\ r.paddr < s + ext[s].blocks => r.paddr \in used)
    BY <1>1, <1>7, <1>8 DEF EntriesUsed, Span, ExtentsDisjoint, Disjoint
  <2>2. \A c \in used : c < r.paddr \/ r.paddr + r.len <= c
    <3>1. used \subseteq Nat /\ Span(r.paddr, r.len) \cap used = {}
      BY DEF TypeOK, Block, ParseNew, Markable
    <3> QED
      BY <1>1, <3>1 DEF Span
  <2> QED
    BY <1>1, <1>7, <2>1, <2>2
<1>9. ExtentsDisjoint'
  BY <1>1, <1>2, <1>4, <1>7, <1>8 DEF ExtentsDisjoint, Disjoint
<1>10. EntriesUsed'
  BY <1>4 DEF EntriesUsed, ParseNew
<1>11. LoopsOK'
  BY DEF LoopsOK, ParseNew, catVars
<1> QED
  BY <1>6, <1>9, <1>10, <1>11

\* A step that leaves the table and the bitmap alone keeps what relates them.
LEMMA FrameTable ==
  ASSUME ExtentsDisjoint, EntriesUsed, UNCHANGED <<ext, used>>
  PROVE  ExtentsDisjoint' /\ EntriesUsed'
  BY DEF ExtentsDisjoint, Disjoint, EntriesUsed

\* An UPDATE record only starts a range.
LEMMA ParseUpdateStep ==
  ASSUME Inv, NEW r \in Record, NEW first \in BOOLEAN, ParseUpdate(r, first)
  PROVE  Inv'
<1> USE DEF Inv
<1>1. /\ r.paddr \in Nat /\ r.len \in Nat \ {0} /\ r.len \in 1 .. MaxLen
      /\ r.refcnt \in Nat /\ r.paddr \in Paddr /\ ScanLimit \in Nat
  BY DevAssumption, BoundAssumption
  DEF ParseUpdate, Record, Malformed, Paddr, DevAssumption, BoundAssumption
<1>2. tree' \in Seq(RecordRange) /\ last_key' \in Nat
  BY <1>1 DEF ParseUpdate, Consume, TypeOK, RangeOf, RecordRange
<1>3. /\ op' \in Operation /\ op'.what = "update" /\ op'.left = r.len
      /\ pc' = "lookup"
  BY <1>1 DEF ParseUpdate, StartRange, Operation, Again
<1>4. TypeOK'
  BY <1>2, <1>3
  DEF TypeOK, ParseUpdate, Consume, tableVars, catVars, histVars, Pc
<1>5. ExtentsDisjoint' /\ EntriesUsed'
  BY FrameTable DEF ParseUpdate, tableVars
<1>6. LoopsOK'
  BY <1>1, <1>3 DEF LoopsOK, ParseUpdate, catVars
<1> QED
  BY <1>4, <1>5, <1>6

\* Reading a node marks one more block, or none.
LEMMA ReadNodeStep == ASSUME Inv, NEW b \in Block, ReadNode(b) PROVE Inv'
<1> USE DEF Inv
<1>1. CASE Report
  BY <1>1, ReportStep
<1>2. CASE ~Report
  <2>1. /\ used' = used \/ used' = used \cup {b}
        /\ block_count' = block_count \/ block_count' = block_count + 1
        /\ meta' = meta \cup {b}
        /\ UNCHANGED <<ext, treeVars, ongoing_query, catVars, op, pc, counted, lost>>
    BY <1>2 DEF ReadNode
  <2>2. TypeOK'
    BY <2>1 DEF TypeOK, treeVars, catVars
  <2>3. ExtentsDisjoint'
    BY <2>1 DEF ExtentsDisjoint, Disjoint
  <2>4. EntriesUsed'
    BY <2>1 DEF EntriesUsed
  <2>5. LoopsOK'
    BY <2>1 DEF LoopsOK, catVars
  <2> QED
    BY <2>2, <2>3, <2>4, <2>5
<1> QED
  BY <1>1, <1>2

\* The steps of the searches change only where the search is.
LEMMA SearchStep ==
  ASSUME Inv,
         UNCHANGED tableVars, UNCHANGED treeVars,
         UNCHANGED catVars, UNCHANGED histVars,
         ongoing_query' \in BOOLEAN,
         op' \in Operation, op'.what = op.what, op'.left = op.left,
         \/ pc \in {"base", "lookup"} /\ pc' = "subextent" /\ ~ongoing_query'
         \/ pc = "lookup" /\ pc' = pc
         \/ UNCHANGED <<pc, ongoing_query>>
  PROVE  Inv'
<1> USE DEF Inv
<1>1. TypeOK'
  BY DEF TypeOK, tableVars, treeVars, catVars, histVars, Pc
<1>2. ExtentsDisjoint' /\ EntriesUsed'
  BY FrameTable DEF tableVars
<1>3. LoopsOK'
  BY DEF LoopsOK, catVars
<1> QED
  BY <1>1, <1>2, <1>3

\* Which updates of a range in progress a search makes.
LEMMA SearchEdit ==
  ASSUME NEW o \in Operation, NEW b \in Nat
  PROVE  /\ [o EXCEPT !.base = b] \in Operation
         /\ [o EXCEPT !.base = b].what = o.what
         /\ [o EXCEPT !.base = b].left = o.left
         /\ [o EXCEPT !.tree = b] \in Operation
         /\ [o EXCEPT !.tree = b].what = o.what
         /\ [o EXCEPT !.tree = b].left = o.left
         /\ \A l \in Nat : /\ [o EXCEPT !.limit = l, !.base = b] \in Operation
                           /\ [o EXCEPT !.limit = l, !.base = b].what = o.what
                           /\ [o EXCEPT !.limit = l, !.base = b].left = o.left
  BY DEF Operation

\* The lookups move between trees and choose a lower bound for the search.
LEMMA LookupStep == ASSUME Inv, LookupHit \/ LookupMiss PROVE Inv'
<1>1. /\ UNCHANGED tableVars /\ UNCHANGED treeVars
      /\ UNCHANGED catVars /\ UNCHANGED histVars
      /\ ongoing_query' \in BOOLEAN
  BY DEF LookupHit, LookupMiss
<1>2. CASE LookupHit
  <2>1. PICK i \in DOMAIN snap_extrefs[op.tree] :
          op' = [op EXCEPT !.base = snap_extrefs[op.tree][i].paddr]
    BY <1>2 DEF LookupHit, BestMatch
  <2>2. snap_extrefs[op.tree] \in Seq(RecordRange)
    BY <1>2 DEF LookupHit, Inv, TypeOK
  <2>3. snap_extrefs[op.tree][i].paddr \in Nat
    <3> DEFINE recs == snap_extrefs[op.tree]
    <3>1. recs \in Seq(RecordRange) /\ i \in DOMAIN recs
      BY <2>1, <2>2
    <3> HIDE DEF recs
    <3>2. recs[i] \in RecordRange
      BY <3>1
    <3> QED
      BY <3>2 DEF RecordRange, Paddr, recs
  <2>4. op' \in Operation /\ op'.what = op.what /\ op'.left = op.left
    BY <2>1, <2>3, SearchEdit DEF Inv, TypeOK
  <2> QED
    BY <1>1, <1>2, <2>4, SearchStep DEF LookupHit
<1>3. CASE LookupMiss
  <2>1. /\ op' \in Operation /\ op'.what = op.what /\ op'.left = op.left
        /\ pc = "lookup" /\ pc' = "lookup"
    <3>1. op \in Operation /\ op.tree + 1 \in Nat
      BY DEF Inv, TypeOK, Operation
    <3> QED
      BY <1>3, <3>1, SearchEdit DEF LookupMiss
  <2> QED
    BY <1>1, <2>1, SearchStep
<1> QED
  BY <1>2, <1>3

\* The search backwards in increase_extent_references().
LEMMA SearchBaseStep == ASSUME Inv, SearchBase PROVE Inv'
<1>1. CASE Report
  BY <1>1, ReportStep
<1>2. CASE ~Report
  <2>1. /\ op' \in Operation /\ op'.what = op.what /\ op'.left = op.left
        /\ pc = "base" /\ (pc' = pc \/ pc' = "subextent")
        /\ UNCHANGED tableVars /\ UNCHANGED treeVars /\ UNCHANGED catVars
        /\ UNCHANGED histVars /\ UNCHANGED ongoing_query
    <3>1. /\ op \in Operation
          /\ (IF op.base = 0 THEN MaxAddr ELSE op.base - 1) \in Nat
          /\ op.limit > 1 => op.limit - 1 \in Nat
      BY DevAssumption DEF Inv, TypeOK, Operation, DevAssumption
    <3>2. CASE UNCHANGED op
      BY <1>2, <3>1, <3>2 DEF SearchBase
    <3>3. CASE ~UNCHANGED op
      <4>1. /\ op' = [op EXCEPT !.limit = op.limit - 1,
                               !.base = IF op.base = 0 THEN MaxAddr ELSE op.base - 1]
            /\ op.limit > 1
            /\ UNCHANGED <<tableVars, treeVars, ongoing_query, catVars, pc, histVars>>
        BY <1>2, <3>3 DEF SearchBase
      <4> DEFINE b == IF op.base = 0 THEN MaxAddr ELSE op.base - 1
                 l == op.limit - 1
      <4>2. op \in Operation /\ b \in Nat /\ l \in Nat
        BY <3>1, <4>1
      <4>3. op' = [op EXCEPT !.limit = l, !.base = b]
        BY <4>1
      <4> HIDE DEF b, l
      <4>4. op' \in Operation /\ op'.what = op.what /\ op'.left = op.left
        BY <4>2, <4>3, SearchEdit
      <4>5. pc = "base"
        BY DEF SearchBase
      <4> QED
        BY <4>1, <4>4, <4>5
    <3> QED
      BY <3>2, <3>3
  <2>2. ongoing_query \in BOOLEAN /\ ~ongoing_query
    BY <2>1 DEF Inv, TypeOK, LoopsOK
  <2> QED
    BY <2>1, <2>2, SearchStep
<1> QED
  BY <1>1, <1>2

\* The search forwards in get_subextent().
LEMMA SkipStep == ASSUME Inv, SkipBlock \/ SkipExtent PROVE Inv'
<1>1. op \in Operation /\ op.base \in Nat
  BY DEF Inv, TypeOK, Operation
<1>2. Exists(op.base) => op.base + ext[op.base].blocks \in Nat
  BY <1>1 DEF Inv, TypeOK, Exists, Extent
<1>3. /\ op' \in Operation /\ op'.what = op.what /\ op'.left = op.left
      /\ UNCHANGED tableVars /\ UNCHANGED treeVars /\ UNCHANGED catVars
      /\ UNCHANGED histVars /\ UNCHANGED ongoing_query /\ UNCHANGED pc
  <2>1. \/ op' = [op EXCEPT !.base = op.base + 1]
        \/ Exists(op.base) /\ op' = [op EXCEPT !.base = op.base + ext[op.base].blocks]
    BY DEF SkipBlock, SkipExtent
  <2>2. op' \in Operation /\ op'.what = op.what /\ op'.left = op.left
    <3>1. PICK b \in Nat : op' = [op EXCEPT !.base = b]
      BY <1>1, <1>2, <2>1
    <3> QED
      BY <1>1, <3>1, SearchEdit
  <2> QED
    BY <2>2 DEF SkipBlock, SkipExtent
<1>4. ongoing_query \in BOOLEAN
  BY DEF Inv, TypeOK
<1> QED
  BY <1>3, <1>4, SearchStep

\* A finished tree joins the list of snapshot trees.
LEMMA FinishTreeStep == ASSUME Inv, FinishTree PROVE Inv'
<1>1. /\ snap_extrefs' \in Seq(Seq(RecordRange))
      /\ tree' \in Seq(RecordRange) /\ last_key' \in Nat
  <2>1. tree \in Seq(RecordRange) /\ snap_extrefs \in Seq(Seq(RecordRange))
    BY DEF Inv, TypeOK
  <2>2. <<tree>> \o snap_extrefs \in Seq(Seq(RecordRange))
    BY <2>1
  <2> QED
    BY <2>1, <2>2 DEF FinishTree
<1>2. TypeOK'
  BY <1>1 DEF FinishTree, Inv, TypeOK, tableVars, catVars, histVars, Pc
<1>3. ExtentsDisjoint' /\ EntriesUsed'
  BY FrameTable DEF Inv, FinishTree, tableVars
<1>4. LoopsOK'
  BY DEF Inv, LoopsOK, FinishTree, catVars
<1> QED
  BY <1>2, <1>3, <1>4 DEF Inv

\* The catalog lists an extent for a dstream, or the program exits.
LEMMA AttachStep ==
  ASSUME Inv, NEW d \in Dstreams, NEW p \in Paddr, NEW n \in 1 .. MaxLen,
         AttachExtent(d, p, n)
  PROVE  Inv'
<1>1. CASE Report
  BY <1>1, ReportStep
<1>2. CASE ~Report
  <2>1. /\ dext' = [dext EXCEPT ![d][p] = n] /\ pc' = pc /\ pc = "catalog"
        /\ UNCHANGED <<tableVars, treeVars, ongoing_query, todo, cur, op, histVars>>
    BY <1>2 DEF AttachExtent
  <2>2. n \in Nat /\ n <= MaxLen
    BY BoundAssumption DEF BoundAssumption
  <2>3. /\ dext' \in [Dstreams -> [Paddr -> Nat]]
        /\ \A x \in Dstreams, q \in Paddr : dext'[x][q] <= MaxLen
    BY <2>1, <2>2 DEF Inv, TypeOK, LoopsOK
  <2>4. TypeOK'
    BY <2>1, <2>3 DEF Inv, TypeOK, tableVars, treeVars, histVars
  <2>5. ExtentsDisjoint' /\ EntriesUsed'
    BY <2>1, FrameTable DEF Inv, tableVars
  <2>6. LoopsOK'
    BY <2>1, <2>3 DEF Inv, LoopsOK
  <2> QED
    BY <2>4, <2>5, <2>6 DEF Inv
<1> QED
  BY <1>1, <1>2

\* The steps that only move from one stage to another.
LEMMA StageStep ==
  ASSUME Inv,
         FinishCatalog \/ FinishDstream \/ (\E d \in Dstreams : FreeDstream(d))
  PROVE  Inv'
<1>1. /\ UNCHANGED <<tableVars, treeVars, ongoing_query, dext, op, histVars>>
      /\ \/ pc = "catalog" /\ pc' = "dstreams" /\ UNCHANGED <<todo, cur>>
         \/ pc = "extents" /\ pc' = "dstreams" /\ todo' = todo /\ cur' = NoOwner
         \/ /\ pc = "dstreams" /\ pc' = "extents" /\ cur' \in Dstreams
            /\ todo' \subseteq todo
  BY DEF FinishCatalog, FinishDstream, FreeDstream, catVars
<1>2. TypeOK'
  BY <1>1 DEF Inv, TypeOK, tableVars, treeVars, histVars, Pc
<1>3. ExtentsDisjoint' /\ EntriesUsed'
  BY <1>1, FrameTable DEF Inv, tableVars
<1>4. LoopsOK'
  BY <1>1 DEF Inv, LoopsOK
<1> QED
  BY <1>2, <1>3, <1>4 DEF Inv

\* A listed extent becomes a range to be counted.
LEMMA CountExtentStep ==
  ASSUME Inv, NEW p \in Paddr, CountExtent(p)
  PROVE  Inv'
<1>1. /\ cur \in Dstreams /\ pc = "extents"
      /\ dext[cur][p] \in Nat \ {0} /\ dext[cur][p] <= MaxLen /\ p \in Nat
      /\ ScanLimit \in Nat
  BY DevAssumption
  DEF CountExtent, Listed, Inv, LoopsOK, TypeOK, Paddr, DevAssumption
<1>2. /\ op' \in Operation /\ op'.what = "ref" /\ op'.left = dext[cur][p]
      /\ pc' = "base"
  BY <1>1 DEF CountExtent, StartRange, Operation, Again
<1>3. /\ dext' \in [Dstreams -> [Paddr -> Nat]]
      /\ \A x \in Dstreams, q \in Paddr : dext'[x][q] <= MaxLen
  BY <1>1, BoundAssumption DEF CountExtent, Inv, TypeOK, LoopsOK, BoundAssumption
<1>4. TypeOK'
  BY <1>2, <1>3 DEF CountExtent, Inv, TypeOK, tableVars, treeVars, histVars, Pc
<1>5. ExtentsDisjoint' /\ EntriesUsed'
  BY FrameTable DEF Inv, CountExtent, tableVars
<1>6. LoopsOK'
  BY <1>1, <1>2, <1>3 DEF Inv, LoopsOK, CountExtent
<1> QED
  BY <1>4, <1>5, <1>6 DEF Inv

\* What Found says of the table and of the range in progress.
LEMMA FoundFacts ==
  ASSUME Inv, Found, op.what # "none"
  PROVE  /\ op.base \in Block /\ op.bno \in Block
         /\ op.left \in Nat \ {0} /\ op.left <= MaxLen
         /\ ext \in [Block -> Extent] /\ Disjoint(ext)
         /\ Covers(ext, op.base, op.bno)
         /\ op \in Operation
<1>1. /\ op \in Operation /\ op.bno \in Nat /\ op.base \in Nat
      /\ op.left \in Nat \ {0} /\ op.left <= MaxLen
      /\ ext \in [Block -> Extent] /\ Disjoint(ext)
  BY DEF Inv, TypeOK, LoopsOK, Operation, ExtentsDisjoint
<1>2. op.base \in Block /\ Covers(ext, op.base, op.bno)
  BY DEF Found, Exists, Covers
<1>3. op.base + ext[op.base].blocks <= DevBlocks /\ ext[op.base].blocks \in Nat
  BY <1>1, <1>2 DEF Disjoint, Covers, Extent
<1>4. op.bno \in Block
  BY <1>1, <1>2, <1>3, DevAssumption DEF Covers, Block, DevAssumption
<1> QED
  BY <1>1, <1>2, <1>4

\* A table that differs from another only in counts and owners.
LEMMA Recount ==
  ASSUME NEW f \in [Block -> Extent], NEW g \in [Block -> Extent], Disjoint(f),
         \A s \in Block : g[s].old = f[s].old /\ g[s].blocks = f[s].blocks
  PROVE  Disjoint(g)
  BY DEF Disjoint

\* The pieces of a split are blocks of the whole, so they stay marked.
LEMMA CarveUsed ==
  ASSUME Inv, Found, op.what # "none",
         NEW g \in [Block -> Extent],
         \A s \in Block :
           /\ g[s].old = Carve(ext, op.base, op.bno, op.left)[s].old
           /\ g[s].blocks = Carve(ext, op.base, op.bno, op.left)[s].blocks
  PROVE  /\ Disjoint(g)
         /\ \A s \in Block : g[s].old => Span(s, g[s].blocks) \subseteq used
<1> DEFINE f == Carve(ext, op.base, op.bno, op.left)
<1>1. /\ f \in [Block -> Extent] /\ Disjoint(f)
  BY FoundFacts, CarveType, CarveDisjoint
<1>2. Disjoint(g)
  <2> HIDE DEF f
  <2>1. \A s \in Block : g[s].old = f[s].old /\ g[s].blocks = f[s].blocks
    BY DEF f
  <2> QED
    BY <1>1, <2>1, Recount
<1>3. ASSUME NEW s \in Block, g[s].old, NEW c \in Span(s, g[s].blocks)
      PROVE  c \in used
  <2>1. /\ s \in Nat /\ c \in Nat /\ g[s].blocks \in Nat
        /\ s <= c /\ c < s + g[s].blocks /\ s + g[s].blocks <= DevBlocks
        /\ DevBlocks \in Nat
    BY <1>2, <1>3, DevAssumption DEF Span, Block, Extent, Disjoint, DevAssumption
  <2>2. c \in Block /\ Covers(f, s, c)
    BY <1>3, <2>1 DEF Block, Covers
  <2>3. PICK t \in Block : Covers(ext, t, c)
    BY <2>2, FoundFacts, CarveCovers
  <2>4. c \in Span(t, ext[t].blocks) /\ ext[t].old
    <3>1. t \in Nat /\ ext[t].blocks \in Nat
      BY <2>3, SMTT(30) DEF Inv, TypeOK, Block, Extent
    <3> QED
      BY <2>1, <2>3, <3>1 DEF Covers, Span
  <2> QED
    BY <2>3, <2>4 DEF Inv, EntriesUsed
<1> QED
  BY <1>2, <1>3

\* The end of an iteration of a range loop.
LEMMA AdvanceStep ==
  ASSUME Inv, op.what # "none", cur' = cur, dext' = dext,
         ongoing_query' = ongoing_query, ~ongoing_query,
         NEW n \in Nat \ {0}, n <= op.left, Advance(n)
  PROVE  op' \in Operation /\ pc' \in Pc /\ LoopsOK'
<1>1. /\ op \in Operation /\ op.bno \in Nat /\ op.left \in Nat /\ op.diff \in Nat
      /\ op.what \in {"update", "ref"} /\ op.left <= MaxLen
      /\ ScanLimit \in Nat /\ MaxLen \in Nat
  BY DevAssumption, BoundAssumption
  DEF Inv, TypeOK, LoopsOK, Operation, DevAssumption, BoundAssumption
<1>2. CASE op.left = n
  <2>1. /\ op' = NoOp /\ op' \in Operation /\ op'.what = "none"
        /\ pc' = Resume(op.what)
    BY <1>2 DEF Advance, NoOp, Operation
  <2>2. /\ pc' \in {"records", "extents"}
        /\ pc' = "extents" => op.what = "ref"
    BY <1>1, <2>1 DEF Resume
  <2> QED
    BY <2>1, <2>2 DEF Inv, LoopsOK, Pc
<1>3. CASE op.left # n
  <2>1. /\ op' = [what |-> op.what, bno |-> op.bno + n, left |-> op.left - n,
                  base |-> op.bno + n, limit |-> ScanLimit, diff |-> op.diff,
                  tree |-> 1]
        /\ pc' = Again(op.what)
    BY <1>3 DEF Advance, StartRange
  <2>2. /\ op.bno + n \in Nat /\ op.left - n \in Nat
        /\ op.left - n > 0 /\ op.left - n <= MaxLen
    BY <1>1, <1>3
  <2>3. /\ op' \in Operation /\ op'.what = op.what
        /\ op'.left > 0 /\ op'.left <= MaxLen
    BY <1>1, <2>1, <2>2 DEF Operation
  <2>4. /\ pc' \in {"lookup", "base"}
        /\ pc' = "lookup" => op.what = "update"
        /\ pc' = "base" => op.what = "ref"
    BY <1>1, <2>1 DEF Again
  <2> QED
    BY <2>3, <2>4 DEF Inv, LoopsOK, Pc
<1> QED
  BY <1>2, <1>3

\* An iteration of change_extent_refcnts().
LEMMA ApplyUpdateStep == ASSUME Inv, ApplyUpdate PROVE Inv'
<1> DEFINE f == Carve(ext, op.base, op.bno, op.left)
           p == PartLen(ext, op.base, op.bno, op.left)
<1>1. Found /\ op.what # "none" /\ pc = "subextent"
  BY DEF ApplyUpdate, Found
<1>2. /\ f \in [Block -> Extent] /\ op.bno \in Block /\ op \in Operation
      /\ p \in Nat \ {0} /\ p <= op.left
  <2>1. op.bno \in Nat
    BY DEF Inv, TypeOK, Operation
  <2> QED
    BY <1>1, <2>1, FoundFacts, CarveType, PartLenBounds
<1> HIDE DEF f, p
<1>3. (f[op.bno].refcnt + op.diff) % RefMod \in 0 .. (RefMod - 1)
  <2>1. f[op.bno].refcnt \in Nat /\ op.diff \in Nat /\ RefMod \in Nat \ {0}
    BY <1>2, DevAssumption DEF Extent, Operation, DevAssumption
  <2> QED
    BY <2>1
<1>4. /\ ext' \in [Block -> Extent]
      /\ \A s \in Block : ext'[s].old = f[s].old /\ ext'[s].blocks = f[s].blocks
  <2>1. ext' = [f EXCEPT ![op.bno].refcnt = (f[op.bno].refcnt + op.diff) % RefMod]
    BY DEF ApplyUpdate, f
  <2> QED
    BY <1>2, <1>3, <2>1 DEF Extent
<1>5. ExtentsDisjoint' /\ EntriesUsed'
  <2>1. /\ Disjoint(ext')
        /\ \A s \in Block : ext'[s].old => Span(s, ext'[s].blocks) \subseteq used
    BY <1>1, <1>4, CarveUsed DEF f
  <2>2. used' = used
    BY DEF ApplyUpdate
  <2> QED
    BY <2>1, <2>2 DEF ExtentsDisjoint, EntriesUsed, Disjoint
<1>6. op' \in Operation /\ pc' \in Pc /\ LoopsOK'
  <2>1. /\ ~ongoing_query /\ ongoing_query' = ongoing_query
        /\ cur' = cur /\ dext' = dext /\ Advance(p)
    BY <1>1 DEF ApplyUpdate, Inv, LoopsOK, catVars, p
  <2> QED
    BY <1>1, <1>2, <2>1, AdvanceStep
<1>7. lost' \in BOOLEAN
  BY DEF ApplyUpdate
<1>8. TypeOK'
  BY <1>4, <1>6, <1>7 DEF ApplyUpdate, Inv, TypeOK, treeVars, catVars
<1> QED
  BY <1>5, <1>6, <1>8 DEF Inv

\* An iteration of increase_extent_references().
LEMMA CountReferenceStep == ASSUME Inv, CountReference PROVE Inv'
<1> DEFINE f == Carve(ext, op.base, op.bno, op.left)
           p == PartLen(ext, op.base, op.bno, op.left)
<1>0. CASE Report
  BY <1>0, ReportStep
<1>1. CASE ~Report
  <2>1. /\ Found /\ op.what # "none" /\ pc = "subextent"
        /\ cur \in Dstreams
    BY DEF CountReference, Found, Inv, LoopsOK
  <2>2. /\ f \in [Block -> Extent] /\ op.bno \in Block /\ op \in Operation
        /\ p \in Nat \ {0} /\ p <= op.left
    <3>1. op.bno \in Nat
      BY DEF Inv, TypeOK, Operation
    <3> QED
      BY <2>1, <3>1, FoundFacts, CarveType, PartLenBounds
  <2> HIDE DEF f, p
  <2>3. /\ ext' = [f EXCEPT ![op.bno] =
                     Reference(f[op.bno], DOwner[cur], DType[cur])]
        /\ counted' = [b \in Block |-> IF b \in Span(op.bno, p)
                                       THEN counted[b] \cup {DOwner[cur]}
                                       ELSE counted[b]]
        /\ lost' = (lost \/ Drops)
        /\ Advance(p)
        /\ UNCHANGED <<used, block_count, treeVars, ongoing_query, catVars, meta>>
    BY <1>1 DEF CountReference, f, p
  <2>4. DOwner[cur] \in Owners /\ DType[cur] \in Types
    BY <2>1 DEF Owners, Types
  <2>5. /\ Reference(f[op.bno], DOwner[cur], DType[cur]) \in Extent
        /\ Reference(f[op.bno], DOwner[cur], DType[cur]).old = f[op.bno].old
        /\ Reference(f[op.bno], DOwner[cur], DType[cur]).blocks = f[op.bno].blocks
    <3> DEFINE x == f[op.bno]
               k == IF x.refs = 0 \/ x.owner # DOwner[cur] THEN x.refs + 1 ELSE x.refs
    <3>1. x \in Extent
      BY <2>2
    <3>2. Reference(x, DOwner[cur], DType[cur])
            = [x EXCEPT !.refs = k, !.owner = DOwner[cur], !.type = DType[cur]]
      BY DEF Reference
    <3> HIDE DEF x
    <3>3. k \in Nat
      BY <3>1 DEF Extent
    <3> HIDE DEF k
    <3>4. /\ Reference(x, DOwner[cur], DType[cur]) \in Extent
          /\ Reference(x, DOwner[cur], DType[cur]).old = x.old
          /\ Reference(x, DOwner[cur], DType[cur]).blocks = x.blocks
      BY <2>4, <3>1, <3>2, <3>3 DEF Extent
    <3> QED
      BY <3>4 DEF x
  <2>6. /\ ext' \in [Block -> Extent]
        /\ \A s \in Block : ext'[s].old = f[s].old /\ ext'[s].blocks = f[s].blocks
    BY <2>2, <2>3, <2>5
  <2>7. ExtentsDisjoint' /\ EntriesUsed'
    <3>1. /\ Disjoint(ext')
          /\ \A s \in Block : ext'[s].old => Span(s, ext'[s].blocks) \subseteq used
      BY <2>1, <2>6, CarveUsed DEF f
    <3> QED
      BY <2>3, <3>1 DEF ExtentsDisjoint, EntriesUsed, Disjoint
  <2>8. op' \in Operation /\ pc' \in Pc /\ LoopsOK'
    <3>1. /\ ~ongoing_query /\ ongoing_query' = ongoing_query
          /\ cur' = cur /\ dext' = dext
      BY <2>1, <2>3 DEF Inv, LoopsOK, catVars
    <3> QED
      BY <2>1, <2>2, <2>3, <3>1, AdvanceStep
  <2>9. counted' \in [Block -> SUBSET Owners] /\ lost' \in BOOLEAN
    BY <2>3, <2>4 DEF Inv, TypeOK
  <2>10. TypeOK'
    BY <2>3, <2>6, <2>8, <2>9 DEF Inv, TypeOK, treeVars, catVars
  <2> QED
    BY <2>7, <2>8, <2>10 DEF Inv
<1> QED
  BY <1>0, <1>1

\* The end of a pass resets the references and nothing else of an entry.
LEMMA EndPassStep == ASSUME Inv, EndPass PROVE Inv'
<1>1. /\ ext' \in [Block -> Extent]
      /\ \A s \in Block : ext'[s].old = ext[s].old /\ ext'[s].blocks = ext[s].blocks
  <2>1. ext \in [Block -> Extent] /\ ext' = [b \in Block |-> [ext[b] EXCEPT !.refs = 0]]
    BY DEF EndPass, Inv, TypeOK
  <2>2. \A x \in Extent : /\ [x EXCEPT !.refs = 0] \in Extent
                          /\ [x EXCEPT !.refs = 0].old = x.old
                          /\ [x EXCEPT !.refs = 0].blocks = x.blocks
    BY DEF Extent
  <2> QED
    BY <2>1, <2>2
<1>2. ExtentsDisjoint' /\ EntriesUsed'
  <2>1. Disjoint(ext')
    BY <1>1, Recount DEF Inv, TypeOK, ExtentsDisjoint
  <2> QED
    BY <1>1, <2>1 DEF Inv, ExtentsDisjoint, Disjoint, EntriesUsed, EndPass
<1>3. /\ counted' \in [Block -> SUBSET Owners] /\ lost' \in BOOLEAN
      /\ snaps_left' \in Nat /\ todo' \subseteq Dstreams /\ pc' \in Pc
  <2>1. counted' \in [Block -> SUBSET Owners] /\ lost' \in BOOLEAN
    BY DEF EndPass
  <2>2. snaps_left \in Nat /\ todo \subseteq Dstreams
    BY DEF Inv, TypeOK
  <2>3. \/ pc' = "clean" /\ snaps_left' = snaps_left /\ todo' = todo
        \/ /\ pc' = "records" /\ snaps_left > 0 /\ snaps_left' = snaps_left - 1
           /\ todo' = Dstreams
    BY DEF EndPass
  <2> QED
    BY <2>1, <2>2, <2>3 DEF Pc
<1>4. TypeOK'
  BY <1>1, <1>3 DEF EndPass, Inv, TypeOK
<1>5. LoopsOK'
  BY DEF EndPass, Inv, LoopsOK
<1> QED
  BY <1>2, <1>4, <1>5 DEF Inv

\* Every step of the checker keeps the invariant.
LEMMA NextInv == ASSUME Inv, [Next]_vars PROVE Inv'
<1>1. CASE ParseRecord
  <2>1. PICK r \in Record, first \in BOOLEAN :
          RejectRecord(r, first) \/ ParseNew(r, first) \/ ParseUpdate(r, first)
    BY <1>1, BoundAssumption DEF ParseRecord, BoundAssumption
  <2> QED
    BY <2>1, ReportStep, ParseNewStep, ParseUpdateStep DEF RejectRecord
<1>2. CASE \E b \in Block : ReadNode(b)
  BY <1>2, ReadNodeStep
<1>3. CASE FinishTree
  BY <1>3, FinishTreeStep
<1>4. CASE LookupHit \/ LookupMiss
  BY <1>4, LookupStep
<1>5. CASE LookupFail \/ SubextentFail \/ BadCount
  BY <1>5, ReportStep DEF LookupFail, SubextentFail, BadCount
<1>6. CASE ParseCatalog
  BY <1>6, AttachStep DEF ParseCatalog
<1>7. CASE FinishCatalog \/ FinishDstream \/ \E d \in Dstreams : FreeDstream(d)
  BY <1>7, StageStep
<1>8. CASE \E p \in Paddr : CountExtent(p)
  BY <1>8, CountExtentStep
<1>9. CASE SearchBase
  BY <1>9, SearchBaseStep
<1>10. CASE SkipBlock \/ SkipExtent
  BY <1>10, SkipStep
<1>11. CASE ApplyUpdate
  BY <1>11, ApplyUpdateStep
<1>12. CASE CountReference
  BY <1>12, CountReferenceStep
<1>13. CASE EndPass
  BY <1>13, EndPassStep
<1>14. CASE UNCHANGED vars
  <2>1. /\ UNCHANGED tableVars /\ UNCHANGED treeVars /\ UNCHANGED catVars
        /\ UNCHANGED histVars /\ ongoing_query' = ongoing_query
        /\ op' = op /\ pc' = pc
    BY <1>14 DEF vars
  <2>2. ongoing_query \in BOOLEAN /\ op \in Operation
    BY DEF Inv, TypeOK
  <2> QED
    BY <2>1, <2>2, SearchStep
<1> QED
  BY <1>1, <1>2, <1>3, <1>4, <1>5, <1>6, <1>7, <1>8, <1>9, <1>10, <1>11, <1>12,
     <1>13, <1>14 DEF Next, Exited

\* The inductive invariant holds in every state the checker reaches.
THEOREM Invariance == Spec => []Inv
  BY InitInv, NextInv, PTL DEF Spec

\* For every device, tree, catalog and order of the hash table: the variables
\* keep their types, so no loop counter of extents.c underflows.
THEOREM TypeCorrect == Spec => []TypeOK
<1>1. Inv => TypeOK
  BY DEF Inv
<1> QED
  BY <1>1, Invariance, PTL

\* However records, splits and references alternate, the entries of the extent
\* table never share a block, are never empty and never leave the device.
THEOREM TableStaysDisjoint == Spec => []ExtentsDisjoint
<1>1. Inv => ExtentsDisjoint
  BY DEF Inv
<1> QED
  BY <1>1, Invariance, PTL

-----------------------------------------------------------------------------
(* The table implements one reference count for each block. *)

\* The count of a block is that of the entry that covers it.
LEMMA CountAt ==
  ASSUME NEW e \in [Block -> Extent], Disjoint(e), NEW b \in Block,
         NEW s \in Block, Covers(e, s, b)
  PROVE  b \in Covered(e) /\ CountOf(e)[b] = e[s].refcnt
<1>1. b \in Covered(e)
  BY DEF Covered
<1>2. CoverOf(e, b) \in Block /\ Covers(e, CoverOf(e, b), b)
  BY DEF CoverOf
<1>3. CoverOf(e, b) = s
  BY <1>2, CoverUnique
<1> QED
  BY <1>1, <1>3 DEF CountOf

\* Two tables whose entries give every block the same count.
LEMMA CountSame ==
  ASSUME NEW e \in [Block -> Extent], Disjoint(e),
         NEW g \in [Block -> Extent], Disjoint(g),
         \A c \in Block :
           /\ \A s \in Block : Covers(g, s, c) =>
                \E t \in Block : Covers(e, t, c) /\ e[t].refcnt = g[s].refcnt
           /\ \A t \in Block : Covers(e, t, c) => \E s \in Block : Covers(g, s, c)
  PROVE  Covered(g) = Covered(e) /\ CountOf(g) = CountOf(e)
<1>1. Covered(g) = Covered(e)
  BY DEF Covered
<1>2. ASSUME NEW c \in Covered(g)
      PROVE  CountOf(g)[c] = CountOf(e)[c]
  <2>1. c \in Block
    BY DEF Covered
  <2>2. PICK s \in Block : Covers(g, s, c)
    BY DEF Covered
  <2>3. PICK t \in Block : Covers(e, t, c) /\ e[t].refcnt = g[s].refcnt
    BY <2>1, <2>2
  <2>4. CountOf(g)[c] = g[s].refcnt /\ CountOf(e)[c] = e[t].refcnt
    BY <2>1, <2>2, <2>3, CountAt
  <2> QED
    BY <2>3, <2>4
<1>3. ASSUME NEW c \in Block, c \notin Covered(g)
      PROVE  CountOf(g)[c] = CountOf(e)[c]
  BY <1>1, <1>3 DEF CountOf
<1>4. \A c \in Block : CountOf(g)[c] = CountOf(e)[c]
  BY <1>2, <1>3
<1> QED
  BY <1>1, <1>4 DEF CountOf

\* A split is invisible to the blocks.
LEMMA CarveCount ==
  ASSUME Inv, Found, op.what # "none"
  PROVE  LET f == Carve(ext, op.base, op.bno, op.left)
         IN  /\ Covered(f) = Covered(ext)
             /\ CountOf(f) = CountOf(ext)
             /\ f \in [Block -> Extent] /\ Disjoint(f)
<1> DEFINE f == Carve(ext, op.base, op.bno, op.left)
<1>1. /\ f \in [Block -> Extent] /\ Disjoint(f)
      /\ ext \in [Block -> Extent] /\ Disjoint(ext)
  BY FoundFacts, CarveType, CarveDisjoint
<1>2. \A c \in Block :
           /\ \A s \in Block : Covers(f, s, c) =>
                \E t \in Block : Covers(ext, t, c) /\ ext[t].refcnt = f[s].refcnt
           /\ \A t \in Block : Covers(ext, t, c) => \E s \in Block : Covers(f, s, c)
  BY FoundFacts, CarveCovers
<1> HIDE DEF f
<1>3. Covered(f) = Covered(ext) /\ CountOf(f) = CountOf(ext)
  BY <1>1, <1>2, CountSame
<1> QED
  BY <1>1, <1>3 DEF f

\* A step that changes neither the counts of blocks nor the update in progress
\* is a stuttering step of the abstract specification.
LEMMA AbstractStutter ==
  ASSUME Covered(ext') = Covered(ext), CountOf(ext') = CountOf(ext),
         \/ op' = op
         \/ op.what # "update" /\ op'.what # "update"
         \/ op'.what = op.what /\ op'.bno = op.bno /\ op'.left = op.left
            /\ op'.diff = op.diff
  PROVE  UNCHANGED Abstract!vars
  BY DEF Abstract!vars, Updating, Covered, CountOf, Covers, CoverOf

\* The empty table has no known block.
LEMMA AbstractInit == ASSUME Init PROVE Abstract!Init
<1>1. \A b \in Block : ~ext[b].old
  BY DEF Init, NoExtent
<1>2. Covered(ext) = {}
  BY <1>1 DEF Covered, Covers
<1>3. CountOf(ext) = [b \in Block |-> 0]
  BY <1>2 DEF CountOf
<1>4. ~Updating
  BY DEF Init, NoOp, Updating
<1> QED
  BY <1>2, <1>3, <1>4 DEF Abstract!Init

\* A NEW record introduces its blocks with its count.
LEMMA AbstractNew ==
  ASSUME Inv, Inv', NEW r \in Record, NEW first \in BOOLEAN, ParseNew(r, first)
  PROVE  Abstract!New(r.paddr, r.len, r.refcnt)
<1> DEFINE new == {c \in Block : r.paddr <= c /\ c < r.paddr + r.len}
<1>1. /\ r.paddr \in Nat /\ r.len \in Nat \ {0} /\ r.paddr + r.len <= DevBlocks
      /\ DevBlocks \in Nat
  BY DevAssumption, BoundAssumption
  DEF ParseNew, Record, Malformed, Markable, Paddr, DevAssumption, BoundAssumption
<1>2. r.paddr \in Block /\ \A c \in Block : c \in Nat
  BY <1>1 DEF Block
<1>3. /\ ext \in [Block -> Extent] /\ Disjoint(ext)
      /\ ext' \in [Block -> Extent] /\ Disjoint(ext')
  BY DEF Inv, TypeOK, ExtentsDisjoint, Disjoint
<1>4. /\ ext'[r.paddr].old /\ ext'[r.paddr].blocks = r.len
      /\ ext'[r.paddr].refcnt = r.refcnt
      /\ \A s \in Block : s # r.paddr => ext'[s] = ext[s]
      /\ ~ext[r.paddr].old
  BY <1>2, <1>3 DEF ParseNew, NewExtent, NoExtent, Exists
<1>5. \A c \in Block : Covers(ext', r.paddr, c) <=> c \in new
  BY <1>1, <1>2, <1>4 DEF Covers
<1>6. \A s \in Block, c \in Block : s # r.paddr => (Covers(ext', s, c) <=> Covers(ext, s, c))
  BY <1>4 DEF Covers
<1>7. \A c \in Block : ~Covers(ext, r.paddr, c)
  BY <1>4 DEF Covers
<1>8. new \cap Covered(ext) = {}
  <2> SUFFICES ASSUME NEW c \in Block, c \in new, NEW s \in Block, Covers(ext, s, c)
               PROVE  FALSE
    BY DEF Covered
  <2>1. s # r.paddr
    BY <1>7
  <2>2. Covers(ext', s, c) /\ Covers(ext', r.paddr, c)
    BY <1>5, <1>6, <2>1
  <2> QED
    BY <1>2, <1>3, <2>1, <2>2, CoverUnique
<1>9. Covered(ext') = Covered(ext) \cup new
  <2>1. ASSUME NEW c \in Covered(ext') PROVE c \in Covered(ext) \cup new
    BY <1>5, <1>6 DEF Covered
  <2>2. ASSUME NEW c \in Covered(ext) PROVE c \in Covered(ext')
    BY <1>6, <1>7 DEF Covered
  <2>3. ASSUME NEW c \in new PROVE c \in Covered(ext')
    BY <1>2, <1>5 DEF Covered
  <2> QED
    BY <2>1, <2>2, <2>3
<1>10. ASSUME NEW c \in Block
       PROVE  CountOf(ext')[c] = IF c \in new THEN r.refcnt ELSE CountOf(ext)[c]
  <2>1. CASE c \in new
    BY <1>2, <1>3, <1>4, <1>5, <2>1, CountAt
  <2>2. CASE c \in Covered(ext)
    <3>1. PICK s \in Block : Covers(ext, s, c)
      BY <2>2 DEF Covered
    <3>2. Covers(ext', s, c) /\ ext'[s] = ext[s]
      BY <1>4, <1>6, <1>7, <3>1
    <3>3. CountOf(ext)[c] = ext[s].refcnt /\ CountOf(ext')[c] = ext'[s].refcnt
      BY <1>3, <3>1, <3>2, CountAt
    <3> QED
      BY <1>8, <2>2, <3>2, <3>3
  <2>3. CASE c \notin Covered(ext')
    BY <1>9, <2>3 DEF CountOf
  <2> QED
    BY <1>9, <2>1, <2>2, <2>3
<1>11. CountOf(ext') = [c \in Block |-> IF c \in new THEN r.refcnt ELSE CountOf(ext)[c]]
  BY <1>10 DEF CountOf
<1>12. op.what = "none" /\ op' = op
  BY DEF ParseNew, Inv, LoopsOK
<1> QED
  BY <1>1, <1>8, <1>9, <1>11, <1>12
  DEF Abstract!New, Abstract!Range, Updating, Covered, CountOf, Covers, CoverOf

\* An UPDATE record starts an update of its range.
LEMMA AbstractBegin ==
  ASSUME Inv, NEW r \in Record, NEW first \in BOOLEAN, ParseUpdate(r, first)
  PROVE  Abstract!BeginUpdate(r.paddr, r.len, r.refcnt)
<1>1. op.what = "none" /\ ext' = ext
  BY DEF ParseUpdate, Inv, LoopsOK, tableVars
<1>2. /\ op'.what = "update" /\ op'.bno = r.paddr /\ op'.left = r.len
      /\ op'.diff = r.refcnt
  BY DEF ParseUpdate, StartRange
<1>3. r.len > 0
  BY BoundAssumption DEF ParseUpdate, Malformed, Record, BoundAssumption
<1> QED
  BY <1>1, <1>2, <1>3
  DEF Abstract!BeginUpdate, Updating, Covered, CountOf, Covers, CoverOf

\* An iteration of change_extent_refcnts() updates the next piece of the range.
LEMMA AbstractPiece ==
  ASSUME Inv, Inv', ApplyUpdate
  PROVE  Abstract!UpdatePiece(PartLen(ext, op.base, op.bno, op.left))
<1> DEFINE f == Carve(ext, op.base, op.bno, op.left)
           p == PartLen(ext, op.base, op.bno, op.left)
           piece == {c \in Block : op.bno <= c /\ c < op.bno + p}
<1>1. Found /\ op.what = "update" /\ op.what # "none"
  BY DEF ApplyUpdate
<1>2. /\ op \in Operation /\ op.bno \in Nat /\ op.left \in Nat
      /\ op.bno \in Block
      /\ p \in Nat \ {0} /\ p <= op.left
  <2>1. op.bno \in Nat /\ op.left \in Nat
    BY DEF Inv, TypeOK, Operation
  <2> QED
    BY <1>1, <2>1, FoundFacts, PartLenBounds
<1>3. /\ Covered(f) = Covered(ext) /\ CountOf(f) = CountOf(ext)
      /\ f \in [Block -> Extent] /\ Disjoint(f)
  BY <1>1, CarveCount
<1>4. \A c \in Block : Covers(f, op.bno, c) <=> c \in piece
  BY <1>1, FoundFacts, CarveCovers
<1>5. ext' = [f EXCEPT ![op.bno].refcnt = (f[op.bno].refcnt + op.diff) % RefMod]
  BY DEF ApplyUpdate
<1>6. Advance(p)
  BY DEF ApplyUpdate
<1> HIDE DEF f, p
<1>7. /\ ext' \in [Block -> Extent] /\ Disjoint(ext')
  BY DEF Inv, TypeOK, ExtentsDisjoint, Disjoint
<1>8. /\ \A s \in Block : ext'[s].old = f[s].old /\ ext'[s].blocks = f[s].blocks
      /\ \A s \in Block : s # op.bno => ext'[s].refcnt = f[s].refcnt
      /\ ext'[op.bno].refcnt = (f[op.bno].refcnt + op.diff) % RefMod
  BY <1>2, <1>3, <1>5 DEF Extent
<1>9. \A s \in Block, c \in Block : Covers(ext', s, c) <=> Covers(f, s, c)
  BY <1>8 DEF Covers
<1>10. Covered(ext') = Covered(ext)
  BY <1>3, <1>9 DEF Covered
<1>11. piece \subseteq Covered(ext)
  BY <1>2, <1>3, <1>4 DEF Covered
<1>12. ASSUME NEW c \in Block
       PROVE  CountOf(ext')[c] = IF c \in piece THEN (CountOf(ext)[c] + op.diff) % RefMod
                                 ELSE CountOf(ext)[c]
  <2>1. CASE c \in piece
    <3>1. Covers(f, op.bno, c) /\ Covers(ext', op.bno, c)
      BY <1>2, <1>4, <1>9, <2>1
    <3>2. CountOf(f)[c] = f[op.bno].refcnt /\ CountOf(ext')[c] = ext'[op.bno].refcnt
      BY <1>2, <1>3, <1>7, <3>1, CountAt
    <3> QED
      BY <1>3, <1>8, <2>1, <3>2
  <2>2. CASE c \in Covered(ext) /\ c \notin piece
    <3>1. PICK s \in Block : Covers(f, s, c)
      BY <1>3, <2>2 DEF Covered
    <3>2. s # op.bno /\ Covers(ext', s, c)
      BY <1>4, <1>9, <2>2, <3>1
    <3>3. CountOf(f)[c] = f[s].refcnt /\ CountOf(ext')[c] = ext'[s].refcnt
      BY <1>3, <1>7, <3>1, <3>2, CountAt
    <3> QED
      BY <1>3, <1>8, <2>2, <3>2, <3>3
  <2>3. CASE c \notin Covered(ext)
    BY <1>10, <1>11, <2>3 DEF CountOf
  <2> QED
    BY <2>1, <2>2, <2>3
<1>13. CountOf(ext') = [c \in Block |-> IF c \in piece
                                       THEN (CountOf(ext)[c] + op.diff) % RefMod
                                       ELSE CountOf(ext)[c]]
  BY <1>12 DEF CountOf
<1>14. IF op.left = p THEN op'.what = "none"
       ELSE /\ op'.what = "update" /\ op'.bno = op.bno + p
            /\ op'.left = op.left - p /\ op'.diff = op.diff
  BY <1>1, <1>6 DEF Advance, NoOp, StartRange
<1> QED
  BY <1>1, <1>2, <1>10, <1>11, <1>13, <1>14
  DEF Abstract!UpdatePiece, Abstract!Range, Updating, Covered, CountOf, Covers,
      CoverOf, p

\* Counting references, with the splits it makes, changes no count.
LEMMA AbstractReference ==
  ASSUME Inv, Inv', CountReference
  PROVE  UNCHANGED Abstract!vars
<1> DEFINE f == Carve(ext, op.base, op.bno, op.left)
<1>0. CASE Report
  BY <1>0, AbstractStutter DEF Report, tableVars, Covered, CountOf, Covers, CoverOf
<1>1. CASE ~Report
  <2>1. Found /\ op.what = "ref" /\ op.what # "none" /\ op.bno \in Block
    BY FoundFacts DEF CountReference
  <2>2. /\ Covered(f) = Covered(ext) /\ CountOf(f) = CountOf(ext)
        /\ f \in [Block -> Extent] /\ Disjoint(f)
    BY <2>1, CarveCount
  <2>3. /\ ext' = [f EXCEPT ![op.bno] = Reference(f[op.bno], DOwner[cur], DType[cur])]
        /\ Advance(PartLen(ext, op.base, op.bno, op.left))
    BY <1>1 DEF CountReference
  <2> HIDE DEF f
  <2>4. \A s \in Block : /\ ext'[s].old = f[s].old /\ ext'[s].blocks = f[s].blocks
                         /\ ext'[s].refcnt = f[s].refcnt
    BY <2>1, <2>2, <2>3 DEF Reference, Extent
  <2>5. ext' \in [Block -> Extent] /\ Disjoint(ext')
    BY DEF Inv, TypeOK, ExtentsDisjoint, Disjoint
  <2>6. \A c \in Block :
           /\ \A s \in Block : Covers(ext', s, c) =>
                \E t \in Block : Covers(f, t, c) /\ f[t].refcnt = ext'[s].refcnt
           /\ \A t \in Block : Covers(f, t, c) => \E s \in Block : Covers(ext', s, c)
    BY <2>4 DEF Covers
  <2>7. Covered(ext') = Covered(ext) /\ CountOf(ext') = CountOf(ext)
    BY <2>2, <2>5, <2>6, CountSame
  <2>8. op'.what # "update"
    BY <2>1, <2>3 DEF Advance, StartRange, NoOp
  <2> QED
    BY <2>1, <2>7, <2>8, AbstractStutter
<1> QED
  BY <1>0, <1>1

\* Every step of the checker is a step of the abstract specification.
LEMMA AbstractNext ==
  ASSUME Inv, Inv', [Next]_vars
  PROVE  [Abstract!Next]_(Abstract!vars)
<1>1. ASSUME UNCHANGED ext,
             \/ op' = op
             \/ op.what # "update" /\ op'.what # "update"
             \/ op'.what = op.what /\ op'.bno = op.bno /\ op'.left = op.left
                /\ op'.diff = op.diff
      PROVE  UNCHANGED Abstract!vars
  <2>1. Covered(ext') = Covered(ext) /\ CountOf(ext') = CountOf(ext)
    BY <1>1 DEF Covered, CountOf, Covers, CoverOf
  <2> QED
    BY <1>1, <2>1, AbstractStutter
<1>2. CASE ParseRecord
  <2>1. PICK r \in Record, first \in BOOLEAN :
          RejectRecord(r, first) \/ ParseNew(r, first) \/ ParseUpdate(r, first)
    BY <1>2, BoundAssumption DEF ParseRecord, BoundAssumption
  <2>2. CASE RejectRecord(r, first)
    BY <1>1, <2>2 DEF RejectRecord, Report, tableVars
  <2>3. r.paddr \in Paddr /\ r.len \in 0 .. MaxLen /\ r.refcnt \in 0 .. (RefMod - 1)
    BY DEF Record
  <2>4. CASE ParseNew(r, first)
    BY <2>3, <2>4, AbstractNew DEF Abstract!Next, Abstract!Counts
  <2>5. CASE ParseUpdate(r, first)
    BY <2>3, <2>5, AbstractBegin DEF Abstract!Next, Abstract!Counts
  <2> QED
    BY <2>1, <2>2, <2>4, <2>5
<1>3. CASE ApplyUpdate
  <2>1. PartLen(ext, op.base, op.bno, op.left) \in 0 .. MaxLen
    <3>1. /\ Found /\ op.what # "none" /\ op.bno \in Nat /\ op.left \in Nat
          /\ MaxLen \in Nat
      BY <1>3, BoundAssumption
      DEF ApplyUpdate, Inv, TypeOK, Operation, BoundAssumption
    <3>2. /\ PartLen(ext, op.base, op.bno, op.left) \in Nat
          /\ PartLen(ext, op.base, op.bno, op.left) <= op.left
          /\ op.left <= MaxLen
      BY <3>1, FoundFacts, PartLenBounds
    <3> QED
      BY <3>1, <3>2
  <2> QED
    BY <1>3, <2>1, AbstractPiece DEF Abstract!Next
<1>4. CASE CountReference
  BY <1>4, AbstractReference
<1>5. CASE EndPass
  <2>1. /\ ext \in [Block -> Extent] /\ Disjoint(ext)
        /\ ext' \in [Block -> Extent] /\ Disjoint(ext')
    BY DEF Inv, TypeOK, ExtentsDisjoint, Disjoint
  <2>2. \A s \in Block : /\ ext'[s].old = ext[s].old /\ ext'[s].blocks = ext[s].blocks
                         /\ ext'[s].refcnt = ext[s].refcnt
    BY <1>5, <2>1 DEF EndPass, Extent
  <2>3. \A c \in Block :
           /\ \A s \in Block : Covers(ext', s, c) =>
                \E t \in Block : Covers(ext, t, c) /\ ext[t].refcnt = ext'[s].refcnt
           /\ \A t \in Block : Covers(ext, t, c) => \E s \in Block : Covers(ext', s, c)
    BY <2>2 DEF Covers
  <2>4. Covered(ext') = Covered(ext) /\ CountOf(ext') = CountOf(ext)
    BY <2>1, <2>3, CountSame
  <2> QED
    BY <1>5, <2>4, AbstractStutter DEF EndPass
<1>6. CASE LookupFail \/ SubextentFail \/ BadCount
  BY <1>1, <1>6 DEF LookupFail, SubextentFail, BadCount, Report, tableVars
<1>7. CASE \E b \in Block : ReadNode(b)
  BY <1>1, <1>7 DEF ReadNode, Report, tableVars
<1>8. CASE FinishTree \/ FinishCatalog \/ FinishDstream \/ \E d \in Dstreams : FreeDstream(d)
  BY <1>1, <1>8 DEF FinishTree, FinishCatalog, FinishDstream, FreeDstream, tableVars
<1>9. CASE ParseCatalog
  BY <1>1, <1>9 DEF ParseCatalog, AttachExtent, Report, tableVars
<1>10. CASE \E p \in Paddr : CountExtent(p)
  <2>1. op.what # "update" /\ op'.what # "update" /\ ext' = ext
    BY <1>10 DEF CountExtent, StartRange, tableVars, Inv, LoopsOK
  <2> QED
    BY <1>1, <2>1
<1>11. CASE LookupHit \/ LookupMiss
  <2>1. /\ op'.what = op.what /\ op'.bno = op.bno /\ op'.left = op.left
        /\ op'.diff = op.diff
    <3>1. op \in Operation
      BY DEF Inv, TypeOK
    <3>2. CASE LookupHit
      <4>1. PICK x : op' = [op EXCEPT !.base = x]
        BY <3>2 DEF LookupHit
      <4> QED
        BY <3>1, <4>1 DEF Operation
    <3>3. CASE LookupMiss
      BY <3>1, <3>3 DEF LookupMiss, Operation
    <3> QED
      BY <1>11, <3>2, <3>3
  <2> QED
    BY <1>1, <1>11, <2>1 DEF LookupHit, LookupMiss, tableVars
<1>12. CASE SearchBase \/ SkipBlock \/ SkipExtent
  <2>1. op \in Operation
    BY DEF Inv, TypeOK
  <2>2. \/ op' = op
        \/ op'.what = op.what /\ op'.bno = op.bno /\ op'.left = op.left
           /\ op'.diff = op.diff
    <3>1. \/ op' = op
          \/ \E x : op' = [op EXCEPT !.base = x]
          \/ \E x, l : op' = [op EXCEPT !.limit = l, !.base = x]
      BY <1>12 DEF SearchBase, SkipBlock, SkipExtent, Report
    <3> QED
      BY <2>1, <3>1 DEF Operation
  <2>3. ext' = ext
    BY <1>12 DEF SearchBase, SkipBlock, SkipExtent, Report, tableVars
  <2> QED
    BY <1>1, <2>2, <2>3
<1>13. CASE UNCHANGED vars
  BY <1>1, <1>13 DEF vars, tableVars
<1> QED
  BY <1>2, <1>3, <1>4, <1>5, <1>6, <1>7, <1>8, <1>9, <1>10, <1>11, <1>12, <1>13
  DEF Next, Exited

\* The extent table, with all its splits, implements one reference count for
\* each block: every UPDATE record adds its difference exactly once to each
\* block of its range, and nothing else changes a count.
THEOREM Refinement == Spec => ImplementsBlockRefs
<1>1. Inv /\ Inv' /\ [Next]_vars => [Abstract!Next]_(Abstract!vars)
  BY AbstractNext
<1>2. Init => Abstract!Init
  BY AbstractInit
<1> QED
  BY <1>1, <1>2, Invariance, PTL DEF Spec, ImplementsBlockRefs
=============================================================================
