---------------------------- MODULE Btree_space ----------------------------
(***************************************************************************)
(* What the bitmaps of node_compare_bmaps() prove of the space in each     *)
(* node of an accepted tree, for nodes with any records and lists of free  *)
(* space.  A node that is read has a frame with its bitmaps, and a node    *)
(* whose parse is over had one that matched.  Then the converse: what the  *)
(* parser has gone through at each step (TraceInv), and that no step of it *)
(* reports a consistent tree.                                              *)
(***************************************************************************)
EXTENDS Btree_proofs

-----------------------------------------------------------------------------
(* Records marked one by one in a bitmap. *)

\* C gives the cells of each record, of which the first k are marked in U.
Marked(C, area, k, U) ==
  /\ U = UNION {C[j] : j \in 1..k}
  /\ \A j \in 1..k : C[j] \subseteq 0..(area - 1)
  /\ \A a, b \in 1..k : a # b => C[a] \cap C[b] = {}

\* bmap_mark_as_used(), with clear bits.
LEMMA MarkOne ==
  ASSUME NEW C, NEW area, NEW k \in Nat, NEW U, Marked(C, area, k, U),
         C[k + 1] \subseteq 0..(area - 1), C[k + 1] \cap U = {}
  PROVE  Marked(C, area, k + 1, U \cup C[k + 1])
<1>1. \A j : j \in 1..(k + 1) <=> j \in 1..k \/ j = k + 1
  OBVIOUS
<1>2. U = UNION {C[j] : j \in 1..k} /\ \A j \in 1..k : C[j] \subseteq U
  BY DEF Marked
<1>3. U \cup C[k + 1] = UNION {C[j] : j \in 1..(k + 1)}
  BY <1>1, <1>2
<1>4. \A j \in 1..(k + 1) : C[j] \subseteq 0..(area - 1)
  BY <1>1 DEF Marked
<1>5. ASSUME NEW a \in 1..(k + 1), NEW b \in 1..(k + 1), a # b PROVE C[a] \cap C[b] = {}
  <2>1. CASE a \in 1..k /\ b \in 1..k
    BY <1>5, <2>1 DEF Marked
  <2>2. CASE a = k + 1 /\ b \in 1..k
    BY <1>2, <2>2
  <2>3. CASE b = k + 1 /\ a \in 1..k
    BY <1>2, <2>3
  <2>4. QED
    BY <1>1, <1>5, <2>1, <2>2, <2>3
<1>6. QED
  BY <1>3, <1>4, <1>5 DEF Marked

-----------------------------------------------------------------------------
(* A walk over a list of free space. *)

\* The entries of a list.
Linked(list, head) == Reach(head.off, [o \in DOMAIN list |-> {list[o].off}])
\* C gives the cells of each entry.  Those of some entries are in F, and the list
\* leads from its head through them to off.
Walking(list, head, C, area, F, off) ==
  \E V \in SUBSET DOMAIN list :
    /\ head.off \in V \cup {off} /\ \A o \in V : list[o].off \in V \cup {off}
    /\ F = UNION {C[o] : o \in V}
    /\ \A o \in V : C[o] \subseteq 0..(area - 1)
    /\ \A a, b \in V : a # b => C[a] \cap C[b] = {}
Listed(list, head, C, area, F) ==
  LET ks == {o \in Linked(list, head) : o # INVALID}
  IN  /\ ks \subseteq DOMAIN list /\ \A o \in ks : C[o] \subseteq F \cap (0..(area - 1))
      /\ \A a, b \in ks : a # b => C[a] \cap C[b] = {}

\* The walk begins.
LEMMA WalkBegins ==
  ASSUME NEW list, NEW head, NEW C, NEW area
  PROVE  Walking(list, head, C, area, {}, head.off)
<1> DEFINE V == {}
<1>1. V \in SUBSET DOMAIN list
  OBVIOUS
<1>2. UNION {C[o] : o \in V} = {}
  OBVIOUS
<1>3. QED
  BY <1>1, <1>2 DEF Walking

\* One more entry.
LEMMA WalkEntry ==
  ASSUME NEW list, NEW head, NEW C, NEW area, NEW F, NEW off \in DOMAIN list,
         Walking(list, head, C, area, F, off), C[off] \cap F = {}, C[off] # {}, C[off] \subseteq 0..(area - 1)
  PROVE  Walking(list, head, C, area, F \cup C[off], list[off].off)
<1>1. PICK V \in SUBSET DOMAIN list :
        /\ head.off \in V \cup {off} /\ \A o \in V : list[o].off \in V \cup {off}
        /\ F = UNION {C[o] : o \in V}
        /\ \A o \in V : C[o] \subseteq 0..(area - 1)
        /\ \A a, b \in V : a # b => C[a] \cap C[b] = {}
  BY DEF Walking
<1> DEFINE W == V \cup {off}
<1>2. W \in SUBSET DOMAIN list /\ head.off \in W /\ \A o \in W : list[o].off \in W \cup {list[off].off}
  BY <1>1
<1>3. F \cup C[off] = UNION {C[o] : o \in W}
  BY <1>1
<1>4. \A o \in W : C[o] \subseteq 0..(area - 1)
  BY <1>1
<1>5. ASSUME NEW a \in W, NEW b \in W, a # b PROVE C[a] \cap C[b] = {}
  <2>1. \A o \in V : C[o] \subseteq F
    BY <1>1
  <2>2. CASE a \in V /\ b \in V
    BY <1>1, <1>5, <2>2
  <2>3. CASE a = off /\ b \in V
    BY <2>1, <2>3
  <2>4. CASE b = off /\ a \in V
    BY <2>1, <2>4
  <2>5. QED
    BY <1>5, <2>2, <2>3, <2>4
<1> HIDE DEF W
<1>6. head.off \in W \cup {list[off].off}
  BY <1>2
<1>7. QED
  BY <1>2, <1>3, <1>4, <1>5, <1>6 DEF Walking

\* The end of the list: all of it was met.
LEMMA WalkEnds ==
  ASSUME NEW list, NEW head, ListOnDisk(head, list), NEW C, NEW area, NEW F,
         Walking(list, head, C, area, F, INVALID)
  PROVE  Listed(list, head, C, area, F)
<1>1. PICK V \in SUBSET DOMAIN list :
        /\ head.off \in V \cup {INVALID} /\ \A o \in V : list[o].off \in V \cup {INVALID}
        /\ F = UNION {C[o] : o \in V}
        /\ \A o \in V : C[o] \subseteq 0..(area - 1)
        /\ \A a, b \in V : a # b => C[a] \cap C[b] = {}
  BY DEF Walking
<1> DEFINE next == [o \in DOMAIN list |-> {list[o].off}]
           X == V \cup {INVALID}
<1>2. IsFiniteSet(DOMAIN list) /\ INVALID \notin DOMAIN list
  BY DEF ListOnDisk, INVALID
<1>3. DOMAIN next = DOMAIN list /\ \A o \in DOMAIN next : next[o] = {list[o].off}
  OBVIOUS
<1>4. Stays(next, X)
  <2>1. ASSUME NEW o \in X \cap DOMAIN next PROVE next[o] \subseteq X
    <3>1. o \in V
      BY <1>2, <1>3, <2>1
    <3>2. QED
      BY <1>1, <1>3, <2>1, <3>1
  <2>2. QED
    BY <2>1 DEF Stays
<1>5. Linked(list, head) = Reach(head.off, next)
  BY DEF Linked
<1> HIDE DEF next, X
<1>6. head.off \in X
  BY <1>1 DEF X
<1>7. IsFiniteSet(DOMAIN next)
  BY <1>2, <1>3
<1>8. Linked(list, head) \subseteq X
  BY <1>4, <1>5, <1>6, <1>7, ReachLeast
<1>9. {o \in Linked(list, head) : o # INVALID} \subseteq V
  BY <1>8 DEF X
<1>10. \A o \in V : C[o] \subseteq F
  BY <1>1
<1>11. QED
  BY <1>1, <1>9, <1>10 DEF Listed

-----------------------------------------------------------------------------
(* The bitmaps of a node. *)

\* The cells of each key, and of each value up to the end of the area.
KLen(m, n, i) == IF "fixed" \in n.flags THEN FixedKeyLen(m.type) ELSE n.toc[i].klen
NoValue(m, n, i) == m.type = "free_queue" /\ n.toc[i].v = INVALID
VLen(m, n, i) ==
  IF "fixed" \notin n.flags THEN n.toc[i].vlen
  ELSE IF NoValue(m, n, i) THEN 0 ELSE FixedValLen(m.type, "leaf" \in n.flags)
VCells(m, n, i) == (ValArea(n) - n.toc[i].v) .. (ValArea(n) - n.toc[i].v + VLen(m, n, i) - 1)
KeyMap(m, n) == [j \in 1..n.nkeys |-> n.toc[j].k .. (n.toc[j].k + KLen(m, n, j) - 1)]
ValMap(m, n) == [j \in 1..n.nkeys |-> {c \in VCells(m, n, j) : c < ValArea(n)}]
\* The cells of each entry of the lists.
KeyGaps(n) == [o \in DOMAIN n.kraw |-> o .. (o + n.kraw[o].len - 1)]
ValGaps(n) == [o \in DOMAIN n.vraw |-> (ValArea(n) - o) .. (ValArea(n) - o + n.vraw[o].len - 1)]

KeysWalking(n, F, off) == Walking(n.kraw, n.kfree, KeyGaps(n), KeyArea(n), F, off)
ValsWalking(n, F, off) == Walking(n.vraw, n.vfree, ValGaps(n), ValArea(n), F, off)
KeysListed(n, F) == Listed(n.kraw, n.kfree, KeyGaps(n), KeyArea(n), F)
ValsListed(n, F) == Listed(n.vraw, n.vfree, ValGaps(n), ValArea(n), F)

Sized(m, n) == "fixed" \in n.flags <=> m.type \in FixedTrees
\* A node whose records are being read.
FrameInv(m, f) ==
  /\ Sized(m, m.nodes[f.id])
  /\ Marked(KeyMap(m, m.nodes[f.id]), KeyArea(m.nodes[f.id]), f.i, f.uk)
  /\ Marked(ValMap(m, m.nodes[f.id]), ValArea(m.nodes[f.id]), f.i, f.uv)
  /\ KeysListed(m.nodes[f.id], f.fk) /\ ValsListed(m.nodes[f.id], f.fv)
\* A node whose records were read.
Matched(m, id) ==
  \E f \in FrameT : f.id = id /\ f.i = Count(m, id) /\ FrameInv(m, f) /\ BmapsMatch(m.nodes[id], f)
\* A node whose lists are being read.
HeadInv(m, p, c, w) ==
  /\ p = "read" => c.fk = {} /\ c.fv = {}
  /\ p = "key_list" => KeysWalking(m.nodes[c.id], c.fk, w.off) /\ c.fv = {}
  /\ p = "value_list" => KeysListed(m.nodes[c.id], c.fk) /\ ValsWalking(m.nodes[c.id], c.fv, w.off)
  /\ p = "enter" => KeysListed(m.nodes[c.id], c.fk) /\ ValsListed(m.nodes[c.id], c.fv)

Space(m, p, ph, c, w, st, se) ==
  /\ HeadInv(m, p, c, w) /\ \A k \in 1..Len(st) : FrameInv(m, st[k])
  /\ \A id \in Entered(ph, c, se) \ OpenIds(st) : Matched(m, id)
SpaceInv == pc # "reported" => Space(img, pc, Ph(pc, query), cur, walk, stack, seen)

\* The areas of a node on disk.
LEMMA AreaTypes ==
  ASSUME NEW n, NodeOnDisk(n)
  PROVE  KeyArea(n) \in Nat /\ ValArea(n) \in Int
<1>1. n.table.off \in Nat /\ n.table.len \in Nat /\ n.free.off \in Nat /\ n.free.len \in Nat
  BY DEF NodeOnDisk
<1>2. QED
  BY <1>1, KeyAssumption DEF KeyArea, ValArea, DataEnd, DataStart, KeyStart, TocStart, HEAD, INFO

\* These are the cells that the model computes.
LEMMA Cells ==
  ASSUME NEW n, NEW i \in 1..n.nkeys
  PROVE  /\ KeyCells(n, i) = KeyMap(img, n)[i] /\ KeyLen(n, i) = KLen(img, n, i)
         /\ Ghost(n, i) <=> NoValue(img, n, i)
         /\ Sized(img, n) => /\ ValLens(n, i) = {VLen(img, n, i)}
                             /\ ValCells(n, i, VLen(img, n, i)) = VCells(img, n, i)
                             /\ {c \in ValCells(n, i, VLen(img, n, i)) : c < ValArea(n)} = ValMap(img, n)[i]
<1>1. KeyLen(n, i) = KLen(img, n, i)
  BY DEF KeyLen, KLen, node_has_fixed_kv_size
<1>2. KeyCells(n, i) = KeyMap(img, n)[i]
  BY <1>1 DEF KeyCells, KeyMap
<1>3. Ghost(n, i) <=> NoValue(img, n, i)
  BY DEF Ghost, NoValue
<1>4. ASSUME Sized(img, n) PROVE ValLens(n, i) = {VLen(img, n, i)}
  BY <1>3, <1>4 DEF Sized, ValLens, VLen, node_has_fixed_kv_size, node_is_leaf
<1>5. ValCells(n, i, VLen(img, n, i)) = VCells(img, n, i)
  BY DEF ValCells, ValStart, VCells
<1>6. {c \in ValCells(n, i, VLen(img, n, i)) : c < ValArea(n)} = ValMap(img, n)[i]
  BY <1>5 DEF ValMap
<1>7. QED
  BY <1>1, <1>2, <1>3, <1>4, <1>5, <1>6

\* A record that node_locate_key() and node_locate_data() accept is inside.
LEMMA RecordInside ==
  ASSUME OnDisk(img), NEW id \in DOMAIN img.nodes, NEW i \in 1..Count(img, id), Sized(img, img.nodes[id])
  PROVE  LET n == img.nodes[id]
         IN  /\ KeyInside(n, i) => KeyMap(img, n)[i] \subseteq 0..(KeyArea(n) - 1)
             /\ ValInside(n, i) => ValMap(img, n)[i] \subseteq 0..(ValArea(n) - 1)
<1> DEFINE n == img.nodes[id]
<1>1. NodeOnDisk(n) /\ n.nkeys = Count(img, id)
  BY DEF OnDisk, Count
<1>2. KeyArea(n) \in Nat /\ ValArea(n) \in Int
  BY <1>1, AreaTypes
<1>3. n.toc[i] \in [k : Nat, klen : Nat, v : Offset, vlen : Nat]
  BY <1>1 DEF NodeOnDisk
<1>4. n.toc[i].k \in Nat /\ n.toc[i].klen \in Nat /\ n.toc[i].vlen \in Nat /\ n.toc[i].v \in Int
  BY <1>3 DEF Offset, INVALID
<1>5. KLen(img, n, i) \in Nat /\ VLen(img, n, i) \in Nat
  BY <1>4 DEF KLen, FixedKeyLen, VLen, FixedValLen
<1>6. ASSUME KeyInside(n, i) PROVE KeyMap(img, n)[i] \subseteq 0..(KeyArea(n) - 1)
  <2>1. n.toc[i].k + KLen(img, n, i) <= KeyArea(n)
    BY <1>1, <1>6, Cells DEF KeyInside
  <2>2. KeyMap(img, n)[i] = n.toc[i].k .. (n.toc[i].k + KLen(img, n, i) - 1)
    BY <1>1 DEF KeyMap
  <2> HIDE DEF n
  <2>3. QED
    BY <1>2, <1>4, <1>5, <2>1, <2>2
<1>7. ASSUME ValInside(n, i) PROVE ValMap(img, n)[i] \subseteq 0..(ValArea(n) - 1)
  <2>1. ValMap(img, n)[i] = {c \in VCells(img, n, i) : c < ValArea(n)}
    BY <1>1 DEF ValMap
  <2>2. CASE NoValue(img, n, i)
    <3>1. VLen(img, n, i) = 0
      BY <2>2 DEF Sized, NoValue, FixedTrees, VLen
    <3>2. VCells(img, n, i) = {}
      BY <1>2, <1>4, <3>1 DEF VCells
    <3>3. QED
      BY <2>1, <3>2
  <2>3. CASE ~NoValue(img, n, i)
    <3>1. ValArea(n) - n.toc[i].v >= 0
      BY <1>1, <1>7, <2>3, Cells DEF ValInside, ValStart
    <3>2. VCells(img, n, i) = (ValArea(n) - n.toc[i].v) .. (ValArea(n) - n.toc[i].v + VLen(img, n, i) - 1)
      BY DEF VCells
    <3> HIDE DEF n
    <3>3. QED
      BY <1>2, <1>4, <1>5, <2>1, <3>1, <3>2
  <2>4. QED
    BY <2>2, <2>3
<1>8. QED
  BY <1>6, <1>7

\* A record is marked.
LEMMA FrameRecord ==
  ASSUME OnDisk(img), NEW f \in FrameT, f.id \in DOMAIN img.nodes, FrameInv(img, f), f.i < Count(img, f.id),
         NEW len \in ValLens(img.nodes[f.id], f.i + 1),
         KeyInside(img.nodes[f.id], f.i + 1), KeyCells(img.nodes[f.id], f.i + 1) \cap f.uk = {},
         ValInside(img.nodes[f.id], f.i + 1), ValCells(img.nodes[f.id], f.i + 1, len) \cap f.uv = {}
  PROVE  LET n == img.nodes[f.id]
             i == f.i + 1
         IN  FrameInv(img, [f EXCEPT !.i = i, !.uk = @ \cup KeyCells(n, i),
                                     !.uv = @ \cup {c \in ValCells(n, i, len) : c < ValArea(n)}])
<1> DEFINE n == img.nodes[f.id]
           i == f.i + 1
           K == KeyMap(img, n)
           V == ValMap(img, n)
           g == [f EXCEPT !.i = i, !.uk = @ \cup KeyCells(n, i),
                          !.uv = @ \cup {c \in ValCells(n, i, len) : c < ValArea(n)}]
<1>1. f.i \in Nat /\ Count(img, f.id) \in Nat /\ n.nkeys = Count(img, f.id)
  BY NodeTypes DEF FrameT, Count
<1>2. i \in 1..Count(img, f.id) /\ i \in 1..n.nkeys
  BY <1>1
<1>3. /\ Sized(img, n) /\ Marked(K, KeyArea(n), f.i, f.uk) /\ Marked(V, ValArea(n), f.i, f.uv)
      /\ KeysListed(n, f.fk) /\ ValsListed(n, f.fv)
  BY DEF FrameInv
<1>4. len = VLen(img, n, i)
  BY <1>2, <1>3, Cells
<1>5. KeyCells(n, i) = K[i] /\ {c \in ValCells(n, i, len) : c < ValArea(n)} = V[i]
  BY <1>2, <1>3, <1>4, Cells
<1>6. K[i] \subseteq 0..(KeyArea(n) - 1) /\ V[i] \subseteq 0..(ValArea(n) - 1)
  BY <1>2, <1>3, RecordInside
<1>7. K[i] \cap f.uk = {} /\ V[i] \cap f.uv = {}
  BY <1>5
<1>8. g = [f EXCEPT !.i = i, !.uk = @ \cup K[i], !.uv = @ \cup V[i]]
  BY <1>5
<1> HIDE DEF K, V, n, g
<1>9. Marked(K, KeyArea(n), i, f.uk \cup K[i]) /\ Marked(V, ValArea(n), i, f.uv \cup V[i])
  BY <1>1, <1>3, <1>6, <1>7, MarkOne
<1>10. g.id = f.id /\ g.i = i /\ g.uk = f.uk \cup K[i] /\ g.uv = f.uv \cup V[i] /\ g.fk = f.fk /\ g.fv = f.fv
  <2> HIDE DEF i
  <2>1. QED
    BY <1>8 DEF FrameT
<1>11. FrameInv(img, g)
  BY <1>3, <1>9, <1>10 DEF FrameInv, n, K, V
<1>12. QED
  BY <1>11 DEF g, n

-----------------------------------------------------------------------------
(* The steps. *)

\* An entry of the list of free keys that is accepted.
LEMMA KeyEntryCells ==
  ASSUME NEW n, NodeOnDisk(n), NEW off \in Offset, off # INVALID, KeyEntryOK(n, off)
  PROVE  /\ off \in DOMAIN n.kraw /\ Entry(n.kraw, off) = n.kraw[off]
         /\ KeyGaps(n)[off] = off .. (off + Entry(n.kraw, off).len - 1)
         /\ KeyGaps(n)[off] # {} /\ KeyGaps(n)[off] \subseteq 0..(KeyArea(n) - 1) /\ KeyGaps(n)[off] \cap cur.fk = {}
<1> DEFINE len == Entry(n.kraw, off).len
           area == KeyArea(n)
<1>1. len >= NLOC /\ off + len <= area /\ (off .. (off + len - 1)) \cap cur.fk = {}
  BY DEF KeyEntryOK
<1>2. off \in DOMAIN n.kraw /\ Entry(n.kraw, off) = n.kraw[off]
  BY <1>1 DEF Entry, NLOC
<1>3. KeyGaps(n)[off] = off .. (off + len - 1)
  BY <1>2 DEF KeyGaps
<1>4. off \in Nat /\ len \in Nat /\ area \in Nat
  BY <1>2, AreaTypes, EntryTypes DEF Offset, NodeOnDisk
<1> HIDE DEF len, area
<1>5. (off .. (off + len - 1)) # {} /\ (off .. (off + len - 1)) \subseteq 0..(area - 1)
  <2>1. off \in off .. (off + len - 1)
    BY <1>1, <1>4 DEF NLOC
  <2>2. QED
    BY <1>1, <1>4, <2>1
<1>6. QED
  BY <1>1, <1>2, <1>3, <1>5 DEF len, area

\* An entry of the list of free values.
LEMMA ValEntryCells ==
  ASSUME NEW n, NodeOnDisk(n), NEW off \in Offset, off # INVALID, ValEntryOK(n, off)
  PROVE  /\ off \in DOMAIN n.vraw /\ Entry(n.vraw, off) = n.vraw[off] /\ ValGaps(n)[off] = FreeVal(n, off)
         /\ ValGaps(n)[off] # {} /\ ValGaps(n)[off] \subseteq 0..(ValArea(n) - 1) /\ ValGaps(n)[off] \cap cur.fv = {}
<1> DEFINE len == Entry(n.vraw, off).len
           area == ValArea(n)
<1>1. len >= NLOC /\ off <= area /\ len <= off /\ FreeVal(n, off) \cap cur.fv = {}
  BY DEF ValEntryOK
<1>2. off \in DOMAIN n.vraw /\ Entry(n.vraw, off) = n.vraw[off]
  BY <1>1 DEF Entry, NLOC
<1>3. ValGaps(n)[off] = (area - off) .. (area - off + len - 1) /\ FreeVal(n, off) = (area - off) .. (area - off + len - 1)
  BY <1>2 DEF ValGaps, FreeVal
<1>4. off \in Nat /\ len \in Nat /\ area \in Int
  BY <1>2, AreaTypes, EntryTypes DEF Offset, NodeOnDisk
<1> HIDE DEF len, area
<1>5. ((area - off) .. (area - off + len - 1)) # {} /\ ((area - off) .. (area - off + len - 1)) \subseteq 0..(area - 1)
  <2> DEFINE a == area - off
  <2>1. a \in Int /\ 0 <= a /\ a + len <= area /\ len >= 2
    BY <1>1, <1>4 DEF NLOC
  <2> HIDE DEF a
  <2>2. a \in a .. (a + len - 1)
    BY <1>4, <2>1
  <2>3. (a .. (a + len - 1)) \subseteq 0..(area - 1)
    BY <1>4, <2>1
  <2>4. QED
    BY <2>2, <2>3 DEF a
<1>6. QED
  BY <1>1, <1>2, <1>3, <1>5 DEF area

\* A node is read for: its frame is new.
LEMMA SpaceStartTree ==
  ASSUME Shape, SpaceInv, pc # "reported", StartTree, pc' # "reported"
  PROVE  SpaceInv'
<1>1. /\ pc = "start" /\ pc' \in {"parsed", "read"} /\ cur' = Frame(img.root, img.root_hash)
      /\ UNCHANGED <<img, walk, stack, seen, query>>
  BY StartTreeStep
<1>2. query.state # "running"
  BY <1>1, ShapeFacts, PhaseOf
<1>3. Ph(pc, query) = "start" /\ Ph(pc', query) = pc'
  BY <1>1, <1>2 DEF Ph
<1>4. Entered(Ph(pc', query), cur', seen) = Entered(Ph(pc, query), cur, seen)
  BY <1>1, <1>3 DEF Entered, Heads
<1>5. HeadInv(img, pc', cur', walk)
  BY <1>1 DEF HeadInv, Frame
<1>6. QED
  BY <1>1, <1>4, <1>5 DEF SpaceInv, Space

\* The walk over the first list begins.
LEMMA SpaceReadNode ==
  ASSUME Shape, SpaceInv, pc # "reported", ReadNode, pc' # "reported"
  PROVE  SpaceInv'
<1>1. /\ pc = "read" /\ pc' = "key_list" /\ Readable(cur.id)
      /\ seen' = (IF Querying THEN seen ELSE seen \cup {cur.id})
      /\ walk' = [off |-> Node(cur.id).kfree.off, total |-> Node(cur.id).kfree.len]
      /\ UNCHANGED <<img, cur, stack, last, stats, query>>
  BY ReadNodeStep
<1>2. Space(img, pc, Ph(pc, query), cur, walk, stack, seen)
  BY DEF SpaceInv
<1>3. Entered(Ph(pc', query), cur, seen') = Entered(Ph(pc, query), cur, seen)
  <2>1. CASE Querying
    BY <1>1, <2>1 DEF Ph, Querying
  <2>2. CASE ~Querying
    BY <1>1, <2>2 DEF Ph, Querying, Readable, Entered, Heads
  <2>3. QED
    BY <2>1, <2>2
<1>4. cur.fk = {} /\ cur.fv = {} /\ walk'.off = img.nodes[cur.id].kfree.off
  BY <1>1, <1>2 DEF Space, HeadInv, Node
<1>5. HeadInv(img, pc', cur, walk')
  BY <1>1, <1>4, WalkBegins DEF HeadInv, KeysWalking
<1>6. QED
  BY <1>1, <1>2, <1>3, <1>5 DEF SpaceInv, Space

\* What the steps over the lists have in common.
LEMMA SpaceHead ==
  ASSUME SpaceInv, pc # "reported", pc \in {"key_list", "value_list"}, pc' \in Heads, cur'.id = cur.id,
         UNCHANGED <<img, stack, seen, query>>, HeadInv(img, pc', cur', walk')
  PROVE  SpaceInv'
<1>1. Space(img, pc, Ph(pc, query), cur, walk, stack, seen)
  BY DEF SpaceInv
<1>2. Entered(Ph(pc', query), cur', seen) = Entered(Ph(pc, query), cur, seen)
  BY DEF Entered, Ph, Heads
<1>3. QED
  BY <1>1, <1>2 DEF SpaceInv, Space

\* Free keys.
LEMMA SpaceWalkKeyList ==
  ASSUME Shape, SpaceInv, pc # "reported", WalkKeyList, pc' # "reported"
  PROVE  SpaceInv'
<1> DEFINE n == img.nodes[cur.id]
           e == Entry(n.kraw, walk.off)
           cells == walk.off .. (walk.off + e.len - 1)
<1>1. /\ pc = "key_list" /\ pc' = pc /\ WalkGoesOn /\ KeyEntryOK(n, walk.off)
      /\ cur' = [cur EXCEPT !.fk = @ \cup cells]
      /\ walk' = [off |-> e.off, total |-> walk.total - e.len]
      /\ UNCHANGED <<img, stack, last, seen, stats, query>>
  BY WalkKeyListStep DEF Node
<1>2. /\ cur.id \in DOMAIN img.nodes /\ walk.off \in Offset /\ walk.off # INVALID /\ cur \in FrameT /\ OnDisk(img)
  BY <1>1, ShapeFacts DEF Heads, WalkT, FreshT, WalkGoesOn
<1>3. NodeOnDisk(n)
  BY <1>2 DEF OnDisk
<1>4. /\ walk.off \in DOMAIN n.kraw /\ e = n.kraw[walk.off] /\ KeyGaps(n)[walk.off] = cells
      /\ cells # {} /\ cells \subseteq 0..(KeyArea(n) - 1) /\ cells \cap cur.fk = {}
  <2> HIDE DEF n
  <2>1. /\ walk.off \in DOMAIN n.kraw /\ Entry(n.kraw, walk.off) = n.kraw[walk.off]
        /\ KeyGaps(n)[walk.off] = walk.off .. (walk.off + Entry(n.kraw, walk.off).len - 1)
        /\ KeyGaps(n)[walk.off] # {} /\ KeyGaps(n)[walk.off] \subseteq 0..(KeyArea(n) - 1)
        /\ KeyGaps(n)[walk.off] \cap cur.fk = {}
    BY <1>1, <1>2, <1>3, KeyEntryCells
  <2>2. QED
    BY <2>1
<1>5. KeysWalking(n, cur.fk, walk.off) /\ cur.fv = {}
  BY <1>1 DEF SpaceInv, Space, HeadInv
<1>6. walk'.off = n.kraw[walk.off].off
  BY <1>1, <1>4
<1> HIDE DEF cells, n
<1>7. cur'.fk = cur.fk \cup cells /\ cur'.id = cur.id /\ cur'.fv = {}
  BY <1>1, <1>2, <1>5 DEF FrameT
<1>8. KeysWalking(n, cur'.fk, walk'.off)
  <2> DEFINE C == KeyGaps(n)
             o == walk.off
  <2>1. /\ o \in DOMAIN n.kraw /\ C[o] \cap cur.fk = {} /\ C[o] # {} /\ C[o] \subseteq 0..(KeyArea(n) - 1)
        /\ Walking(n.kraw, n.kfree, C, KeyArea(n), cur.fk, o)
    BY <1>4, <1>5 DEF KeysWalking
  <2>2. cur'.fk = cur.fk \cup C[o] /\ walk'.off = n.kraw[o].off
    BY <1>4, <1>6, <1>7
  <2> HIDE DEF C, o
  <2>3. Walking(n.kraw, n.kfree, C, KeyArea(n), cur.fk \cup C[o], n.kraw[o].off)
    BY <2>1, WalkEntry
  <2>4. QED
    BY <2>2, <2>3 DEF KeysWalking, C
<1>9. HeadInv(img, pc', cur', walk')
  BY <1>1, <1>7, <1>8 DEF HeadInv, n
<1>10. QED
  BY <1>1, <1>7, <1>9, SpaceHead DEF Heads

\* The other list begins.
LEMMA SpaceEndKeyList ==
  ASSUME Shape, SpaceInv, pc # "reported", EndKeyList, pc' # "reported"
  PROVE  SpaceInv'
<1> DEFINE n == img.nodes[cur.id]
<1>1. /\ pc = "key_list" /\ pc' = "value_list" /\ walk.off = INVALID
      /\ walk' = [off |-> n.vfree.off, total |-> n.vfree.len]
      /\ UNCHANGED <<img, cur, stack, last, seen, stats, query>>
  BY EndKeyListStep DEF Node
<1>2. cur.id \in DOMAIN img.nodes /\ OnDisk(img)
  BY <1>1, ShapeFacts DEF Heads
<1>3. ListOnDisk(n.kfree, n.kraw)
  BY <1>2, ListTypes
<1>4. KeysWalking(n, cur.fk, INVALID) /\ cur.fv = {}
  BY <1>1 DEF SpaceInv, Space, HeadInv
<1>5. KeysListed(n, cur.fk)
  BY <1>3, <1>4, WalkEnds DEF KeysListed, KeysWalking
<1>6. ValsWalking(n, cur.fv, walk'.off)
  BY <1>1, <1>4, WalkBegins DEF ValsWalking
<1>7. HeadInv(img, pc', cur', walk')
  BY <1>1, <1>5, <1>6 DEF HeadInv
<1>8. QED
  BY <1>1, <1>7, SpaceHead DEF Heads

\* Free values.
LEMMA SpaceWalkValList ==
  ASSUME Shape, SpaceInv, pc # "reported", WalkValList, pc' # "reported"
  PROVE  SpaceInv'
<1> DEFINE n == img.nodes[cur.id]
           e == Entry(n.vraw, walk.off)
           cells == FreeVal(n, walk.off)
<1>1. /\ pc = "value_list" /\ pc' = pc /\ WalkGoesOn /\ ValEntryOK(n, walk.off)
      /\ cur' = [cur EXCEPT !.fv = @ \cup cells]
      /\ walk' = [off |-> e.off, total |-> walk.total - e.len]
      /\ UNCHANGED <<img, stack, last, seen, stats, query>>
  BY WalkValListStep DEF Node
<1>2. /\ cur.id \in DOMAIN img.nodes /\ walk.off \in Offset /\ walk.off # INVALID /\ cur \in FrameT /\ OnDisk(img)
  BY <1>1, ShapeFacts DEF Heads, WalkT, FreshT, WalkGoesOn
<1>3. NodeOnDisk(n)
  BY <1>2 DEF OnDisk
<1>4. /\ walk.off \in DOMAIN n.vraw /\ e = n.vraw[walk.off] /\ ValGaps(n)[walk.off] = cells
      /\ cells # {} /\ cells \subseteq 0..(ValArea(n) - 1) /\ cells \cap cur.fv = {}
  BY <1>1, <1>2, <1>3, ValEntryCells
<1>5. ValsWalking(n, cur.fv, walk.off) /\ KeysListed(n, cur.fk)
  BY <1>1 DEF SpaceInv, Space, HeadInv
<1>6. walk'.off = n.vraw[walk.off].off
  BY <1>1, <1>4
<1> HIDE DEF cells, n
<1>7. cur'.fv = cur.fv \cup cells /\ cur'.id = cur.id /\ cur'.fk = cur.fk
  BY <1>1, <1>2, <1>5 DEF FrameT
<1>8. ValsWalking(n, cur'.fv, walk'.off)
  <2> DEFINE C == ValGaps(n)
             o == walk.off
  <2>1. /\ o \in DOMAIN n.vraw /\ C[o] \cap cur.fv = {} /\ C[o] # {} /\ C[o] \subseteq 0..(ValArea(n) - 1)
        /\ Walking(n.vraw, n.vfree, C, ValArea(n), cur.fv, o)
    BY <1>4, <1>5 DEF ValsWalking
  <2>2. cur'.fv = cur.fv \cup C[o] /\ walk'.off = n.vraw[o].off
    BY <1>4, <1>6, <1>7
  <2> HIDE DEF C, o
  <2>3. Walking(n.vraw, n.vfree, C, ValArea(n), cur.fv \cup C[o], n.vraw[o].off)
    BY <2>1, WalkEntry
  <2>4. QED
    BY <2>2, <2>3 DEF ValsWalking, C
<1>9. HeadInv(img, pc', cur', walk')
  BY <1>1, <1>5, <1>7, <1>8 DEF HeadInv, n
<1>10. QED
  BY <1>1, <1>7, <1>9, SpaceHead DEF Heads

\* Both lists are read.
LEMMA SpaceEndValList ==
  ASSUME Shape, SpaceInv, pc # "reported", EndValList, pc' # "reported"
  PROVE  SpaceInv'
<1> DEFINE n == img.nodes[cur.id]
<1>1. /\ pc = "value_list" /\ pc' = "enter" /\ walk.off = INVALID
      /\ UNCHANGED <<img, cur, walk, stack, last, seen, stats, query>>
  BY EndValListStep
<1>2. cur.id \in DOMAIN img.nodes /\ OnDisk(img)
  BY <1>1, ShapeFacts DEF Heads
<1>3. ListOnDisk(n.vfree, n.vraw)
  BY <1>2, ListTypes
<1>4. ValsWalking(n, cur.fv, INVALID) /\ KeysListed(n, cur.fk)
  BY <1>1 DEF SpaceInv, Space, HeadInv
<1>5. ValsListed(n, cur.fv)
  BY <1>3, <1>4, WalkEnds DEF ValsListed, ValsWalking
<1>6. HeadInv(img, pc', cur', walk')
  BY <1>1, <1>4, <1>5 DEF HeadInv
<1>7. QED
  BY <1>1, <1>6, SpaceHead DEF Heads

\* Nothing is marked.
LEMMA MarkNone == ASSUME NEW C, NEW area PROVE Marked(C, area, 0, {})
<1>1. 1..0 = {}
  OBVIOUS
<1>2. QED
  BY <1>1 DEF Marked

\* A node is entered.
LEMMA SpaceEnterNode ==
  ASSUME Shape, SpaceInv, pc # "reported", EnterNode, pc' # "reported"
  PROVE  SpaceInv'
<1>1. /\ pc = "enter" /\ pc' = "record" /\ ~Querying /\ NodeOK(Node(cur.id))
      /\ UNCHANGED <<img, cur, walk, last, seen, query>>
  BY EnterNodeStep
<1>2. Pushed(stack, stack', cur) /\ Len(stack) \in Nat
  BY ShapeEnterNode, ShapeFacts DEF StackT
<1>3. Space(img, pc, Ph(pc, query), cur, walk, stack, seen)
  BY DEF SpaceInv
<1>4. Ph(pc, query) = "enter" /\ Ph(pc', query) = "record"
  BY <1>1 DEF Ph, Querying
<1>5. Entered("enter", cur, seen) = seen \ {cur.id} /\ Entered("record", cur, seen) = seen
  BY DEF Entered, Heads
<1>6. FrameInv(img, cur)
  <2>1. FreshT(cur)
    BY ShapeFacts
  <2>2. Sized(img, img.nodes[cur.id])
    BY <1>1 DEF NodeOK, Sized, node_has_fixed_kv_size, Node
  <2>3. KeysListed(img.nodes[cur.id], cur.fk) /\ ValsListed(img.nodes[cur.id], cur.fv)
    BY <1>1, <1>3 DEF Space, HeadInv
  <2>4. QED
    BY <2>1, <2>2, <2>3, MarkNone DEF FrameInv, FreshT
<1>7. ASSUME NEW k \in 1..Len(stack') PROVE FrameInv(img, stack'[k])
  <2>1. CASE k \in 1..Len(stack)
    BY <1>2, <1>3, <2>1 DEF Pushed, Space
  <2>2. CASE k = Len(stack) + 1
    BY <1>2, <1>6, <2>2 DEF Pushed
  <2>3. QED
    BY <1>2, <2>1, <2>2 DEF Pushed
<1>8. ASSUME NEW id \in seen \ OpenIds(stack') PROVE id \in (seen \ {cur.id}) \ OpenIds(stack)
  <2>1. cur.id \in OpenIds(stack')
    <3>1. Len(stack) + 1 \in 1..Len(stack') /\ stack'[Len(stack) + 1] = cur
      BY <1>2 DEF Pushed
    <3>2. QED
      BY <3>1 DEF OpenIds
  <2>2. OpenIds(stack) \subseteq OpenIds(stack')
    <3>1. \A k \in 1..Len(stack) : k \in 1..Len(stack') /\ stack'[k] = stack[k]
      BY <1>2 DEF Pushed
    <3>2. QED
      BY <3>1 DEF OpenIds
  <2>3. QED
    BY <1>8, <2>1, <2>2
<1>9. HeadInv(img, pc', cur, walk)
  BY <1>1 DEF HeadInv
<1>10. Space(img, pc', Ph(pc', query), cur, walk, stack', seen)
  BY <1>3, <1>4, <1>5, <1>7, <1>8, <1>9 DEF Space
<1>11. QED
  BY <1>1, <1>10 DEF SpaceInv

\* A record is read.
LEMMA SpaceReadRecord ==
  ASSUME Shape, SpaceInv, pc # "reported", ReadRecord, pc' # "reported"
  PROVE  SpaceInv'
<1> DEFINE n == img.nodes[Top.id]
           i == Top.i + 1
           f(len) == [Top EXCEPT !.i = i, !.uk = @ \cup KeyCells(n, i),
                                 !.uv = @ \cup {c \in ValCells(n, i, len) : c < ValArea(n)}]
<1>1. /\ pc = "record" /\ Top.i < n.nkeys
      /\ \E len \in ValLens(n, i) : RecordOK(n, i, len) /\ stack' = SetTop(f(len))
      /\ (UNCHANGED <<pc, cur>> \/ (pc' = "read" /\ cur' = Frame(Child(n, i), n.vals[i].hash)))
      /\ UNCHANGED <<img, walk, seen, query>>
  BY ReadRecordStep DEF Node
<1>2. PICK len \in ValLens(n, i) : RecordOK(n, i, len) /\ stack' = SetTop(f(len))
  BY <1>1
<1>3. query.state # "running" /\ Ph(pc, query) = "record" /\ Ph(pc', query) = pc'
  <2>1. query.state # "running"
    BY <1>1, ShapeFacts, PhaseOf
  <2>2. QED
    BY <1>1, <2>1 DEF Ph
<1>4. /\ Len(stack) \in Nat /\ Len(stack) >= 1 /\ Top \in FrameT /\ Top.id \in DOMAIN img.nodes
      /\ OnDisk(img) /\ Top = stack[Len(stack)] /\ stack \in Seq(FrameT)
  BY <1>3, TopFacts, ShapeFacts DEF Top
<1>5. Space(img, pc, Ph(pc, query), cur, walk, stack, seen)
  BY DEF SpaceInv
<1>6. FrameInv(img, Top) /\ Len(stack) \in 1..Len(stack)
  BY <1>4, <1>5 DEF Space
<1>7. FrameInv(img, f(len))
  <2>1. /\ KeyInside(n, i) /\ KeyCells(n, i) \cap Top.uk = {}
        /\ ValInside(n, i) /\ ValCells(n, i, len) \cap Top.uv = {}
    BY <1>2 DEF RecordOK, KeyFree, ValFree
  <2>2. Top.i < Count(img, Top.id)
    BY <1>1 DEF Count
  <2>3. QED
    BY <1>4, <1>6, <2>1, <2>2, FrameRecord
<1>8. Changed(stack, stack', f(len)) /\ f(len).id = Top.id
  <2> DEFINE g == f(len)
  <2>1. g.id = Top.id
    BY <1>4 DEF FrameT
  <2>2. stack' = [stack EXCEPT ![Len(stack)] = g]
    BY <1>2 DEF SetTop
  <2> HIDE DEF g, f
  <2>3. Changed(stack, stack', g)
    BY <1>4, <2>2 DEF Changed
  <2>4. QED
    BY <2>1, <2>3 DEF g
<1> DEFINE g == f(len)
<1>9. Changed(stack, stack', g) /\ g.id = Top.id /\ FrameInv(img, g)
  BY <1>7, <1>8
<1> HIDE DEF f, g
<1>10. ASSUME NEW k \in 1..Len(stack') PROVE FrameInv(img, stack'[k])
  <2>1. CASE k \in 1..(Len(stack) - 1)
    <3>1. k \in 1..Len(stack) /\ stack'[k] = stack[k]
      BY <1>4, <1>9, <2>1 DEF Changed
    <3>2. QED
      BY <1>5, <3>1 DEF Space
  <2>2. CASE k = Len(stack)
    BY <1>9, <2>2 DEF Changed
  <2>3. QED
    BY <1>4, <1>9, <2>1, <2>2 DEF Changed
<1>11. OpenIds(stack') = OpenIds(stack)
  <2>1. \A k \in 1..Len(stack) : stack'[k].id = stack[k].id
    <3>1. \A k \in 1..Len(stack) : k = Len(stack) \/ k \in 1..(Len(stack) - 1)
      BY <1>4
    <3>2. QED
      BY <1>4, <1>9, <3>1 DEF Changed
  <2>2. Len(stack') = Len(stack)
    BY <1>9 DEF Changed
  <2>3. QED
    BY <2>1, <2>2 DEF OpenIds
<1>12. Entered(pc', cur', seen) = Entered("record", cur, seen)
  BY <1>1 DEF Entered, Heads
<1>13. HeadInv(img, pc', cur', walk)
  <2>1. CASE pc' = "record"
    BY <2>1 DEF HeadInv
  <2>2. CASE pc' = "read" /\ cur' = Frame(Child(n, i), n.vals[i].hash)
    BY <2>2 DEF HeadInv, Frame
  <2>3. QED
    BY <1>1, <2>1, <2>2
<1>14. Space(img, pc', pc', cur', walk, stack', seen)
  BY <1>3, <1>5, <1>10, <1>11, <1>12, <1>13 DEF Space
<1>15. QED
  BY <1>1, <1>3, <1>14 DEF SpaceInv

\* A node is left: its bitmaps match.
LEMMA SpaceEndNode ==
  ASSUME Shape, SpaceInv, pc # "reported", EndNode, pc' # "reported"
  PROVE  SpaceInv'
<1>1. /\ pc = "record" /\ Top.i = Node(Top.id).nkeys /\ BmapsMatch(Node(Top.id), Top)
      /\ pc' \in {"footer", "record"} /\ UNCHANGED <<img, cur, walk, last, seen, stats, query>>
  BY EndNodeStep
<1>2. query.state # "running" /\ Ph(pc, query) = "record" /\ Ph(pc', query) = pc'
  <2>1. query.state # "running"
    BY <1>1, ShapeFacts, PhaseOf
  <2>2. QED
    BY <1>1, <2>1 DEF Ph
<1>3. /\ Len(stack) \in Nat /\ Len(stack) >= 1 /\ Top \in FrameT /\ Top = stack[Len(stack)]
      /\ Popped(stack, stack')
  BY <1>2, TopFacts, ShapeEndNode DEF Top
<1>4. Space(img, pc, "record", cur, walk, stack, seen)
  BY <1>2 DEF SpaceInv
<1>5. FrameInv(img, Top)
  BY <1>3, <1>4 DEF Space
<1>6. Matched(img, Top.id)
  BY <1>1, <1>3, <1>5 DEF Matched, Count, Node
<1>7. Entered("record", cur, seen) = seen /\ Entered(pc', cur, seen) = seen
  BY <1>1 DEF Entered, Heads
<1>8. \A k \in 1..Len(stack') : k \in 1..Len(stack) /\ stack'[k] = stack[k]
  BY <1>3 DEF Popped
<1>9. ASSUME NEW id \in seen \ OpenIds(stack') PROVE Matched(img, id)
  <2>1. CASE id \in OpenIds(stack)
    <3>1. PICK k \in 1..Len(stack) : id = stack[k].id
      BY <2>1 DEF OpenIds
    <3>2. CASE k = Len(stack)
      BY <1>3, <1>6, <3>1, <3>2
    <3>3. CASE k # Len(stack)
      <4>1. k \in 1..Len(stack') /\ stack'[k] = stack[k]
        BY <1>3, <3>1, <3>3 DEF Popped
      <4>2. id \in OpenIds(stack')
        BY <3>1, <4>1 DEF OpenIds
      <4>3. QED
        BY <1>9, <4>2
    <3>4. QED
      BY <3>2, <3>3
  <2>2. CASE id \notin OpenIds(stack)
    BY <1>4, <1>7, <1>9, <2>2 DEF Space
  <2>3. QED
    BY <2>1, <2>2
<1>10. HeadInv(img, pc', cur, walk)
  BY <1>1 DEF HeadInv
<1>11. Space(img, pc', pc', cur, walk, stack', seen)
  BY <1>4, <1>7, <1>8, <1>9, <1>10 DEF Space
<1>12. QED
  BY <1>1, <1>2, <1>11 DEF SpaceInv

\* The footer and the queries keep the bitmaps; a query that reads a child has a
\* frame of its own.
LEMMA SpaceKept ==
  ASSUME SpaceInv, pc # "reported", UNCHANGED <<img, stack, seen>>,
         Ph(pc, query) \notin Heads, Ph(pc', query') \notin Heads, HeadInv(img, pc', cur', walk')
  PROVE  SpaceInv'
<1>1. Space(img, pc, Ph(pc, query), cur, walk, stack, seen)
  BY DEF SpaceInv
<1>2. Entered(Ph(pc', query'), cur', seen) = Entered(Ph(pc, query), cur, seen)
  BY DEF Entered
<1>3. QED
  BY <1>1, <1>2 DEF SpaceInv, Space

\* Every step.
LEMMA SpaceStep == ASSUME Shape, SpaceInv, [Next]_vars PROVE SpaceInv'
<1>1. CASE pc' = "reported"
  BY <1>1 DEF SpaceInv
<1>2. CASE pc' # "reported" /\ UNCHANGED vars
  BY <1>2 DEF SpaceInv, vars
<1>3. CASE pc' # "reported" /\ ~UNCHANGED vars
  <2>0. pc # "reported"
    BY <1>3, Alternatives, StartTreeStep, ReadNodeStep, WalkKeyListStep, EndKeyListStep, WalkValListStep,
       EndValListStep, EnterNodeStep, ReadRecordStep, EndNodeStep, CheckFooterStep, StartQueryStep,
       EnterChildStep, BisectStep, EndBisectionStep
  <2>1. CASE CheckFooter
    <3>1. pc = "footer" /\ pc' = "parsed" /\ UNCHANGED <<img, stack, seen, query>>
      BY <1>3, <2>1, CheckFooterStep
    <3>2. query.state # "running"
      BY <2>0, <3>1, ShapeFacts, PhaseOf
    <3>3. Ph(pc, query) \notin Heads /\ Ph(pc', query') \notin Heads /\ HeadInv(img, pc', cur', walk')
      BY <3>1, <3>2 DEF Ph, Heads, HeadInv
    <3>4. QED
      BY <2>0, <3>1, <3>3, SpaceKept
  <2>2. CASE StartQuery \/ EnterChild \/ Bisect \/ EndBisection
    <3>1. UNCHANGED <<img, stack, seen>>
      BY <1>3, <2>2, StartQueryStep, EnterChildStep, BisectStep, EndBisectionStep
    <3>2. Ph(pc', query') = Ph(pc, query)
      BY <1>3, <2>0, <2>2, ShapeStartQuery, ShapeEnterChild, ShapeBisect, ShapeEndBisection
    <3>3. Ph(pc, query) \notin Heads
      <4>1. CASE StartQuery
        <5>1. pc \in {"parsed", "record"} /\ query.state = "idle"
          BY <4>1, StartQueryStep
        <5>2. QED
          BY <5>1 DEF Ph, Heads
      <4>2. CASE EnterChild \/ Bisect \/ EndBisection
        <5>1. query.state = "running"
          BY <1>3, <2>0, <4>2, EnterChildStep, BisectStep, EndBisectionStep, ShapeFacts, PhaseOf DEF Querying
        <5>2. Ph(pc, query) \in {"record", "parsed"}
          BY <2>0, <5>1, ShapeFacts, PhaseOf
        <5>3. QED
          BY <5>2 DEF Heads
      <4>3. QED
        BY <2>2, <4>1, <4>2
    <3>4. HeadInv(img, pc', cur', walk')
      <4>1. CASE StartQuery \/ EnterChild
        <5>1. pc' = "bisect"
          BY <1>3, <4>1, StartQueryStep, EnterChildStep
        <5>2. QED
          BY <5>1 DEF HeadInv
      <4>2. CASE Bisect \/ EndBisection
        <5>1. query \in QueryT /\ query.back \in {"record", "parsed"}
          BY <2>0, ShapeFacts DEF QueryT
        <5>2. \/ pc' \in {"bisect", "bisected"} \/ pc' = query.back
              \/ pc' = "read" /\ cur' = Frame(Child(Node(query.node), query.index + 1), 0)
          BY <1>3, <4>2, BisectStep, EndBisectionStep
        <5>3. CASE pc' = "read" /\ cur' = Frame(Child(Node(query.node), query.index + 1), 0)
          BY <5>3 DEF HeadInv, Frame
        <5>4. CASE pc' \in {"bisect", "bisected", "record", "parsed"}
          BY <5>4 DEF HeadInv
        <5>5. QED
          BY <5>1, <5>2, <5>3, <5>4
      <4>3. QED
        BY <2>2, <4>1, <4>2
    <3>5. QED
      BY <2>0, <3>1, <3>2, <3>3, <3>4, SpaceKept
  <2>3. QED
    BY <1>3, <2>0, <2>1, <2>2, Alternatives, SpaceStartTree, SpaceReadNode, SpaceWalkKeyList, SpaceEndKeyList,
       SpaceWalkValList, SpaceEndValList, SpaceEnterNode, SpaceReadRecord, SpaceEndNode
<1>4. QED
  BY <1>1, <1>2, <1>3

\* The bitmaps of each frame are those of the records that were read and of the lists,
\* and each node whose parse is over had bitmaps that match.
THEOREM SpaceHolds == Spec => [](Shape /\ SpaceInv)
<1>1. Init => Shape /\ SpaceInv
  <2>1. ASSUME Init PROVE SpaceInv
    <3>1. pc = "start" /\ stack = <<>> /\ seen = {} /\ query = NoQuery
      BY <2>1 DEF Init
    <3>2. Len(stack) = 0 /\ 1..0 = {}
      BY <3>1
    <3>3. HeadInv(img, pc, cur, walk)
      BY <3>1 DEF HeadInv
    <3>4. Entered(Ph(pc, query), cur, seen) = {}
      BY <3>1 DEF Entered
    <3>5. QED
      BY <3>2, <3>3, <3>4 DEF SpaceInv, Space
  <2>2. QED
    BY <2>1, ShapeInit
<1>2. Shape /\ SpaceInv /\ [Next]_vars => (Shape /\ SpaceInv)'
  BY ShapeStep, SpaceStep
<1>3. QED
  BY <1>1, <1>2, PTL DEF Spec

-----------------------------------------------------------------------------
(* A node whose bitmaps match. *)

\* The records that do not run over the end of the area are as they are marked.
LEMMA WholeValues ==
  ASSUME OnDisk(img), NEW id \in DOMAIN img.nodes, Sized(img, img.nodes[id]), NoOverrun(img.nodes[id]),
         NEW i \in Records(img.nodes[id])
  PROVE  RecordCells(img.nodes[id], i) = ValMap(img, img.nodes[id])[i]
<1> DEFINE n == img.nodes[id]
           len == VLen(img, n, i)
<1>1. NodeOnDisk(n) /\ i \in 1..n.nkeys
  BY DEF OnDisk, Records
<1>2. KeyArea(n) \in Nat /\ ValArea(n) \in Int
  BY <1>1, AreaTypes
<1>3. n.toc[i] \in [k : Nat, klen : Nat, v : Offset, vlen : Nat]
  BY <1>1 DEF NodeOnDisk
<1>4. n.toc[i].vlen \in Nat /\ n.toc[i].v \in Int
  BY <1>3 DEF Offset, INVALID
<1>5. len \in Nat
  BY <1>4 DEF VLen, FixedValLen
<1>6. /\ ValLens(n, i) = {len} /\ ValCells(n, i, len) = VCells(img, n, i) /\ (Ghost(n, i) <=> NoValue(img, n, i))
      /\ {c \in ValCells(n, i, len) : c < ValArea(n)} = ValMap(img, n)[i]
  BY <1>1, Cells
<1>7. Max({len}) = len
  <2> HIDE DEF len
  <2>1. QED
    BY <1>5 DEF Max
<1>8. RecordCells(n, i) = VCells(img, n, i) /\ ~Overruns(n, i, len)
  BY <1>6, <1>7 DEF RecordCells, NoOverrun
<1>9. \A c \in VCells(img, n, i) : c < ValArea(n)
  <2>1. CASE NoValue(img, n, i)
    <3>1. len = 0
      BY <2>1 DEF Sized, NoValue, FixedTrees, VLen
    <3>2. QED
      BY <1>2, <1>4, <3>1 DEF VCells
  <2>2. CASE ~NoValue(img, n, i)
    <3>1. ~(ValArea(n) - n.toc[i].v + len > ValArea(n))
      BY <1>6, <1>8, <2>2 DEF Overruns, ValStart
    <3>2. VCells(img, n, i) = (ValArea(n) - n.toc[i].v) .. (ValArea(n) - n.toc[i].v + len - 1)
      BY DEF VCells
    <3> HIDE DEF n, len
    <3>3. QED
      BY <1>2, <1>4, <1>5, <3>1, <3>2
  <2>3. QED
    BY <2>1, <2>2
<1>10. VCells(img, n, i) = {c \in VCells(img, n, i) : c < ValArea(n)}
  BY <1>9
<1>11. QED
  BY <1>6, <1>8, <1>10

\* Marks that share nothing with the listed entries.
LEMMA ListedApart ==
  ASSUME NEW list, NEW head, NEW C, NEW area, NEW F, NEW U, Listed(list, head, C, area, F), F \cap U = {}
  PROVE  LET ks == {o \in Linked(list, head) : o # INVALID}
         IN  \A o \in ks : C[o] \subseteq (0..(area - 1)) \ U
  BY DEF Listed

\* Records and listed free space share no byte.
LEMMA MatchedSpace ==
  ASSUME OnDisk(img), NEW id \in DOMAIN img.nodes, Matched(img, id), NoOverrun(img.nodes[id])
  PROVE  SpaceRight(img.nodes[id])
<1> DEFINE n == img.nodes[id]
           K == KeyMap(img, n)
           V == ValMap(img, n)
           ks == {o \in ListFrom(n.kraw, n.kfree) : o # INVALID}
           vs == {o \in ListFrom(n.vraw, n.vfree) : o # INVALID}
           kused == UNION {KeyCells(n, i) : i \in Records(n)}
           vused == UNION {RecordCells(n, i) : i \in Records(n)}
<1>1. PICK f \in FrameT : f.id = id /\ f.i = Count(img, id) /\ FrameInv(img, f) /\ BmapsMatch(n, f)
  BY DEF Matched
<1>2. /\ Sized(img, n) /\ Marked(K, KeyArea(n), n.nkeys, f.uk) /\ Marked(V, ValArea(n), n.nkeys, f.uv)
      /\ KeysListed(n, f.fk) /\ ValsListed(n, f.fv)
  BY <1>1 DEF FrameInv, Count
<1>3. Records(n) = 1..n.nkeys
  BY DEF Records
<1>4. \A i \in Records(n) : KeyCells(n, i) = K[i] /\ RecordCells(n, i) = V[i]
  BY <1>2, <1>3, Cells, WholeValues
<1>5. kused = f.uk /\ vused = f.uv
  <2> HIDE DEF K, V, n
  <2>1. f.uk = UNION {K[i] : i \in Records(n)} /\ f.uv = UNION {V[i] : i \in Records(n)}
    BY <1>2, <1>3 DEF Marked
  <2>2. QED
    BY <1>4, <2>1
<1>6. /\ f.fk \cap f.uk = {} /\ n.kfree.len = KeyArea(n) - Cardinality(f.uk)
      /\ f.fv \cap f.uv = {} /\ n.vfree.len = ValArea(n) - Cardinality(f.uv)
  BY <1>1 DEF BmapsMatch
<1>7. /\ \A a, b \in Records(n) : a # b => KeyCells(n, a) \cap KeyCells(n, b) = {}
      /\ \A a, b \in Records(n) : a # b => RecordCells(n, a) \cap RecordCells(n, b) = {}
      /\ f.uk \subseteq 0..(KeyArea(n) - 1) /\ f.uv \subseteq 0..(ValArea(n) - 1)
  <2> HIDE DEF K, V, n
  <2>1. /\ \A a, b \in Records(n) : a # b => K[a] \cap K[b] = {}
        /\ \A a, b \in Records(n) : a # b => V[a] \cap V[b] = {}
        /\ f.uk \subseteq 0..(KeyArea(n) - 1) /\ f.uv \subseteq 0..(ValArea(n) - 1)
    BY <1>2, <1>3 DEF Marked
  <2>2. QED
    BY <1>4, <2>1
<1>8. Linked(n.kraw, n.kfree) = ListFrom(n.kraw, n.kfree) /\ Linked(n.vraw, n.vfree) = ListFrom(n.vraw, n.vfree)
  BY DEF Linked, ListFrom
<1>9. /\ ks \subseteq DOMAIN n.kraw /\ \A a, b \in ks : a # b => KeyGaps(n)[a] \cap KeyGaps(n)[b] = {}
      /\ vs \subseteq DOMAIN n.vraw /\ \A a, b \in vs : a # b => ValGaps(n)[a] \cap ValGaps(n)[b] = {}
  BY <1>2, <1>8 DEF KeysListed, ValsListed, Listed
<1>10. \A o \in ks : KeyGaps(n)[o] \subseteq (0..(KeyArea(n) - 1)) \ f.uk
  BY <1>2, <1>6, <1>8, ListedApart DEF KeysListed
<1>11. \A o \in vs : ValGaps(n)[o] \subseteq (0..(ValArea(n) - 1)) \ f.uv
  BY <1>2, <1>6, <1>8, ListedApart DEF ValsListed
<1>12. (\A o \in ks : KeyFreeCells(n, o) = KeyGaps(n)[o]) /\ (\A o \in vs : FreeVal(n, o) = ValGaps(n)[o])
  <2> HIDE DEF ks, vs
  <2>1. QED
    BY <1>9 DEF KeyFreeCells, KeyGaps, FreeVal, ValGaps, Entry
<1> HIDE DEF ks, vs, kused, vused, n, K, V
<1>13. /\ \A a, b \in ks : a # b => KeyFreeCells(n, a) \cap KeyFreeCells(n, b) = {}
       /\ \A a, b \in vs : a # b => FreeVal(n, a) \cap FreeVal(n, b) = {}
       /\ \A o \in ks : KeyFreeCells(n, o) \subseteq (0..(KeyArea(n) - 1)) \ kused
       /\ \A o \in vs : FreeVal(n, o) \subseteq (0..(ValArea(n) - 1)) \ vused
  BY <1>5, <1>9, <1>10, <1>11, <1>12
<1>14. SpaceRight(n)
  BY <1>5, <1>6, <1>7, <1>9, <1>13 DEF SpaceRight, Disjoint, ks, vs, kused, vused
<1>15. QED
  BY <1>14 DEF n

\* In every node of an accepted tree whose values end in their area, however many records
\* and free areas it has, node_compare_bmaps() and the walks of the lists leave no two
\* records and no record and listed free area with a byte in common, nor any of them out
\* of its area, and the totals in its header are the space without records.
THEOREM SpaceAcceptedHolds == Spec => []SpaceAccepted
<1>1. ASSUME Shape, ParseInv, SpaceInv PROVE SpaceAccepted
  <2>1. SUFFICES ASSUME Accepted, NEW m \in Tree, NoOverrun(Node(m)) PROVE SpaceRight(Node(m))
    BY DEF SpaceAccepted
  <2>2. /\ OnDisk(img) /\ seen = Under(img, img.root) /\ seen \subseteq DOMAIN img.nodes /\ pc = "parsed"
    BY <1>1, <2>1, AcceptedTree DEF Accepted, TreeInv
  <2>3. Tree = seen
    BY <2>2, ImageSets
  <2>4. Ph(pc, query) = "parsed"
    BY <1>1, <2>2, ShapeFacts, PhaseOf
  <2>5. stack = <<>> /\ Space(img, pc, "parsed", cur, walk, stack, seen)
    BY <1>1, <2>2, <2>4 DEF ParseInv, Parse, PlaceInv, SpaceInv
  <2>6. OpenIds(stack) = {} /\ Entered("parsed", cur, seen) = seen
    <3>1. Len(stack) = 0 /\ 1..0 = {}
      BY <2>5
    <3>2. QED
      BY <3>1 DEF OpenIds, Entered, Heads
  <2>7. Matched(img, m)
    BY <2>1, <2>3, <2>5, <2>6 DEF Space
  <2>8. QED
    BY <2>1, <2>2, <2>3, <2>7, MatchedSpace DEF Node
<1>2. QED
  BY <1>1, ParseHolds, SpaceHolds, PTL

-----------------------------------------------------------------------------
(* What the parser has gone through, in a tree that may be right or wrong. *)

\* C gives the cells of each entry.  The walk has gone through entries of the
\* list, the cells of which are F, and total is what they leave.
Followed(list, head, C, F, w) ==
  \E V \in SUBSET (DOMAIN list \cap Linked(list, head)) :
    /\ head.off \in V \cup {w.off} /\ \A o \in V : list[o].off \in V \cup {w.off}
    /\ F = UNION {C[o] : o \in V} /\ IsFiniteSet(F)
    /\ w.off \in Linked(list, head) /\ w.total = head.len - Cardinality(F)
    /\ head.len = 0 => V = {}
\* The walk is over.
Gathered(list, head, C, F) ==
  /\ F \subseteq UNION {C[o] : o \in DOMAIN list \cap Linked(list, head)}
  /\ head.len = 0 => F = {}

KeysFollowed(n, F, w) == Followed(n.kraw, n.kfree, KeyGaps(n), F, w)
ValsFollowed(n, F, w) == Followed(n.vraw, n.vfree, ValGaps(n), F, w)
KeysGathered(n, F) == Gathered(n.kraw, n.kfree, KeyGaps(n), F)
ValsGathered(n, F) == Gathered(n.vraw, n.vfree, ValGaps(n), F)

\* The free space of the node that is being read, and of those in the calls.
FreeTrace(m, p, c, w, st) ==
  /\ p = "key_list" => KeysFollowed(m.nodes[c.id], c.fk, w)
  /\ p = "value_list" => KeysGathered(m.nodes[c.id], c.fk) /\ ValsFollowed(m.nodes[c.id], c.fv, w)
  /\ p = "enter" => KeysGathered(m.nodes[c.id], c.fk) /\ ValsGathered(m.nodes[c.id], c.fv)
  /\ \A k \in 1..Len(st) : KeysGathered(m.nodes[st[k].id], st[k].fk) /\ ValsGathered(m.nodes[st[k].id], st[k].fv)
\* The hash that the parent has for the node to be read.
HashTrace(m, p, c, st) ==
  p = "read" => c.hash = IF Len(st) = 0 THEN m.root_hash ELSE m.nodes[TopOf(st).id].vals[TopOf(st).i].hash
\* last_key is the key of the record that was read last: in an index node it
\* is one under the record before.
LastTrace(m, p, st, lst) ==
  /\ p = "start" \/ (p \in Pending /\ Len(st) = 0) \/ (p = "record" /\ Len(st) = 1 /\ TopOf(st).i = 0) => lst = NoKey
  /\ p = "record" /\ TopOf(st).i > 0 =>
       IF IsLeaf(m, TopOf(st).id) THEN lst = LastAt(m, TopOf(st).id, TopOf(st).i)
       ELSE \E x \in Leaves(m, Under(m, ChildAt(m, TopOf(st).id, TopOf(st).i))) : lst = LastR(m, x)
\* The longest key and value are those of some record.
LongestTrace(m, E, sts) ==
  /\ sts.longest_key = 0 \/ \E r \in Recs(m, E) : sts.longest_key = KLen(m, m.nodes[r[1]], r[2])
  /\ sts.longest_val = 0 \/ \E r \in Leaves(m, E) : sts.longest_val = VLen(m, m.nodes[r[1]], r[2])

Trace(m, p, c, w, st, lst, se, sts) ==
  /\ FreeTrace(m, p, c, w, st) /\ HashTrace(m, p, c, st) /\ LastTrace(m, p, st, lst)
  /\ LongestTrace(m, Entered(p, c, se), sts)
TraceInv ==
  pc # "reported" /\ query.state = "idle" => Trace(img, pc, cur, walk, stack, last, seen, stats)

\* The walk begins.
LEMMA FollowBegins ==
  ASSUME NEW list, NEW head, ListOnDisk(head, list), NEW C, NEW w, w.off = head.off, w.total = head.len
  PROVE  Followed(list, head, C, {}, w)
<1> DEFINE V == {}
           next == [o \in DOMAIN list |-> {list[o].off}]
<1>1. V \in SUBSET (DOMAIN list \cap Linked(list, head)) /\ UNION {C[o] : o \in V} = {}
  OBVIOUS
<1>2. head.off \in Linked(list, head)
  <2>1. IsFiniteSet(DOMAIN next)
    BY DEF ListOnDisk
  <2>2. Linked(list, head) = Reach(head.off, next)
    BY DEF Linked
  <2> HIDE DEF next
  <2>3. QED
    BY <2>1, <2>2, ReachStays
<1>3. IsFiniteSet({}) /\ Cardinality({}) = 0 /\ head.len \in Nat
  BY FS_EmptySet DEF ListOnDisk
<1>4. w.total = head.len - Cardinality({}) /\ w.off \in Linked(list, head)
  BY <1>2, <1>3
<1>5. QED
  BY <1>1, <1>3, <1>4 DEF Followed

\* One more entry.
LEMMA FollowEntry ==
  ASSUME NEW list, NEW head, ListOnDisk(head, list), NEW C, NEW F, NEW w, Followed(list, head, C, F, w),
         w.off \in DOMAIN list, w.total > 0, C[w.off] \cap F = {},
         IsFiniteSet(C[w.off]), Cardinality(C[w.off]) = list[w.off].len,
         NEW v, v.off = list[w.off].off, v.total = w.total - list[w.off].len
  PROVE  Followed(list, head, C, F \cup C[w.off], v)
<1> DEFINE off == w.off
           next == [o \in DOMAIN list |-> {list[o].off}]
<1>1. PICK V \in SUBSET (DOMAIN list \cap Linked(list, head)) :
        /\ head.off \in V \cup {off} /\ \A o \in V : list[o].off \in V \cup {off}
        /\ F = UNION {C[o] : o \in V} /\ IsFiniteSet(F)
        /\ off \in Linked(list, head) /\ w.total = head.len - Cardinality(F)
        /\ head.len = 0 => V = {}
  BY DEF Followed
<1> DEFINE W == V \cup {off}
<1>2. W \in SUBSET (DOMAIN list \cap Linked(list, head)) /\ head.off \in W /\ \A o \in W : list[o].off \in W \cup {v.off}
  BY <1>1
<1>3. F \cup C[off] = UNION {C[o] : o \in W}
  BY <1>1
<1>4. v.off \in Linked(list, head)
  <2>1. IsFiniteSet(DOMAIN next) /\ off \in DOMAIN next /\ next[off] = {list[off].off}
    BY DEF ListOnDisk
  <2>2. Linked(list, head) = Reach(head.off, next)
    BY DEF Linked
  <2> HIDE DEF next
  <2>3. Stays(next, Linked(list, head))
    BY <2>1, <2>2, ReachStays
  <2>4. QED
    BY <1>1, <2>1, <2>3 DEF Stays
<1>5. /\ IsFiniteSet(F \cup C[off]) /\ Cardinality(F) \in Nat /\ Cardinality(C[off]) \in Nat
      /\ Cardinality(F \cup C[off]) = Cardinality(F) + Cardinality(C[off])
  <2>1. IsFiniteSet(F) /\ F \cap C[off] = {}
    BY <1>1
  <2>2. Cardinality(F \cap C[off]) = 0
    BY <2>1, FS_EmptySet
  <2>3. Cardinality(F) \in Nat /\ Cardinality(C[off]) \in Nat
    BY <2>1, FS_CardinalityType
  <2> DEFINE G == C[off]
  <2> HIDE DEF G
  <2>4. IsFiniteSet(G) /\ IsFiniteSet(F \cup G) /\ Cardinality(F \cup G) = Cardinality(F) + Cardinality(G) - Cardinality(F \cap G)
    <3>1. IsFiniteSet(G)
      BY DEF G
    <3>2. QED
      BY <2>1, <3>1, FS_Union
  <2>5. QED
    BY <2>2, <2>3, <2>4 DEF G
<1>6. head.len \in Nat /\ list[off].len \in Nat
  BY <1>5 DEF ListOnDisk
<1>7. v.total = head.len - Cardinality(F \cup C[off]) /\ head.len # 0
  BY <1>1, <1>5, <1>6
<1> HIDE DEF W
<1>8. QED
  BY <1>2, <1>3, <1>4, <1>5, <1>7 DEF Followed

\* The walk is over.
LEMMA FollowEnds ==
  ASSUME NEW list, NEW head, NEW C, NEW F, NEW w, Followed(list, head, C, F, w)
  PROVE  Gathered(list, head, C, F)
<1>1. PICK V \in SUBSET (DOMAIN list \cap Linked(list, head)) :
        F = UNION {C[o] : o \in V} /\ (head.len = 0 => V = {})
  BY DEF Followed
<1>2. V = {} => F = {}
  BY <1>1
<1>3. QED
  BY <1>1, <1>2 DEF Gathered

\* The first node is read for.
LEMMA TraceStartTree ==
  ASSUME Shape, ParseInv, TraceInv, pc # "reported", query.state = "idle", StartTree, pc' # "reported"
  PROVE  TraceInv'
<1>1. /\ pc = "start" /\ pc' \in {"parsed", "read"} /\ cur' = Frame(img.root, img.root_hash)
      /\ UNCHANGED <<img, walk, stack, last, seen, stats, query>>
  BY StartTreeStep
<1>2. Ph(pc, query) = "start"
  BY <1>1 DEF Ph
<1>3. stack = <<>> /\ Len(stack) = 0 /\ 1..0 = {}
  BY <1>1, <1>2 DEF ParseInv, Parse, PlaceInv
<1>4. Trace(img, pc, cur, walk, stack, last, seen, stats)
  BY DEF TraceInv
<1>5. FreeTrace(img, pc', cur', walk, stack)
  BY <1>1, <1>3 DEF FreeTrace
<1>6. HashTrace(img, pc', cur', stack)
  BY <1>1, <1>3 DEF HashTrace, Frame
<1>7. LastTrace(img, pc', stack, last)
  BY <1>1, <1>3, <1>4 DEF LastTrace, Trace
<1>8. Entered(pc', cur', seen) = Entered(pc, cur, seen)
  BY <1>1 DEF Entered, Heads
<1>9. QED
  BY <1>1, <1>4, <1>5, <1>6, <1>7, <1>8 DEF TraceInv, Trace

\* The walk over the first list begins.
LEMMA TraceReadNode ==
  ASSUME Shape, SpaceInv, TraceInv, pc # "reported", query.state = "idle", ReadNode, pc' # "reported"
  PROVE  TraceInv'
<1>1. /\ pc = "read" /\ pc' = "key_list" /\ Readable(cur.id)
      /\ seen' = (IF Querying THEN seen ELSE seen \cup {cur.id})
      /\ walk' = [off |-> Node(cur.id).kfree.off, total |-> Node(cur.id).kfree.len]
      /\ UNCHANGED <<img, cur, stack, last, stats, query>>
  BY ReadNodeStep
<1>2. Trace(img, pc, cur, walk, stack, last, seen, stats)
  BY DEF TraceInv
<1>3. ~Querying /\ cur.id \notin seen /\ cur.id \in DOMAIN img.nodes /\ OnDisk(img)
  BY <1>1, ShapeFacts DEF Querying, Readable
<1>4. Entered(pc', cur, seen') = Entered(pc, cur, seen)
  BY <1>1, <1>3 DEF Entered, Heads
<1>5. cur.fk = {}
  BY <1>1 DEF SpaceInv, Space, HeadInv
<1>6. KeysFollowed(img.nodes[cur.id], cur.fk, walk')
  <2> DEFINE n == img.nodes[cur.id]
  <2>1. ListOnDisk(n.kfree, n.kraw)
    BY <1>3, ListTypes
  <2>2. walk'.off = n.kfree.off /\ walk'.total = n.kfree.len
    BY <1>1 DEF Node
  <2> HIDE DEF n
  <2>3. Followed(n.kraw, n.kfree, KeyGaps(n), {}, walk')
    BY <2>1, <2>2, FollowBegins
  <2>4. QED
    BY <1>5, <2>3 DEF KeysFollowed, n
<1>7. FreeTrace(img, pc', cur, walk', stack)
  BY <1>1, <1>2, <1>6 DEF FreeTrace, Trace
<1>8. HashTrace(img, pc', cur, stack) /\ LastTrace(img, pc', stack, last)
  BY <1>1, <1>2 DEF HashTrace, LastTrace, Trace, Pending, Heads
<1>9. QED
  BY <1>1, <1>2, <1>4, <1>7, <1>8 DEF TraceInv, Trace

\* What the steps over the lists have in common.
LEMMA TraceHead ==
  ASSUME TraceInv, pc # "reported", query.state = "idle", pc \in {"key_list", "value_list"}, pc' \in Heads,
         cur'.id = cur.id, UNCHANGED <<img, stack, last, seen, stats, query>>,
         pc' = "key_list" => KeysFollowed(img.nodes[cur.id], cur'.fk, walk'),
         pc' = "value_list" => KeysGathered(img.nodes[cur.id], cur'.fk) /\ ValsFollowed(img.nodes[cur.id], cur'.fv, walk'),
         pc' = "enter" => KeysGathered(img.nodes[cur.id], cur'.fk) /\ ValsGathered(img.nodes[cur.id], cur'.fv)
  PROVE  TraceInv'
<1>1. Trace(img, pc, cur, walk, stack, last, seen, stats)
  BY DEF TraceInv
<1>2. Entered(pc', cur', seen) = Entered(pc, cur, seen)
  BY DEF Entered, Heads
<1>3. FreeTrace(img, pc', cur', walk', stack)
  BY <1>1 DEF FreeTrace, Trace
<1>4. HashTrace(img, pc', cur', stack) /\ LastTrace(img, pc', stack, last)
  BY <1>1 DEF HashTrace, LastTrace, Trace, Pending, Heads
<1>5. QED
  BY <1>1, <1>2, <1>3, <1>4 DEF TraceInv, Trace

\* The number of cells.
LEMMA CellCount ==
  ASSUME NEW a \in Int, NEW len \in Nat
  PROVE  IsFiniteSet(a .. (a + len - 1)) /\ Cardinality(a .. (a + len - 1)) = len
<1> DEFINE b == a + len - 1
<1>1. b \in Int /\ (a > b <=> len = 0) /\ (len # 0 => b - a + 1 = len)
  OBVIOUS
<1> HIDE DEF b
<1>2. IsFiniteSet(a .. b) /\ Cardinality(a .. b) = IF a > b THEN 0 ELSE b - a + 1
  BY <1>1, FS_Interval
<1>3. QED
  BY <1>1, <1>2 DEF b

\* Free keys.
LEMMA TraceWalkKeyList ==
  ASSUME Shape, TraceInv, pc # "reported", query.state = "idle", WalkKeyList, pc' # "reported"
  PROVE  TraceInv'
<1> DEFINE n == img.nodes[cur.id]
           e == Entry(n.kraw, walk.off)
           cells == walk.off .. (walk.off + e.len - 1)
<1>1. /\ pc = "key_list" /\ pc' = pc /\ WalkGoesOn /\ KeyEntryOK(n, walk.off)
      /\ cur' = [cur EXCEPT !.fk = @ \cup cells]
      /\ walk' = [off |-> e.off, total |-> walk.total - e.len]
      /\ UNCHANGED <<img, stack, last, seen, stats, query>>
  BY WalkKeyListStep DEF Node
<1>2. /\ cur.id \in DOMAIN img.nodes /\ walk.off \in Offset /\ walk.off # INVALID /\ cur \in FrameT /\ OnDisk(img)
      /\ walk.total > 0
  BY <1>1, ShapeFacts DEF Heads, WalkT, FreshT, WalkGoesOn
<1>3. NodeOnDisk(n) /\ ListOnDisk(n.kfree, n.kraw)
  BY <1>2, ListTypes DEF OnDisk
<1>4. /\ walk.off \in DOMAIN n.kraw /\ e = n.kraw[walk.off] /\ KeyGaps(n)[walk.off] = cells /\ cells \cap cur.fk = {}
  <2> HIDE DEF n
  <2>1. /\ walk.off \in DOMAIN n.kraw /\ Entry(n.kraw, walk.off) = n.kraw[walk.off]
        /\ KeyGaps(n)[walk.off] = walk.off .. (walk.off + Entry(n.kraw, walk.off).len - 1)
        /\ KeyGaps(n)[walk.off] \cap cur.fk = {}
    BY <1>1, <1>2, <1>3, KeyEntryCells
  <2>2. QED
    BY <2>1
<1>5. IsFiniteSet(cells) /\ Cardinality(cells) = n.kraw[walk.off].len
  <2>1. walk.off \in Int /\ e.len \in Nat
    BY <1>2, <1>3, EntryTypes DEF Offset, INVALID
  <2> HIDE DEF e, n
  <2>2. QED
    BY <1>4, <2>1, CellCount
<1>6. KeysFollowed(n, cur.fk, walk)
  BY <1>1 DEF TraceInv, Trace, FreeTrace
<1>7. walk'.off = n.kraw[walk.off].off /\ walk'.total = walk.total - n.kraw[walk.off].len
  BY <1>1, <1>4
<1> HIDE DEF cells, n
<1>8. cur'.fk = cur.fk \cup cells /\ cur'.id = cur.id
  BY <1>1, <1>2 DEF FrameT
<1>9. KeysFollowed(n, cur'.fk, walk')
  <2> DEFINE C == KeyGaps(n)
  <2>1. /\ ListOnDisk(n.kfree, n.kraw) /\ Followed(n.kraw, n.kfree, C, cur.fk, walk) /\ C[walk.off] \cap cur.fk = {}
        /\ walk.off \in DOMAIN n.kraw /\ walk.total > 0 /\ C[walk.off] = cells
        /\ IsFiniteSet(C[walk.off]) /\ Cardinality(C[walk.off]) = n.kraw[walk.off].len
    BY <1>2, <1>3, <1>4, <1>5, <1>6 DEF KeysFollowed
  <2> HIDE DEF C
  <2>2. Followed(n.kraw, n.kfree, C, cur.fk \cup C[walk.off], walk')
    BY <1>7, <2>1, FollowEntry
  <2>3. QED
    BY <1>8, <2>1, <2>2 DEF KeysFollowed, C
<1>10. QED
  BY <1>1, <1>8, <1>9, TraceHead DEF Heads, n

\* The other list begins.
LEMMA TraceEndKeyList ==
  ASSUME Shape, SpaceInv, TraceInv, pc # "reported", query.state = "idle", EndKeyList, pc' # "reported"
  PROVE  TraceInv'
<1> DEFINE n == img.nodes[cur.id]
<1>1. /\ pc = "key_list" /\ pc' = "value_list" /\ walk' = [off |-> n.vfree.off, total |-> n.vfree.len]
      /\ UNCHANGED <<img, cur, stack, last, seen, stats, query>>
  BY EndKeyListStep DEF Node
<1>2. cur.id \in DOMAIN img.nodes /\ OnDisk(img)
  BY <1>1, ShapeFacts DEF Heads
<1>3. ListOnDisk(n.vfree, n.vraw)
  BY <1>2, ListTypes
<1>4. KeysFollowed(n, cur.fk, walk) /\ cur.fv = {}
  BY <1>1 DEF TraceInv, Trace, FreeTrace, SpaceInv, Space, HeadInv
<1>5. walk'.off = n.vfree.off /\ walk'.total = n.vfree.len
  BY <1>1
<1> HIDE DEF n
<1>6. KeysGathered(n, cur.fk)
  BY <1>4, FollowEnds DEF KeysGathered, KeysFollowed
<1>7. ValsFollowed(n, cur.fv, walk')
  BY <1>3, <1>4, <1>5, FollowBegins DEF ValsFollowed
<1>8. QED
  BY <1>1, <1>6, <1>7, TraceHead DEF Heads, n

\* Free values.
LEMMA TraceWalkValList ==
  ASSUME Shape, TraceInv, pc # "reported", query.state = "idle", WalkValList, pc' # "reported"
  PROVE  TraceInv'
<1> DEFINE n == img.nodes[cur.id]
           e == Entry(n.vraw, walk.off)
           cells == FreeVal(n, walk.off)
<1>1. /\ pc = "value_list" /\ pc' = pc /\ WalkGoesOn /\ ValEntryOK(n, walk.off)
      /\ cur' = [cur EXCEPT !.fv = @ \cup cells]
      /\ walk' = [off |-> e.off, total |-> walk.total - e.len]
      /\ UNCHANGED <<img, stack, last, seen, stats, query>>
  BY WalkValListStep DEF Node
<1>2. /\ cur.id \in DOMAIN img.nodes /\ walk.off \in Offset /\ walk.off # INVALID /\ cur \in FrameT /\ OnDisk(img)
      /\ walk.total > 0
  BY <1>1, ShapeFacts DEF Heads, WalkT, FreshT, WalkGoesOn
<1>3. NodeOnDisk(n) /\ ListOnDisk(n.vfree, n.vraw)
  BY <1>2, ListTypes DEF OnDisk
<1>4. /\ walk.off \in DOMAIN n.vraw /\ e = n.vraw[walk.off] /\ ValGaps(n)[walk.off] = cells /\ cells \cap cur.fv = {}
  BY <1>1, <1>2, <1>3, ValEntryCells
<1>5. IsFiniteSet(cells) /\ Cardinality(cells) = n.vraw[walk.off].len
  <2>1. walk.off \in Int /\ e.len \in Nat /\ ValArea(n) \in Int
    BY <1>2, <1>3, EntryTypes, AreaTypes DEF Offset, INVALID
  <2>2. cells = (ValArea(n) - walk.off) .. (ValArea(n) - walk.off + e.len - 1) /\ e.len = n.vraw[walk.off].len
    BY <1>4 DEF FreeVal
  <2> DEFINE a == ValArea(n) - walk.off
             len == e.len
  <2>3. a \in Int /\ len \in Nat /\ cells = a .. (a + len - 1)
    BY <2>1, <2>2
  <2> HIDE DEF a, len, cells, n
  <2>4. IsFiniteSet(cells) /\ Cardinality(cells) = len
    BY <2>3, CellCount
  <2>5. QED
    BY <2>2, <2>4 DEF len
<1>6. ValsFollowed(n, cur.fv, walk) /\ KeysGathered(n, cur.fk)
  BY <1>1 DEF TraceInv, Trace, FreeTrace
<1>7. walk'.off = n.vraw[walk.off].off /\ walk'.total = walk.total - n.vraw[walk.off].len
  BY <1>1, <1>4
<1> HIDE DEF cells, n
<1>8. cur'.fv = cur.fv \cup cells /\ cur'.id = cur.id /\ cur'.fk = cur.fk
  BY <1>1, <1>2 DEF FrameT
<1>9. ValsFollowed(n, cur'.fv, walk')
  <2> DEFINE C == ValGaps(n)
  <2>1. /\ ListOnDisk(n.vfree, n.vraw) /\ Followed(n.vraw, n.vfree, C, cur.fv, walk) /\ C[walk.off] \cap cur.fv = {}
        /\ walk.off \in DOMAIN n.vraw /\ walk.total > 0 /\ C[walk.off] = cells
        /\ IsFiniteSet(C[walk.off]) /\ Cardinality(C[walk.off]) = n.vraw[walk.off].len
    BY <1>2, <1>3, <1>4, <1>5, <1>6 DEF ValsFollowed
  <2> HIDE DEF C
  <2>2. Followed(n.vraw, n.vfree, C, cur.fv \cup C[walk.off], walk')
    BY <1>7, <2>1, FollowEntry
  <2>3. QED
    BY <1>8, <2>1, <2>2 DEF ValsFollowed, C
<1>10. KeysGathered(n, cur'.fk)
  BY <1>6, <1>8
<1>11. QED
  BY <1>1, <1>8, <1>9, <1>10, TraceHead DEF Heads, n

\* Both lists are read.
LEMMA TraceEndValList ==
  ASSUME Shape, TraceInv, pc # "reported", query.state = "idle", EndValList, pc' # "reported"
  PROVE  TraceInv'
<1>1. /\ pc = "value_list" /\ pc' = "enter" /\ UNCHANGED <<img, cur, walk, stack, last, seen, stats, query>>
  BY EndValListStep
<1>2. ValsFollowed(img.nodes[cur.id], cur.fv, walk) /\ KeysGathered(img.nodes[cur.id], cur.fk)
  BY <1>1 DEF TraceInv, Trace, FreeTrace
<1>3. ValsGathered(img.nodes[cur.id], cur.fv)
  BY <1>2, FollowEnds DEF ValsGathered, ValsFollowed
<1>4. QED
  BY <1>1, <1>2, <1>3, TraceHead DEF Heads

\* More records.
LEMMA LongestGrows ==
  ASSUME NEW m, NEW E, NEW E2, E \subseteq E2, NEW sts, LongestTrace(m, E, sts), NEW sts2,
         sts2.longest_key = sts.longest_key \/ \E r \in Recs(m, E2) : sts2.longest_key = KLen(m, m.nodes[r[1]], r[2]),
         sts2.longest_val = sts.longest_val \/ \E r \in Leaves(m, E2) : sts2.longest_val = VLen(m, m.nodes[r[1]], r[2])
  PROVE  LongestTrace(m, E2, sts2)
<1>1. Recs(m, E) \subseteq Recs(m, E2) /\ Leaves(m, E) \subseteq Leaves(m, E2)
  BY DEF Recs, Leaves
<1>2. QED
  BY <1>1 DEF LongestTrace

\* A node is entered.
LEMMA TraceEnterNode ==
  ASSUME Shape, TraceInv, pc # "reported", query.state = "idle", EnterNode, pc' # "reported"
  PROVE  TraceInv'
<1>1. /\ pc = "enter" /\ pc' = "record" /\ UNCHANGED <<img, cur, walk, last, seen, query>>
      /\ stats' = [stats EXCEPT !.keys = @ + (IF node_is_leaf(Node(cur.id)) THEN Node(cur.id).nkeys ELSE 0),
                                !.nodes = @ + 1]
  BY EnterNodeStep
<1>2. Pushed(stack, stack', cur) /\ Len(stack) \in Nat /\ FreshT(cur) /\ stats \in StatsT
  BY ShapeEnterNode, ShapeFacts DEF StackT
<1>3. Trace(img, pc, cur, walk, stack, last, seen, stats)
  BY DEF TraceInv
<1>4. FreeTrace(img, pc', cur, walk, stack')
  <2>1. ASSUME NEW k \in 1..Len(stack')
        PROVE  KeysGathered(img.nodes[stack'[k].id], stack'[k].fk) /\ ValsGathered(img.nodes[stack'[k].id], stack'[k].fv)
    <3>1. CASE k \in 1..Len(stack)
      BY <1>2, <1>3, <3>1 DEF Pushed, Trace, FreeTrace
    <3>2. CASE k = Len(stack) + 1
      BY <1>1, <1>2, <1>3, <3>2 DEF Pushed, Trace, FreeTrace
    <3>3. QED
      BY <1>2, <3>1, <3>2 DEF Pushed
  <2>2. QED
    BY <1>1, <2>1 DEF FreeTrace
<1>5. HashTrace(img, pc', cur, stack')
  BY <1>1 DEF HashTrace
<1>6. LastTrace(img, pc', stack', last)
  <2>1. TopOf(stack').i = 0 /\ (Len(stack') = 1 => Len(stack) = 0)
    BY <1>2 DEF Pushed, TopOf, FreshT
  <2>2. Len(stack') = 1 => last = NoKey
    BY <1>1, <1>3, <2>1 DEF Trace, LastTrace, Pending, Heads
  <2>3. QED
    BY <1>1, <2>1, <2>2 DEF LastTrace, Pending, Heads
<1>7. LongestTrace(img, Entered(pc', cur, seen), stats')
  <2>1. Entered(pc, cur, seen) \subseteq Entered(pc', cur, seen)
    BY <1>1 DEF Entered, Heads
  <2>2. stats'.longest_key = stats.longest_key /\ stats'.longest_val = stats.longest_val
    BY <1>1, <1>2 DEF StatsT
  <2>3. QED
    BY <1>3, <2>1, <2>2, LongestGrows DEF Trace
<1>8. QED
  BY <1>1, <1>4, <1>5, <1>6, <1>7 DEF TraceInv, Trace

\* A record is read.
LEMMA TraceReadRecord ==
  ASSUME Shape, ParseInv, SpaceInv, TraceInv, pc # "reported", query.state = "idle", ReadRecord, pc' # "reported"
  PROVE  TraceInv'
<1> DEFINE n == img.nodes[Top.id]
           i == Top.i + 1
           f(len) == [Top EXCEPT !.i = i, !.uk = @ \cup KeyCells(n, i),
                                 !.uv = @ \cup {c \in ValCells(n, i, len) : c < ValArea(n)}]
           s(len) == [stats EXCEPT !.longest_key = IF KeyLen(n, i) > @ THEN KeyLen(n, i) ELSE @,
                                   !.longest_val = IF node_is_leaf(n) /\ len > @ THEN len ELSE @]
<1>1. /\ pc = "record" /\ Top.i < n.nkeys
      /\ \E len \in ValLens(n, i) : stack' = SetTop(f(len)) /\ stats' = s(len)
      /\ last' = LastKey(Node(Top.id), i)
      /\ IF node_is_leaf(n) THEN UNCHANGED <<pc, cur>> ELSE cur' = Frame(Child(n, i), n.vals[i].hash) /\ pc' = "read"
      /\ UNCHANGED <<img, walk, seen, query>>
  BY ReadRecordStep DEF Node
<1> HIDE DEF f, s
<1>2. PICK len \in ValLens(n, i) : stack' = SetTop(f(len)) /\ stats' = s(len)
  BY <1>1
<1> USE DEF f, s
<1>3. Ph(pc, query) = "record"
  BY <1>1 DEF Ph
<1>4. /\ Len(stack) \in Nat /\ Len(stack) >= 1 /\ Top \in FrameT /\ Top.id \in DOMAIN img.nodes /\ Top.i \in Nat
      /\ OnDisk(img) /\ Top = stack[Len(stack)] /\ stack \in Seq(FrameT) /\ stats \in StatsT /\ n.nkeys \in Nat
  BY <1>3, TopFacts, ShapeFacts DEF Top, Count
<1>5. Trace(img, pc, cur, walk, stack, last, seen, stats)
  BY DEF TraceInv
<1>6. Changed(stack, stack', f(len)) /\ f(len).id = Top.id /\ f(len).i = i /\ f(len).fk = Top.fk /\ f(len).fv = Top.fv
  <2> DEFINE g == f(len)
  <2>1. g.id = Top.id /\ g.i = i /\ g.fk = Top.fk /\ g.fv = Top.fv
    BY <1>4 DEF FrameT
  <2>2. stack' = [stack EXCEPT ![Len(stack)] = g]
    BY <1>2 DEF SetTop
  <2> HIDE DEF g, f
  <2>3. Changed(stack, stack', g)
    BY <1>4, <2>2 DEF Changed
  <2>4. QED
    BY <2>1, <2>3 DEF g
<1> DEFINE g == f(len)
<1>7. Changed(stack, stack', g) /\ g.id = Top.id /\ g.i = i /\ g.fk = Top.fk /\ g.fv = Top.fv
  BY <1>6
<1> HIDE DEF f, g
<1>8. FreeTrace(img, pc', cur', walk, stack')
  <2>1. ASSUME NEW k \in 1..Len(stack')
        PROVE  KeysGathered(img.nodes[stack'[k].id], stack'[k].fk) /\ ValsGathered(img.nodes[stack'[k].id], stack'[k].fv)
    <3>1. CASE k \in 1..(Len(stack) - 1)
      <4>1. k \in 1..Len(stack) /\ stack'[k] = stack[k]
        BY <1>4, <1>7, <3>1 DEF Changed
      <4>2. QED
        BY <1>5, <4>1 DEF Trace, FreeTrace
    <3>2. CASE k = Len(stack)
      <4>1. stack'[k].id = stack[k].id /\ stack'[k].fk = stack[k].fk /\ stack'[k].fv = stack[k].fv /\ k \in 1..Len(stack)
        BY <1>4, <1>7, <3>2 DEF Changed
      <4>2. QED
        BY <1>5, <4>1 DEF Trace, FreeTrace
    <3>3. QED
      BY <1>4, <1>7, <3>1, <3>2 DEF Changed
  <2>2. pc' \in {"record", "read"}
    BY <1>1
  <2>3. QED
    BY <2>1, <2>2 DEF FreeTrace
<1>9. TopOf(stack').id = Top.id /\ TopOf(stack').i = i /\ Len(stack') = Len(stack) /\ i > 0
  BY <1>4, <1>7 DEF TopOf, Changed
<1>10. HashTrace(img, pc', cur', stack')
  <2>1. pc' = "read" => cur'.hash = n.vals[i].hash
    BY <1>1 DEF Frame
  <2>2. QED
    BY <1>4, <1>9, <2>1 DEF HashTrace
<1>11. LastTrace(img, pc', stack', last')
  <2>1. last' = LastAt(img, Top.id, i) /\ (IsLeaf(img, Top.id) => pc' = "record") /\ (~IsLeaf(img, Top.id) => pc' = "read")
    BY <1>1, Images DEF node_is_leaf, IsLeaf
  <2>2. Len(stack') # 0 /\ TopOf(stack').i # 0
    BY <1>4, <1>9
  <2>3. pc' # "start"
    BY <1>1
  <2>4. QED
    BY <1>9, <2>1, <2>2, <2>3 DEF LastTrace
<1>12. LongestTrace(img, Entered(pc', cur', seen), stats')
  <2> DEFINE r == <<Top.id, i>>
  <2>1. Entered(pc', cur', seen) = seen /\ Entered(pc, cur, seen) = seen
    BY <1>1 DEF Entered, Heads
  <2>2. Top.id \in seen
    <3>1. Core(img, seen, FALSE, stack, last)
      BY <1>1, <1>3, <2>1 DEF ParseInv, Parse, CoreAt, Pending, Heads
    <3>2. QED
      BY <1>4, <3>1 DEF Core, Chain
  <2>3. i \in 1..n.nkeys /\ Count(img, Top.id) = n.nkeys
    BY <1>1, <1>4 DEF Count
  <2>4. r \in Recs(img, seen) /\ (IsLeaf(img, Top.id) => r \in Leaves(img, seen)) /\ r[1] = Top.id /\ r[2] = i
    BY <2>2, <2>3, RecIn, LeafIn
  <2>5. KeyLen(n, i) = KLen(img, n, i) /\ len = VLen(img, n, i)
    <3>1. Sized(img, n)
      BY <1>4 DEF SpaceInv, Space, FrameInv
    <3>2. QED
      BY <2>3, <3>1, Cells
  <2>6. /\ stats'.longest_key = stats.longest_key \/ stats'.longest_key = KeyLen(n, i)
        /\ stats'.longest_val = stats.longest_val \/ (node_is_leaf(n) /\ stats'.longest_val = len)
    BY <1>2, <1>4 DEF StatsT
  <2>7. node_is_leaf(n) <=> IsLeaf(img, Top.id)
    BY DEF node_is_leaf, IsLeaf
  <2> HIDE DEF r
  <2>8. stats'.longest_key = stats.longest_key \/ \E x \in Recs(img, seen) : stats'.longest_key = KLen(img, img.nodes[x[1]], x[2])
    BY <2>4, <2>5, <2>6
  <2>9. stats'.longest_val = stats.longest_val \/ \E x \in Leaves(img, seen) : stats'.longest_val = VLen(img, img.nodes[x[1]], x[2])
    BY <2>4, <2>5, <2>6, <2>7
  <2>10. LongestTrace(img, seen, stats)
    BY <1>5, <2>1 DEF Trace
  <2>11. QED
    BY <2>1, <2>8, <2>9, <2>10, LongestGrows
<1>13. QED
  BY <1>1, <1>8, <1>10, <1>11, <1>12 DEF TraceInv, Trace

\* A node is left: last_key is under the record that led to it.
LEMMA TraceEndNode ==
  ASSUME Shape, ParseInv, TraceInv, pc # "reported", query.state = "idle", EndNode, pc' # "reported"
  PROVE  TraceInv'
<1>1. /\ pc = "record" /\ Top.i = Node(Top.id).nkeys /\ pc' = (IF Len(stack) = 1 THEN "footer" ELSE "record")
      /\ UNCHANGED <<img, cur, walk, last, seen, stats, query>>
  BY EndNodeStep
<1>2. Ph(pc, query) = "record" /\ Entered(pc, cur, seen) = seen /\ Entered(pc', cur, seen) = seen
  BY <1>1 DEF Ph, Entered, Heads
<1>3. /\ Len(stack) \in Nat /\ Len(stack) >= 1 /\ Top \in FrameT /\ Top.id \in DOMAIN img.nodes /\ OnDisk(img)
      /\ Top = stack[Len(stack)] /\ Popped(stack, stack') /\ Count(img, Top.id) \in Nat
  BY <1>2, TopFacts, ShapeFacts, ShapeEndNode DEF Top
<1>4. Trace(img, pc, cur, walk, stack, last, seen, stats)
  BY DEF TraceInv
<1>5. Core(img, seen, FALSE, stack, last)
  BY <1>1, <1>2 DEF ParseInv, Parse, CoreAt, Pending, Heads
<1>6. FreeTrace(img, pc', cur, walk, stack')
  <2>1. \A k \in 1..Len(stack') : k \in 1..Len(stack) /\ stack'[k] = stack[k]
    BY <1>3 DEF Popped
  <2>2. pc' \in {"footer", "record"}
    BY <1>1
  <2>3. QED
    BY <1>4, <2>1, <2>2 DEF Trace, FreeTrace
<1>7. HashTrace(img, pc', cur, stack')
  BY <1>1 DEF HashTrace
<1>8. LastTrace(img, pc', stack', last)
  <2>1. CASE Len(stack) = 1
    <3>1. pc' = "footer"
      BY <1>1, <2>1
    <3>2. QED
      BY <3>1 DEF LastTrace, Pending, Heads
  <2>2. CASE Len(stack) # 1
    <3> DEFINE j == Len(stack) - 1
               t == stack[j]
               f == Top
    <3>1. j \in 1..Len(stack) /\ j < Len(stack) /\ j + 1 = Len(stack) /\ Len(stack') = j /\ TopOf(stack') = t
      BY <1>3, <2>2 DEF Popped, TopOf
    <3>2. ~IsLeaf(img, t.id) /\ t.i >= 1 /\ f.id = ChildAt(img, t.id, t.i) /\ f.id # img.root
      <4>1. Chain(img, stack, seen, FALSE)
        BY <1>5 DEF Core
      <4>2. f.id = ChildAt(img, t.id, t.i) /\ ~IsLeaf(img, t.id) /\ t.i >= 1
        BY <1>3, <3>1, <4>1 DEF Chain
      <4>3. f.id # img.root
        <5>1. stack[1].id = img.root /\ 1 \in 1..Len(stack) /\ Len(stack) \in 1..Len(stack)
          BY <1>3, <4>1 DEF Chain
        <5>2. QED
          BY <1>3, <2>2, <4>1, <5>1 DEF Chain
      <4>4. QED
        BY <4>2, <4>3
    <3>3. Count(img, f.id) > 0 /\ f.i = Count(img, f.id)
      <4>1. f.id \in seen /\ NonEmpty(img, seen)
        BY <1>3, <1>5 DEF Core, Chain
      <4>2. QED
        BY <1>1, <3>2, <4>1 DEF NonEmpty, Count, Node
    <3> HIDE DEF j, t, f
    <3>4. \E x \in Leaves(img, Under(img, f.id)) : last = LastR(img, x)
      <4>1. f.id = TopOf(stack).id /\ f.i = TopOf(stack).i /\ f.i > 0
        BY <1>3, <3>3 DEF TopOf, f
      <4>2. f.id \in DOMAIN img.nodes /\ f.i \in 1..Count(img, f.id)
        BY <1>3, <3>3 DEF f
      <4>3. CASE IsLeaf(img, f.id)
        <5> DEFINE x == <<f.id, f.i>>
        <5>1. last = LastAt(img, f.id, f.i)
          BY <1>1, <1>4, <4>1, <4>3 DEF Trace, LastTrace
        <5>2. f.id \in Under(img, f.id)
          BY <1>3, UnderStays
        <5>3. x \in Leaves(img, Under(img, f.id)) /\ LastR(img, x) = last
          BY <4>2, <4>3, <5>1, <5>2, LeafIn DEF LastR
        <5>4. QED
          BY <5>3
      <4>4. CASE ~IsLeaf(img, f.id)
        <5>1. PICK x \in Leaves(img, Under(img, ChildAt(img, f.id, f.i))) : last = LastR(img, x)
          BY <1>1, <1>4, <4>1, <4>4 DEF Trace, LastTrace
        <5>2. ChildAt(img, f.id, f.i) \in KidsOf(img, f.id)
          BY <4>2, <4>4, KidIn
        <5>3. Under(img, ChildAt(img, f.id, f.i)) \subseteq Under(img, f.id)
          BY <1>3, <4>2, <5>2, UnderSplit
        <5>4. x \in Leaves(img, Under(img, f.id))
          BY <5>1, <5>3 DEF Leaves, Recs
        <5>5. QED
          BY <5>1, <5>4
      <4>5. QED
        BY <4>3, <4>4
    <3>5. pc' = "record"
      BY <1>1, <2>2
    <3>6. TopOf(stack').i # 0
      BY <3>1, <3>2
    <3>7. QED
      BY <3>1, <3>2, <3>4, <3>5, <3>6 DEF LastTrace, Pending, Heads
  <2>3. QED
    BY <2>1, <2>2
<1>9. QED
  BY <1>1, <1>2, <1>4, <1>6, <1>7, <1>8 DEF TraceInv, Trace

\* The footer.
LEMMA TraceCheckFooter ==
  ASSUME Shape, ParseInv, TraceInv, pc # "reported", query.state = "idle", CheckFooter, pc' # "reported"
  PROVE  TraceInv'
<1>1. /\ pc = "footer" /\ pc' = "parsed" /\ UNCHANGED <<img, cur, walk, stack, last, seen, stats, query>>
  BY CheckFooterStep
<1>2. Trace(img, pc, cur, walk, stack, last, seen, stats)
  BY DEF TraceInv
<1>3. Entered(pc', cur, seen) = Entered(pc, cur, seen)
  BY <1>1 DEF Entered, Heads
<1>4. FreeTrace(img, pc', cur, walk, stack) /\ HashTrace(img, pc', cur, stack) /\ LastTrace(img, pc', stack, last)
  BY <1>1, <1>2 DEF Trace, FreeTrace, HashTrace, LastTrace, Pending, Heads
<1>5. QED
  BY <1>1, <1>2, <1>3, <1>4 DEF TraceInv, Trace

\* There is one query.
LEMMA QueryStays ==
  ASSUME Shape, pc # "reported", pc' # "reported", [Next]_vars, query.state # "idle" \/ StartQuery
  PROVE  query'.state # "idle"
<1>1. CASE StartQuery
  BY <1>1, ShapeStartQuery
<1>2. CASE UNCHANGED query /\ query.state # "idle"
  BY <1>2
<1>3. CASE EnterChild
  BY <1>3, ShapeEnterChild
<1>4. CASE Bisect /\ query.state # "idle"
  <2>1. query \in QueryT
    BY ShapeFacts
  <2>2. query' = [query EXCEPT !.state = "failed"] \/ query' = Bisected(query)
    BY <1>4, BisectStep
  <2>3. CASE query' = [query EXCEPT !.state = "failed"]
    BY <2>1, <2>3 DEF QueryT
  <2>4. CASE query' = Bisected(query)
    <3>1. query'.state = query.state
      BY <2>1, <2>4 DEF QueryT, Bisected
    <3>2. QED
      BY <1>4, <3>1
  <2>5. QED
    BY <2>2, <2>3, <2>4
<1>5. CASE EndBisection /\ query.state # "idle"
  <2>1. query \in QueryT
    BY ShapeFacts
  <2>2. query' = [query EXCEPT !.state = "failed"] \/ query' = [query EXCEPT !.state = "found"] \/ query' = query
    BY <1>5, EndBisectionStep
  <2>3. QED
    BY <1>5, <2>1, <2>2 DEF QueryT
<1>6. StartTree \/ ReadNode \/ WalkKeyList \/ EndKeyList \/ WalkValList => UNCHANGED query
  BY StartTreeStep, ReadNodeStep, WalkKeyListStep, EndKeyListStep, WalkValListStep
<1>7. EndValList \/ EnterNode \/ ReadRecord \/ EndNode \/ CheckFooter => UNCHANGED query
  <2>1. EndValList \/ EnterNode => UNCHANGED query
    BY EndValListStep, EnterNodeStep
  <2>2. ReadRecord => UNCHANGED query
    BY ReadRecordStep
  <2>3. EndNode \/ CheckFooter => UNCHANGED query
    BY EndNodeStep, CheckFooterStep
  <2>4. QED
    BY <2>1, <2>2, <2>3
<1>8. UNCHANGED vars => UNCHANGED query
  BY DEF vars
<1>9. QED
  BY <1>1, <1>2, <1>3, <1>4, <1>5, <1>6, <1>7, <1>8, Alternatives

\* Nothing is done after a report.
LEMMA NotAfterReport == ASSUME [Next]_vars, ~UNCHANGED vars PROVE pc # "reported"
<1>1. CASE StartTree
  BY <1>1 DEF StartTree
<1>2. CASE ReadNode
  BY <1>2 DEF ReadNode
<1>3. CASE WalkKeyList
  BY <1>3 DEF WalkKeyList
<1>4. CASE EndKeyList
  BY <1>4 DEF EndKeyList
<1>5. CASE WalkValList
  BY <1>5 DEF WalkValList
<1>6. CASE EndValList
  BY <1>6 DEF EndValList
<1>7. CASE EnterNode
  BY <1>7 DEF EnterNode
<1>8. CASE ReadRecord
  BY <1>8 DEF ReadRecord
<1>9. CASE EndNode
  BY <1>9 DEF EndNode
<1>10. CASE CheckFooter
  BY <1>10 DEF CheckFooter
<1>11. CASE EnterChild
  BY <1>11 DEF EnterChild
<1>12. CASE Bisect
  BY <1>12 DEF Bisect
<1>13. CASE EndBisection
  BY <1>13 DEF EndBisection
<1>14. CASE StartQuery
  BY <1>14, StartQueryStep
<1>15. QED
  BY <1>1, <1>2, <1>3, <1>4, <1>5, <1>6, <1>7, <1>8, <1>9, <1>10, <1>11, <1>12, <1>13, <1>14, Alternatives

\* Every step.
LEMMA TraceStep == ASSUME Shape, ParseInv, SpaceInv, TraceInv, [Next]_vars PROVE TraceInv'
<1>1. CASE pc' = "reported"
  BY <1>1 DEF TraceInv
<1>2. CASE pc' # "reported" /\ UNCHANGED vars
  BY <1>2 DEF TraceInv, vars
<1>3. CASE pc' # "reported" /\ ~UNCHANGED vars
  <2>0. pc # "reported"
    BY <1>3, NotAfterReport
  <2>1. CASE query.state # "idle" \/ StartQuery
    BY <1>3, <2>0, <2>1, QueryStays DEF TraceInv
  <2>2. CASE query.state = "idle" /\ ~StartQuery
    <3>1. ~EnterChild /\ ~Bisect /\ ~EndBisection
      BY <1>3, <2>0, <2>2, EnterChildStep, BisectStep, EndBisectionStep, ShapeFacts, PhaseOf DEF Querying
    <3>2. QED
      BY <1>3, <2>0, <2>2, <3>1, Alternatives, TraceStartTree, TraceReadNode, TraceWalkKeyList, TraceEndKeyList,
         TraceWalkValList, TraceEndValList, TraceEnterNode, TraceReadRecord, TraceEndNode, TraceCheckFooter
  <2>3. QED
    BY <2>1, <2>2
<1>4. QED
  BY <1>1, <1>2, <1>3

\* At the start.
LEMMA TraceInit == ASSUME Init PROVE TraceInv
<1>1. pc = "start" /\ stack = <<>> /\ last = NoKey /\ stats = NoStats
  BY DEF Init
<1>2. Len(stack) = 0 /\ 1..0 = {}
  BY <1>1
<1>3. FreeTrace(img, pc, cur, walk, stack) /\ HashTrace(img, pc, cur, stack) /\ LastTrace(img, pc, stack, last)
  BY <1>1, <1>2 DEF FreeTrace, HashTrace, LastTrace, Pending, Heads
<1>4. LongestTrace(img, Entered(pc, cur, seen), stats)
  BY <1>1 DEF LongestTrace, NoStats
<1>5. QED
  BY <1>3, <1>4 DEF TraceInv, Trace

-----------------------------------------------------------------------------
(* A tree with nothing wrong in it. *)

\* The tree of a sealed volume.
Sealed(m) == m.type = "catalog" /\ m.sealed

\* The nodes under the root, each the child of one record.
TreeRight(m) ==
  /\ m.root # 0 /\ (m.type = "fusion_mt" => m.fusion)
  /\ Under(m, m.root) \subseteq DOMAIN m.nodes
  /\ \A r \in Recs(m, Under(m, m.root)) : Index(m, r) => ChildR(m, r) # m.root
  /\ \A r, s \in Recs(m, Under(m, m.root)) :
       Index(m, r) /\ Index(m, s) /\ ChildR(m, r) = ChildR(m, s) => r = s
\* The header of a node, and its place in the tree.
HeaderRight(m, id) ==
  LET n == m.nodes[id]
  IN  /\ node_is_valid(n)
      /\ "noheader" \in n.flags <=> Sealed(m)
      /\ "hashed" \in n.flags <=> Sealed(m)
      /\ Sealed(m) \/ n.type = (IF "root" \in n.flags THEN "btree" ELSE "btree_node")
      /\ Sealed(m) \/ m.type = "fusion_mt" \/ n.subtype = m.type
      /\ (IsLeaf(m, id) => n.level = 0) /\ Sized(m, n)
      /\ "root" \in n.flags <=> id = m.root
      /\ \A c \in KidsOf(m, id) : /\ m.nodes[c].level = n.level - 1
                                  /\ m.type \in PhysicalChecked => m.nodes[c].xid <= n.xid
\* A record.
RecordRight(m, id, i) ==
  LET n == m.nodes[id]
  IN  /\ KeyOK(m.type, m.hashed, n.keys[i], KLen(m, n, i))
      /\ m.type = "omap" => KeyAt(m, id, i)[3] <= n.xid
      /\ ~IsLeaf(m, id) => VLen(m, n, i) = IF Sealed(m) THEN 20 ELSE 4
      /\ IsLeaf(m, id) /\ m.type = "extentref" => VLen(m, n, i) = 10 /\ n.vals[i].blocks > 0
      /\ Sealed(m) /\ ~IsLeaf(m, id) => m.nodes[ChildAt(m, id, i)].hash = n.vals[i].hash
      /\ NoValue(m, n, i) \/ (n.toc[i].v \in 1..ValArea(n) /\ VLen(m, n, i) <= n.toc[i].v)
\* C gives the cells of the k records and G those of each entry of the list:
\* records and entries share no cell, and the total counts those without records.
Tiled(C, area, k, list, head, G) ==
  LET U == UNION {C[j] : j \in 1..k}
      os == Linked(list, head) \ {INVALID}
  IN  /\ Marked(C, area, k, U) /\ head.len = area - Cardinality(U)
      /\ INVALID \in Linked(list, head) /\ (head.len = 0 => head.off = INVALID)
      /\ \A o \in os : o \in DOMAIN list /\ list[o].len >= NLOC
      /\ head.len > 0 => /\ \A o \in os : G[o] \subseteq (0..(area - 1)) \ U
                         /\ \A a, b \in os : a # b => G[a] \cap G[b] = {}
KeysRight(m, n) == Tiled(KeyMap(m, n), KeyArea(n), n.nkeys, n.kraw, n.kfree, KeyGaps(n))
ValsRight(m, n) ==
  /\ Tiled(ValMap(m, n), ValArea(n), n.nkeys, n.vraw, n.vfree, ValGaps(n))
  /\ \A o \in Linked(n.vraw, n.vfree) \ {INVALID} : n.vraw[o].len <= o
\* The order of the keys.
KeyOrderRight(m) ==
  LET T == Under(m, m.root)
  IN  /\ \A id \in T : IsLeaf(m, id) =>
           \A i \in 1..Count(m, id) : i > 1 => Lt(KeyAt(m, id, i - 1), KeyAt(m, id, i))
      /\ \A r \in Recs(m, T) : Index(m, r) =>
           /\ \E x \in Leaves(m, Under(m, ChildR(m, r))) : KeyR(m, x) = KeyR(m, r)
           /\ \A x \in Leaves(m, Under(m, ChildR(m, r))) :
                /\ Le(KeyR(m, r), KeyR(m, x))
                /\ r[2] < Count(m, r[1]) => Le(KeyR(m, x), KeyAt(m, r[1], r[2] + 1))
      /\ \A r, s \in Leaves(m, T) : r # s =>
           /\ KeyR(m, r) # KeyR(m, s)
           /\ m.type = "extentref" /\ KeyR(m, r)[1] < KeyR(m, s)[1] =>
                KeyR(m, r)[1] + Blocks(m, r) <= KeyR(m, s)[1]
\* The footer.
FlagsRight(m, flags) ==
  /\ flags \cap {"invalid", "nonpersistent"} = {}
  /\ "nonaligned" \in flags <=> m.type \notin FixedTrees
  /\ "ghosts" \in flags <=> m.type = "free_queue"
  /\ "ephemeral" \in flags <=> m.type = "free_queue"
  /\ "physical" \in flags <=> m.type \notin {"catalog", "free_queue"}
  /\ "hashed" \in flags <=> Sealed(m)
  /\ "noheader" \in flags <=> Sealed(m)
FooterFits(m) ==
  LET T == Under(m, m.root)
      info == m.info
  IN  /\ FlagsRight(m, info.flags)
      /\ info.node_count = Cardinality(T) /\ info.key_count = Cardinality(Leaves(m, T))
      /\ info.key_size = (IF m.type \in FixedTrees THEN FixedKeyLen(m.type) ELSE 0)
      /\ info.val_size = (IF m.type \in FixedTrees THEN FixedValLen(m.type, TRUE) ELSE 0)
      /\ \A r \in Recs(m, T) : info.longest_key >= KLen(m, m.nodes[r[1]], r[2])
      /\ \A r \in Leaves(m, T) : info.longest_val >= VLen(m, m.nodes[r[1]], r[2])
      /\ m.type \in FixedTrees \ {"free_queue"} =>
           info.longest_key = FixedKeyLen(m.type) /\ info.longest_val = 8
      /\ m.type = "free_queue" => info.longest_key = 8
      /\ m.type = "extentref" => info.longest_key = 4 /\ info.longest_val = 10
Right(m) ==
  /\ TreeRight(m) /\ KeyOrderRight(m) /\ FooterFits(m)
  /\ \A id \in Under(m, m.root) :
       /\ HeaderRight(m, id) /\ KeysRight(m, m.nodes[id]) /\ ValsRight(m, m.nodes[id])
       /\ \A i \in 1..Count(m, id) : RecordRight(m, id, i)
  /\ Sealed(m) => m.nodes[m.root].hash = m.root_hash

-----------------------------------------------------------------------------
(* Subtrees of such a tree. *)

\* What is under a node is the node, or the child of what is under it.
LEMMA UnderParent ==
  ASSUME NEW m, OnDisk(m), NEW a, NEW x \in Under(m, a), x # a
  PROVE  \E y \in Under(m, a) \cap DOMAIN m.nodes : x \in KidsOf(m, y)
<1> DEFINE X == {a} \cup {z \in Under(m, a) : \E y \in Under(m, a) \cap DOMAIN m.nodes : z \in KidsOf(m, y)}
<1>1. a \in Under(m, a) /\ \A y \in Under(m, a) \cap DOMAIN m.nodes : KidsOf(m, y) \subseteq Under(m, a)
  BY UnderStays
<1>2. a \in X /\ \A y \in X \cap DOMAIN m.nodes : KidsOf(m, y) \subseteq X
  BY <1>1
<1> HIDE DEF X
<1>3. Under(m, a) \subseteq X
  BY <1>2, UnderLeast
<1>4. QED
  BY <1>3 DEF X

\* A child of a node of the tree is the child of one record.
LEMMA OneParent ==
  ASSUME NEW m, OnDisk(m), TreeRight(m), NEW r \in Recs(m, Under(m, m.root)), Index(m, r),
         NEW y \in Under(m, m.root), ChildR(m, r) \in KidsOf(m, y)
  PROVE  y = r[1] /\ ChildR(m, r) # m.root
<1>1. ~IsLeaf(m, y) /\ \E i \in 1..Count(m, y) : ChildR(m, r) = ChildAt(m, y, i)
  BY KidIn
<1>2. PICK i \in 1..Count(m, y) : ChildR(m, r) = ChildAt(m, y, i)
  BY <1>1
<1>3. <<y, i>> \in Recs(m, Under(m, m.root))
  BY RecIn
<1>4. Index(m, <<y, i>>) /\ ChildR(m, <<y, i>>) = ChildR(m, r)
  BY <1>1, <1>2 DEF Index, ChildR
<1>5. r = <<y, i>>
  BY <1>3, <1>4 DEF TreeRight
<1>6. QED
  BY <1>5 DEF TreeRight

\* No path is a cycle.
LEMMA NotAbove ==
  ASSUME NEW m, OnDisk(m), TreeRight(m), NEW r \in Recs(m, Under(m, m.root)), Index(m, r)
  PROVE  /\ ChildR(m, r) \in Under(m, m.root) /\ Under(m, ChildR(m, r)) \subseteq Under(m, m.root)
         /\ r[1] \notin Under(m, ChildR(m, r))
<1> DEFINE T == Under(m, m.root)
           a == ChildR(m, r)
           A == Under(m, a)
           Z == T \ A
<1>1. /\ T \subseteq DOMAIN m.nodes /\ m.root \in T /\ \A x \in T : KidsOf(m, x) \subseteq T
      /\ a \in A /\ a # m.root
  BY UnderStays DEF TreeRight
<1>2. r[1] \in T /\ r[2] \in 1..Count(m, r[1]) /\ a \in KidsOf(m, r[1])
  <2>1. r[1] \in T /\ r[2] \in 1..Count(m, r[1])
    BY RecIn
  <2>2. QED
    BY <2>1, KidIn DEF ChildR, Index
<1>3. a \in T
  BY <1>1, <1>2
<1>4. A \subseteq T
  BY <1>1, <1>3, UnderLeast
<1>5. \A x \in A : x # a => \E y \in A : x \in KidsOf(m, y)
  BY UnderParent
<1>6. \A x, y, z \in T : z \in KidsOf(m, x) /\ z \in KidsOf(m, y) => x = y /\ z # m.root
  <2> SUFFICES ASSUME NEW x \in T, NEW y \in T, NEW z \in T, z \in KidsOf(m, x), z \in KidsOf(m, y)
               PROVE  x = y /\ z # m.root
    OBVIOUS
  <2>1. ~IsLeaf(m, x) /\ \E i \in 1..Count(m, x) : z = ChildAt(m, x, i)
    BY KidIn
  <2>2. PICK i \in 1..Count(m, x) : z = ChildAt(m, x, i)
    BY <2>1
  <2>3. <<x, i>> \in Recs(m, T) /\ Index(m, <<x, i>>) /\ ChildR(m, <<x, i>>) = z
    BY <2>1, <2>2, RecIn DEF Index, ChildR
  <2> DEFINE p == <<x, i>>
  <2>4. p[1] = x /\ p \in Recs(m, T) /\ Index(m, p) /\ ChildR(m, p) = z
    BY <2>3
  <2> HIDE DEF p
  <2>5. QED
    BY <2>4, OneParent
<1> HIDE DEF T, A, a
<1>7. m.root \notin A
  BY <1>1, <1>3, <1>4, <1>5, <1>6
<1>8. ASSUME r[1] \in A PROVE FALSE
  <2>1. \A z \in Z : KidsOf(m, z) \subseteq Z
    BY <1>1, <1>2, <1>4, <1>5, <1>6, <1>8
  <2>2. m.root \in Z
    BY <1>1, <1>7
  <2> HIDE DEF Z
  <2>3. T \subseteq Z
    BY <2>1, <2>2, UnderLeast DEF T
  <2>4. QED
    BY <1>1, <1>3, <2>3 DEF Z
<1>9. QED
  BY <1>3, <1>4, <1>8 DEF A, a, T

\* Two records of a node share nothing below.
LEMMA SubtreesApart ==
  ASSUME NEW m, OnDisk(m), TreeRight(m), NEW r \in Recs(m, Under(m, m.root)), Index(m, r),
         NEW s \in Recs(m, Under(m, m.root)), Index(m, s), r[1] = s[1], r # s
  PROVE  Under(m, ChildR(m, r)) \cap Under(m, ChildR(m, s)) = {}
<1> DEFINE T == Under(m, m.root)
           a == ChildR(m, r)
           b == ChildR(m, s)
           A == Under(m, a)
           B == Under(m, b)
           W == B \ A
<1>1. a \in T /\ b \in T /\ A \subseteq T /\ B \subseteq T /\ r[1] \notin A /\ r[1] \notin B
  BY NotAbove
<1>2. a # b /\ a \in A /\ b \in B /\ \A x \in B : KidsOf(m, x) \subseteq B
  <2>1. a # b
    BY DEF TreeRight
  <2>2. B \subseteq DOMAIN m.nodes
    BY <1>1 DEF TreeRight
  <2>3. QED
    BY <2>1, <2>2, UnderStays
<1>3. \A x \in A : x # a => \E y \in A : x \in KidsOf(m, y)
  BY UnderParent
<1>4. /\ \A y \in T : a \in KidsOf(m, y) => y = r[1]
      /\ \A y \in T : b \in KidsOf(m, y) => y = r[1]
  BY OneParent
<1>5. b \notin A
  BY <1>1, <1>2, <1>3, <1>4
<1>6. ASSUME NEW w \in W, NEW k \in KidsOf(m, w), k \in A PROVE FALSE
  <2>1. k # a
    BY <1>1, <1>4, <1>6
  <2>2. PICK y \in A : k \in KidsOf(m, y)
    BY <1>3, <1>6, <2>1
  <2>3. y \in T /\ w \in T /\ y # w /\ ~IsLeaf(m, w) /\ ~IsLeaf(m, y)
    BY <1>1, <1>6, <2>2, KidIn
  <2>4. PICK i \in 1..Count(m, w) : k = ChildAt(m, w, i)
    BY <1>6, KidIn
  <2> DEFINE p == <<w, i>>
  <2>5. p \in Recs(m, T) /\ p[1] = w
    BY <2>3, RecIn
  <2>6. Index(m, p) /\ ChildR(m, p) = k
    BY <2>3, <2>4 DEF Index, ChildR
  <2> HIDE DEF p, T
  <2>7. QED
    BY <2>2, <2>3, <2>5, <2>6, OneParent DEF T
<1>7. \A w \in W : KidsOf(m, w) \subseteq W
  BY <1>2, <1>6
<1>8. b \in W
  BY <1>2, <1>5
<1> HIDE DEF W, A, B, a, b
<1>9. B \subseteq W
  BY <1>7, <1>8, UnderLeast DEF B
<1>10. QED
  BY <1>9 DEF W, A, B, a, b

\* The first key of a child is that of its parent's record.
LEMMA FirstKey ==
  ASSUME NEW m, OnDisk(m), Right(m), NEW r \in Recs(m, Under(m, m.root)), Index(m, r)
  PROVE  Count(m, ChildR(m, r)) > 0 /\ KeyAt(m, ChildR(m, r), 1) = KeyR(m, r)
<1> DEFINE T == Under(m, m.root)
           c == ChildR(m, r)
<1>1. TreeRight(m) /\ KeyOrderRight(m) /\ T \subseteq DOMAIN m.nodes /\ c # m.root
  BY DEF Right, TreeRight
<1>2. c \in T /\ Under(m, c) \subseteq T
  BY <1>1, NotAbove
<1>3. Count(m, c) \in Nat /\ \A i \in 1..Count(m, c) : KeyAt(m, c, i) \in GoodKeys
  BY <1>1, <1>2, NodeTypes
<1>4. Count(m, c) > 0
  <2>1. HeaderRight(m, c)
    BY <1>2 DEF Right
  <2>2. node_is_valid(m.nodes[c]) /\ "root" \notin m.nodes[c].flags
    BY <1>1, <2>1 DEF HeaderRight
  <2>3. QED
    BY <2>2 DEF node_is_valid, node_is_root, Count
<1>5. KeyR(m, r) \in GoodKeys
  BY <1>1, RecTypes
<1>6. PICK x \in Leaves(m, Under(m, c)) : KeyR(m, x) = KeyR(m, r)
  BY <1>1 DEF KeyOrderRight
<1>7. \A y \in Leaves(m, Under(m, c)) : y \in Leaves(m, T) /\ KeyR(m, y) \in GoodKeys /\ Le(KeyR(m, r), KeyR(m, y))
  <2>1. \A y \in Leaves(m, Under(m, c)) : y \in Leaves(m, T) /\ y \in Recs(m, T)
    BY <1>2, LeafIn, RecIn
  <2>2. \A y \in Recs(m, T) : KeyR(m, y) \in GoodKeys
    BY <1>1, RecTypes
  <2>3. QED
    BY <1>1, <2>1, <2>2 DEF KeyOrderRight
<1>8. CASE IsLeaf(m, c)
  <2>1. x[1] = c /\ x[2] \in 1..Count(m, c) /\ KeyR(m, x) = KeyAt(m, c, x[2])
    BY <1>1, <1>2, <1>6, <1>8, LeafUnder
  <2>2. ASSUME x[2] > 1 PROVE FALSE
    <3>1. x[2] - 1 \in 1..Count(m, c)
      BY <1>3, <2>1, <2>2
    <3>2. Lt(KeyAt(m, c, x[2] - 1), KeyAt(m, c, x[2]))
      BY <1>1, <1>2, <1>8, <2>1, <2>2 DEF KeyOrderRight
    <3> DEFINE y == <<c, x[2] - 1>>
    <3>3. y \in Leaves(m, Under(m, c)) /\ KeyR(m, y) = KeyAt(m, c, x[2] - 1)
      <4>1. c \in Under(m, c)
        BY UnderStays
      <4>2. QED
        BY <1>8, <3>1, <4>1, LeafIn DEF KeyR
    <3>4. Le(KeyR(m, r), KeyAt(m, c, x[2] - 1)) /\ KeyAt(m, c, x[2] - 1) \in GoodKeys
      BY <1>7, <3>3
    <3>5. QED
      BY <1>5, <1>6, <2>1, <3>2, <3>4, CmpTotal
  <2>3. x[2] = 1
    BY <1>3, <2>1, <2>2
  <2>4. QED
    BY <1>4, <1>6, <2>1, <2>3
<1>9. CASE ~IsLeaf(m, c)
  <2> DEFINE p(j) == <<c, j>>
  <2>1. \A j \in 1..Count(m, c) : /\ p(j) \in Recs(m, T) /\ Index(m, p(j)) /\ p(j)[1] = c /\ p(j)[2] = j
                                  /\ KeyR(m, p(j)) = KeyAt(m, c, j) /\ ChildR(m, p(j)) = ChildAt(m, c, j)
    <3>1. \A j \in 1..Count(m, c) : p(j) \in Recs(m, T)
      BY <1>2, RecIn
    <3>2. QED
      BY <1>9, <3>1 DEF Index, KeyR, ChildR
  <2>2. PICK j \in 1..Count(m, c) : x \in Leaves(m, Under(m, ChildAt(m, c, j)))
    BY <1>1, <1>2, <1>6, <1>9, LeafUnder
  <2> HIDE DEF p
  <2>3. \A i \in 1..Count(m, c) : Under(m, ChildAt(m, c, i)) \subseteq Under(m, c)
    BY <1>1, <1>2, <1>9, UnderSplit, KidIn
  <2>4. \A i \in 1..Count(m, c) : \A y \in Leaves(m, Under(m, ChildAt(m, c, i))) : y \in Leaves(m, Under(m, c))
    BY <2>3, LeafIn, RecIn
  <2>5. \A i \in 1..Count(m, c) : \E y \in Leaves(m, Under(m, ChildAt(m, c, i))) : KeyR(m, y) = KeyAt(m, c, i)
    BY <1>1, <2>1 DEF KeyOrderRight
  <2>6. \A i \in 1..Count(m, c) : \A y \in Leaves(m, Under(m, ChildAt(m, c, i))) :
          Le(KeyAt(m, c, i), KeyR(m, y)) /\ (i < Count(m, c) => Le(KeyR(m, y), KeyAt(m, c, i + 1)))
    <3> SUFFICES ASSUME NEW i \in 1..Count(m, c), NEW y \in Leaves(m, Under(m, ChildAt(m, c, i)))
                 PROVE  Le(KeyAt(m, c, i), KeyR(m, y)) /\ (i < Count(m, c) => Le(KeyR(m, y), KeyAt(m, c, i + 1)))
      OBVIOUS
    <3>1. y \in Leaves(m, Under(m, ChildR(m, p(i))))
      BY <2>1
    <3>2. /\ Le(KeyR(m, p(i)), KeyR(m, y))
          /\ p(i)[2] < Count(m, p(i)[1]) => Le(KeyR(m, y), KeyAt(m, p(i)[1], p(i)[2] + 1))
      BY <1>1, <2>1, <3>1 DEF KeyOrderRight
    <3>3. QED
      BY <2>1, <3>2
  <2>7. 1 \in 1..Count(m, c)
    BY <1>3, <1>4
  <2>8. Le(KeyR(m, r), KeyAt(m, c, 1))
    <3>1. PICK y \in Leaves(m, Under(m, ChildAt(m, c, 1))) : KeyR(m, y) = KeyAt(m, c, 1)
      BY <2>5, <2>7
    <3>2. QED
      BY <1>7, <2>4, <2>7, <3>1
  <2>9. ASSUME j > 1 PROVE FALSE
    <3>1. j - 1 \in 1..Count(m, c) /\ j - 1 < Count(m, c) /\ (j - 1) + 1 = j
      BY <1>3, <2>9
    <3>2. PICK z \in Leaves(m, Under(m, ChildAt(m, c, j - 1))) : KeyR(m, z) = KeyAt(m, c, j - 1)
      BY <2>5, <3>1
    <3>3. Le(KeyR(m, z), KeyAt(m, c, j)) /\ Le(KeyAt(m, c, j), KeyR(m, x)) /\ Le(KeyR(m, r), KeyR(m, z))
      <4>1. Le(KeyR(m, z), KeyAt(m, c, (j - 1) + 1))
        BY <2>6, <3>1, <3>2
      <4>2. Le(KeyAt(m, c, j), KeyR(m, x))
        BY <2>2, <2>6
      <4>3. QED
        BY <1>7, <2>4, <3>1, <3>2, <4>1, <4>2
    <3>4. KeyR(m, z) \in GoodKeys /\ z \in Leaves(m, T) /\ x \in Leaves(m, T)
      BY <1>6, <1>7, <2>4, <3>1, <3>2
    <3>5. Le(KeyR(m, z), KeyR(m, x))
      BY <1>3, <1>5, <1>6, <3>3, <3>4, LeTrans
    <3>6. KeyR(m, z) = KeyR(m, x)
      BY <1>5, <1>6, <3>3, <3>4, <3>5, CmpTotal
    <3>7. z = x
      BY <1>1, <3>4, <3>6 DEF KeyOrderRight
    <3>8. x[1] \in Under(m, ChildAt(m, c, j)) /\ x[1] \in Under(m, ChildAt(m, c, j - 1))
      BY <2>2, <3>2, <3>7, LeafIn, RecIn
    <3>9. p(j) # p(j - 1)
      BY <2>1, <3>1
    <3>10. Under(m, ChildR(m, p(j))) \cap Under(m, ChildR(m, p(j - 1))) = {}
      BY <1>1, <2>1, <3>1, <3>9, SubtreesApart
    <3>11. QED
      BY <2>1, <3>1, <3>8, <3>10
  <2>10. j = 1
    BY <1>3, <2>9
  <2>11. Le(KeyAt(m, c, 1), KeyR(m, r))
    BY <1>6, <2>2, <2>6, <2>7, <2>10
  <2>12. QED
    BY <1>3, <1>4, <1>5, <2>7, <2>8, <2>11, CmpTotal
<1>10. QED
  BY <1>8, <1>9

-----------------------------------------------------------------------------
(* The walks of the lists of free space, in such a tree. *)

\* The next entry, if there is one, was not met before.
LEMMA FollowOn ==
  ASSUME NEW list, NEW head, ListOnDisk(head, list), NEW G, NEW F, NEW w, Followed(list, head, G, F, w),
         NEW C, NEW area, NEW k, Tiled(C, area, k, list, head, G), w.off # INVALID, head.len > 0
  PROVE  /\ w.off \in DOMAIN list /\ w.off \in Linked(list, head) \ {INVALID} /\ G[w.off] \cap F = {}
         /\ \A o \in Linked(list, head) \ {INVALID} : G[o] \subseteq (0..(area - 1)) \ UNION {C[j] : j \in 1..k}
         /\ F \subseteq (0..(area - 1)) \ UNION {C[j] : j \in 1..k}
<1> DEFINE L == Linked(list, head)
           U == UNION {C[j] : j \in 1..k}
           S == (0..(area - 1)) \ U
<1>1. PICK V \in SUBSET (DOMAIN list \cap L) :
        /\ head.off \in V \cup {w.off} /\ \A o \in V : list[o].off \in V \cup {w.off}
        /\ F = UNION {G[o] : o \in V} /\ w.off \in L
  BY DEF Followed
<1>2. /\ \A o \in L \ {INVALID} : o \in DOMAIN list /\ G[o] \subseteq S
      /\ \A a, b \in L \ {INVALID} : a # b => G[a] \cap G[b] = {}
      /\ INVALID \in L
  BY DEF Tiled
<1>3. INVALID \notin DOMAIN list /\ IsFiniteSet(DOMAIN list)
  BY DEF ListOnDisk, INVALID
<1>4. ASSUME w.off \in V PROVE FALSE
  <2> DEFINE next == [o \in DOMAIN list |-> {list[o].off}]
  <2>1. head.off \in V /\ \A o \in V : list[o].off \in V
    BY <1>1, <1>4
  <2>2. DOMAIN next = DOMAIN list /\ \A o \in DOMAIN list : next[o] = {list[o].off}
    OBVIOUS
  <2> HIDE DEF next
  <2>3. Stays(next, V)
    BY <2>1, <2>2 DEF Stays
  <2>4. Reach(head.off, next) \subseteq V
    BY <1>3, <2>1, <2>2, <2>3, ReachLeast
  <2>5. L \subseteq V
    BY <2>4 DEF Linked, next
  <2>6. QED
    BY <1>1, <1>2, <1>3, <2>5
<1> HIDE DEF L, S
<1>5. V \subseteq L \ {INVALID}
  BY <1>1, <1>3
<1>6. w.off \in DOMAIN list /\ w.off \in L \ {INVALID}
  BY <1>1, <1>2
<1>7. \A o \in V : G[w.off] \cap G[o] = {} /\ G[o] \subseteq S
  BY <1>2, <1>4, <1>5, <1>6
<1>8. G[w.off] \cap F = {} /\ F \subseteq S
  BY <1>1, <1>7
<1>9. QED
  BY <1>2, <1>6, <1>8 DEF L, S

\* The cells without records.
Unused(C, area, k) == (0..(area - 1)) \ UNION {C[j] : j \in 1..k}

\* There are as many of them as the header says.
LEMMA FreeCount ==
  ASSUME NEW list, NEW head, NEW C, NEW G, NEW area \in Nat, NEW k, Tiled(C, area, k, list, head, G)
  PROVE  IsFiniteSet(Unused(C, area, k)) /\ Cardinality(Unused(C, area, k)) = head.len
<1> DEFINE U == UNION {C[j] : j \in 1..k}
           A == 0..(area - 1)
<1>1. Marked(C, area, k, U) /\ head.len = area - Cardinality(U)
  BY DEF Tiled
<1>2. U \subseteq A
  BY <1>1 DEF Marked
<1>3. IsFiniteSet(A) /\ Cardinality(A) = area
  <2>1. area - 1 \in Int /\ 0 \in Int
    OBVIOUS
  <2>2. IsFiniteSet(0..(area - 1)) /\ Cardinality(0..(area - 1)) = IF 0 > area - 1 THEN 0 ELSE (area - 1) - 0 + 1
    BY <2>1, FS_Interval
  <2>3. QED
    BY <2>2
<1> HIDE DEF A, U
<1>4. IsFiniteSet(A \ U) /\ Cardinality(A \ U) = Cardinality(A) - Cardinality(A \cap U) /\ A \cap U = U
  BY <1>2, <1>3, FS_Difference
<1>5. QED
  BY <1>1, <1>3, <1>4 DEF A, U, Unused

\* The total is not reached before the end of the list.
LEMMA FollowEnd ==
  ASSUME NEW list, NEW head, ListOnDisk(head, list), NEW G, NEW F, NEW w, Followed(list, head, G, F, w),
         NEW C, NEW area \in Nat, NEW k, Tiled(C, area, k, list, head, G),
         \A o \in DOMAIN list : list[o].len >= NLOC => G[o] # {},
         ~(w.total > 0 /\ w.off # INVALID)
  PROVE  w.off = INVALID
<1>1. SUFFICES ASSUME w.off # INVALID PROVE FALSE
  OBVIOUS
<1>2. PICK V \in SUBSET (DOMAIN list \cap Linked(list, head)) :
        /\ head.off \in V \cup {w.off} /\ IsFiniteSet(F) /\ w.total = head.len - Cardinality(F)
        /\ head.len = 0 => V = {}
  BY DEF Followed
<1>3. head.len \in Nat /\ (head.len = 0 => head.off = INVALID)
  BY DEF ListOnDisk, Tiled
<1>4. head.len > 0
  BY <1>1, <1>2, <1>3
<1> DEFINE S == Unused(C, area, k)
<1>5. /\ w.off \in DOMAIN list /\ w.off \in Linked(list, head) \ {INVALID} /\ G[w.off] \cap F = {}
      /\ G[w.off] \subseteq S /\ F \subseteq S
  BY <1>1, <1>4, FollowOn DEF Unused
<1>6. G[w.off] # {}
  BY <1>5 DEF Tiled
<1>7. IsFiniteSet(S) /\ Cardinality(S) = head.len
  BY FreeCount
<1> HIDE DEF S
<1>8. F # S
  BY <1>5, <1>6
<1>9. F \in SUBSET S /\ Cardinality(F) <= Cardinality(S) /\ Cardinality(F) # Cardinality(S)
  BY <1>5, <1>7, <1>8, FS_Subset
<1>10. Cardinality(F) \in Nat
  BY <1>2, FS_CardinalityType
<1>11. w.total > 0
  BY <1>2, <1>3, <1>7, <1>9, <1>10
<1>12. QED
  BY <1>1, <1>11

\* What the walk has gathered is free.
LEMMA GatheredFree ==
  ASSUME NEW list, NEW head, ListOnDisk(head, list), NEW G, NEW F, Gathered(list, head, G, F),
         NEW C, NEW area, NEW k, Tiled(C, area, k, list, head, G)
  PROVE  F \cap UNION {C[j] : j \in 1..k} = {}
<1>1. CASE head.len = 0
  BY <1>1 DEF Gathered
<1>2. CASE head.len # 0
  <2>1. head.len > 0 /\ INVALID \notin DOMAIN list
    BY <1>2 DEF ListOnDisk, INVALID
  <2>2. \A o \in Linked(list, head) \ {INVALID} : G[o] \cap UNION {C[j] : j \in 1..k} = {}
    BY <2>1 DEF Tiled
  <2>3. \A o \in DOMAIN list \cap Linked(list, head) : G[o] \cap UNION {C[j] : j \in 1..k} = {}
    BY <2>1, <2>2
  <2>4. QED
    BY <2>3 DEF Gathered
<1>3. QED
  BY <1>1, <1>2

-----------------------------------------------------------------------------
(* Such a tree passes every check. *)

\* Facts that the steps of the parser share.
LEMMA Parsing ==
  ASSUME Shape, ParseInv, SpaceInv, TraceInv, pc # "reported", query.state = "idle"
  PROVE  /\ Parse(img, pc, cur, stack, last, seen, stats) /\ Space(img, pc, pc, cur, walk, stack, seen)
         /\ Trace(img, pc, cur, walk, stack, last, seen, stats) /\ Ph(pc, query) = pc /\ ~Querying
<1>1. Ph(pc, query) = pc /\ ~Querying
  BY DEF Ph, Querying
<1>2. QED
  BY <1>1 DEF ParseInv, SpaceInv, TraceInv

\* The tree begins.
LEMMA RightStartTree ==
  ASSUME Right(img), pc # "reported", StartTree
  PROVE  pc' # "reported"
<1>1. img.type = "fusion_mt" => img.fusion = (img.root # 0)
  BY DEF Right, TreeRight
<1>2. pc' = IF Missing THEN "parsed" ELSE "read"
  BY <1>1 DEF StartTree, Check
<1>3. QED
  BY <1>2

\* The node to be read is the child of the record that was read last.
LEMMA CurIn ==
  ASSUME Shape, ParseInv, SpaceInv, TraceInv, pc # "reported", query.state = "idle", Right(img), pc \in Pending
  PROVE  /\ cur.id \in Under(img, img.root) /\ cur.id \in DOMAIN img.nodes
         /\ Len(stack) \in Nat /\ (Len(stack) = 0 => cur.id = img.root)
         /\ Len(stack) >= 1 =>
              LET p == <<TopOf(stack).id, TopOf(stack).i>>
              IN  /\ p \in Recs(img, Under(img, img.root)) /\ Index(img, p) /\ ChildR(img, p) = cur.id
                  /\ p \in PendRecs(stack, TRUE) /\ cur.id # img.root
                  /\ TopOf(stack).id \in Under(img, img.root) /\ cur.id \in KidsOf(img, TopOf(stack).id)
<1>1. /\ Parse(img, pc, cur, stack, last, seen, stats) /\ OnDisk(img) /\ StackT(img, stack)
  BY Parsing, ShapeFacts
<1> DEFINE E == Entered(pc, cur, seen)
           T == Under(img, img.root)
           k == Len(stack)
<1>2. Chain(img, stack, E, TRUE) /\ E \subseteq T
  <2>1. Core(img, E, TRUE, stack, last)
    BY <1>1 DEF Parse, CoreAt
  <2>2. QED
    BY <2>1 DEF Core, TreeInv
<1>3. (k = 0 => cur.id = img.root) /\ (k >= 1 => cur.id = ChildAt(img, TopOf(stack).id, TopOf(stack).i))
  BY <1>1 DEF Parse, PlaceInv
<1>4. T \subseteq DOMAIN img.nodes /\ img.root \in T /\ TreeRight(img)
  BY <1>1, UnderStays DEF Right, TreeRight
<1>5. k \in Nat
  BY <1>1 DEF StackT
<1>6. ASSUME k >= 1
      PROVE  LET p == <<TopOf(stack).id, TopOf(stack).i>>
             IN  /\ p \in Recs(img, T) /\ Index(img, p) /\ ChildR(img, p) = cur.id
                 /\ p \in PendRecs(stack, TRUE) /\ cur.id # img.root /\ cur.id \in T
                 /\ TopOf(stack).id \in T /\ cur.id \in KidsOf(img, TopOf(stack).id)
  <2>1. k \in 1..Len(stack)
    BY <1>5, <1>6
  <2> DEFINE f == stack[k]
             p == <<f.id, f.i>>
  <2>2. f \in FrameT /\ f.i <= Count(img, f.id) /\ TopOf(stack) = f
    BY <1>1, <2>1 DEF StackT, TopOf
  <2>3. f.id \in E /\ ~IsLeaf(img, f.id) /\ f.i >= 1
    BY <1>2, <2>1 DEF Chain
  <2>4. f.id \in T /\ Count(img, f.id) \in Nat
    BY <1>1, <1>2, <1>4, <2>3, NodeTypes
  <2>5. f.i \in 1..Count(img, f.id)
    BY <2>2, <2>3, <2>4 DEF FrameT
  <2>6. p \in Recs(img, T)
    BY <2>4, <2>5, RecIn
  <2>7. Index(img, p) /\ ChildR(img, p) = cur.id
    BY <1>3, <1>6, <2>2, <2>3 DEF Index, ChildR
  <2>8. p \in PendRecs(stack, TRUE)
    BY <1>6, <2>2 DEF PendRecs
  <2>9. cur.id # img.root /\ cur.id \in T
    BY <1>1, <1>4, <2>6, <2>7, NotAbove DEF TreeRight
  <2>10. cur.id \in KidsOf(img, f.id)
    BY <1>3, <1>6, <2>2, <2>3, <2>5, KidIn
  <2>11. QED
    BY <2>2, <2>4, <2>6, <2>7, <2>8, <2>9, <2>10
<1>7. cur.id \in T
  <2>1. k >= 1 => cur.id \in T
    BY <1>6
  <2>2. k = 0 \/ k >= 1
    BY <1>5
  <2>3. QED
    BY <1>3, <1>4, <2>1, <2>2
<1>8. QED
  BY <1>3, <1>4, <1>5, <1>6, <1>7

\* A node is read once.
LEMMA RightReadNode ==
  ASSUME Shape, ParseInv, SpaceInv, TraceInv, pc # "reported", query.state = "idle", Right(img), ReadNode
  PROVE  pc' # "reported"
<1> DEFINE n == img.nodes[cur.id]
           p == <<TopOf(stack).id, TopOf(stack).i>>
<1>1. pc = "read" /\ pc \in Pending /\ ~Querying
  BY Parsing DEF ReadNode, Pending
<1>2. /\ cur.id \in Under(img, img.root) /\ cur.id \in DOMAIN img.nodes
      /\ Len(stack) \in Nat /\ (Len(stack) = 0 => cur.id = img.root)
      /\ Len(stack) >= 1 =>
            /\ p \in Recs(img, Under(img, img.root)) /\ Index(img, p) /\ ChildR(img, p) = cur.id
            /\ p \in PendRecs(stack, TRUE) /\ cur.id # img.root
  BY <1>1, CurIn
<1>3. cur.id \notin seen
  <2>1. Core(img, seen, TRUE, stack, last)
    <3>1. Entered(pc, cur, seen) = seen
      BY <1>1 DEF Entered, Heads
    <3>2. QED
      BY <1>1, <3>1, Parsing DEF Parse, CoreAt
  <2>2. Chain(img, stack, seen, TRUE) /\ TreeInv(img, seen, DoneRecs(img, stack, seen), PendRecs(stack, TRUE))
    BY <2>1 DEF Core
  <2>3. CASE Len(stack) = 0
    BY <2>2, <2>3 DEF Chain
  <2>4. CASE Len(stack) # 0
    <3>1. SUFFICES ASSUME cur.id \in seen PROVE FALSE
      OBVIOUS
    <3>2. Len(stack) >= 1
      BY <1>2, <2>4
    <3>3. PICK r \in DoneRecs(img, stack, seen) \ PendRecs(stack, TRUE) : Index(img, r) /\ ChildR(img, r) = cur.id
      BY <1>2, <2>2, <3>1, <3>2 DEF TreeInv
    <3>4. r \in Recs(img, Under(img, img.root))
      BY <2>2, <3>3, RecIn DEF DoneRecs, TreeInv
    <3> HIDE DEF p
    <3>5. r = p
      BY <1>2, <3>2, <3>3, <3>4 DEF Right, TreeRight
    <3>6. QED
      BY <1>2, <3>2, <3>3, <3>5
  <2>5. QED
    BY <2>3, <2>4
<1>4. SealedCat => n.hash = cur.hash
  <2> SUFFICES ASSUME SealedCat PROVE n.hash = cur.hash
    OBVIOUS
  <2>1. Sealed(img)
    BY DEF SealedCat, Sealed
  <2>2. cur.hash = IF Len(stack) = 0 THEN img.root_hash ELSE img.nodes[TopOf(stack).id].vals[TopOf(stack).i].hash
    BY <1>1, Parsing DEF Trace, HashTrace
  <2>3. CASE Len(stack) = 0
    BY <1>2, <2>1, <2>2, <2>3 DEF Right
  <2>4. CASE Len(stack) >= 1
    <3>1. TopOf(stack).id \in Under(img, img.root) /\ TopOf(stack).i \in 1..Count(img, TopOf(stack).id)
      BY <1>2, <2>4, RecIn
    <3>2. RecordRight(img, TopOf(stack).id, TopOf(stack).i)
      BY <3>1 DEF Right
    <3>3. ~IsLeaf(img, TopOf(stack).id) /\ ChildAt(img, TopOf(stack).id, TopOf(stack).i) = cur.id
      BY <1>2, <2>4 DEF Index, ChildR
    <3>4. img.nodes[ChildAt(img, TopOf(stack).id, TopOf(stack).i)].hash = img.nodes[TopOf(stack).id].vals[TopOf(stack).i].hash
      BY <2>1, <3>2, <3>3 DEF RecordRight
    <3>5. Len(stack) # 0
      BY <2>4
    <3>6. QED
      BY <2>2, <3>3, <3>4, <3>5
  <2>5. QED
    BY <1>2, <2>3, <2>4
<1>5. HeaderOK(n)
  <2>1. HeaderRight(img, cur.id)
    BY <1>2 DEF Right
  <2>2. SealedCat <=> Sealed(img)
    BY DEF SealedCat, Sealed
  <2>3. /\ node_is_valid(n) /\ ("noheader" \in n.flags <=> SealedCat) /\ ("hashed" \in n.flags <=> SealedCat)
        /\ SealedCat \/ n.type = (IF "root" \in n.flags THEN "btree" ELSE "btree_node")
        /\ SealedCat \/ img.type = "fusion_mt" \/ n.subtype = img.type
    BY <2>1, <2>2 DEF HeaderRight
  <2>4. ("noheader" \in n.flags) = SealedCat /\ ("hashed" \in n.flags) = SealedCat
    BY <2>3 DEF SealedCat
  <2>5. QED
    BY <2>3, <2>4 DEF HeaderOK, node_is_root
<1>6. Readable(cur.id) /\ Node(cur.id) = n
  BY <1>2, <1>3 DEF Readable, Node
<1>7. pc' = "key_list"
  BY <1>1, <1>4, <1>5, <1>6 DEF ReadNode, Check
<1>8. QED
  BY <1>7

\* The lists of the node that is being read.
LEMMA HeadRight ==
  ASSUME Shape, ParseInv, SpaceInv, TraceInv, pc # "reported", query.state = "idle", Right(img), pc \in Heads
  PROVE  LET n == img.nodes[cur.id]
         IN  /\ NodeOnDisk(n) /\ ListOnDisk(n.kfree, n.kraw) /\ ListOnDisk(n.vfree, n.vraw) /\ Node(cur.id) = n
             /\ KeysRight(img, n) /\ ValsRight(img, n) /\ KeyArea(n) \in Nat /\ ValArea(n) \in Nat
             /\ walk.off \in Offset /\ walk.total \in Int
<1> DEFINE n == img.nodes[cur.id]
<1>1. cur.id \in Under(img, img.root) /\ cur.id \in DOMAIN img.nodes
  BY CurIn DEF Pending
<1>2. OnDisk(img) /\ NodeOnDisk(n) /\ walk \in WalkT
  BY <1>1, ShapeFacts DEF OnDisk
<1>3. ListOnDisk(n.kfree, n.kraw) /\ ListOnDisk(n.vfree, n.vraw)
  BY <1>2 DEF NodeOnDisk
<1>4. KeysRight(img, n) /\ ValsRight(img, n) /\ HeaderRight(img, cur.id)
  BY <1>1 DEF Right
<1>5. KeyArea(n) \in Nat /\ ValArea(n) \in Int
  BY <1>2, AreaTypes
<1>6. DataStart(n) <= DataEnd(n)
  BY <1>4 DEF HeaderRight, node_is_valid
<1>7. ValArea(n) >= 0
  <2>1. DataStart(n) \in Int /\ DataEnd(n) \in Int
    <3>1. {n.table.off, n.table.len, n.free.off, n.free.len} \subseteq Nat
      BY <1>2 DEF NodeOnDisk
    <3>2. QED
      BY <3>1, KeyAssumption DEF DataStart, DataEnd, KeyStart, TocStart, HEAD, INFO
  <2>2. QED
    BY <1>6, <2>1 DEF ValArea
<1>8. QED
  BY <1>2, <1>3, <1>4, <1>5, <1>7 DEF WalkT, Node

\* An entry of the list of free keys.
LEMMA RightWalkKeyList ==
  ASSUME Shape, ParseInv, SpaceInv, TraceInv, pc # "reported", query.state = "idle", Right(img), WalkKeyList
  PROVE  pc' # "reported"
<1> DEFINE n == img.nodes[cur.id]
           o == walk.off
<1>1. pc = "key_list" /\ walk.total > 0 /\ o # INVALID
  BY DEF WalkKeyList, WalkGoesOn
<1>2. /\ NodeOnDisk(n) /\ ListOnDisk(n.kfree, n.kraw) /\ Node(cur.id) = n /\ KeysRight(img, n)
      /\ KeyArea(n) \in Nat /\ o \in Offset /\ walk.total \in Int
  BY <1>1, HeadRight DEF Heads
<1>3. KeysFollowed(n, cur.fk, walk)
  BY <1>1, Parsing DEF Trace, FreeTrace
<1>4. n.kfree.len > 0
  <2>1. IsFiniteSet(cur.fk) /\ walk.total = n.kfree.len - Cardinality(cur.fk) /\ n.kfree.len \in Nat
    BY <1>2, <1>3 DEF KeysFollowed, Followed, ListOnDisk
  <2>2. Cardinality(cur.fk) \in Nat
    BY <2>1, FS_CardinalityType
  <2>3. QED
    BY <1>1, <2>1, <2>2
<1>5. /\ o \in DOMAIN n.kraw /\ o \in Linked(n.kraw, n.kfree) \ {INVALID} /\ KeyGaps(n)[o] \cap cur.fk = {}
      /\ KeyGaps(n)[o] \subseteq 0..(KeyArea(n) - 1)
  <2>1. Tiled(KeyMap(img, n), KeyArea(n), n.nkeys, n.kraw, n.kfree, KeyGaps(n))
    BY <1>2 DEF KeysRight
  <2>2. Followed(n.kraw, n.kfree, KeyGaps(n), cur.fk, walk)
    BY <1>3 DEF KeysFollowed
  <2> HIDE DEF n
  <2>3. QED
    BY <1>1, <1>2, <1>4, <2>1, <2>2, FollowOn
<1>6. n.kraw[o].len >= NLOC /\ n.kraw[o] \in [off : Offset, len : Nat] /\ o \in Nat
  BY <1>2, <1>5 DEF KeysRight, Tiled, ListOnDisk
<1>7. Entry(n.kraw, o) = n.kraw[o] /\ KeyGaps(n)[o] = o .. (o + n.kraw[o].len - 1)
  BY <1>5 DEF Entry, KeyGaps
<1>8. KeyEntryOK(n, o)
  <2> DEFINE len == n.kraw[o].len
             area == KeyArea(n)
  <2>1. len \in Nat /\ len >= 2 /\ o \in Nat /\ area \in Nat /\ o .. (o + len - 1) \subseteq 0..(area - 1)
    BY <1>2, <1>5, <1>6, <1>7 DEF NLOC
  <2> HIDE DEF len, area, o
  <2>2. o + len - 1 \in o .. (o + len - 1)
    BY <2>1
  <2>3. o + len <= area
    BY <2>1, <2>2
  <2>4. o + 2 <= area
    BY <2>1, <2>3
  <2>5. QED
    BY <1>5, <1>6, <1>7, <2>3, <2>4 DEF KeyEntryOK, NLOC, len, area
<1>9. pc' = pc
  BY <1>2, <1>8 DEF WalkKeyList, Check
<1>10. QED
  BY <1>9

\* The list of free keys ends.
LEMMA RightEndKeyList ==
  ASSUME Shape, ParseInv, SpaceInv, TraceInv, pc # "reported", query.state = "idle", Right(img), EndKeyList
  PROVE  pc' # "reported"
<1> DEFINE n == img.nodes[cur.id]
<1>1. pc = "key_list" /\ ~(walk.total > 0 /\ walk.off # INVALID)
  BY DEF EndKeyList, WalkGoesOn
<1>2. ListOnDisk(n.kfree, n.kraw) /\ KeysRight(img, n) /\ KeyArea(n) \in Nat
  BY <1>1, HeadRight DEF Heads
<1>3. Followed(n.kraw, n.kfree, KeyGaps(n), cur.fk, walk)
  BY <1>1, Parsing DEF Trace, FreeTrace, KeysFollowed
<1>4. Tiled(KeyMap(img, n), KeyArea(n), n.nkeys, n.kraw, n.kfree, KeyGaps(n))
  BY <1>2 DEF KeysRight
<1>5. ASSUME NEW o \in DOMAIN n.kraw, n.kraw[o].len >= NLOC PROVE KeyGaps(n)[o] # {}
  <2>1. o \in Nat /\ n.kraw[o].len \in Nat
    BY <1>2, <1>5 DEF ListOnDisk
  <2>2. KeyGaps(n)[o] = o .. (o + n.kraw[o].len - 1)
    BY <1>5 DEF KeyGaps
  <2>3. o \in o .. (o + n.kraw[o].len - 1)
    BY <1>5, <2>1 DEF NLOC
  <2>4. QED
    BY <2>2, <2>3
<1>6. walk.off = INVALID
  <2>1. \A o \in DOMAIN n.kraw : n.kraw[o].len >= NLOC => KeyGaps(n)[o] # {}
    BY <1>5
  <2> DEFINE list == n.kraw
             head == n.kfree
             G == KeyGaps(n)
             C == KeyMap(img, n)
             area == KeyArea(n)
             k == n.nkeys
  <2>2. /\ ListOnDisk(head, list) /\ area \in Nat /\ Followed(list, head, G, cur.fk, walk)
        /\ Tiled(C, area, k, list, head, G) /\ \A o \in DOMAIN list : list[o].len >= NLOC => G[o] # {}
    BY <1>2, <1>3, <1>4, <2>1
  <2> HIDE DEF list, head, G, C, area, k
  <2>3. QED
    BY <1>1, <2>2, FollowEnd
<1>7. pc' = "value_list"
  BY <1>6 DEF EndKeyList, Check
<1>8. QED
  BY <1>7

\* An entry of the list of free values.
LEMMA RightWalkValList ==
  ASSUME Shape, ParseInv, SpaceInv, TraceInv, pc # "reported", query.state = "idle", Right(img), WalkValList
  PROVE  pc' # "reported"
<1> DEFINE n == img.nodes[cur.id]
           o == walk.off
<1>1. pc = "value_list" /\ walk.total > 0 /\ o # INVALID
  BY DEF WalkValList, WalkGoesOn
<1>2. /\ NodeOnDisk(n) /\ ListOnDisk(n.vfree, n.vraw) /\ Node(cur.id) = n /\ ValsRight(img, n)
      /\ ValArea(n) \in Nat /\ o \in Offset /\ walk.total \in Int
  BY <1>1, HeadRight DEF Heads
<1>3. ValsFollowed(n, cur.fv, walk)
  BY <1>1, Parsing DEF Trace, FreeTrace
<1>4. n.vfree.len > 0
  <2>1. IsFiniteSet(cur.fv) /\ walk.total = n.vfree.len - Cardinality(cur.fv) /\ n.vfree.len \in Nat
    BY <1>2, <1>3 DEF ValsFollowed, Followed, ListOnDisk
  <2>2. Cardinality(cur.fv) \in Nat
    BY <2>1, FS_CardinalityType
  <2>3. QED
    BY <1>1, <2>1, <2>2
<1>5. /\ o \in DOMAIN n.vraw /\ o \in Linked(n.vraw, n.vfree) \ {INVALID} /\ ValGaps(n)[o] \cap cur.fv = {}
      /\ ValGaps(n)[o] \subseteq 0..(ValArea(n) - 1)
  <2>1. Tiled(ValMap(img, n), ValArea(n), n.nkeys, n.vraw, n.vfree, ValGaps(n))
    BY <1>2 DEF ValsRight
  <2>2. Followed(n.vraw, n.vfree, ValGaps(n), cur.fv, walk)
    BY <1>3 DEF ValsFollowed
  <2> HIDE DEF n
  <2>3. QED
    BY <1>1, <1>2, <1>4, <2>1, <2>2, FollowOn
<1>6. /\ n.vraw[o].len >= NLOC /\ n.vraw[o].len <= o
      /\ n.vraw[o] \in [off : Offset, len : Nat] /\ o \in Nat
  BY <1>2, <1>5 DEF ValsRight, Tiled, ListOnDisk
<1>7. Entry(n.vraw, o) = n.vraw[o] /\ FreeVal(n, o) = ValGaps(n)[o]
  BY <1>5 DEF Entry, ValGaps, FreeVal
<1>8. ValEntryOK(n, o)
  <2> DEFINE len == n.vraw[o].len
             area == ValArea(n)
  <2>1. /\ len \in Nat /\ len >= 2 /\ len <= o /\ o \in Nat /\ area \in Nat
        /\ (area - o) .. (area - o + len - 1) \subseteq 0..(area - 1)
    BY <1>2, <1>5, <1>6 DEF NLOC, ValGaps
  <2> HIDE DEF len, area, o
  <2>2. area - o \in (area - o) .. (area - o + len - 1)
    BY <2>1
  <2>3. o <= area /\ o >= 2
    <3>1. area - o \in 0..(area - 1)
      BY <2>1, <2>2
    <3>2. area - o >= 0
      BY <2>1, <3>1
    <3>3. QED
      BY <2>1, <3>2
  <2>4. QED
    BY <1>5, <1>6, <1>7, <2>3 DEF ValEntryOK, NLOC, len, area
<1>9. pc' = pc
  BY <1>2, <1>8 DEF WalkValList, Check
<1>10. QED
  BY <1>9

\* The list of free values ends.
LEMMA RightEndValList ==
  ASSUME Shape, ParseInv, SpaceInv, TraceInv, pc # "reported", query.state = "idle", Right(img), EndValList
  PROVE  pc' # "reported"
<1> DEFINE n == img.nodes[cur.id]
<1>1. pc = "value_list" /\ ~(walk.total > 0 /\ walk.off # INVALID)
  BY DEF EndValList, WalkGoesOn
<1>2. ListOnDisk(n.vfree, n.vraw) /\ ValsRight(img, n) /\ ValArea(n) \in Nat
  BY <1>1, HeadRight DEF Heads
<1>3. Followed(n.vraw, n.vfree, ValGaps(n), cur.fv, walk)
  BY <1>1, Parsing DEF Trace, FreeTrace, ValsFollowed
<1>4. Tiled(ValMap(img, n), ValArea(n), n.nkeys, n.vraw, n.vfree, ValGaps(n))
  BY <1>2 DEF ValsRight
<1>5. ASSUME NEW o \in DOMAIN n.vraw, n.vraw[o].len >= NLOC PROVE ValGaps(n)[o] # {}
  <2>1. o \in Nat /\ n.vraw[o].len \in Nat
    BY <1>2, <1>5 DEF ListOnDisk
  <2>2. ValGaps(n)[o] = (ValArea(n) - o) .. (ValArea(n) - o + n.vraw[o].len - 1)
    BY <1>5 DEF ValGaps
  <2>3. ValArea(n) - o \in (ValArea(n) - o) .. (ValArea(n) - o + n.vraw[o].len - 1)
    BY <1>2, <1>5, <2>1 DEF NLOC
  <2>4. QED
    BY <2>2, <2>3
<1>6. walk.off = INVALID
  <2>1. \A o \in DOMAIN n.vraw : n.vraw[o].len >= NLOC => ValGaps(n)[o] # {}
    BY <1>5
  <2> DEFINE list == n.vraw
             head == n.vfree
             G == ValGaps(n)
             C == ValMap(img, n)
             area == ValArea(n)
             k == n.nkeys
  <2>2. /\ ListOnDisk(head, list) /\ area \in Nat /\ Followed(list, head, G, cur.fv, walk)
        /\ Tiled(C, area, k, list, head, G) /\ \A o \in DOMAIN list : list[o].len >= NLOC => G[o] # {}
    BY <1>2, <1>3, <1>4, <2>1
  <2> HIDE DEF list, head, G, C, area, k
  <2>3. QED
    BY <1>1, <2>2, FollowEnd
<1>7. pc' = "enter"
  BY <1>6 DEF EndValList, Check
<1>8. QED
  BY <1>7

\* A node is entered.
LEMMA RightEnterNode ==
  ASSUME Shape, ParseInv, SpaceInv, TraceInv, pc # "reported", query.state = "idle", Right(img), EnterNode
  PROVE  pc' # "reported"
<1> DEFINE n == img.nodes[cur.id]
<1>1. pc = "enter" /\ pc \in Pending
  BY DEF EnterNode, Pending, Heads
<1>2. cur.id \in Under(img, img.root) /\ Len(stack) \in Nat
  BY <1>1, CurIn
<1>3. HeaderRight(img, cur.id)
  BY <1>2 DEF Right
<1>4. NodeOK(n)
  <2>1. (IsLeaf(img, cur.id) => n.level = 0) /\ ("fixed" \in n.flags <=> img.type \in FixedTrees)
    BY <1>3 DEF HeaderRight, Sized
  <2>2. QED
    BY <2>1 DEF NodeOK, node_is_leaf, node_has_fixed_kv_size, IsLeaf
<1>5. ChildOK(n)
  <2>1. SUFFICES ASSUME stack # <<>>
                 PROVE  /\ n.level = Node(Top.id).level - 1 /\ ~node_is_root(n)
                        /\ img.type \in PhysicalChecked => Node(Top.id).xid >= n.xid
    BY DEF ChildOK
  <2>2. Len(stack) >= 1 /\ Top = TopOf(stack)
    <3>1. stack \in Seq(FrameT)
      BY ShapeFacts DEF StackT
    <3>2. QED
      BY <2>1, <3>1 DEF Top, TopOf
  <2>3. /\ cur.id # img.root /\ Top.id \in Under(img, img.root) /\ cur.id \in KidsOf(img, Top.id)
    BY <1>1, <2>2, CurIn
  <2>4. HeaderRight(img, Top.id)
    BY <2>3 DEF Right
  <2>5. /\ n.level = img.nodes[Top.id].level - 1
        /\ (img.type \in PhysicalChecked => n.xid <= img.nodes[Top.id].xid)
    BY <2>3, <2>4 DEF HeaderRight
  <2>6. "root" \notin n.flags
    BY <1>3, <2>3 DEF HeaderRight
  <2>7. n.xid \in Nat /\ img.nodes[Top.id].xid \in Nat
    <3>1. OnDisk(img) /\ Top.id \in DOMAIN img.nodes /\ cur.id \in DOMAIN img.nodes
      BY <1>2, <2>3, ShapeFacts DEF Right, TreeRight
    <3>2. QED
      BY <3>1, ListTypes
  <2>8. QED
    BY <2>5, <2>6, <2>7 DEF Node, node_is_root
<1>6. pc' = "record"
  BY <1>4, <1>5 DEF EnterNode, Check, Node
<1>7. QED
  BY <1>6

\* A key that is taken is not empty.
LEMMA KeySize ==
  ASSUME NEW type \in TreeTypes, NEW hashed, NEW raw, NEW size, KeyOK(type, hashed, raw, size)
  PROVE  size >= 4
<1>1. CASE type = "omap"
  <2>1. size = 8
    BY <1>1 DEF KeyOK
  <2>2. QED
    BY <2>1
<1>2. CASE type = "free_queue"
  <2>1. size = 8
    BY <1>2 DEF KeyOK
  <2>2. QED
    BY <2>1
<1>3. CASE type = "fext"
  <2>1. size = 8
    BY <1>3 DEF KeyOK
  <2>2. QED
    BY <2>1
<1>4. CASE type = "snapshots"
  <2>1. size = 4
    BY <1>4 DEF KeyOK
  <2>2. QED
    BY <2>1
<1>5. CASE type = "fusion_mt"
  <2>1. size = 4
    BY <1>5 DEF KeyOK
  <2>2. QED
    BY <2>1
<1>6. CASE type = "catalog"
  <2>1. CatKeyOK(raw, size, hashed)
    BY <1>6 DEF KeyOK
  <2>2. QED
    BY <2>1 DEF CatKeyOK, HeaderSize
<1>7. CASE type = "snap_meta"
  <2>1. SnapKeyOK(raw, size)
    BY <1>7 DEF KeyOK
  <2>2. QED
    BY <2>1 DEF SnapKeyOK, HeaderSize
<1>8. CASE type = "extentref"
  <2>1. ExtentrefKeyOK(raw, size)
    BY <1>8 DEF KeyOK
  <2>2. size = 4
    BY <2>1 DEF ExtentrefKeyOK, HeaderSize
  <2>3. QED
    BY <2>2
<1>9. QED
  BY <1>1, <1>2, <1>3, <1>4, <1>5, <1>6, <1>7, <1>8 DEF TreeTypes, FixedTrees

\* The next record lies in space that no other has.
LEMMA RecordFits ==
  ASSUME OnDisk(img), Right(img), NEW f \in FrameT, f.id \in Under(img, img.root), FrameInv(img, f),
         f.i < Count(img, f.id)
  PROVE  LET n == img.nodes[f.id]
             i == f.i + 1
             len == VLen(img, n, i)
         IN  /\ ValLens(n, i) = {len} /\ ~Overruns(n, i, len)
             /\ KeyInside(n, i) /\ KeyCells(n, i) \cap f.uk = {}
             /\ ValInside(n, i) /\ ValCells(n, i, len) \cap f.uv = {}
<1> DEFINE n == img.nodes[f.id]
           i == f.i + 1
           len == VLen(img, n, i)
<1>1. f.id \in DOMAIN img.nodes /\ NodeOnDisk(n) /\ n.nkeys \in Nat /\ f.i \in Nat /\ i \in 1..n.nkeys
  <2>1. f.id \in DOMAIN img.nodes
    BY DEF Right, TreeRight
  <2>2. NodeOnDisk(n)
    BY <2>1 DEF OnDisk
  <2>3. n.nkeys \in Nat /\ f.i \in Nat
    BY <2>2 DEF NodeOnDisk, FrameT
  <2>4. QED
    BY <2>1, <2>2, <2>3 DEF Count
<1>2. Sized(img, n) /\ Marked(KeyMap(img, n), KeyArea(n), f.i, f.uk) /\ Marked(ValMap(img, n), ValArea(n), f.i, f.uv)
  BY DEF FrameInv
<1>3. /\ KeyCells(n, i) = KeyMap(img, n)[i] /\ KeyLen(n, i) = KLen(img, n, i)
      /\ (Ghost(n, i) <=> NoValue(img, n, i)) /\ ValLens(n, i) = {len}
      /\ ValCells(n, i, len) = VCells(img, n, i)
      /\ {c \in ValCells(n, i, len) : c < ValArea(n)} = ValMap(img, n)[i]
  BY <1>1, <1>2, Cells
<1>4. KeysRight(img, n) /\ ValsRight(img, n) /\ RecordRight(img, f.id, i)
  BY <1>1 DEF Right, Count
<1>5. KeyArea(n) \in Nat /\ ValArea(n) \in Int
  BY <1>1, AreaTypes
<1>6. /\ n.toc[i].k \in Nat /\ n.toc[i].klen \in Nat /\ n.toc[i].v \in Int /\ n.toc[i].vlen \in Nat
  <2>1. n.toc[i] \in [k : Nat, klen : Nat, v : Offset, vlen : Nat]
    BY <1>1 DEF NodeOnDisk
  <2>2. QED
    BY <2>1 DEF Offset, INVALID
<1>7. len \in Nat /\ KLen(img, n, i) \in Nat /\ KLen(img, n, i) >= 4
  <2>1. len \in Nat
    BY <1>6 DEF VLen, FixedValLen
  <2>2. KLen(img, n, i) \in Nat
    BY <1>6 DEF KLen, FixedKeyLen
  <2>3. img.type \in TreeTypes /\ KeyOK(img.type, img.hashed, n.keys[i], KLen(img, n, i))
    BY <1>4 DEF OnDisk, RecordRight
  <2>4. KLen(img, n, i) >= 4
    BY <2>3, KeySize
  <2>5. QED
    BY <2>1, <2>2, <2>4
<1>8. KeyInside(n, i)
  <2> DEFINE a == n.toc[i].k
             size == KLen(img, n, i)
             area == KeyArea(n)
  <2>1. KeyMap(img, n)[i] = a .. (a + size - 1) /\ KeyMap(img, n)[i] \subseteq 0..(area - 1)
    <3>1. KeyMap(img, n)[i] = a .. (a + size - 1)
      BY <1>1 DEF KeyMap
    <3>2. KeyMap(img, n)[i] \subseteq 0..(area - 1)
      BY <1>1, <1>4 DEF KeysRight, Tiled, Marked
    <3>3. QED
      BY <3>1, <3>2
  <2>2. a \in Nat /\ size \in Nat /\ size >= 4 /\ area \in Nat
    BY <1>5, <1>6, <1>7
  <2>3. a + size <= area
    <3> HIDE DEF a, size, area, n, i
    <3>1. a + size - 1 \in a .. (a + size - 1)
      BY <2>2
    <3>2. a + size - 1 \in 0..(area - 1)
      BY <2>1, <3>1
    <3>3. QED
      BY <2>2, <3>2
  <2>4. QED
    BY <1>3, <2>3 DEF KeyInside
<1>9. KeyCells(n, i) \cap f.uk = {} /\ ValMap(img, n)[i] \cap f.uv = {}
  <2> DEFINE K == KeyMap(img, n)
             V == ValMap(img, n)
             k == n.nkeys
  <2>1. /\ \A a, b \in 1..k : a # b => K[a] \cap K[b] = {}
        /\ \A a, b \in 1..k : a # b => V[a] \cap V[b] = {}
    BY <1>4 DEF KeysRight, ValsRight, Tiled, Marked
  <2>2. f.uk = UNION {K[j] : j \in 1..f.i} /\ f.uv = UNION {V[j] : j \in 1..f.i}
    BY <1>2 DEF Marked
  <2>3. \A j \in 1..f.i : j \in 1..k /\ j # i
    BY <1>1
  <2> HIDE DEF K, V, k, i
  <2>4. \A j \in 1..f.i : K[i] \cap K[j] = {} /\ V[i] \cap V[j] = {}
    BY <1>1, <2>1, <2>3 DEF k
  <2>5. K[i] \cap f.uk = {} /\ V[i] \cap f.uv = {}
    BY <2>2, <2>4
  <2>6. QED
    BY <1>3, <2>5 DEF K, V
<1>10. /\ ~Overruns(n, i, len) /\ ValInside(n, i) /\ ValCells(n, i, len) = ValMap(img, n)[i]
  <2>1. CASE NoValue(img, n, i)
    <3>1. len = 0
      BY <1>2, <2>1 DEF Sized, NoValue, FixedTrees, VLen
    <3>2. VCells(img, n, i) = {}
      BY <1>5, <1>6, <3>1 DEF VCells
    <3>3. QED
      BY <1>3, <2>1, <3>2 DEF Overruns, ValInside
  <2>2. CASE ~NoValue(img, n, i)
    <3> DEFINE v == n.toc[i].v
               area == ValArea(n)
    <3>1. v \in 1..area /\ len <= v
      BY <1>4, <2>2 DEF RecordRight
    <3>2. area - v >= 0 /\ area - v < area /\ ~(area - v + len > area)
      <4> HIDE DEF v, area, len
      <4>1. v \in Int /\ area \in Int /\ len \in Nat
        BY <1>5, <1>6, <1>7 DEF v, area
      <4>2. QED
        BY <3>1, <4>1
    <3>3. VCells(img, n, i) = (area - v) .. (area - v + len - 1)
      BY DEF VCells
    <3>4. \A c \in VCells(img, n, i) : c < area
      <4> HIDE DEF v, area, len
      <4>1. v \in Int /\ area \in Int /\ len \in Nat
        BY <1>5, <1>6, <1>7 DEF v, area
      <4>2. QED
        BY <3>2, <3>3, <4>1
    <3>5. VCells(img, n, i) = {c \in VCells(img, n, i) : c < area}
      BY <3>4
    <3>6. QED
      BY <1>3, <2>2, <3>2, <3>5 DEF Overruns, ValInside, ValStart
  <2>3. QED
    BY <2>1, <2>2
<1>11. QED
  BY <1>3, <1>8, <1>9, <1>10

\* The key of a physical extent.
LEMMA ExtentKey ==
  ASSUME NEW m, OnDisk(m), Right(m), m.type = "extentref", NEW x \in Recs(m, Under(m, m.root))
  PROVE  \E a \in Nat : KeyR(m, x) = <<a, EXTENT, 0, 0>>
<1> DEFINE n == m.nodes[x[1]]
           raw == n.keys[x[2]]
<1>1. x[1] \in Under(m, m.root) /\ x[1] \in DOMAIN m.nodes /\ x[2] \in 1..Count(m, x[1])
  BY RecIn DEF Right, TreeRight
<1>2. RecordRight(m, x[1], x[2]) /\ NodeOnDisk(n)
  BY <1>1 DEF Right, OnDisk
<1>3. raw.type = EXTENT
  BY <1>2 DEF RecordRight, KeyOK, ExtentrefKeyOK
<1>4. raw.id \in Nat
  BY <1>1, <1>2 DEF NodeOnDisk, RawKeyOnDisk, Count
<1>5. KeyR(m, x) = <<raw.id, EXTENT, 0, 0>>
  BY <1>3 DEF KeyR, KeyAt, MemoryKey, Named, EXTENT, FILE_EXTENT, FILE_INFO, SIBLING_LINK, DIR_REC, XATTR, SNAP_NAME
<1>6. QED
  BY <1>4, <1>5

\* last_key after a record is before the key of a record that follows.
LEMMA LastBefore ==
  ASSUME NEW m, OnDisk(m), Right(m), NEW x \in Leaves(m, Under(m, m.root)), NEW y \in Leaves(m, Under(m, m.root)),
         x # y, Le(KeyR(m, x), KeyR(m, y))
  PROVE  Lt(LastR(m, x), KeyR(m, y))
<1>1. x \in Recs(m, Under(m, m.root)) /\ y \in Recs(m, Under(m, m.root)) /\ IsLeaf(m, x[1])
  BY LeafIn DEF Index
<1>2. KeyR(m, x) \in GoodKeys /\ KeyR(m, y) \in GoodKeys
  BY <1>1, RecTypes DEF Right, TreeRight
<1>3. KeyR(m, x) # KeyR(m, y)
  BY DEF Right, KeyOrderRight
<1>4. Lt(KeyR(m, x), KeyR(m, y))
  BY <1>2, <1>3, CmpTotal
<1>5. CASE m.type # "extentref"
  BY <1>4, <1>5 DEF LastR, LastAt, KeyR
<1>6. CASE m.type = "extentref"
  <2>1. PICK a \in Nat : KeyR(m, x) = <<a, EXTENT, 0, 0>>
    BY <1>1, <1>6, ExtentKey
  <2>2. PICK b \in Nat : KeyR(m, y) = <<b, EXTENT, 0, 0>>
    BY <1>1, <1>6, ExtentKey
  <2>3. a < b
    BY <1>4, <2>1, <2>2 DEF Lt, keycmp
  <2>4. a + Blocks(m, x) <= b
    BY <1>3, <1>6, <2>1, <2>2, <2>3 DEF Right, KeyOrderRight
  <2>5. Blocks(m, x) \in Nat
    BY <1>1, RecIn, NodeTypes DEF Right, TreeRight, Blocks
  <2>6. LastR(m, x) = [KeyR(m, x) EXCEPT ![1] = @ + Blocks(m, x) - 1]
    BY <1>1, <1>6 DEF LastR, LastAt, KeyR, Blocks
  <2>7. LastR(m, x)[1] = a + Blocks(m, x) - 1
    BY <2>1, <2>6
  <2>8. KeyR(m, y)[1] = b
    BY <2>2
  <2>9. LastR(m, x)[1] < KeyR(m, y)[1]
    BY <2>4, <2>5, <2>7, <2>8
  <2>10. LastR(m, x)[1] \in Int /\ KeyR(m, y)[1] \in Int
    BY <2>5, <2>7, <2>8
  <2>11. QED
    BY <2>9, <2>10 DEF Lt, keycmp
<1>7. QED
  BY <1>5, <1>6

\* The node whose records are read.
LEMMA TopIn ==
  ASSUME Shape, ParseInv, SpaceInv, TraceInv, pc # "reported", query.state = "idle", Right(img), pc = "record"
  PROVE  /\ OnDisk(img) /\ Len(stack) \in Nat /\ Len(stack) >= 1 /\ Top = TopOf(stack) /\ Top \in FrameT
         /\ Top.i \in Nat /\ Top.i <= Count(img, Top.id) /\ Count(img, Top.id) \in Nat
         /\ Top.id \in Under(img, img.root) /\ Top.id \in DOMAIN img.nodes /\ StackT(img, stack)
         /\ Core(img, seen, FALSE, stack, last) /\ seen \subseteq Under(img, img.root)
         /\ FrameInv(img, Top) /\ Node(Top.id) = img.nodes[Top.id]
<1>1. Ph(pc, query) = "record" /\ Parse(img, pc, cur, stack, last, seen, stats)
      /\ Space(img, pc, pc, cur, walk, stack, seen)
  BY Parsing
<1>2. /\ OnDisk(img) /\ Len(stack) \in Nat /\ Len(stack) >= 1 /\ Top \in FrameT /\ StackT(img, stack)
      /\ Top.i \in Nat /\ Top.i <= Count(img, Top.id) /\ Count(img, Top.id) \in Nat /\ Top.id \in DOMAIN img.nodes
  BY <1>1, TopFacts, ShapeFacts
<1>3. Top = TopOf(stack) /\ Top = stack[Len(stack)] /\ Len(stack) \in 1..Len(stack)
  BY <1>2 DEF Top, TopOf
<1>4. Entered(pc, cur, seen) = seen /\ pc \notin Pending
  BY DEF Entered, Heads, Pending
<1>5. Core(img, seen, FALSE, stack, last)
  BY <1>1, <1>4 DEF Parse, CoreAt
<1>6. seen \subseteq Under(img, img.root) /\ Top.id \in seen
  BY <1>3, <1>5 DEF Core, TreeInv, Chain
<1>7. FrameInv(img, Top)
  BY <1>1, <1>3 DEF Space
<1>8. QED
  BY <1>2, <1>3, <1>5, <1>6, <1>7 DEF Node

\* The keys in memory begin after last_key = {0}.
LEMMA NoKeyFirst ==
  ASSUME NEW m, OnDisk(m), NEW id \in DOMAIN m.nodes, NEW i \in 1..Count(m, id)
  PROVE  Le(NoKey, KeyAt(m, id, i))
<1> DEFINE raw == m.nodes[id].keys[i]
           k == KeyAt(m, id, i)
<1>1. k \in GoodKeys
  BY NodeTypes
<1>2. k[2] \in Nat /\ k[3] \in Nat /\ k[4] \in Nat
  BY <1>1, KeyFields
<1>3. raw.id \in Nat
  BY DEF OnDisk, NodeOnDisk, RawKeyOnDisk, Count
<1>4. k[1] = raw.id
  BY DEF KeyAt, MemoryKey
<1>5. k[1] \in Nat
  BY <1>3, <1>4
<1> HIDE DEF k
<1>6. NoKey[1] = 0 /\ NoKey[2] = 0 /\ NoKey[3] = 0 /\ NoKey[4] = 0
  BY DEF NoKey
<1>7. keycmp(NoKey, k) <= 0
  BY <1>2, <1>5, <1>6 DEF keycmp
<1>8. QED
  BY <1>7 DEF k, Le

\* The order of the keys, as it is checked record by record.
LEMMA RightInOrder ==
  ASSUME Shape, ParseInv, SpaceInv, TraceInv, pc # "reported", query.state = "idle", Right(img), pc = "record",
         Top.i < Count(img, Top.id)
  PROVE  InOrder(img.nodes[Top.id], Top.i + 1)
<1> DEFINE id == Top.id
           i == Top.i + 1
           T == Under(img, img.root)
           key == KeyAt(img, id, i)
<1>1. /\ OnDisk(img) /\ Len(stack) \in Nat /\ Len(stack) >= 1 /\ Top = TopOf(stack) /\ Top \in FrameT
      /\ Top.i \in Nat /\ Count(img, id) \in Nat
      /\ id \in T /\ id \in DOMAIN img.nodes /\ StackT(img, stack)
      /\ Core(img, seen, FALSE, stack, last) /\ seen \subseteq T /\ T \subseteq DOMAIN img.nodes
      /\ TreeRight(img) /\ KeyOrderRight(img)
  BY TopIn DEF Right, TreeRight
<1>2. i \in 1..Count(img, id) /\ key \in GoodKeys
  BY <1>1, NodeTypes
<1>3. last \in GoodKeys
  BY <1>1 DEF Core, OrdRead
<1>4. LastTrace(img, pc, stack, last)
  BY Parsing DEF Trace
<1>5. /\ Le(last, key) /\ (i = 1 /\ id # img.root => last = key) /\ (i # 1 /\ IsLeaf(img, id) => Lt(last, key))
  <2>1. CASE i = 1 /\ Len(stack) = 1
    <3>1. last = NoKey
      BY <1>1, <1>4, <2>1 DEF LastTrace
    <3>2. id = img.root
      BY <1>1, <2>1 DEF Core, Chain, TopOf
    <3>3. Le(NoKey, key)
      BY <1>1, <1>2, NoKeyFirst
    <3>4. QED
      BY <2>1, <3>1, <3>2, <3>3
  <2>2. CASE i = 1 /\ Len(stack) >= 2
    <3> DEFINE j == Len(stack) - 1
               p == <<stack[j].id, stack[j].i>>
    <3>1. j \in 1..Len(stack) /\ j < Len(stack) /\ j + 1 = Len(stack) /\ Top.i = 0
      BY <1>1, <2>2
    <3>2. /\ stack[j].id \in seen /\ ~IsLeaf(img, stack[j].id) /\ stack[j].i >= 1
          /\ id = ChildAt(img, stack[j].id, stack[j].i)
      BY <1>1, <3>1 DEF Core, Chain, TopOf
    <3>3. last = KeyAt(img, stack[j].id, stack[j].i)
      BY <1>1, <2>2, <3>1 DEF Core, OrdHere
    <3>4. stack[j].i \in 1..Count(img, stack[j].id)
      <4>1. stack[j] \in FrameT /\ stack[j].i <= Count(img, stack[j].id) /\ Count(img, stack[j].id) \in Nat
        BY <1>1, <3>1, <3>2, NodeTypes DEF StackT
      <4>2. QED
        BY <3>2, <4>1 DEF FrameT
    <3>5. p \in Recs(img, T)
      BY <1>1, <3>2, <3>4, RecIn
    <3>6. Index(img, p) /\ ChildR(img, p) = id /\ KeyR(img, p) = last
      BY <3>2, <3>3 DEF Index, ChildR, KeyR
    <3> HIDE DEF p
    <3>7. KeyAt(img, id, 1) = last
      BY <1>1, <3>5, <3>6, FirstKey
    <3>8. last = key
      BY <2>2, <3>7
    <3>9. QED
      BY <1>2, <1>3, <2>2, <3>8, CmpTotal
  <2>3. CASE i # 1 /\ IsLeaf(img, id)
    <3> DEFINE x == <<id, Top.i>>
               y == <<id, i>>
    <3>1. Top.i > 0 /\ Top.i \in 1..Count(img, id) /\ i > 1 /\ i - 1 = Top.i
      BY <1>1, <1>2, <2>3
    <3>2. last = LastAt(img, id, Top.i)
      BY <1>1, <1>4, <2>3, <3>1 DEF LastTrace
    <3>3. Lt(KeyAt(img, id, Top.i), key)
      <4>1. Lt(KeyAt(img, id, i - 1), KeyAt(img, id, i))
        BY <1>1, <1>2, <2>3, <3>1 DEF KeyOrderRight
      <4>2. QED
        BY <3>1, <4>1
    <3>4. x \in Leaves(img, T) /\ y \in Leaves(img, T) /\ x # y
      <4>1. x \in Leaves(img, T) /\ y \in Leaves(img, T)
        BY <1>1, <1>2, <2>3, <3>1, LeafIn
      <4>2. Top.i # i
        BY <1>1
      <4>3. QED
        BY <4>1, <4>2
    <3>5. KeyR(img, x) = KeyAt(img, id, Top.i) /\ KeyR(img, y) = key /\ LastR(img, x) = last
      BY <3>2 DEF KeyR, LastR
    <3> HIDE DEF x, y
    <3>6. KeyAt(img, id, Top.i) \in GoodKeys
      BY <1>1, <3>1, NodeTypes
    <3>7. Le(KeyR(img, x), KeyR(img, y))
      BY <1>2, <3>3, <3>5, <3>6, CmpTotal
    <3>8. Lt(last, key)
      BY <1>1, <3>4, <3>5, <3>7, LastBefore
    <3>9. QED
      BY <1>2, <1>3, <2>3, <3>8, CmpTotal
  <2>4. CASE i # 1 /\ ~IsLeaf(img, id)
    <3> DEFINE p == <<id, Top.i>>
               q == <<id, i>>
    <3>1. Top.i > 0 /\ Top.i \in 1..Count(img, id) /\ Top.i < Count(img, id)
      BY <1>1, <1>2, <2>4
    <3>2. PICK x \in Leaves(img, Under(img, ChildAt(img, id, Top.i))) : last = LastR(img, x)
      BY <1>1, <1>4, <2>4, <3>1 DEF LastTrace
    <3>3. p \in Recs(img, T) /\ q \in Recs(img, T) /\ p # q
      <4>1. p \in Recs(img, T) /\ q \in Recs(img, T)
        BY <1>1, <1>2, <3>1, RecIn
      <4>2. Top.i # i
        BY <1>1
      <4>3. QED
        BY <4>1, <4>2
    <3>4. /\ Index(img, p) /\ Index(img, q) /\ p[1] = id /\ q[1] = id /\ p[2] = Top.i /\ q[2] = i
          /\ ChildR(img, p) = ChildAt(img, id, Top.i) /\ ChildR(img, q) = ChildAt(img, id, i) /\ KeyR(img, q) = key
      BY <2>4 DEF Index, ChildR, KeyR
    <3> HIDE DEF p, q
    <3>5. Under(img, ChildR(img, p)) \cap Under(img, ChildR(img, q)) = {}
      BY <1>1, <3>3, <3>4, SubtreesApart
    <3>6. Le(KeyR(img, x), key)
      BY <1>1, <3>1, <3>2, <3>3, <3>4 DEF KeyOrderRight
    <3>7. PICK y \in Leaves(img, Under(img, ChildAt(img, id, i))) : KeyR(img, y) = key
      BY <1>1, <3>3, <3>4 DEF KeyOrderRight
    <3>8. x # y
      <4>1. x[1] \in Under(img, ChildR(img, p)) /\ y[1] \in Under(img, ChildR(img, q))
        BY <3>2, <3>4, <3>7, LeafIn, RecIn
      <4>2. QED
        BY <3>5, <4>1
    <3>9. x \in Leaves(img, T) /\ y \in Leaves(img, T)
      <4>1. Under(img, ChildR(img, p)) \subseteq T /\ Under(img, ChildR(img, q)) \subseteq T
        BY <1>1, <3>3, <3>4, NotAbove
      <4>2. QED
        BY <3>2, <3>4, <3>7, <4>1, LeafIn, RecIn
    <3>10. Lt(last, key)
      BY <1>1, <3>2, <3>6, <3>7, <3>8, <3>9, LastBefore
    <3>11. QED
      BY <1>2, <1>3, <2>4, <3>10, CmpTotal
  <2>5. Len(stack) = 1 \/ Len(stack) >= 2
    <3> DEFINE d == Len(stack)
    <3>1. d \in Nat /\ d >= 1
      BY <1>1
    <3> HIDE DEF d
    <3>2. d = 1 \/ d >= 2
      BY <3>1
    <3>3. QED
      BY <3>2 DEF d
  <2>6. QED
    BY <2>1, <2>2, <2>3, <2>4, <2>5
<1>6. /\ keycmp(last, key) <= 0 /\ (i = 1 /\ id # img.root => keycmp(last, key) = 0)
      /\ (i # 1 /\ IsLeaf(img, id) => keycmp(last, key) # 0)
  BY <1>2, <1>3, <1>5, CmpZero, CmpTotal DEF Le
<1>7. Key(img.nodes[id], i) = key /\ (node_is_leaf(img.nodes[id]) <=> IsLeaf(img, id))
  BY DEF Key, KeyAt, node_is_leaf, IsLeaf
<1>8. "root" \in img.nodes[id].flags <=> id = img.root
  BY <1>1 DEF Right, HeaderRight
<1> HIDE DEF key, i, id
<1>9. InOrder(img.nodes[id], i)
  BY <1>6, <1>7, <1>8 DEF InOrder, node_is_root
<1>10. QED
  BY <1>9 DEF i, id

\* A record is read.
LEMMA RightReadRecord ==
  ASSUME Shape, ParseInv, SpaceInv, TraceInv, pc # "reported", query.state = "idle", Right(img), ReadRecord
  PROVE  pc' # "reported"
<1> DEFINE n == img.nodes[Top.id]
           i == Top.i + 1
           vl == VLen(img, n, i)
<1>1. pc = "record"
  BY DEF ReadRecord
<1>2. /\ OnDisk(img) /\ Top \in FrameT /\ Top.i \in Nat /\ Count(img, Top.id) \in Nat
      /\ Top.id \in Under(img, img.root) /\ Top.id \in DOMAIN img.nodes /\ FrameInv(img, Top) /\ Node(Top.id) = n
  BY <1>1, TopIn
<1>3. Top.i < n.nkeys /\ Top.i < Count(img, Top.id)
  BY <1>2 DEF ReadRecord, Count
<1>4. i \in 1..Count(img, Top.id) /\ i \in 1..n.nkeys
  BY <1>2, <1>3 DEF Count
<1>5. /\ ValLens(n, i) = {vl} /\ ~Overruns(n, i, vl)
      /\ KeyInside(n, i) /\ KeyCells(n, i) \cap Top.uk = {}
      /\ ValInside(n, i) /\ ValCells(n, i, vl) \cap Top.uv = {}
  BY <1>2, <1>3, RecordFits
<1>6. InOrder(n, i)
  BY <1>1, <1>3, RightInOrder
<1>7. RecordOK(n, i, vl)
  <2>1. RecordRight(img, Top.id, i)
    BY <1>2, <1>4 DEF Right
  <2>2. KeyLen(n, i) = KLen(img, n, i)
    BY <1>4, Cells
  <2>3. Key(n, i) = KeyAt(img, Top.id, i) /\ (node_is_leaf(n) <=> IsLeaf(img, Top.id)) /\ (SealedCat <=> Sealed(img))
    BY DEF Key, KeyAt, node_is_leaf, IsLeaf, SealedCat, Sealed
  <2>4. /\ KeyOK(img.type, img.hashed, n.keys[i], KeyLen(n, i))
        /\ (img.type = "omap" => Key(n, i)[3] <= n.xid)
        /\ (~node_is_leaf(n) => vl = IF SealedCat THEN 20 ELSE 4)
        /\ (node_is_leaf(n) /\ img.type = "extentref" => vl = 10 /\ n.vals[i].blocks > 0)
    BY <2>1, <2>2, <2>3 DEF RecordRight
  <2>5. KeyFree(n, i) /\ ValFree(n, i, vl)
    BY <1>5 DEF KeyFree, ValFree
  <2> HIDE DEF n, i, vl
  <2>6. QED
    BY <1>6, <2>4, <2>5 DEF RecordOK
<1>8. ReadRecord /\ \A len \in ValLens(n, i) : RecordOK(n, i, len) /\ ~Overruns(n, i, len)
  BY <1>5, <1>7
<1>9. UNCHANGED pc \/ pc' = "read"
  BY <1>2, <1>8 DEF ReadRecord, Check
<1>10. QED
  BY <1>9

\* The records of a node are over.
LEMMA RightEndNode ==
  ASSUME Shape, ParseInv, SpaceInv, TraceInv, pc # "reported", query.state = "idle", Right(img), EndNode
  PROVE  pc' # "reported"
<1> DEFINE n == img.nodes[Top.id]
<1>1. pc = "record"
  BY DEF EndNode
<1>2. /\ OnDisk(img) /\ Top = TopOf(stack) /\ Len(stack) \in Nat /\ Len(stack) >= 1
      /\ Top.id \in Under(img, img.root) /\ Top.id \in DOMAIN img.nodes /\ FrameInv(img, Top) /\ Node(Top.id) = n
  BY <1>1, TopIn
<1>3. Top.i = n.nkeys
  BY <1>2 DEF EndNode
<1>4. ListOnDisk(n.kfree, n.kraw) /\ ListOnDisk(n.vfree, n.vraw)
  BY <1>2, ListTypes
<1>5. KeysGathered(n, Top.fk) /\ ValsGathered(n, Top.fv)
  <2>1. Len(stack) \in 1..Len(stack) /\ stack[Len(stack)] = Top
    BY <1>2 DEF TopOf
  <2>2. QED
    BY <2>1, Parsing DEF Trace, FreeTrace
<1> DEFINE K == KeyMap(img, n)
           V == ValMap(img, n)
           k == n.nkeys
<1>6. /\ Tiled(K, KeyArea(n), k, n.kraw, n.kfree, KeyGaps(n)) /\ Tiled(V, ValArea(n), k, n.vraw, n.vfree, ValGaps(n))
  BY <1>2 DEF Right, KeysRight, ValsRight
<1>7. Top.uk = UNION {K[j] : j \in 1..k} /\ Top.uv = UNION {V[j] : j \in 1..k}
  BY <1>2, <1>3 DEF FrameInv, Marked
<1> HIDE DEF K, V, k, n
<1>8. Top.fk \cap Top.uk = {} /\ n.kfree.len = KeyArea(n) - Cardinality(Top.uk)
  <2>1. n.kfree.len = KeyArea(n) - Cardinality(UNION {K[j] : j \in 1..k})
    BY <1>6 DEF Tiled
  <2>2. Gathered(n.kraw, n.kfree, KeyGaps(n), Top.fk)
    BY <1>5 DEF KeysGathered
  <2>3. Top.fk \cap UNION {K[j] : j \in 1..k} = {}
    BY <1>4, <1>6, <2>2, GatheredFree
  <2>4. QED
    BY <1>7, <2>1, <2>3
<1>9. Top.fv \cap Top.uv = {} /\ n.vfree.len = ValArea(n) - Cardinality(Top.uv)
  <2>1. n.vfree.len = ValArea(n) - Cardinality(UNION {V[j] : j \in 1..k})
    BY <1>6 DEF Tiled
  <2>2. Gathered(n.vraw, n.vfree, ValGaps(n), Top.fv)
    BY <1>5 DEF ValsGathered
  <2>3. Top.fv \cap UNION {V[j] : j \in 1..k} = {}
    BY <1>4, <1>6, <2>2, GatheredFree
  <2>4. QED
    BY <1>7, <2>1, <2>3
<1>10. BmapsMatch(n, Top)
  BY <1>8, <1>9 DEF BmapsMatch
<1>11. pc' = IF Len(stack) = 1 THEN "footer" ELSE "record"
  BY <1>2, <1>10 DEF EndNode, Check
<1>12. QED
  BY <1>11

\* The footer.
LEMMA RightCheckFooter ==
  ASSUME Shape, ParseInv, SpaceInv, TraceInv, pc # "reported", query.state = "idle", Right(img), CheckFooter
  PROVE  pc' # "reported"
<1> DEFINE T == Under(img, img.root)
           info == img.info
<1>1. pc = "footer"
  BY DEF CheckFooter
<1>2. /\ OnDisk(img) /\ Parse(img, pc, cur, stack, last, seen, stats) /\ stats \in StatsT
      /\ Trace(img, pc, cur, walk, stack, last, seen, stats) /\ Ph(pc, query) = pc /\ RootRead(img, pc, cur, seen)
  <2>1. /\ Parse(img, pc, cur, stack, last, seen, stats) /\ Ph(pc, query) = pc
        /\ Trace(img, pc, cur, walk, stack, last, seen, stats)
    BY Parsing
  <2>2. OnDisk(img) /\ stats \in StatsT /\ RootRead(img, Ph(pc, query), cur, seen)
    BY ShapeFacts
  <2>3. QED
    BY <2>1, <2>2
<1>3. Entered(pc, cur, seen) = seen /\ pc \notin Pending /\ stack = <<>>
  BY <1>1, <1>2 DEF Entered, Heads, Pending, Parse, PlaceInv
<1>4. Core(img, seen, FALSE, <<>>, last) /\ img.root \in seen
  BY <1>1, <1>2, <1>3 DEF Parse, CoreAt, RootRead
<1>5. seen = T
  BY <1>2, <1>4, CoreEnd
<1>6. stats.nodes = Cardinality(T) /\ stats.keys = Cardinality(Leaves(img, T))
  BY <1>2, <1>3, <1>5 DEF Parse, CountInv
<1>7. LongestTrace(img, T, stats)
  BY <1>2, <1>3, <1>5 DEF Trace
<1>8. FooterFits(img)
  BY DEF Right
<1>9. info.longest_key \in Nat /\ info.longest_val \in Nat /\ img.type \in TreeTypes
  BY <1>2 DEF OnDisk
<1>10. info.longest_key >= stats.longest_key /\ info.longest_val >= stats.longest_val
  <2>1. /\ \A r \in Recs(img, T) : info.longest_key >= KLen(img, img.nodes[r[1]], r[2])
        /\ \A r \in Leaves(img, T) : info.longest_val >= VLen(img, img.nodes[r[1]], r[2])
    BY <1>8 DEF FooterFits
  <2>2. /\ stats.longest_key = 0 \/ \E r \in Recs(img, T) : stats.longest_key = KLen(img, img.nodes[r[1]], r[2])
        /\ stats.longest_val = 0 \/ \E r \in Leaves(img, T) : stats.longest_val = VLen(img, img.nodes[r[1]], r[2])
    BY <1>7 DEF LongestTrace
  <2> HIDE DEF T, info
  <2>3. QED
    BY <1>9, <2>1, <2>2
<1>11. FooterFlagsOK(info.flags)
  <2>1. FlagsRight(img, info.flags) /\ (SealedCat <=> Sealed(img))
    BY <1>8 DEF FooterFits, SealedCat, Sealed
  <2>2. QED
    BY <2>1 DEF FlagsRight, FooterFlagsOK, SealedCat
<1>12. node_is_root(Node(img.root))
  <2>1. HeaderRight(img, img.root)
    BY <1>2, UnderStays DEF Right
  <2>2. QED
    BY <2>1 DEF HeaderRight, node_is_root, Node
<1>13. SizesOK(info)
  <2>1. /\ info.key_size = (IF img.type \in FixedTrees THEN FixedKeyLen(img.type) ELSE 0)
        /\ info.val_size = (IF img.type \in FixedTrees THEN FixedValLen(img.type, TRUE) ELSE 0)
        /\ (img.type \in FixedTrees \ {"free_queue"} =>
              info.longest_key = FixedKeyLen(img.type) /\ info.longest_val = 8)
        /\ (img.type = "free_queue" => info.longest_key = 8)
        /\ (img.type = "extentref" => info.longest_key = 4 /\ info.longest_val = 10)
    BY <1>8 DEF FooterFits
  <2> HIDE DEF info
  <2>2. CASE img.type = "free_queue"
    <3>1. img.type \in FixedTrees /\ FixedKeyLen(img.type) = 8
      BY <2>2 DEF FixedTrees, FixedKeyLen
    <3>2. QED
      BY <1>10, <2>1, <2>2, <3>1 DEF SizesOK, Exactly
  <2>3. CASE img.type \in FixedTrees \ {"free_queue"}
    <3>1. FixedValLen(img.type, TRUE) = 8
      BY <2>3 DEF FixedValLen
    <3>2. QED
      BY <2>1, <2>3, <3>1 DEF SizesOK, Exactly
  <2>4. CASE img.type \notin FixedTrees
    BY <1>10, <2>1, <2>4 DEF SizesOK, Exactly
  <2>5. QED
    BY <2>2, <2>3, <2>4
<1>14. FooterOK(img.info)
  <2>1. info.node_count = stats.nodes /\ info.key_count = stats.keys
    BY <1>6, <1>8 DEF FooterFits
  <2>2. QED
    BY <1>11, <1>12, <1>13, <2>1 DEF FooterOK
<1>15. pc' = "parsed"
  BY <1>14 DEF CheckFooter, Check
<1>16. QED
  BY <1>15

-----------------------------------------------------------------------------
(* The tree that NoFalseAlarm is about is such a tree. *)

\* The nodes.
LEMMA ConsistentTree ==
  ASSUME OnDisk(img), Consistent
  PROVE  TreeRight(img)
<1> DEFINE T == Under(img, img.root)
           S(id) == {r \in RecordsOf(Tree) : ~node_is_leaf(Node(r[1])) /\ Child(Node(r[1]), r[2]) = id}
<1>1. CountsRight /\ img.root # 0 /\ (img.type = "fusion_mt" => img.fusion)
  BY DEF Consistent
<1>2. Tree = T /\ RecordsOf(Tree) = Recs(img, T)
  BY ImageSets
<1>3. T \subseteq DOMAIN img.nodes /\ \A id \in T : Cardinality(S(id)) = IF id = img.root THEN 0 ELSE 1
  BY <1>1, <1>2 DEF CountsRight
<1>4. \A id : \A r : r \in S(id) <=> r \in Recs(img, T) /\ Index(img, r) /\ ChildR(img, r) = id
  BY <1>2, Images DEF Index, ChildR
<1>5. \A id : IsFiniteSet(S(id))
  <2>1. IsFiniteSet(Recs(img, T))
    BY <1>3, RecsFinite
  <2>2. \A id : S(id) \in SUBSET Recs(img, T)
    BY <1>4
  <2> HIDE DEF S
  <2>3. QED
    BY <2>1, <2>2, FS_Subset
<1> HIDE DEF S
<1>6. \A r \in Recs(img, T) : Index(img, r) => ChildR(img, r) \in T
  <2> SUFFICES ASSUME NEW r \in Recs(img, T), Index(img, r) PROVE ChildR(img, r) \in T
    OBVIOUS
  <2>1. r[1] \in T /\ r[2] \in 1..Count(img, r[1])
    BY RecIn
  <2>2. ChildR(img, r) \in KidsOf(img, r[1])
    BY <2>1, KidIn DEF ChildR, Index
  <2>3. QED
    BY <1>3, <2>1, <2>2, UnderStays
<1>7. ASSUME NEW r \in Recs(img, T), Index(img, r) PROVE ChildR(img, r) # img.root
  <2>1. SUFFICES ASSUME ChildR(img, r) = img.root PROVE FALSE
    OBVIOUS
  <2>2. img.root \in T /\ r \in S(img.root)
    BY <1>4, <1>6, <1>7, <2>1
  <2>3. Cardinality(S(img.root)) = 0 /\ IsFiniteSet(S(img.root))
    BY <1>3, <1>5, <2>2
  <2>4. S(img.root) = {}
    BY <2>3, FS_EmptySet
  <2>5. QED
    BY <2>2, <2>4
<1>8. ASSUME NEW r \in Recs(img, T), NEW s \in Recs(img, T), Index(img, r), Index(img, s), ChildR(img, r) = ChildR(img, s)
      PROVE  r = s
  <2> DEFINE c == ChildR(img, r)
  <2>1. c \in T /\ c # img.root /\ r \in S(c) /\ s \in S(c)
    BY <1>4, <1>6, <1>7, <1>8
  <2> HIDE DEF c
  <2>2. Cardinality(S(c)) = 1 /\ IsFiniteSet(S(c))
    BY <1>3, <1>5, <2>1
  <2>3. PICK x : S(c) = {x}
    BY <2>2, FS_Singleton
  <2>4. QED
    BY <2>1, <2>3
<1>9. QED
  BY <1>1, <1>3, <1>7, <1>8 DEF TreeRight

\* The order of the keys.
LEMMA ConsistentOrder ==
  ASSUME OnDisk(img), Consistent
  PROVE  KeyOrderRight(img)
<1> DEFINE T == Under(img, img.root)
<1>1. OrderRight /\ NoRepeats
  BY DEF Consistent
<1>2. /\ Tree = T /\ LeafRecords(Tree) = Leaves(img, T)
      /\ \A id : LeafRecords(Subtree(id)) = Leaves(img, Under(img, id))
  BY ImageSets
<1>3. \A r : KeyOf(r) = KeyR(img, r)
  BY ImageSets DEF KeyR
<1>4. ASSUME NEW id \in T, IsLeaf(img, id), NEW i \in 1..Count(img, id), i > 1
      PROVE  Lt(KeyAt(img, id, i - 1), KeyAt(img, id, i))
  <2>1. id \in Tree /\ i \in Records(Node(id)) /\ node_is_leaf(Node(id))
    BY <1>2, <1>4, Images
  <2>2. keycmp(Key(Node(id), i - 1), Key(Node(id), i)) < 0
    BY <1>1, <1>4, <2>1 DEF OrderRight
  <2>3. QED
    BY <2>2, Images DEF Lt
<1>5. ASSUME NEW r \in Recs(img, T), Index(img, r)
      PROVE  /\ \E x \in Leaves(img, Under(img, ChildR(img, r))) : KeyR(img, x) = KeyR(img, r)
             /\ \A x \in Leaves(img, Under(img, ChildR(img, r))) :
                  /\ Le(KeyR(img, r), KeyR(img, x))
                  /\ r[2] < Count(img, r[1]) => Le(KeyR(img, x), KeyAt(img, r[1], r[2] + 1))
  <2> DEFINE n == Node(r[1])
             i == r[2]
             L == Leaves(img, Under(img, ChildR(img, r)))
             below == {KeyOf(x) : x \in L}
  <2>1. r[1] \in Tree /\ i \in Records(n) /\ ~node_is_leaf(n)
    <3>1. r[1] \in T /\ r[2] \in 1..Count(img, r[1])
      BY RecIn
    <3>2. QED
      BY <1>2, <1>5, <3>1, Images DEF Index
  <2>2. LeafRecords(Subtree(Child(n, i))) = L
    BY <1>2, Images DEF ChildR
  <2>3. /\ Key(n, i) \in below
        /\ \A k \in below : /\ keycmp(Key(n, i), k) <= 0
                            /\ i < n.nkeys => keycmp(k, Key(n, i + 1)) <= 0
    <3>1. /\ Key(n, i) \in {KeyOf(x) : x \in LeafRecords(Subtree(Child(n, i)))}
          /\ \A k \in {KeyOf(x) : x \in LeafRecords(Subtree(Child(n, i)))} :
               /\ keycmp(Key(n, i), k) <= 0
               /\ i < n.nkeys => keycmp(k, Key(n, i + 1)) <= 0
      BY <1>1, <2>1 DEF OrderRight
    <3>2. QED
      BY <2>2, <3>1
  <2>4. \A x \in L : KeyR(img, x) \in below
    BY <1>3
  <2>5. \E x \in L : KeyR(img, x) = Key(n, i)
    BY <1>3, <2>3
  <2>6. /\ Key(n, i) = KeyR(img, r) /\ Key(n, i + 1) = KeyAt(img, r[1], r[2] + 1) /\ n.nkeys = Count(img, r[1])
    BY Images DEF KeyR
  <2> HIDE DEF below, n, i, L
  <2>7. /\ \E x \in L : KeyR(img, x) = KeyR(img, r)
        /\ \A x \in L : /\ keycmp(KeyR(img, r), KeyR(img, x)) <= 0
                        /\ i < Count(img, r[1]) => keycmp(KeyR(img, x), KeyAt(img, r[1], r[2] + 1)) <= 0
    BY <2>3, <2>4, <2>5, <2>6
  <2>8. QED
    BY <2>7 DEF Le, L, i
<1>6. ASSUME NEW r \in Leaves(img, T), NEW s \in Leaves(img, T), r # s
      PROVE  /\ KeyR(img, r) # KeyR(img, s)
             /\ img.type = "extentref" /\ KeyR(img, r)[1] < KeyR(img, s)[1] =>
                  KeyR(img, r)[1] + Blocks(img, r) <= KeyR(img, s)[1]
  <2>1. /\ KeyOf(r) # KeyOf(s)
        /\ img.type = "extentref" /\ KeyOf(r)[1] < KeyOf(s)[1] =>
             KeyOf(r)[1] + Node(r[1]).vals[r[2]].blocks <= KeyOf(s)[1]
    BY <1>1, <1>2, <1>6 DEF NoRepeats
  <2>2. Node(r[1]).vals[r[2]].blocks = Blocks(img, r)
    BY DEF Node, Blocks
  <2>3. QED
    BY <1>3, <2>1, <2>2
<1>7. QED
  BY <1>4, <1>5, <1>6 DEF KeyOrderRight

\* A node's header.
LEMMA ConsistentHeader ==
  ASSUME OnDisk(img), Consistent, NEW id \in Under(img, img.root)
  PROVE  HeaderRight(img, id) /\ NoOverrun(img.nodes[id])
<1> DEFINE n == img.nodes[id]
<1>1. id \in Tree /\ Node(id) = n /\ Children(n) = KidsOf(img, id) /\ \A c : Node(c) = img.nodes[c]
  BY ImageSets, Images
<1>2. /\ HeaderOK(n) /\ NodeOK(n) /\ NoOverrun(n) /\ node_is_root(n) = (id = img.root)
      /\ \A c \in Children(n) : /\ Node(c).level = n.level - 1
                                /\ img.type \in PhysicalChecked => Node(c).xid <= n.xid
  BY <1>1 DEF Consistent, ParentsRight
<1>3. SealedCat <=> Sealed(img)
  BY DEF SealedCat, Sealed
<1>4. /\ node_is_valid(n) /\ ("noheader" \in n.flags <=> Sealed(img)) /\ ("hashed" \in n.flags <=> Sealed(img))
      /\ Sealed(img) \/ n.type = (IF "root" \in n.flags THEN "btree" ELSE "btree_node")
      /\ Sealed(img) \/ img.type = "fusion_mt" \/ n.subtype = img.type
  BY <1>2, <1>3 DEF HeaderOK, node_is_root
<1>5. /\ (IsLeaf(img, id) => n.level = 0) /\ Sized(img, n) /\ ("root" \in n.flags <=> id = img.root)
  BY <1>2 DEF NodeOK, node_is_leaf, IsLeaf, node_has_fixed_kv_size, Sized, node_is_root
<1>6. \A c \in KidsOf(img, id) : /\ img.nodes[c].level = n.level - 1
                                 /\ img.type \in PhysicalChecked => img.nodes[c].xid <= n.xid
  BY <1>1, <1>2
<1>7. QED
  BY <1>2, <1>4, <1>5, <1>6 DEF HeaderRight

\* The length of a value.
LEMMA OneLength ==
  ASSUME OnDisk(img), NEW id \in DOMAIN img.nodes, Sized(img, img.nodes[id]), NEW i \in 1..Count(img, id)
  PROVE  /\ ValLens(img.nodes[id], i) = {VLen(img, img.nodes[id], i)} /\ VLen(img, img.nodes[id], i) \in Nat
         /\ Max(ValLens(img.nodes[id], i)) = VLen(img, img.nodes[id], i)
<1> DEFINE n == img.nodes[id]
           len == VLen(img, n, i)
<1>1. NodeOnDisk(n) /\ i \in 1..n.nkeys
  BY DEF OnDisk, Count
<1>2. n.toc[i] \in [k : Nat, klen : Nat, v : Offset, vlen : Nat]
  BY <1>1 DEF NodeOnDisk
<1>3. n.toc[i].vlen \in Nat
  BY <1>2
<1>4. len \in Nat
  BY <1>3 DEF VLen, FixedValLen
<1>5. ValLens(n, i) = {len}
  BY <1>1, Cells
<1>6. Max({len}) = len
  <2> HIDE DEF len
  <2>1. QED
    BY <1>4 DEF Max
<1>7. QED
  BY <1>4, <1>5, <1>6

\* A record.
LEMMA ConsistentRecord ==
  ASSUME OnDisk(img), Consistent, NEW id \in Under(img, img.root), id \in DOMAIN img.nodes, NEW i \in 1..Count(img, id)
  PROVE  RecordRight(img, id, i)
<1> DEFINE n == img.nodes[id]
           len == VLen(img, n, i)
<1>1. /\ id \in Tree /\ Node(id) = n /\ Records(n) = 1..Count(img, id) /\ (node_is_leaf(n) <=> IsLeaf(img, id))
      /\ Key(n, i) = KeyAt(img, id, i) /\ Child(n, i) = ChildAt(img, id, i) /\ \A c : Node(c) = img.nodes[c]
  <2>1. id \in Tree /\ Node(id) = n
    BY ImageSets, Images
  <2>2. Records(Node(id)) = 1..Count(img, id) /\ (node_is_leaf(Node(id)) = IsLeaf(img, id))
        /\ Key(Node(id), i) = KeyAt(img, id, i) /\ Child(Node(id), i) = ChildAt(img, id, i)
    BY Images
  <2>3. QED
    BY <2>1, <2>2, Images
<1>2. i \in Records(n) /\ i \in 1..n.nkeys
  BY <1>1 DEF Count
<1>3. HeaderRight(img, id) /\ NoOverrun(n) /\ Sized(img, n)
  BY ConsistentHeader DEF HeaderRight
<1>4. ValLens(n, i) = {len} /\ Max(ValLens(n, i)) = len /\ len \in Nat
  BY <1>3, OneLength
<1>5. /\ KeyOK(img.type, img.hashed, n.keys[i], KeyLen(n, i))
      /\ (img.type = "omap" => Key(n, i)[3] <= n.xid)
      /\ ValLens(n, i) = {IF node_is_leaf(n)
                          THEN (IF img.type = "extentref" THEN 10 ELSE Max(ValLens(n, i)))
                          ELSE IF SealedCat THEN 20 ELSE 4}
      /\ (SealedCat /\ ~node_is_leaf(n) => Node(Child(n, i)).hash = n.vals[i].hash)
      /\ Ghost(n, i) \/ n.toc[i].v \in 1..ValArea(n)
      /\ (img.type = "extentref" /\ node_is_leaf(n) => n.vals[i].blocks > 0)
  BY <1>1, <1>2 DEF Consistent, ParentsRight
<1>6. KeyLen(n, i) = KLen(img, n, i) /\ (Ghost(n, i) <=> NoValue(img, n, i)) /\ (SealedCat <=> Sealed(img))
  BY <1>2, Cells DEF SealedCat, Sealed
<1>7. len = IF node_is_leaf(n) THEN (IF img.type = "extentref" THEN 10 ELSE len)
            ELSE IF SealedCat THEN 20 ELSE 4
  <2> HIDE DEF len, n
  <2>1. QED
    BY <1>4, <1>5
<1>8. NoValue(img, n, i) \/ (n.toc[i].v \in 1..ValArea(n) /\ len <= n.toc[i].v)
  <2>1. SUFFICES ASSUME ~NoValue(img, n, i) PROVE n.toc[i].v \in 1..ValArea(n) /\ len <= n.toc[i].v
    OBVIOUS
  <2>2. n.toc[i].v \in 1..ValArea(n) /\ ~Ghost(n, i)
    BY <1>5, <1>6, <2>1
  <2>3. ~(ValArea(n) - n.toc[i].v + len > ValArea(n))
    BY <1>2, <1>3, <1>4, <2>2 DEF NoOverrun, Overruns, ValStart
  <2>4. ValArea(n) \in Int
    <3>1. NodeOnDisk(n)
      BY DEF OnDisk
    <3>2. QED
      BY <3>1, AreaTypes
  <2> HIDE DEF len, n
  <2>5. QED
    BY <1>4, <2>2, <2>3, <2>4
<1>9. /\ KeyOK(img.type, img.hashed, n.keys[i], KLen(img, n, i))
      /\ (img.type = "omap" => KeyAt(img, id, i)[3] <= n.xid)
      /\ (~IsLeaf(img, id) => len = IF Sealed(img) THEN 20 ELSE 4)
      /\ (IsLeaf(img, id) /\ img.type = "extentref" => len = 10 /\ n.vals[i].blocks > 0)
      /\ (Sealed(img) /\ ~IsLeaf(img, id) => img.nodes[ChildAt(img, id, i)].hash = n.vals[i].hash)
  BY <1>1, <1>5, <1>6, <1>7
<1>10. QED
  BY <1>8, <1>9 DEF RecordRight

\* The space of a node.
LEMMA ConsistentSpace ==
  ASSUME OnDisk(img), Consistent, NEW id \in Under(img, img.root), id \in DOMAIN img.nodes
  PROVE  KeysRight(img, img.nodes[id]) /\ ValsRight(img, img.nodes[id])
<1> DEFINE n == img.nodes[id]
           K == KeyMap(img, n)
           V == ValMap(img, n)
           ks == {o \in ListFrom(n.kraw, n.kfree) : o # INVALID}
           vs == {o \in ListFrom(n.vraw, n.vfree) : o # INVALID}
           kused == UNION {KeyCells(n, i) : i \in Records(n)}
           vused == UNION {RecordCells(n, i) : i \in Records(n)}
           KU == UNION {K[j] : j \in 1..n.nkeys}
           VU == UNION {V[j] : j \in 1..n.nkeys}
<1>1. id \in Tree /\ Node(id) = n /\ Records(n) = 1..n.nkeys
  BY ImageSets, Images DEF Records
<1>2. SpaceRight(n) /\ ListsRight(n)
  BY <1>1 DEF Consistent
<1>3. Sized(img, n) /\ NoOverrun(n)
  BY ConsistentHeader DEF HeaderRight
<1>4. ListOnDisk(n.kfree, n.kraw) /\ ListOnDisk(n.vfree, n.vraw)
  BY ListTypes
<1>5. \A i \in Records(n) : KeyCells(n, i) = K[i] /\ RecordCells(n, i) = V[i]
  BY <1>1, <1>3, Cells, WholeValues
<1>6. kused = KU /\ vused = VU
  <2> HIDE DEF K, V, n
  <2>1. QED
    BY <1>1, <1>5
<1>7. /\ \A a, b \in Records(n) : a # b => KeyCells(n, a) \cap KeyCells(n, b) = {}
      /\ \A a, b \in Records(n) : a # b => RecordCells(n, a) \cap RecordCells(n, b) = {}
      /\ kused \subseteq 0..(KeyArea(n) - 1) /\ vused \subseteq 0..(ValArea(n) - 1)
      /\ n.kfree.len = KeyArea(n) - Cardinality(kused) /\ n.vfree.len = ValArea(n) - Cardinality(vused)
  BY <1>2 DEF SpaceRight, Disjoint
<1>8. /\ (n.kfree.len > 0 => /\ ks \subseteq DOMAIN n.kraw
                             /\ \A a, b \in ks : a # b => KeyFreeCells(n, a) \cap KeyFreeCells(n, b) = {}
                             /\ \A o \in ks : KeyFreeCells(n, o) \subseteq (0..(KeyArea(n) - 1)) \ kused)
      /\ (n.vfree.len > 0 => /\ vs \subseteq DOMAIN n.vraw
                             /\ \A a, b \in vs : a # b => FreeVal(n, a) \cap FreeVal(n, b) = {}
                             /\ \A o \in vs : FreeVal(n, o) \subseteq (0..(ValArea(n) - 1)) \ vused)
  BY <1>2 DEF SpaceRight, Disjoint
<1>9. ks = Linked(n.kraw, n.kfree) \ {INVALID} /\ vs = Linked(n.vraw, n.vfree) \ {INVALID}
  BY DEF Linked, ListFrom
<1>10. /\ INVALID \in Linked(n.kraw, n.kfree) /\ INVALID \in Linked(n.vraw, n.vfree)
       /\ (n.kfree.len = 0 => n.kfree.off = INVALID) /\ (n.vfree.len = 0 => n.vfree.off = INVALID)
       /\ \A o \in ks : Entry(n.kraw, o).len >= NLOC
       /\ \A o \in vs : Entry(n.vraw, o).len \in NLOC..o
  BY <1>2, <1>9 DEF ListsRight, ListFrom, Linked
<1>11. \A o \in ks : o \in DOMAIN n.kraw /\ n.kraw[o].len >= NLOC /\ KeyFreeCells(n, o) = KeyGaps(n)[o]
  <2> SUFFICES ASSUME NEW o \in ks
               PROVE  o \in DOMAIN n.kraw /\ n.kraw[o].len >= NLOC /\ KeyFreeCells(n, o) = KeyGaps(n)[o]
    OBVIOUS
  <2>1. Entry(n.kraw, o).len >= NLOC
    BY <1>10
  <2>2. o \in DOMAIN n.kraw
    BY <2>1 DEF Entry, NLOC
  <2>3. Entry(n.kraw, o) = n.kraw[o]
    BY <2>2 DEF Entry
  <2>4. KeyGaps(n)[o] = o .. (o + n.kraw[o].len - 1)
    BY <2>2 DEF KeyGaps
  <2>5. QED
    BY <2>1, <2>2, <2>3, <2>4 DEF KeyFreeCells
<1>12. \A o \in vs : o \in DOMAIN n.vraw /\ n.vraw[o].len >= NLOC /\ n.vraw[o].len <= o /\ FreeVal(n, o) = ValGaps(n)[o]
  <2> SUFFICES ASSUME NEW o \in vs
               PROVE  /\ o \in DOMAIN n.vraw /\ n.vraw[o].len >= NLOC /\ n.vraw[o].len <= o
                      /\ FreeVal(n, o) = ValGaps(n)[o]
    OBVIOUS
  <2>1. Entry(n.vraw, o).len \in NLOC..o
    BY <1>10
  <2>2. o \in DOMAIN n.vraw
    BY <2>1 DEF Entry, NLOC
  <2>3. Entry(n.vraw, o) = n.vraw[o] /\ o \in Nat
    BY <1>4, <2>2 DEF Entry, ListOnDisk
  <2>4. ValGaps(n)[o] = (ValArea(n) - o) .. (ValArea(n) - o + n.vraw[o].len - 1)
    BY <2>2 DEF ValGaps
  <2>5. n.vraw[o].len >= NLOC /\ n.vraw[o].len <= o
    BY <2>1, <2>3 DEF NLOC
  <2>6. QED
    BY <2>2, <2>3, <2>4, <2>5 DEF FreeVal
<1> HIDE DEF ks, vs, kused, vused, K, V
<1>13. Marked(K, KeyArea(n), n.nkeys, KU) /\ Marked(V, ValArea(n), n.nkeys, VU)
  <2>1. /\ \A a, b \in 1..n.nkeys : a # b => K[a] \cap K[b] = {}
        /\ \A a, b \in 1..n.nkeys : a # b => V[a] \cap V[b] = {}
    BY <1>1, <1>5, <1>7
  <2>2. KU \subseteq 0..(KeyArea(n) - 1) /\ VU \subseteq 0..(ValArea(n) - 1)
    BY <1>6, <1>7
  <2>3. /\ \A j \in 1..n.nkeys : K[j] \subseteq KU
        /\ \A j \in 1..n.nkeys : V[j] \subseteq VU
    OBVIOUS
  <2> DEFINE ka == KeyArea(n)
             va == ValArea(n)
             k == n.nkeys
  <2> HIDE DEF ka, va, n, k
  <2>4. \A j \in 1..n.nkeys : K[j] \subseteq 0..(KeyArea(n) - 1) /\ V[j] \subseteq 0..(ValArea(n) - 1)
    BY <2>2, <2>3
  <2>5. QED
    BY <2>1, <2>4 DEF Marked
<1>14. /\ (n.kfree.len > 0 => /\ \A o \in ks : KeyGaps(n)[o] \subseteq (0..(KeyArea(n) - 1)) \ KU
                              /\ \A a, b \in ks : a # b => KeyGaps(n)[a] \cap KeyGaps(n)[b] = {})
       /\ (n.vfree.len > 0 => /\ \A o \in vs : ValGaps(n)[o] \subseteq (0..(ValArea(n) - 1)) \ VU
                              /\ \A a, b \in vs : a # b => ValGaps(n)[a] \cap ValGaps(n)[b] = {})
  <2> HIDE DEF KU, VU, n
  <2>1. QED
    BY <1>6, <1>8, <1>11, <1>12
<1>15. n.kfree.len = KeyArea(n) - Cardinality(KU) /\ n.vfree.len = ValArea(n) - Cardinality(VU)
  BY <1>6, <1>7
<1> HIDE DEF n
<1>16. Tiled(K, KeyArea(n), n.nkeys, n.kraw, n.kfree, KeyGaps(n))
  BY <1>9, <1>10, <1>11, <1>13, <1>14, <1>15 DEF Tiled
<1>17. Tiled(V, ValArea(n), n.nkeys, n.vraw, n.vfree, ValGaps(n))
  BY <1>9, <1>10, <1>12, <1>13, <1>14, <1>15 DEF Tiled
<1>18. KeysRight(img, n) /\ ValsRight(img, n)
  BY <1>9, <1>12, <1>16, <1>17 DEF KeysRight, ValsRight, K, V
<1>19. QED
  BY <1>18 DEF n

\* The footer.
LEMMA ConsistentFooter ==
  ASSUME OnDisk(img), Consistent
  PROVE  FooterFits(img)
<1> DEFINE T == Under(img, img.root)
           info == img.info
<1>1. FooterRight /\ CountsRight /\ TreeRight(img)
  BY ConsistentTree DEF Consistent
<1>2. Tree = T /\ LeafRecords(Tree) = Leaves(img, T) /\ T \subseteq DOMAIN img.nodes
  BY <1>1, ImageSets DEF TreeRight
<1>3. info.node_count = Cardinality(T) /\ info.key_count = Cardinality(Leaves(img, T))
  BY <1>1, <1>2 DEF CountsRight
<1>4. FlagsRight(img, info.flags)
  <2>1. FooterFlagsOK(info.flags) /\ (SealedCat <=> Sealed(img))
    BY <1>1 DEF FooterRight, SealedCat, Sealed
  <2>2. QED
    BY <2>1 DEF FlagsRight, FooterFlagsOK
<1>5. /\ info.key_size = (IF img.type \in FixedTrees THEN FixedKeyLen(img.type) ELSE 0)
      /\ info.val_size = (IF img.type \in FixedTrees THEN FixedValLen(img.type, TRUE) ELSE 0)
      /\ (img.type \in FixedTrees \ {"free_queue"} =>
            info.longest_key = FixedKeyLen(img.type) /\ info.longest_val = 8)
      /\ (img.type = "free_queue" => info.longest_key = 8)
      /\ (img.type = "extentref" => info.longest_key = 4 /\ info.longest_val = 10)
  BY <1>1 DEF FooterRight
<1>6. ASSUME NEW r \in Recs(img, T)
      PROVE  /\ info.longest_key >= KLen(img, img.nodes[r[1]], r[2])
             /\ IsLeaf(img, r[1]) => info.longest_val >= VLen(img, img.nodes[r[1]], r[2])
  <2> DEFINE n == img.nodes[r[1]]
  <2>1. r[1] \in T /\ r[2] \in 1..Count(img, r[1]) /\ r[1] \in DOMAIN img.nodes
    BY <1>2, RecIn
  <2>2. /\ r[1] \in Tree /\ Node(r[1]) = n /\ Records(n) = 1..Count(img, r[1]) /\ (node_is_leaf(n) <=> IsLeaf(img, r[1]))
    BY <1>2, <2>1 DEF Node, Records, Count, node_is_leaf, IsLeaf
  <2>3. /\ info.longest_key >= KeyLen(n, r[2])
        /\ (node_is_leaf(n) => info.longest_val >= Max(ValLens(n, r[2])))
    BY <1>1, <2>1, <2>2 DEF FooterRight
  <2>4. Sized(img, n)
    BY <2>1, ConsistentHeader DEF HeaderRight
  <2>5. KeyLen(n, r[2]) = KLen(img, n, r[2]) /\ Max(ValLens(n, r[2])) = VLen(img, n, r[2])
    BY <2>1, <2>4, Cells, OneLength DEF Count
  <2>6. QED
    BY <2>2, <2>3, <2>5
<1>7. ASSUME NEW r \in Leaves(img, T) PROVE info.longest_val >= VLen(img, img.nodes[r[1]], r[2])
  BY <1>6, <1>7, LeafIn DEF Index
<1>8. QED
  BY <1>3, <1>4, <1>5, <1>6, <1>7 DEF FooterFits

\* All of it.
LEMMA ConsistentRight == ASSUME OnDisk(img), Consistent PROVE Right(img)
<1>1. TreeRight(img) /\ KeyOrderRight(img) /\ FooterFits(img)
  BY ConsistentTree, ConsistentOrder, ConsistentFooter
<1>2. Under(img, img.root) \subseteq DOMAIN img.nodes
  BY <1>1 DEF TreeRight
<1>3. \A id \in Under(img, img.root) :
        /\ HeaderRight(img, id) /\ KeysRight(img, img.nodes[id]) /\ ValsRight(img, img.nodes[id])
        /\ \A i \in 1..Count(img, id) : RecordRight(img, id, i)
  BY <1>2, ConsistentHeader, ConsistentSpace, ConsistentRecord
<1>4. Sealed(img) => img.nodes[img.root].hash = img.root_hash
  BY DEF Consistent, SealedCat, Sealed, Node
<1>5. QED
  BY <1>1, <1>3, <1>4 DEF Right

-----------------------------------------------------------------------------
(* Nothing is reported of such a tree. *)

\* The parser has not reported a right tree.
Quiet == pc = "reported" /\ query.state = "idle" => ~Right(img)

\* A step of a query is one of a query that has begun.
LEMMA QueryStep ==
  ASSUME Shape, pc # "reported", EnterChild \/ Bisect \/ EndBisection
  PROVE  query.state = "running"
<1>1. query \in QueryT /\ PlaceT(pc, query)
  BY ShapeFacts
<1>2. CASE EnterChild
  BY <1>2 DEF EnterChild, Querying
<1>3. CASE Bisect
  <2>1. pc = "bisect"
    BY <1>3 DEF Bisect
  <2>2. QED
    BY <1>1, <2>1, PhaseOf
<1>4. CASE EndBisection
  <2>1. pc = "bisected"
    BY <1>4 DEF EndBisection
  <2>2. QED
    BY <1>1, <2>1, PhaseOf
<1>5. QED
  BY <1>2, <1>3, <1>4

\* Nothing changes what is on disk.
LEMMA SameTree == ASSUME [Next]_vars PROVE UNCHANGED img
<1>1. CASE StartTree
  BY <1>1 DEF StartTree, Check, Report
<1>2. CASE ReadNode
  BY <1>2 DEF ReadNode, Check, Report
<1>3. CASE WalkKeyList
  BY <1>3 DEF WalkKeyList, Check, Report
<1>4. CASE EndKeyList
  BY <1>4 DEF EndKeyList, Check, Report
<1>5. CASE WalkValList
  BY <1>5 DEF WalkValList, Check, Report
<1>6. CASE EndValList
  BY <1>6 DEF EndValList, Check, Report
<1>7. CASE EnterNode
  BY <1>7 DEF EnterNode, Check, Report
<1>8. CASE ReadRecord
  BY <1>8 DEF ReadRecord, Check, Report
<1>9. CASE EndNode
  BY <1>9 DEF EndNode, Check, Report
<1>10. CASE CheckFooter
  BY <1>10 DEF CheckFooter, Check, Report
<1>11. CASE StartQuery
  BY <1>11 DEF StartQuery
<1>12. CASE EnterChild
  BY <1>12 DEF EnterChild, Check, Report
<1>13. CASE Bisect
  BY <1>13 DEF Bisect, Check, Report, QueryFails
<1>14. CASE EndBisection
  BY <1>14 DEF EndBisection, Check, Report, QueryFails
<1>15. CASE UNCHANGED vars
  BY <1>15 DEF vars
<1>16. QED
  BY <1>1, <1>2, <1>3, <1>4, <1>5, <1>6, <1>7, <1>8, <1>9, <1>10, <1>11, <1>12, <1>13, <1>14, <1>15, Alternatives

\* A report leaves the query as it was.
LEMMA ReportsOfQuery ==
  ASSUME Shape, pc # "reported", [Next]_vars, pc' = "reported", EnterChild \/ Bisect \/ EndBisection
  PROVE  query'.state # "idle"
<1>1. query.state = "running" /\ query \in QueryT
  BY QueryStep, ShapeFacts
<1>2. query' = query
  <2>1. CASE EnterChild
    BY <2>1 DEF EnterChild, Check, Report
  <2>2. CASE Bisect
    <3>1. query.back # "reported"
      BY <1>1 DEF QueryT
    <3>2. QED
      BY <2>2, <3>1 DEF Bisect, Check, Report, QueryFails
  <2>3. CASE EndBisection
    <3>1. query.back # "reported"
      BY <1>1 DEF QueryT
    <3>2. QED
      BY <2>3, <3>1 DEF EndBisection, Check, Report, QueryFails
  <2>4. QED
    BY <2>1, <2>2, <2>3
<1>3. QED
  BY <1>1, <1>2

\* A report by the parser.
LEMMA ReportsOfParser ==
  ASSUME pc # "reported", pc' = "reported",
         \/ StartTree \/ ReadNode \/ WalkKeyList \/ EndKeyList \/ WalkValList \/ EndValList
         \/ EnterNode \/ ReadRecord \/ EndNode \/ CheckFooter
  PROVE  query' = query
<1>1. CASE StartTree
  BY <1>1 DEF StartTree, Check, Report
<1>2. CASE ReadNode
  BY <1>2 DEF ReadNode, Check, Report
<1>3. CASE WalkKeyList
  BY <1>3 DEF WalkKeyList, Check, Report
<1>4. CASE EndKeyList
  BY <1>4 DEF EndKeyList, Check, Report
<1>5. CASE WalkValList
  BY <1>5 DEF WalkValList, Check, Report
<1>6. CASE EndValList
  BY <1>6 DEF EndValList, Check, Report
<1>7. CASE EnterNode
  BY <1>7 DEF EnterNode, Check, Report
<1>8. CASE ReadRecord
  BY <1>8 DEF ReadRecord, Check, Report
<1>9. CASE EndNode
  BY <1>9 DEF EndNode, Check, Report
<1>10. CASE CheckFooter
  BY <1>10 DEF CheckFooter, Check, Report
<1>11. QED
  BY <1>1, <1>2, <1>3, <1>4, <1>5, <1>6, <1>7, <1>8, <1>9, <1>10

\* Every step.
LEMMA QuietStep ==
  ASSUME Shape, ParseInv, SpaceInv, TraceInv, Quiet, [Next]_vars
  PROVE  Quiet'
<1>1. CASE UNCHANGED vars
  BY <1>1 DEF Quiet, vars
<1>2. CASE ~UNCHANGED vars
  <2>1. SUFFICES ASSUME pc' = "reported", query'.state = "idle", Right(img') PROVE FALSE
    BY DEF Quiet
  <2>2. pc # "reported" /\ Right(img)
    BY <1>2, <2>1, NotAfterReport, SameTree
  <2>3. ~EnterChild /\ ~Bisect /\ ~EndBisection
    BY <2>1, <2>2, ReportsOfQuery
  <2>4. ~StartQuery
    <3>1. StartQuery => pc' = "bisect"
      BY StartQueryStep
    <3>2. QED
      BY <2>1, <3>1
  <2>5. \/ StartTree \/ ReadNode \/ WalkKeyList \/ EndKeyList \/ WalkValList \/ EndValList
        \/ EnterNode \/ ReadRecord \/ EndNode \/ CheckFooter
    BY <1>2, <2>3, <2>4, Alternatives
  <2>6. query.state = "idle"
    BY <2>1, <2>2, <2>5, ReportsOfParser
  <2>7. QED
    BY <2>1, <2>2, <2>5, <2>6, RightStartTree, RightReadNode, RightWalkKeyList, RightEndKeyList, RightWalkValList,
       RightEndValList, RightEnterNode, RightReadRecord, RightEndNode, RightCheckFooter
<1>3. QED
  BY <1>1, <1>2

\* The checks are not too strict: whatever the size and the shape of a tree, if its nodes,
\* keys, free space and footer are in order then parse_subtree() reports nothing.  The
\* mark on a node that is read is never met again, each list of free space ends before
\* its total does, each first key is that of the parent's record, and what is measured is
\* what the footer says.
THEOREM NoFalseAlarmHolds == Spec => []NoFalseAlarm
<1> DEFINE Inv == Shape /\ ParseInv /\ SpaceInv /\ TraceInv /\ Quiet
<1>1. Init => TraceInv /\ Quiet
  BY TraceInit DEF Init, Quiet
<1>2. Shape /\ ParseInv /\ SpaceInv /\ TraceInv /\ Quiet /\ [Next]_vars => TraceInv' /\ Quiet'
  BY TraceStep, QuietStep
<1>3. Shape /\ Quiet => NoFalseAlarm
  BY ConsistentRight DEF Quiet, NoFalseAlarm, Shape
<1>4. QED
  BY <1>1, <1>2, <1>3, ParseHolds, SpaceHolds, PTL DEF Spec

=============================================================================
