---------------------------- MODULE Btree_proofs ----------------------------
(***************************************************************************)
(* What apfsck's parsing of a b-tree proves of a tree that it accepts, and *)
(* what a query finds in it, for trees of every size and shape.  The tree  *)
(* never changes, so the invariants are operators of it and of the         *)
(* variables that the parser keeps.                                        *)
(***************************************************************************)
EXTENDS Btree, FiniteSums, FiniteSetTheorems, SequenceTheorems, TLAPS

-----------------------------------------------------------------------------
(* Reach is the least set with the start in it that next does not leave. *)

\* One more step from a set of places.
Grown(next, S) == S \cup UNION {next[m] : m \in S \cap DOMAIN next}
Stays(next, X) == \A m \in X \cap DOMAIN next : next[m] \subseteq X
Within(f, start, next, n) ==
  f = [d \in 0..n |-> IF d = 0 THEN {start} ELSE Grown(next, f[d - 1])]

\* The function that Reach is defined with exists, for any number of steps.
LEMMA WithinExists ==
  ASSUME NEW start, NEW next, NEW n \in Nat
  PROVE  \E f : Within(f, start, next, n)
<1> DEFINE G == {k \in Nat : \E f : Within(f, start, next, k)}
<1>1. 0 \in G
  <2> DEFINE f == [d \in 0..0 |-> {start}]
  <2>1. Within(f, start, next, 0)
    BY DEF Within
  <2>2. QED
    BY <2>1
<1>2. ASSUME NEW k \in Nat, k \in G PROVE k + 1 \in G
  <2>1. PICK f : Within(f, start, next, k)
    BY <1>2
  <2> DEFINE h == [d \in 0..(k + 1) |-> IF d <= k THEN f[d] ELSE Grown(next, f[k])]
  <2>2. \A d \in 0..k : f[d] = IF d = 0 THEN {start} ELSE Grown(next, f[d - 1])
    BY <2>1 DEF Within
  <2>3. ASSUME NEW d \in 0..(k + 1) PROVE h[d] = IF d = 0 THEN {start} ELSE Grown(next, h[d - 1])
    <3>1. CASE d = 0
      BY <2>2, <3>1
    <3>2. CASE d # 0 /\ d <= k
      <4>1. d - 1 \in 0..(k + 1) /\ d - 1 <= k /\ d \in 0..k
        BY <3>2
      <4>2. h[d - 1] = f[d - 1] /\ h[d] = f[d]
        BY <3>2, <4>1
      <4>3. QED
        BY <2>2, <3>2, <4>1, <4>2
    <3>3. CASE d = k + 1
      <4>1. k \in 0..(k + 1) /\ d - 1 = k /\ ~(d <= k) /\ d # 0
        BY <3>3
      <4>2. h[d] = Grown(next, f[k]) /\ h[k] = f[k]
        BY <4>1
      <4>3. QED
        BY <4>1, <4>2
    <3>4. QED
      BY <3>1, <3>2, <3>3
  <2>4. Within(h, start, next, k + 1)
    <3> DEFINE E(d) == IF d = 0 THEN {start} ELSE Grown(next, h[d - 1])
    <3>1. \A d \in 0..(k + 1) : h[d] = E(d)
      BY <2>3
    <3>2. h = [d \in 0..(k + 1) |-> h[d]]
      OBVIOUS
    <3> HIDE DEF h
    <3>3. h = [d \in 0..(k + 1) |-> E(d)]
      BY <3>1, <3>2
    <3>4. QED
      BY <3>3 DEF Within
  <2>5. QED
    BY <2>4
<1> HIDE DEF G
<1>3. n \in G
  BY <1>1, <1>2, SetInduction
<1>4. QED
  BY <1>3 DEF G

\* The steps.
StepsOf(f, start, next) ==
  /\ Reach(start, next) = f[Cardinality(DOMAIN next)] /\ f[0] = {start}
  /\ \A d \in Nat : d + 1 <= Cardinality(DOMAIN next) => f[d + 1] = Grown(next, f[d])

\* There are such steps.
LEMMA ReachSteps ==
  ASSUME NEW start, NEW next, IsFiniteSet(DOMAIN next)
  PROVE  \E f : StepsOf(f, start, next)
<1> DEFINE N == Cardinality(DOMAIN next)
           f == CHOOSE g : Within(g, start, next, N)
<1>1. N \in Nat
  BY FS_CardinalityType
<1>2. Within(f, start, next, N)
  <2>1. \E g : Within(g, start, next, N)
    BY <1>1, WithinExists
  <2>2. QED
    BY <2>1
<1>3. Reach(start, next) = f[N]
  BY DEF Reach, Within, Grown
<1> HIDE DEF f, N
<1>4. f[0] = {start}
  <2>1. 0 \in 0..N
    BY <1>1
  <2>2. QED
    BY <1>2, <2>1 DEF Within
<1>5. ASSUME NEW d \in Nat, d + 1 <= N PROVE f[d + 1] = Grown(next, f[d])
  <2>1. d + 1 \in 0..N /\ d + 1 # 0 /\ (d + 1) - 1 = d
    BY <1>1, <1>5
  <2>2. f[d + 1] = Grown(next, f[(d + 1) - 1])
    BY <1>2, <2>1 DEF Within
  <2>3. QED
    BY <2>1, <2>2
<1>6. QED
  BY <1>3, <1>4, <1>5 DEF N, StepsOf

\* No set that next does not leave has less.
LEMMA ReachLeast ==
  ASSUME NEW start, NEW next, IsFiniteSet(DOMAIN next), NEW X, start \in X, Stays(next, X)
  PROVE  Reach(start, next) \subseteq X
<1> DEFINE N == Cardinality(DOMAIN next)
<1>1. N \in Nat
  BY FS_CardinalityType
<1>0. PICK f : StepsOf(f, start, next)
  BY ReachSteps
<1>2. /\ Reach(start, next) = f[N] /\ f[0] = {start}
      /\ \A d \in Nat : d + 1 <= N => f[d + 1] = Grown(next, f[d])
  BY <1>0 DEF StepsOf
<1> HIDE DEF N
<1> DEFINE T == {d \in Nat : d <= N => f[d] \subseteq X}
<1>3. 0 \in T
  BY <1>2
<1>4. ASSUME NEW d \in Nat, d \in T PROVE d + 1 \in T
  <2> SUFFICES ASSUME d + 1 <= N PROVE f[d + 1] \subseteq X
    OBVIOUS
  <2>1. f[d] \subseteq X /\ f[d + 1] = Grown(next, f[d])
    BY <1>1, <1>2, <1>4
  <2>2. Grown(next, f[d]) \subseteq X
    BY <2>1 DEF Grown, Stays
  <2>3. QED
    BY <2>1, <2>2
<1>5. Nat \subseteq T
  <2> HIDE DEF T
  <2>1. QED
    BY <1>3, <1>4, SetInduction
<1>6. QED
  BY <1>1, <1>2, <1>5

\* It is such a set: as many steps as there are places are enough.
LEMMA ReachStays ==
  ASSUME NEW start, NEW next, IsFiniteSet(DOMAIN next)
  PROVE  start \in Reach(start, next) /\ Stays(next, Reach(start, next))
<1> DEFINE D == DOMAIN next
           N == Cardinality(D)
<1>1. N \in Nat
  BY FS_CardinalityType
<1>0. PICK f : StepsOf(f, start, next)
  BY ReachSteps
<1>2. /\ Reach(start, next) = f[N] /\ f[0] = {start}
      /\ \A d \in Nat : d + 1 <= N => f[d + 1] = Grown(next, f[d])
  BY <1>0 DEF StepsOf
<1> HIDE DEF N
<1> DEFINE Many(d) == IsFiniteSet(f[d] \cap D) /\ Cardinality(f[d] \cap D) >= d + 1
           T == {d \in Nat : d <= N => start \in f[d] /\ (Stays(next, f[d]) \/ Many(d))}
<1>3. 0 \in T
  <2>1. CASE start \in D
    <3>1. f[0] \cap D = {start}
      BY <1>2, <2>1
    <3>2. IsFiniteSet({start}) /\ Cardinality({start}) = 1
      BY FS_Singleton
    <3>4. Many(0)
      BY <3>1, <3>2
    <3>3. QED
      BY <1>2, <3>4
  <2>2. CASE start \notin D
    <3>1. Stays(next, f[0])
      BY <1>2, <2>2 DEF Stays
    <3>2. QED
      BY <1>2, <3>1
  <2>3. QED
    BY <2>1, <2>2
<1>4. ASSUME NEW d \in Nat, d \in T PROVE d + 1 \in T
  <2> SUFFICES ASSUME d + 1 <= N PROVE start \in f[d + 1] /\ (Stays(next, f[d + 1]) \/ Many(d + 1))
    OBVIOUS
  <2>1. f[d + 1] = Grown(next, f[d]) /\ start \in f[d] /\ (Stays(next, f[d]) \/ Many(d))
    BY <1>1, <1>2, <1>4
  <2>2. f[d] \subseteq f[d + 1] /\ \A m \in f[d] \cap D : next[m] \subseteq f[d + 1]
    BY <2>1 DEF Grown
  <2>3. CASE f[d + 1] \cap D = f[d] \cap D
    <3>1. Stays(next, f[d + 1])
      BY <2>2, <2>3 DEF Stays
    <3>2. QED
      BY <2>1, <2>2, <3>1
  <2>4. CASE Stays(next, f[d])
    <3>1. f[d + 1] = f[d]
      BY <2>1, <2>4 DEF Grown, Stays
    <3>2. QED
      BY <2>1, <2>4, <3>1
  <2>5. CASE Many(d) /\ f[d + 1] \cap D # f[d] \cap D
    <3> DEFINE A == f[d] \cap D
               B == f[d + 1] \cap D
    <3>1. IsFiniteSet(B) /\ A \in SUBSET B /\ A # B
      <4>1. B \in SUBSET D
        OBVIOUS
      <4>2. IsFiniteSet(B)
        BY <4>1, FS_Subset
      <4>3. QED
        BY <2>2, <2>5, <4>2
    <3> HIDE DEF A, B
    <3>2. Cardinality(A) <= Cardinality(B) /\ Cardinality(A) # Cardinality(B)
      BY <3>1, FS_Subset
    <3>3. Cardinality(B) \in Nat /\ Cardinality(A) \in Nat
      BY <3>1, FS_CardinalityType, FS_Subset
    <3>4. Cardinality(A) >= d + 1
      BY <2>5 DEF A
    <3>5. Cardinality(B) >= (d + 1) + 1
      BY <3>2, <3>3, <3>4
    <3>6. Many(d + 1)
      BY <3>1, <3>5 DEF B
    <3>7. QED
      BY <2>1, <2>2, <3>6
  <2>6. QED
    BY <2>1, <2>3, <2>4, <2>5
<1>5. N \in T
  <2> HIDE DEF T
  <2>1. QED
    BY <1>1, <1>3, <1>4, SetInduction
<1>6. ~Many(N)
  <2>1. f[N] \cap D \in SUBSET D
    OBVIOUS
  <2>2. Cardinality(f[N] \cap D) <= N
    BY <2>1, FS_Subset DEF N
  <2>3. IsFiniteSet(f[N] \cap D)
    BY <2>1, FS_Subset
  <2>4. Cardinality(f[N] \cap D) \in Nat
    BY <2>3, FS_CardinalityType
  <2>5. QED
    BY <1>1, <2>2, <2>4
<1>7. QED
  BY <1>1, <1>2, <1>5, <1>6

-----------------------------------------------------------------------------
(* keycmp() is a total order of the keys that trees have. *)

NamedTypes == {DIR_REC, XATTR, SNAP_NAME}
GoodKeys == {k \in Int \X Nat \X Nat \X Nat : k[4] = 0 <=> k[2] \notin NamedTypes}
Le(a, b) == keycmp(a, b) <= 0
Lt(a, b) == keycmp(a, b) < 0

\* A key is its four fields.
LEMMA KeyFields ==
  ASSUME NEW k \in GoodKeys
  PROVE  /\ k = <<k[1], k[2], k[3], k[4]>>
         /\ k[1] \in Int /\ k[2] \in Nat /\ k[3] \in Nat /\ k[4] \in Nat
         /\ (k[4] = 0 <=> k[2] \notin NamedTypes)
  BY DEF GoodKeys

\* keycmp() tells all keys apart.
LEMMA CmpZero ==
  ASSUME NEW a \in GoodKeys, NEW b \in GoodKeys
  PROVE  /\ keycmp(a, b) \in {-1, 0, 1} /\ keycmp(b, a) = 0 - keycmp(a, b)
         /\ keycmp(a, b) = 0 <=> a = b
<1>1. /\ a[1] \in Int /\ a[2] \in Nat /\ a[3] \in Nat /\ a[4] \in Nat
      /\ b[1] \in Int /\ b[2] \in Nat /\ b[3] \in Nat /\ b[4] \in Nat
      /\ (a[4] = 0 <=> a[2] \notin NamedTypes) /\ (b[4] = 0 <=> b[2] \notin NamedTypes)
  BY KeyFields
<1>2. a = b <=> a[1] = b[1] /\ a[2] = b[2] /\ a[3] = b[3] /\ a[4] = b[4]
  <2>1. a = <<a[1], a[2], a[3], a[4]>> /\ b = <<b[1], b[2], b[3], b[4]>>
    BY KeyFields
  <2>2. QED
    BY <2>1
<1>3. keycmp(a, b) \in {-1, 0, 1}
  BY DEF keycmp
<1>4. (a[2] = b[2]) => (a[4] = 0 <=> b[4] = 0)
  BY <1>1
<1>5. keycmp(b, a) = 0 - keycmp(a, b)
  BY <1>1, <1>4 DEF keycmp
<1>6. keycmp(a, b) = 0 <=> a[1] = b[1] /\ a[2] = b[2] /\ a[3] = b[3] /\ a[4] = b[4]
  BY <1>1, <1>4 DEF keycmp
<1>7. QED
  BY <1>2, <1>3, <1>5, <1>6

\* The order in terms of the four fields.
LEMMA CmpFields ==
  ASSUME NEW a \in GoodKeys, NEW b \in GoodKeys
  PROVE  Lt(a, b) <=> \/ a[1] < b[1]
                      \/ a[1] = b[1] /\ a[2] < b[2]
                      \/ a[1] = b[1] /\ a[2] = b[2] /\ a[3] < b[3]
                      \/ a[1] = b[1] /\ a[2] = b[2] /\ a[3] = b[3] /\ a[4] < b[4]
<1>1. /\ a[1] \in Int /\ a[2] \in Nat /\ a[3] \in Nat /\ a[4] \in Nat
      /\ b[1] \in Int /\ b[2] \in Nat /\ b[3] \in Nat /\ b[4] \in Nat
      /\ (a[4] = 0 <=> a[2] \notin NamedTypes) /\ (b[4] = 0 <=> b[2] \notin NamedTypes)
  BY KeyFields
<1>2. QED
  BY <1>1 DEF keycmp, Lt

\* Le is Lt or equality, and there is no third case but the reverse.
LEMMA CmpTotal ==
  ASSUME NEW a \in GoodKeys, NEW b \in GoodKeys
  PROVE  /\ Le(a, b) <=> Lt(a, b) \/ a = b
         /\ ~Le(a, b) <=> Lt(b, a)
         /\ ~(Lt(a, b) /\ a = b)
         /\ (keycmp(a, b) > 0 <=> Lt(b, a))
  BY CmpZero DEF Le, Lt

\* Lt is transitive.
LEMMA LtTrans ==
  ASSUME NEW a \in GoodKeys, NEW b \in GoodKeys, NEW c \in GoodKeys, Lt(a, b), Lt(b, c)
  PROVE  Lt(a, c)
<1>1. /\ a[1] \in Int /\ a[2] \in Nat /\ a[3] \in Nat /\ a[4] \in Nat
      /\ b[1] \in Int /\ b[2] \in Nat /\ b[3] \in Nat /\ b[4] \in Nat
      /\ c[1] \in Int /\ c[2] \in Nat /\ c[3] \in Nat /\ c[4] \in Nat
  BY KeyFields
<1>2. QED
  BY <1>1, CmpFields

\* So is Le, and the two mix.
LEMMA LeTrans ==
  ASSUME NEW a \in GoodKeys, NEW b \in GoodKeys, NEW c \in GoodKeys, Le(a, b), Le(b, c)
  PROVE  Le(a, c) /\ (Lt(a, b) \/ Lt(b, c) => Lt(a, c))
<1>1. (Lt(a, b) \/ a = b) /\ (Lt(b, c) \/ b = c)
  BY CmpTotal
<1>2. Lt(a, b) /\ Lt(b, c) => Lt(a, c)
  BY LtTrans
<1>3. Le(a, c) <=> Lt(a, c) \/ a = c
  BY CmpTotal
<1>4. QED
  BY <1>1, <1>2, <1>3, CmpTotal

-----------------------------------------------------------------------------
(* The tree on disk, as a value. *)

IsLeaf(m, id) == "leaf" \in m.nodes[id].flags
Count(m, id) == m.nodes[id].nkeys
KeyAt(m, id, i) == MemoryKey(m.type, m.hashed, m.nodes[id].keys[i])
ChildAt(m, id, i) ==
  m.nodes[id].vals[i].child + (IF m.type = "catalog" /\ m.sealed THEN m.root ELSE 0)
LastAt(m, id, i) ==
  IF IsLeaf(m, id) /\ m.type = "extentref"
  THEN [KeyAt(m, id, i) EXCEPT ![1] = @ + m.nodes[id].vals[i].blocks - 1] ELSE KeyAt(m, id, i)
KidsOf(m, id) == IF IsLeaf(m, id) THEN {} ELSE {ChildAt(m, id, i) : i \in 1..Count(m, id)}
Kids(m) == [id \in DOMAIN m.nodes |-> KidsOf(m, id)]
Under(m, id) == Reach(id, Kids(m))
Recs(m, S) == UNION {{<<id, i>> : i \in 1..Count(m, id)} : id \in S}
Leaves(m, S) == Recs(m, {id \in S : IsLeaf(m, id)})

\* These are what the model computes from the variable.
LEMMA Images ==
  /\ \A id : Node(id) = img.nodes[id] /\ node_is_leaf(Node(id)) = IsLeaf(img, id)
  /\ \A id : Node(id).nkeys = Count(img, id) /\ Records(Node(id)) = 1..Count(img, id)
  /\ \A id, i : Key(Node(id), i) = KeyAt(img, id, i) /\ Child(Node(id), i) = ChildAt(img, id, i)
  /\ \A id, i : LastKey(Node(id), i) = LastAt(img, id, i)
  BY DEF Node, node_is_leaf, IsLeaf, Records, Count, Key, KeyAt, Child, ChildAt, SealedCat, LastKey, LastAt

\* So are the sets of nodes and of records.
LEMMA ImageSets ==
  /\ \A id : Children(Node(id)) = KidsOf(img, id) /\ Subtree(id) = Under(img, id)
  /\ Tree = Under(img, img.root)
  /\ \A S : RecordsOf(S) = Recs(img, S) /\ LeafRecords(S) = Leaves(img, S)
  /\ \A r : KeyOf(r) = KeyAt(img, r[1], r[2])
<1>1. \A id : Children(Node(id)) = KidsOf(img, id)
  BY Images DEF Children, KidsOf
<1>2. [m \in DOMAIN img.nodes |-> Children(Node(m))] = Kids(img)
  BY <1>1 DEF Kids
<1>3. \A id : Subtree(id) = Under(img, id)
  BY <1>2 DEF Subtree, Under
<1>4. ASSUME NEW S PROVE RecordsOf(S) = Recs(img, S)
  <2> DEFINE A(m) == {<<m, i>> : i \in Records(Node(m))}
             B(m) == {<<m, i>> : i \in 1..Count(img, m)}
  <2>1. \A m : A(m) = B(m)
    BY Images
  <2>2. RecordsOf(S) = UNION {A(m) : m \in S} /\ Recs(img, S) = UNION {B(m) : m \in S}
    BY DEF RecordsOf, Recs
  <2> HIDE DEF A, B
  <2>3. QED
    BY <2>1, <2>2
<1>5. \A S : {m \in S : node_is_leaf(Node(m))} = {m \in S : IsLeaf(img, m)}
  BY Images
<1>6. \A S : LeafRecords(S) = Leaves(img, S)
  BY <1>4, <1>5 DEF LeafRecords, Leaves
<1>7. QED
  BY <1>1, <1>3, <1>4, <1>6, Images DEF Tree, KeyOf

\* Types of what a tree on disk has.
LEMMA NodeTypes ==
  ASSUME NEW m, OnDisk(m), NEW id \in DOMAIN m.nodes
  PROVE  /\ Count(m, id) \in Nat
         /\ \A i \in 1..Count(m, id) :
              /\ KeyAt(m, id, i) \in GoodKeys /\ ChildAt(m, id, i) \in Nat
              /\ m.nodes[id].vals[i].blocks \in Nat
<1>1. NodeOnDisk(m.nodes[id]) /\ m.root \in Nat
  BY DEF OnDisk
<1>2. Count(m, id) \in Nat
  BY <1>1 DEF NodeOnDisk, Count
<1>3. ASSUME NEW i \in 1..Count(m, id) PROVE KeyAt(m, id, i) \in GoodKeys
  <2> DEFINE raw == m.nodes[id].keys[i]
  <2>1. RawKeyOnDisk(raw)
    BY <1>1, <1>3 DEF NodeOnDisk, Count
  <2>2. raw.id \in Nat /\ raw.type \in Nat /\ raw.number \in Nat /\ raw.name \in Nat
        /\ (raw.type \in NamedTypes => raw.name # 0)
    BY <2>1 DEF RawKeyOnDisk, Named, NamedTypes
  <2> HIDE DEF raw
  <2>3. MemoryKey(m.type, m.hashed, raw) \in GoodKeys
    <3>1. CASE m.type \in {"omap", "free_queue", "fext"}
      BY <2>2, <3>1 DEF MemoryKey, GoodKeys, NamedTypes, DIR_REC, XATTR, SNAP_NAME
    <3>2. CASE m.type \in {"snapshots", "fusion_mt"}
      BY <2>2, <3>2 DEF MemoryKey, GoodKeys, NamedTypes, DIR_REC, XATTR, SNAP_NAME
    <3>3. CASE m.type \notin {"omap", "free_queue", "fext"} /\ m.type \notin {"snapshots", "fusion_mt"}
      <4> DEFINE num == IF raw.type \in {FILE_EXTENT, FILE_INFO, SIBLING_LINK} \/ (raw.type = DIR_REC /\ m.hashed)
                        THEN raw.number ELSE 0
                 nam == IF Named(raw) THEN raw.name ELSE 0
      <4>1. MemoryKey(m.type, m.hashed, raw) = <<raw.id, raw.type, num, nam>>
        BY <3>3 DEF MemoryKey
      <4>2. num \in Nat /\ nam \in Nat /\ (nam = 0 <=> raw.type \notin NamedTypes)
        BY <2>2 DEF Named, NamedTypes
      <4> HIDE DEF num, nam
      <4>3. QED
        BY <2>2, <4>1, <4>2 DEF GoodKeys
    <3>4. QED
      BY <3>1, <3>2, <3>3
  <2>4. QED
    BY <2>3 DEF KeyAt, raw
<1>4. ASSUME NEW i \in 1..Count(m, id)
      PROVE  ChildAt(m, id, i) \in Nat /\ m.nodes[id].vals[i].blocks \in Nat
  <2>1. {m.nodes[id].vals[i].child, m.nodes[id].vals[i].blocks} \subseteq Nat
    BY <1>1, <1>4 DEF NodeOnDisk, Count
  <2>2. QED
    BY <1>1, <2>1 DEF ChildAt
<1>5. QED
  BY <1>2, <1>3, <1>4

-----------------------------------------------------------------------------
(* The steps that report nothing. *)

\* Where the parser is: a query leaves it where it was.
Ph(p, q) == IF q.state = "running" THEN q.back ELSE p
Heads == {"key_list", "value_list", "enter"}
Pending == {"read"} \cup Heads
ParsePcs == {"start", "record", "footer", "parsed"} \cup Pending

\* A parse_*_btree() function begins with a fresh frame for the root.
LEMMA StartTreeStep ==
  ASSUME StartTree, pc' # "reported"
  PROVE  /\ pc = "start" /\ pc' = (IF Missing THEN "parsed" ELSE "read")
         /\ cur' = Frame(img.root, img.root_hash)
         /\ UNCHANGED <<img, walk, stack, last, seen, stats, query>>
  BY DEF StartTree, Check, Report

\* read_node() goes on to the lists of a node with a good header and marks it as seen.
LEMMA ReadNodeStep ==
  ASSUME ReadNode, pc' # "reported"
  PROVE  /\ pc = "read" /\ pc' = "key_list" /\ Readable(cur.id) /\ HeaderOK(Node(cur.id))
         /\ seen' = (IF Querying THEN seen ELSE seen \cup {cur.id})
         /\ walk' = [off |-> Node(cur.id).kfree.off, total |-> Node(cur.id).kfree.len]
         /\ UNCHANGED <<img, cur, stack, last, stats, query>>
  BY DEF ReadNode, Check, Report

\* An entry of the list of free keys is added to the bitmap of free keys.
LEMMA WalkKeyListStep ==
  ASSUME WalkKeyList, pc' # "reported"
  PROVE  LET n == Node(cur.id)
             e == Entry(n.kraw, walk.off)
         IN  /\ pc = "key_list" /\ pc' = pc /\ WalkGoesOn /\ KeyEntryOK(n, walk.off)
             /\ cur' = [cur EXCEPT !.fk = @ \cup (walk.off .. (walk.off + e.len - 1))]
             /\ walk' = [off |-> e.off, total |-> walk.total - e.len]
             /\ UNCHANGED <<img, stack, last, seen, stats, query>>
  BY DEF WalkKeyList, Check, Report

\* The list of free keys must end before that of free values is read.
LEMMA EndKeyListStep ==
  ASSUME EndKeyList, pc' # "reported"
  PROVE  /\ pc = "key_list" /\ pc' = "value_list" /\ walk.off = INVALID
         /\ walk' = [off |-> Node(cur.id).vfree.off, total |-> Node(cur.id).vfree.len]
         /\ UNCHANGED <<img, cur, stack, last, seen, stats, query>>
  BY DEF EndKeyList, Check, Report

\* An entry of the list of free values is added to the bitmap of free values.
LEMMA WalkValListStep ==
  ASSUME WalkValList, pc' # "reported"
  PROVE  LET n == Node(cur.id)
             e == Entry(n.vraw, walk.off)
         IN  /\ pc = "value_list" /\ pc' = pc /\ WalkGoesOn /\ ValEntryOK(n, walk.off)
             /\ cur' = [cur EXCEPT !.fv = @ \cup FreeVal(n, walk.off)]
             /\ walk' = [off |-> e.off, total |-> walk.total - e.len]
             /\ UNCHANGED <<img, stack, last, seen, stats, query>>
  BY DEF WalkValList, Check, Report

\* The list of free values must end before the node is used.
LEMMA EndValListStep ==
  ASSUME EndValList, pc' # "reported"
  PROVE  /\ pc = "value_list" /\ pc' = "enter" /\ walk.off = INVALID
         /\ UNCHANGED <<img, cur, walk, stack, last, seen, stats, query>>
  BY DEF EndValList, Check, Report

\* parse_subtree() is called for a node that fits its parent, and counts it.
LEMMA EnterNodeStep ==
  ASSUME EnterNode, pc' # "reported"
  PROVE  /\ pc = "enter" /\ pc' = "record" /\ ~Querying
         /\ ChildOK(Node(cur.id)) /\ NodeOK(Node(cur.id))
         /\ stack' = Append(stack, cur)
         /\ stats' = [stats EXCEPT !.keys = @ + (IF node_is_leaf(Node(cur.id)) THEN Node(cur.id).nkeys ELSE 0),
                                   !.nodes = @ + 1]
         /\ UNCHANGED <<img, cur, walk, last, seen, query>>
  BY DEF EnterNode, Check, Report

\* What ReadRecord does with the record in its place.
LEMMA ReadRecordStep ==
  ASSUME ReadRecord, pc' # "reported"
  PROVE  LET n == Node(Top.id)
             i == Top.i + 1
         IN  /\ pc = "record" /\ Top.i < n.nkeys
             /\ \E len \in ValLens(n, i) :
                  /\ RecordOK(n, i, len)
                  /\ stack' = SetTop([Top EXCEPT !.i = i, !.uk = @ \cup KeyCells(n, i),
                                        !.uv = @ \cup {c \in ValCells(n, i, len) : c < ValArea(n)}])
                  /\ stats' = [stats EXCEPT
                       !.longest_key = IF KeyLen(n, i) > @ THEN KeyLen(n, i) ELSE @,
                       !.longest_val = IF node_is_leaf(n) /\ len > @ THEN len ELSE @]
             /\ last' = LastKey(n, i)
             /\ IF node_is_leaf(n) THEN UNCHANGED <<pc, cur>>
                ELSE cur' = Frame(Child(n, i), n.vals[i].hash) /\ pc' = "read"
             /\ UNCHANGED <<img, walk, seen, query>>
<1> DEFINE n == Node(Top.id)
           i == Top.i + 1
<1>1. pc = "record" /\ Top.i < n.nkeys
  BY DEF ReadRecord
<1> DEFINE Step(len) ==
             /\ stack' = SetTop([Top EXCEPT !.i = i, !.uk = @ \cup KeyCells(n, i),
                                        !.uv = @ \cup {c \in ValCells(n, i, len) : c < ValArea(n)}])
             /\ last' = LastKey(n, i)
             /\ stats' = [stats EXCEPT
                     !.longest_key = IF KeyLen(n, i) > @ THEN KeyLen(n, i) ELSE @,
                     !.longest_val = IF node_is_leaf(n) /\ len > @ THEN len ELSE @]
             /\ IF node_is_leaf(n) THEN UNCHANGED <<pc, cur>>
                ELSE /\ cur' = Frame(Child(n, i), n.vals[i].hash)
                     /\ pc' = "read"
             /\ UNCHANGED <<img, walk, seen, query>>
<1>2. \E len \in ValLens(n, i) : Check(RecordOK(n, i, len), Step(len)) \/ (Overruns(n, i, len) /\ Report)
  BY DEF ReadRecord
<1> HIDE DEF Step
<1>3. \E len \in ValLens(n, i) : RecordOK(n, i, len) /\ Step(len)
  BY <1>2 DEF Check, Report
<1>4. QED
  BY <1>1, <1>3 DEF Step

\* parse_subtree() returns if the bitmaps of the node match.
LEMMA EndNodeStep ==
  ASSUME EndNode, pc' # "reported"
  PROVE  /\ pc = "record" /\ Top.i = Node(Top.id).nkeys /\ BmapsMatch(Node(Top.id), Top)
         /\ stack' = SubSeq(stack, 1, Len(stack) - 1)
         /\ pc' = (IF Len(stack) = 1 THEN "footer" ELSE "record")
         /\ UNCHANGED <<img, cur, walk, last, seen, stats, query>>
  BY DEF EndNode, Check, Report

\* The tree is accepted if its footer is right.
LEMMA CheckFooterStep ==
  ASSUME CheckFooter, pc' # "reported"
  PROVE  /\ pc = "footer" /\ pc' = "parsed" /\ FooterOK(img.info)
         /\ UNCHANGED <<img, cur, walk, stack, last, seen, stats, query>>
  BY DEF CheckFooter, Check, Report

\* A query begins in the root, while the tree is parsed or after it.
LEMMA StartQueryStep ==
  ASSUME StartQuery
  PROVE  /\ pc \in {"parsed", "record"} /\ pc' = "bisect" /\ query.state = "idle"
         /\ ~SealedCat /\ img.type \in {"catalog", "extentref", "fext"} /\ (pc = "parsed" => ~Missing)
         /\ \E l \in Lookups :
              query' = [NoQuery EXCEPT !.state = "running", !.key = LookupKey(l[1], l[2]),
                                       !.node = img.root, !.index = Node(img.root).nkeys, !.back = pc]
         /\ UNCHANGED <<img, cur, walk, stack, last, seen, stats>>
  BY DEF StartQuery, MayLookUp

\* A query begins again in a child, unless it is too deep.
LEMMA EnterChildStep ==
  ASSUME EnterChild, pc' # "reported"
  PROVE  /\ pc = "enter" /\ pc' = "bisect" /\ Querying
         /\ query' = [query EXCEPT !.node = cur.id, !.index = Node(cur.id).nkeys,
                                     !.left = 0, !.right = 0, !.cmp = 1, !.depth = @ + 1]
         /\ UNCHANGED <<img, cur, walk, stack, last, seen, stats>>
  BY DEF EnterChild, Check, Report

\* node_query() fails with nothing left in its range, or narrows it.
LEMMA BisectStep ==
  ASSUME Bisect, pc' # "reported"
  PROVE  /\ pc = "bisect" /\ UNCHANGED <<img, cur, walk, stack, last, seen, stats>>
         /\ \/ /\ NothingLeft(query) /\ img.type = "extentref"
               /\ query' = [query EXCEPT !.state = "failed"] /\ pc' = query.back
            \/ /\ ~NothingLeft(query) /\ query' = Bisected(query)
               /\ pc' = IF Bisecting(Bisected(query)) THEN "bisect" ELSE "bisected"
  BY DEF Bisect, QueryFails, Check, Report

\* The end of node_query(): a failure, the record of a leaf, or a child to read.
LEMMA EndBisectionStep ==
  ASSUME EndBisection, pc' # "reported"
  PROVE  LET n == Node(query.node)
         IN  /\ pc = "bisected" /\ UNCHANGED <<img, walk, stack, last, seen, stats>>
             /\ \/ /\ query.cmp > 0 /\ UNCHANGED cur
                   /\ query' = [query EXCEPT !.state = "failed"] /\ pc' = query.back
                \/ /\ ~(query.cmp > 0) /\ node_is_leaf(n) /\ UNCHANGED cur
                   /\ query' = [query EXCEPT !.state = "found"] /\ pc' = query.back
                \/ /\ ~(query.cmp > 0) /\ ~node_is_leaf(n) /\ UNCHANGED query
                   /\ cur' = Frame(Child(n, query.index + 1), 0) /\ pc' = "read"
  BY DEF EndBisection, QueryFails, Check, Report

\* Every step is one of these.
LEMMA Alternatives ==
  ASSUME [Next]_vars
  PROVE  \/ StartTree \/ ReadNode \/ WalkKeyList \/ EndKeyList \/ WalkValList \/ EndValList
         \/ EnterNode \/ ReadRecord \/ EndNode \/ CheckFooter
         \/ StartQuery \/ EnterChild \/ Bisect \/ EndBisection \/ UNCHANGED vars
  BY DEF Next, Terminated

-----------------------------------------------------------------------------
(* What the variables hold, and where. *)

FrameT == [id : Nat, i : Nat, fk : SUBSET Int, fv : SUBSET Int, uk : SUBSET Int, uv : SUBSET Int, hash : Nat]
WalkT == [off : Offset, total : Int]
StatsT == [keys : Int, nodes : Int, longest_key : Int, longest_val : Int]
QueryT == [state : {"idle", "running", "found", "failed"}, key : GoodKeys, node : Nat, left : Int,
           right : Int, index : Int, cmp : Int, depth : Nat, back : {"record", "parsed"}]

\* A frame that is being read for its node.
FreshT(c) == c \in FrameT /\ c.i = 0 /\ c.uk = {} /\ c.uv = {}
\* The nodes in the calls of parse_subtree(), and how far they are read.
StackT(m, st) ==
  /\ st \in Seq(FrameT)
  /\ \A k \in 1..Len(st) : st[k].id \in DOMAIN m.nodes /\ st[k].i <= Count(m, st[k].id)
\* The range of a bisection.
BoundsT(m, q) ==
  /\ q.node \in DOMAIN m.nodes /\ 0 <= q.left /\ q.left <= q.index
  /\ q.cmp > 0 => q.index <= Count(m, q.node)
  /\ ~(q.cmp > 0) => q.index <= q.right /\ q.right < Count(m, q.node)
\* The root is read first.
RootRead(m, p, c, se) ==
  \/ m.root \in se \/ p = "start" \/ (p = "read" /\ c.id = m.root)
  \/ (p = "parsed" /\ m.root = 0 /\ m.type \in {"free_queue", "fusion_mt"})

PlaceT(p, q) ==
  /\ q.state = "running" => p \in {"bisect", "bisected"} \cup Pending
  /\ q.state # "running" => p \in ParsePcs

Shape ==
  /\ OnDisk(img)
  /\ pc # "reported" =>
       /\ FreshT(cur) /\ StackT(img, stack) /\ walk \in WalkT /\ seen \subseteq DOMAIN img.nodes
       /\ stats \in StatsT /\ query \in QueryT /\ PlaceT(pc, query)
       /\ Ph(pc, query) = "record" => stack # <<>>
       /\ pc \in Heads => cur.id \in DOMAIN img.nodes
       /\ RootRead(img, Ph(pc, query), cur, seen)
       /\ pc \in {"bisect", "bisected"} => BoundsT(img, query)

\* The first frame.
LEMMA FrameFresh ==
  ASSUME NEW id \in Nat, NEW hash \in Nat
  PROVE  FreshT(Frame(id, hash)) /\ Frame(id, hash).id = id
  BY DEF Frame, FreshT, FrameT

\* The lists of a node on disk.
LEMMA ListTypes ==
  ASSUME NEW m, OnDisk(m), NEW id \in DOMAIN m.nodes
  PROVE  /\ ListOnDisk(m.nodes[id].kfree, m.nodes[id].kraw) /\ ListOnDisk(m.nodes[id].vfree, m.nodes[id].vraw)
         /\ m.nodes[id].nkeys \in Nat /\ m.nodes[id].level \in Nat /\ m.nodes[id].xid \in Nat
         /\ m.nodes[id].table.off \in Nat /\ m.nodes[id].table.len \in Nat
         /\ m.nodes[id].free.off \in Nat /\ m.nodes[id].free.len \in Nat
         /\ m.root \in Nat /\ m.root_hash \in Nat /\ id \in Nat
         /\ \A i \in 1..m.nodes[id].nkeys :
              m.nodes[id].toc[i] \in [k : Nat, klen : Nat, v : Offset, vlen : Nat] /\ m.nodes[id].vals[i].hash \in Nat
<1>1. NodeOnDisk(m.nodes[id]) /\ m.root \in Nat /\ m.root_hash \in Nat /\ id \in Nat
  BY DEF OnDisk
<1>2. QED
  BY <1>1 DEF NodeOnDisk

\* An entry of a list.
LEMMA EntryTypes ==
  ASSUME NEW head, NEW list, ListOnDisk(head, list), NEW off
  PROVE  Entry(list, off).off \in Offset /\ Entry(list, off).len \in Nat
<1>1. CASE off \in DOMAIN list
  <2>1. list[off] \in [off : Offset, len : Nat]
    BY <1>1 DEF ListOnDisk
  <2>2. QED
    BY <1>1, <2>1 DEF Entry
<1>2. CASE off \notin DOMAIN list
  BY <1>2 DEF Entry, Offset
<1>3. QED
  BY <1>1, <1>2

\* Where a query leaves the parser.
LEMMA PhaseOf ==
  ASSUME NEW p, NEW q, PlaceT(p, q), q \in QueryT
  PROVE  /\ q.state # "running" => Ph(p, q) = p
         /\ q.state = "running" => Ph(p, q) = q.back /\ q.back \in {"record", "parsed"}
         /\ p \in {"start", "record", "footer", "parsed"} => q.state # "running"
         /\ p \in {"bisect", "bisected"} => q.state = "running"
  BY DEF PlaceT, Ph, QueryT, Pending, Heads, ParsePcs

\* The variables have their types at the start.
LEMMA ShapeInit == ASSUME Init PROVE Shape
<1>1. FreshT(Frame(0, 0))
  BY FrameFresh
<1>2. /\ OnDisk(img) /\ pc = "start" /\ cur = Frame(0, 0) /\ walk = [off |-> 0, total |-> 0]
      /\ stack = <<>> /\ last = NoKey /\ seen = {} /\ stats = NoStats /\ query = NoQuery
  BY DEF Init
<1>3. StackT(img, <<>>) /\ [off |-> 0, total |-> 0] \in WalkT /\ NoStats \in StatsT
  BY DEF StackT, WalkT, Offset, NoStats, StatsT
<1>4. NoKey \in GoodKeys
  BY DEF NoKey, GoodKeys, NamedTypes, DIR_REC, XATTR, SNAP_NAME
<1>5. NoQuery \in QueryT /\ NoQuery.state = "idle"
  BY <1>4 DEF NoQuery, QueryT
<1>6. PlaceT("start", NoQuery) /\ Ph("start", NoQuery) = "start"
  BY <1>5 DEF PlaceT, Ph, ParsePcs
<1>7. QED
  BY <1>1, <1>2, <1>3, <1>5, <1>6 DEF Shape, RootRead, Heads

\* The facts of a state in which nothing is reported.
LEMMA ShapeFacts ==
  ASSUME Shape, pc # "reported"
  PROVE  /\ OnDisk(img) /\ FreshT(cur) /\ StackT(img, stack) /\ walk \in WalkT
         /\ seen \subseteq DOMAIN img.nodes /\ stats \in StatsT /\ query \in QueryT /\ PlaceT(pc, query)
         /\ (Ph(pc, query) = "record" => stack # <<>>)
         /\ (pc \in Heads => cur.id \in DOMAIN img.nodes)
         /\ RootRead(img, Ph(pc, query), cur, seen)
         /\ (pc \in {"bisect", "bisected"} => BoundsT(img, query))
  BY DEF Shape

\* The frame on top.
LEMMA TopFacts ==
  ASSUME Shape, pc # "reported", Ph(pc, query) = "record"
  PROVE  /\ Len(stack) \in Nat /\ Len(stack) >= 1 /\ stack \in Seq(FrameT) /\ Top \in FrameT
         /\ Top.id \in DOMAIN img.nodes /\ Top.i \in Nat /\ Top.i <= Count(img, Top.id)
         /\ Count(img, Top.id) \in Nat
<1>1. OnDisk(img) /\ StackT(img, stack) /\ stack # <<>>
  BY ShapeFacts
<1>2. stack \in Seq(FrameT) /\ \A k \in 1..Len(stack) : stack[k].id \in DOMAIN img.nodes /\ stack[k].i <= Count(img, stack[k].id)
  BY <1>1 DEF StackT
<1>3. Len(stack) \in Nat /\ Len(stack) >= 1
  BY <1>1, <1>2
<1>4. Top \in FrameT /\ Top = stack[Len(stack)]
  BY <1>2, <1>3 DEF Top
<1>5. Top.i \in Nat /\ Top.id \in DOMAIN img.nodes /\ Top.i <= Count(img, Top.id)
  BY <1>2, <1>3, <1>4 DEF FrameT
<1>6. Count(img, Top.id) \in Nat
  BY <1>1, <1>5, NodeTypes
<1>7. QED
  BY <1>2, <1>3, <1>4, <1>5, <1>6

\* The first frame is that of the root.
LEMMA ShapeStartTree == ASSUME Shape, pc # "reported", StartTree, pc' # "reported" PROVE Shape'
<1>1. /\ pc = "start" /\ pc' = (IF Missing THEN "parsed" ELSE "read")
      /\ cur' = Frame(img.root, img.root_hash)
      /\ UNCHANGED <<img, walk, stack, last, seen, stats, query>>
  BY StartTreeStep
<1>2. img.root \in Nat /\ img.root_hash \in Nat
  BY ShapeFacts DEF OnDisk
<1>3. FreshT(cur') /\ cur'.id = img.root
  BY <1>1, <1>2, FrameFresh
<1>4. query.state # "running"
  BY <1>1, ShapeFacts, PhaseOf
<1>5. PlaceT(pc', query) /\ Ph(pc', query) = pc' /\ pc' \in {"parsed", "read"}
  BY <1>1, <1>4 DEF PlaceT, Ph, ParsePcs, Pending
<1>6. RootRead(img, pc', cur', seen)
  BY <1>1, <1>3 DEF RootRead, Missing
<1>7. QED
  BY <1>1, <1>3, <1>5, <1>6, ShapeFacts DEF Shape, Heads

\* A node that was read is on disk, and its block is marked.
LEMMA ShapeReadNode == ASSUME Shape, pc # "reported", ReadNode, pc' # "reported" PROVE Shape'
<1>1. /\ pc = "read" /\ pc' = "key_list" /\ Readable(cur.id)
      /\ seen' = (IF Querying THEN seen ELSE seen \cup {cur.id})
      /\ walk' = [off |-> Node(cur.id).kfree.off, total |-> Node(cur.id).kfree.len]
      /\ UNCHANGED <<img, cur, stack, last, stats, query>>
  BY ReadNodeStep
<1>2. cur.id \in DOMAIN img.nodes
  BY <1>1 DEF Readable
<1>3. Node(cur.id).kfree \in [off : Offset, len : Nat]
  BY <1>2, ShapeFacts, ListTypes DEF ListOnDisk, Node
<1>4. walk' \in WalkT
  BY <1>1, <1>3 DEF WalkT
<1>5. PlaceT(pc', query) /\ seen' \subseteq DOMAIN img.nodes
  BY <1>1, <1>2, ShapeFacts DEF PlaceT, ParsePcs, Pending, Heads
<1>6. CASE Querying
  <2>1. Ph(pc', query) = Ph(pc, query) /\ seen' = seen
    BY <1>1, <1>6 DEF Ph, Querying
  <2>2. QED
    BY <1>1, <1>2, <1>4, <1>5, <2>1, ShapeFacts DEF Shape
<1>7. CASE ~Querying
  <2>1. Ph(pc', query) = "key_list" /\ Ph(pc, query) = "read" /\ seen' = seen \cup {cur.id}
    BY <1>1, <1>7 DEF Ph, Querying
  <2>2. RootRead(img, "key_list", cur', seen')
    BY <1>1, <2>1, ShapeFacts DEF RootRead
  <2>3. QED
    BY <1>1, <1>2, <1>4, <1>5, <2>1, <2>2, ShapeFacts DEF Shape
<1>8. QED
  BY <1>6, <1>7

\* The walk over the free keys stays inside the list.
LEMMA ShapeWalkKeyList == ASSUME Shape, pc # "reported", WalkKeyList, pc' # "reported" PROVE Shape'
<1> DEFINE e == Entry(Node(cur.id).kraw, walk.off)
           cells == walk.off .. (walk.off + e.len - 1)
<1>1. /\ pc = "key_list" /\ pc' = pc
      /\ cur' = [cur EXCEPT !.fk = @ \cup cells]
      /\ walk' = [off |-> e.off, total |-> walk.total - e.len]
      /\ UNCHANGED <<img, stack, last, seen, stats, query>>
  BY WalkKeyListStep
<1>2. cur.id \in DOMAIN img.nodes /\ walk \in WalkT /\ OnDisk(img)
  BY <1>1, ShapeFacts DEF Heads
<1>3. ListOnDisk(Node(cur.id).kfree, Node(cur.id).kraw)
  BY <1>2, ListTypes DEF Node
<1>4. e.off \in Offset /\ e.len \in Nat
  BY <1>3, EntryTypes
<1>5. walk' \in WalkT
  <2> HIDE DEF e
  <2>1. QED
    BY <1>1, <1>2, <1>4 DEF WalkT
<1>6. cells \in SUBSET Int
  OBVIOUS
<1>7. FreshT(cur') /\ cur'.id = cur.id
  <2> HIDE DEF cells
  <2>1. FreshT(cur)
    BY ShapeFacts
  <2>2. QED
    BY <1>1, <1>6, <2>1 DEF FreshT, FrameT
<1>8. RootRead(img, Ph(pc, query), cur', seen)
  BY <1>7, ShapeFacts DEF RootRead
<1>9. QED
  BY <1>1, <1>5, <1>7, <1>8, ShapeFacts DEF Shape

\* The walk goes from one list to the other.
LEMMA ShapeEndKeyList == ASSUME Shape, pc # "reported", EndKeyList, pc' # "reported" PROVE Shape'
<1>1. /\ pc = "key_list" /\ pc' = "value_list"
      /\ walk' = [off |-> Node(cur.id).vfree.off, total |-> Node(cur.id).vfree.len]
      /\ UNCHANGED <<img, cur, stack, last, seen, stats, query>>
  BY EndKeyListStep
<1>2. cur.id \in DOMAIN img.nodes
  BY <1>1, ShapeFacts DEF Heads
<1>3. Node(cur.id).vfree \in [off : Offset, len : Nat]
  BY <1>2, ShapeFacts, ListTypes DEF ListOnDisk, Node
<1>4. walk' \in WalkT
  BY <1>1, <1>3 DEF WalkT
<1>5. PlaceT(pc', query) /\ (query.state = "running" => Ph(pc', query) = Ph(pc, query))
      /\ (query.state # "running" => Ph(pc', query) = "value_list" /\ Ph(pc, query) = "key_list")
  BY <1>1, ShapeFacts DEF PlaceT, ParsePcs, Pending, Heads, Ph
<1>6. RootRead(img, Ph(pc', query), cur, seen) /\ (Ph(pc', query) = "record" => stack # <<>>)
  BY <1>5, ShapeFacts DEF RootRead
<1>7. QED
  BY <1>1, <1>2, <1>4, <1>5, <1>6, ShapeFacts DEF Shape

\* The walk over the free values stays inside the list.
LEMMA ShapeWalkValList == ASSUME Shape, pc # "reported", WalkValList, pc' # "reported" PROVE Shape'
<1> DEFINE e == Entry(Node(cur.id).vraw, walk.off)
           cells == FreeVal(Node(cur.id), walk.off)
<1>1. /\ pc = "value_list" /\ pc' = pc
      /\ cur' = [cur EXCEPT !.fv = @ \cup cells]
      /\ walk' = [off |-> e.off, total |-> walk.total - e.len]
      /\ UNCHANGED <<img, stack, last, seen, stats, query>>
  BY WalkValListStep
<1>2. cur.id \in DOMAIN img.nodes /\ walk \in WalkT /\ OnDisk(img)
  BY <1>1, ShapeFacts DEF Heads
<1>3. ListOnDisk(Node(cur.id).vfree, Node(cur.id).vraw)
  BY <1>2, ListTypes DEF Node
<1>4. e.off \in Offset /\ e.len \in Nat
  BY <1>3, EntryTypes
<1>5. walk' \in WalkT
  <2> HIDE DEF e
  <2>1. QED
    BY <1>1, <1>2, <1>4 DEF WalkT
<1>6. cells \in SUBSET Int
  BY DEF FreeVal
<1>7. FreshT(cur') /\ cur'.id = cur.id
  <2> HIDE DEF cells
  <2>1. FreshT(cur)
    BY ShapeFacts
  <2>2. QED
    BY <1>1, <1>6, <2>1 DEF FreshT, FrameT
<1>8. RootRead(img, Ph(pc, query), cur', seen)
  BY <1>7, ShapeFacts DEF RootRead
<1>9. QED
  BY <1>1, <1>5, <1>7, <1>8, ShapeFacts DEF Shape

\* The lists end with the frame of the same node.
LEMMA ShapeEndValList == ASSUME Shape, pc # "reported", EndValList, pc' # "reported" PROVE Shape'
<1>1. /\ pc = "value_list" /\ pc' = "enter"
      /\ UNCHANGED <<img, cur, walk, stack, last, seen, stats, query>>
  BY EndValListStep
<1>2. cur.id \in DOMAIN img.nodes
  BY <1>1, ShapeFacts DEF Heads
<1>5. PlaceT(pc', query) /\ (query.state = "running" => Ph(pc', query) = Ph(pc, query))
      /\ (query.state # "running" => Ph(pc', query) = "enter" /\ Ph(pc, query) = "value_list")
  BY <1>1, ShapeFacts DEF PlaceT, ParsePcs, Pending, Heads, Ph
<1>6. RootRead(img, Ph(pc', query), cur, seen) /\ (Ph(pc', query) = "record" => stack # <<>>)
  BY <1>5, ShapeFacts DEF RootRead
<1>7. QED
  BY <1>1, <1>2, <1>5, <1>6, ShapeFacts DEF Shape

-----------------------------------------------------------------------------
(* What a step does to the stack. *)

Pushed(st, st2, f) ==
  /\ Len(st2) = Len(st) + 1 /\ st2[Len(st) + 1] = f
  /\ \A k \in 1..Len(st) : st2[k] = st[k]
Changed(st, st2, f) ==
  /\ Len(st) >= 1 /\ Len(st2) = Len(st) /\ st2[Len(st)] = f
  /\ \A k \in 1..(Len(st) - 1) : st2[k] = st[k]
Popped(st, st2) ==
  /\ Len(st) >= 1 /\ Len(st2) = Len(st) - 1
  /\ \A k \in 1..(Len(st) - 1) : st2[k] = st[k]

\* A call.
LEMMA PushStack ==
  ASSUME NEW m, NEW st, StackT(m, st), NEW f \in FrameT, f.id \in DOMAIN m.nodes, f.i <= Count(m, f.id)
  PROVE  StackT(m, Append(st, f)) /\ Pushed(st, Append(st, f), f) /\ Append(st, f) # <<>>
<1>1. st \in Seq(FrameT) /\ Len(st) \in Nat
  BY DEF StackT
<1>2. Append(st, f) \in Seq(FrameT) /\ Pushed(st, Append(st, f), f) /\ Append(st, f) # <<>>
  BY <1>1 DEF Pushed
<1>3. ASSUME NEW k \in 1..Len(Append(st, f))
      PROVE  Append(st, f)[k].id \in DOMAIN m.nodes /\ Append(st, f)[k].i <= Count(m, Append(st, f)[k].id)
  <2>1. CASE k \in 1..Len(st)
    BY <1>2, <2>1 DEF Pushed, StackT
  <2>2. CASE k = Len(st) + 1
    BY <1>2, <2>2 DEF Pushed
  <2>3. QED
    BY <1>1, <1>2, <2>1, <2>2 DEF Pushed
<1>4. QED
  BY <1>2, <1>3 DEF StackT

\* A record.
LEMMA ChangeStack ==
  ASSUME NEW m, NEW st, StackT(m, st), st # <<>>,
         NEW f \in FrameT, f.id \in DOMAIN m.nodes, f.i <= Count(m, f.id)
  PROVE  LET st2 == [st EXCEPT ![Len(st)] = f] IN StackT(m, st2) /\ Changed(st, st2, f) /\ st2 # <<>>
<1> DEFINE st2 == [st EXCEPT ![Len(st)] = f]
<1>1. st \in Seq(FrameT) /\ Len(st) \in Nat /\ Len(st) >= 1
  BY DEF StackT
<1>2. st2 \in Seq(FrameT) /\ Changed(st, st2, f)
  BY <1>1 DEF Changed
<1> HIDE DEF st2
<1>3. ASSUME NEW k \in 1..Len(st2)
      PROVE  st2[k].id \in DOMAIN m.nodes /\ st2[k].i <= Count(m, st2[k].id)
  <2>1. CASE k \in 1..(Len(st) - 1)
    <3>1. st2[k] = st[k] /\ k \in 1..Len(st)
      BY <1>1, <1>2, <2>1 DEF Changed
    <3>2. QED
      BY <3>1 DEF StackT
  <2>2. CASE k = Len(st)
    BY <1>2, <2>2 DEF Changed
  <2>3. QED
    BY <1>1, <1>2, <2>1, <2>2 DEF Changed
<1>5. st2 # <<>>
  BY <1>1, <1>2 DEF Changed
<1>4. QED
  BY <1>2, <1>3, <1>5 DEF StackT, st2

\* A return.
LEMMA PopStack ==
  ASSUME NEW m, NEW st, StackT(m, st), st # <<>>
  PROVE  LET st2 == SubSeq(st, 1, Len(st) - 1)
         IN  StackT(m, st2) /\ Popped(st, st2) /\ (Len(st) # 1 => st2 # <<>>) /\ (Len(st) = 1 => st2 = <<>>)
<1> DEFINE st2 == SubSeq(st, 1, Len(st) - 1)
<1>1. st \in Seq(FrameT) /\ Len(st) \in Nat /\ Len(st) >= 1
  BY DEF StackT
<1>2. st2 \in Seq(FrameT) /\ Popped(st, st2)
  <2> DEFINE len == Len(st) - 1
  <2>1. 1 \in Int /\ len \in Int /\ \A j \in 1..len : st[j] \in FrameT
    BY <1>1
  <2> HIDE DEF len
  <2>2. /\ SubSeq(st, 1, len) \in Seq(FrameT)
        /\ Len(SubSeq(st, 1, len)) = (IF 1 <= len THEN len - 1 + 1 ELSE 0)
        /\ \A j \in 1..(len - 1 + 1) : SubSeq(st, 1, len)[j] = st[1 + j - 1]
    BY <2>1, SubSeqProperties
  <2>4. st2 = SubSeq(st, 1, len)
    BY DEF len
  <2> HIDE DEF st2
  <2>5. len \in Nat /\ Len(st2) = len /\ \A j \in 1..len : st2[j] = st[j]
    <3>1. len \in Nat
      BY <1>1 DEF len
    <3>2. ASSUME NEW j \in 1..len PROVE st2[j] = st[j]
      <4>1. j \in 1..(len - 1 + 1) /\ 1 + j - 1 = j
        BY <3>1
      <4>2. QED
        BY <2>2, <2>4, <4>1
    <3>3. QED
      BY <2>2, <2>4, <3>1, <3>2
  <2>3. QED
    BY <1>1, <2>2, <2>4, <2>5 DEF Popped, len
<1>3. (Len(st) # 1 => st2 # <<>>) /\ (Len(st) = 1 => st2 = <<>>)
  <2> HIDE DEF st2
  <2>1. Len(st2) = Len(st) - 1
    BY <1>2 DEF Popped
  <2>2. QED
    BY <1>1, <1>2, <2>1, EmptySeq
<1> HIDE DEF st2
<1>4. ASSUME NEW k \in 1..Len(st2)
      PROVE  st2[k].id \in DOMAIN m.nodes /\ st2[k].i <= Count(m, st2[k].id)
  <2>1. st2[k] = st[k] /\ k \in 1..Len(st)
    BY <1>1, <1>2 DEF Popped
  <2>2. QED
    BY <2>1 DEF StackT
<1>5. QED
  BY <1>2, <1>3, <1>4 DEF StackT, st2

\* A call of parse_subtree() pushes the frame that was read.
LEMMA ShapeEnterNode ==
  ASSUME Shape, pc # "reported", EnterNode, pc' # "reported"
  PROVE  Shape' /\ Pushed(stack, stack', cur)
<1>1. /\ pc = "enter" /\ pc' = "record" /\ ~Querying
      /\ stack' = Append(stack, cur)
      /\ stats' = [stats EXCEPT !.keys = @ + (IF node_is_leaf(Node(cur.id)) THEN Node(cur.id).nkeys ELSE 0),
                                   !.nodes = @ + 1]
      /\ UNCHANGED <<img, cur, walk, last, seen, query>>
  BY EnterNodeStep
<1>2. cur.id \in DOMAIN img.nodes /\ FreshT(cur) /\ StackT(img, stack) /\ OnDisk(img)
  BY <1>1, ShapeFacts DEF Heads
<1>3. Count(img, cur.id) \in Nat /\ Node(cur.id).nkeys = Count(img, cur.id)
  BY <1>2, NodeTypes, Images
<1>4. cur \in FrameT /\ cur.i <= Count(img, cur.id)
  BY <1>2, <1>3 DEF FreshT
<1>5. StackT(img, stack') /\ Pushed(stack, stack', cur) /\ stack' # <<>>
  BY <1>1, <1>2, <1>4, PushStack
<1>6. stats' \in StatsT
  <2> DEFINE d == IF node_is_leaf(Node(cur.id)) THEN Node(cur.id).nkeys ELSE 0
  <2>1. d \in Nat /\ stats \in StatsT
    BY <1>3, ShapeFacts
  <2>2. stats' = [stats EXCEPT !.keys = @ + d, !.nodes = @ + 1]
    BY <1>1
  <2> HIDE DEF d
  <2>3. stats.keys + d \in Int /\ stats.nodes + 1 \in Int
    BY <2>1 DEF StatsT
  <2>4. QED
    BY <2>1, <2>2, <2>3 DEF StatsT
<1>7. PlaceT(pc', query) /\ Ph(pc, query) = "enter" /\ Ph(pc', query) = "record"
  BY <1>1 DEF PlaceT, ParsePcs, Ph, Querying
<1>8. RootRead(img, "record", cur, seen)
  BY <1>7, ShapeFacts DEF RootRead
<1>9. QED
  BY <1>1, <1>5, <1>6, <1>7, <1>8, ShapeFacts DEF Shape, Heads

\* Reading a record moves the last frame on by one, never past the last record.
LEMMA ShapeReadRecord ==
  ASSUME Shape, pc # "reported", ReadRecord, pc' # "reported"
  PROVE  /\ Shape' /\ Changed(stack, stack', stack'[Len(stack)])
         /\ stack'[Len(stack)].id = Top.id /\ stack'[Len(stack)].i = Top.i + 1
<1> DEFINE n == Node(Top.id)
           i == Top.i + 1
           f(len) == [Top EXCEPT !.i = i, !.uk = @ \cup KeyCells(n, i),
                                 !.uv = @ \cup {c \in ValCells(n, i, len) : c < ValArea(n)}]
           t(len) == [stats EXCEPT
                       !.longest_key = IF KeyLen(n, i) > @ THEN KeyLen(n, i) ELSE @,
                       !.longest_val = IF node_is_leaf(n) /\ len > @ THEN len ELSE @]
<1>1. /\ pc = "record" /\ Top.i < n.nkeys
      /\ \E len \in ValLens(n, i) : stack' = SetTop(f(len)) /\ stats' = t(len)
      /\ IF node_is_leaf(n) THEN UNCHANGED <<pc, cur>>
         ELSE cur' = Frame(Child(n, i), n.vals[i].hash) /\ pc' = "read"
      /\ UNCHANGED <<img, walk, seen, query>>
  BY ReadRecordStep
<1>2. PICK len \in ValLens(n, i) : stack' = SetTop(f(len)) /\ stats' = t(len)
  BY <1>1
<1>3. query.state # "running" /\ Ph(pc, query) = "record"
  BY <1>1, ShapeFacts, PhaseOf
<1>4. /\ Top \in FrameT /\ Top.id \in DOMAIN img.nodes /\ Top.i \in Nat /\ Count(img, Top.id) \in Nat
      /\ StackT(img, stack) /\ stack # <<>> /\ OnDisk(img)
  BY <1>3, TopFacts, ShapeFacts
<1>5. i \in 1..Count(img, Top.id) /\ n.nkeys = Count(img, Top.id) /\ n = img.nodes[Top.id]
  BY <1>1, <1>4, Images
<1>6. n.toc[i] \in [k : Nat, klen : Nat, v : Offset, vlen : Nat] /\ n.vals[i].hash \in Nat
      /\ Child(n, i) \in Nat
  <2>1. Child(n, i) = ChildAt(img, Top.id, i) /\ ChildAt(img, Top.id, i) \in Nat
    BY <1>4, <1>5, NodeTypes, Images
  <2>2. \A j \in 1..img.nodes[Top.id].nkeys :
          img.nodes[Top.id].toc[j] \in [k : Nat, klen : Nat, v : Offset, vlen : Nat] /\ img.nodes[Top.id].vals[j].hash \in Nat
    BY <1>4, ListTypes
  <2> HIDE DEF i
  <2>3. QED
    BY <1>5, <2>1, <2>2 DEF Node
<1>7. KeyLen(n, i) \in Int /\ len \in Int
  <2> HIDE DEF n, i
  <2>1. QED
    BY <1>6, <1>2 DEF KeyLen, FixedKeyLen, ValLens, FixedValLen
<1>8. KeyCells(n, i) \in SUBSET Int /\ {c \in ValCells(n, i, len) : c < ValArea(n)} \in SUBSET Int
  BY DEF KeyCells, ValCells
<1>9. f(len) \in FrameT /\ f(len).id = Top.id /\ f(len).i = i
  <2> DEFINE a == KeyCells(n, i)
             b == {c \in ValCells(n, i, len) : c < ValArea(n)}
  <2>1. f(len) = [Top EXCEPT !.i = i, !.uk = @ \cup a, !.uv = @ \cup b] /\ a \in SUBSET Int /\ b \in SUBSET Int /\ i \in Nat
    BY <1>4, <1>8
  <2> HIDE DEF a, b, i, f
  <2>2. QED
    BY <1>4, <2>1 DEF FrameT
<1>10. t(len) \in StatsT
  <2> DEFINE a == KeyLen(n, i)
  <2>1. t(len) = [stats EXCEPT !.longest_key = IF a > @ THEN a ELSE @,
                       !.longest_val = IF node_is_leaf(n) /\ len > @ THEN len ELSE @]
    OBVIOUS
  <2> HIDE DEF a, n, t
  <2>2. QED
    BY <2>1, <1>7, ShapeFacts DEF StatsT, a
<1> HIDE DEF f, t
<1>11. /\ StackT(img, stack') /\ Changed(stack, stack', f(len)) /\ stack' # <<>>
  <2>1. f(len).i <= Count(img, f(len).id)
    BY <1>5, <1>9
  <2>2. QED
    BY <1>2, <1>4, <1>9, <2>1, ChangeStack DEF SetTop
<1>12. stack'[Len(stack)] = f(len)
  BY <1>11 DEF Changed
<1>13. FreshT(cur')
  BY <1>1, <1>6, ShapeFacts, FrameFresh
<1>14. PlaceT(pc', query) /\ Ph(pc', query) = pc' /\ pc' \in {"record", "read"}
  BY <1>1, <1>3 DEF PlaceT, ParsePcs, Ph, Pending
<1>15. img.root \in seen
  BY <1>3, ShapeFacts DEF RootRead
<1>16. RootRead(img, pc', cur', seen)
  BY <1>15 DEF RootRead
<1>17. Shape'
  <2> HIDE DEF n, i
  <2>1. /\ UNCHANGED <<img, walk, seen, query>> /\ stats' \in StatsT
    BY <1>1, <1>2, <1>10
  <2>2. QED
    BY <1>11, <1>13, <1>14, <1>16, <2>1, ShapeFacts DEF Shape, Heads
<1>18. QED
  BY <1>9, <1>11, <1>12, <1>17

\* A return of parse_subtree() pops the last frame.
LEMMA ShapeEndNode ==
  ASSUME Shape, pc # "reported", EndNode, pc' # "reported"
  PROVE  Shape' /\ Popped(stack, stack')
<1>1. /\ pc = "record" /\ stack' = SubSeq(stack, 1, Len(stack) - 1)
      /\ pc' = (IF Len(stack) = 1 THEN "footer" ELSE "record")
      /\ UNCHANGED <<img, cur, walk, last, seen, stats, query>>
  BY EndNodeStep
<1>2. query.state # "running" /\ Ph(pc, query) = "record"
  BY <1>1, ShapeFacts, PhaseOf
<1>3. StackT(img, stack) /\ stack # <<>>
  BY <1>2, ShapeFacts
<1>4. StackT(img, stack') /\ Popped(stack, stack') /\ (Len(stack) # 1 => stack' # <<>>)
  BY <1>1, <1>3, PopStack
<1>5. PlaceT(pc', query) /\ Ph(pc', query) = pc' /\ pc' \in {"record", "footer"}
  BY <1>1, <1>2 DEF PlaceT, ParsePcs, Ph
<1>6. RootRead(img, pc', cur, seen)
  BY <1>2, ShapeFacts DEF RootRead
<1>7. QED
  BY <1>1, <1>4, <1>5, <1>6, ShapeFacts DEF Shape, Heads

\* The footer is checked with no frame left.
LEMMA ShapeCheckFooter == ASSUME Shape, pc # "reported", CheckFooter, pc' # "reported" PROVE Shape'
<1>1. /\ pc = "footer" /\ pc' = "parsed"
      /\ UNCHANGED <<img, cur, walk, stack, last, seen, stats, query>>
  BY CheckFooterStep
<1>2. query.state # "running" /\ Ph(pc, query) = "footer"
  BY <1>1, ShapeFacts, PhaseOf
<1>5. PlaceT(pc', query) /\ Ph(pc', query) = pc'
  BY <1>1, <1>2 DEF PlaceT, ParsePcs, Ph
<1>6. RootRead(img, pc', cur, seen)
  BY <1>2, ShapeFacts DEF RootRead
<1>7. QED
  BY <1>1, <1>5, <1>6, ShapeFacts DEF Shape, Heads

\* The key that is looked up.
LEMMA LookupGood ==
  ASSUME img.type \in {"catalog", "extentref", "fext"}, NEW id \in Nat, NEW number \in Nat
  PROVE  LookupKey(id, number) \in GoodKeys
  BY DEF LookupKey, GoodKeys, NamedTypes, FILE_EXTENT, EXTENT, DIR_REC, XATTR, SNAP_NAME

\* A query begins with the whole table of contents of the root.
LEMMA ShapeStartQuery ==
  ASSUME Shape, pc # "reported", StartQuery
  PROVE  Shape' /\ Ph(pc', query') = Ph(pc, query) /\ query'.state = "running"
<1>1. /\ pc \in {"parsed", "record"} /\ pc' = "bisect" /\ query.state = "idle"
      /\ ~SealedCat /\ img.type \in {"catalog", "extentref", "fext"} /\ (pc = "parsed" => ~Missing)
      /\ UNCHANGED <<img, cur, walk, stack, last, seen, stats>>
  BY StartQueryStep
<1>2. PICK l \in Lookups :
        query' = [NoQuery EXCEPT !.state = "running", !.key = LookupKey(l[1], l[2]),
                                 !.node = img.root, !.index = Node(img.root).nkeys, !.back = pc]
  BY StartQueryStep
<1>3. l[1] \in Nat /\ l[2] \in Nat
  BY BtreeAssumption
<1>4. LookupKey(l[1], l[2]) \in GoodKeys
  BY <1>1, <1>3, LookupGood
<1>5. Ph(pc, query) = pc
  BY <1>1, ShapeFacts, PhaseOf
<1>6. img.root \in seen
  BY <1>1, <1>5, ShapeFacts DEF RootRead, Missing
<1>7. img.root \in DOMAIN img.nodes /\ OnDisk(img)
  BY <1>6, ShapeFacts
<1>8. Count(img, img.root) \in Nat /\ Node(img.root).nkeys = Count(img, img.root) /\ img.root \in Nat
  BY <1>7, NodeTypes, Images DEF OnDisk
<1>9. query' \in QueryT /\ query'.state = "running" /\ query'.back = pc /\ BoundsT(img, query')
  <2> DEFINE c == Node(img.root).nkeys
             key == LookupKey(l[1], l[2])
  <2>1. c \in Nat /\ key \in GoodKeys /\ c = Count(img, img.root)
    BY <1>4, <1>8
  <2>2. query' = [NoQuery EXCEPT !.state = "running", !.key = key,
                                 !.node = img.root, !.index = c, !.back = pc]
    BY <1>2
  <2> HIDE DEF c, key
  <2>3. query' = [state |-> "running", key |-> key, node |-> img.root, left |-> 0, right |-> 0,
                  index |-> c, cmp |-> 1, depth |-> 0, back |-> pc]
    BY <2>2 DEF NoQuery
  <2>4. query' \in QueryT
    BY <1>1, <1>8, <2>1, <2>3 DEF QueryT
  <2>5. BoundsT(img, query')
    BY <1>7, <2>1, <2>3 DEF BoundsT
  <2>6. QED
    BY <2>3, <2>4, <2>5
<1>10. PlaceT(pc', query') /\ Ph(pc', query') = pc
  BY <1>1, <1>9 DEF PlaceT, Ph
<1>11. QED
  BY <1>1, <1>5, <1>9, <1>10, ShapeFacts DEF Shape, Heads

\* In a child it begins with the whole table of contents of the child.
LEMMA ShapeEnterChild ==
  ASSUME Shape, pc # "reported", EnterChild, pc' # "reported"
  PROVE  Shape' /\ Ph(pc', query') = Ph(pc, query) /\ query'.state = "running"
<1>1. /\ pc = "enter" /\ pc' = "bisect" /\ Querying
      /\ query' = [query EXCEPT !.node = cur.id, !.index = Node(cur.id).nkeys,
                                     !.left = 0, !.right = 0, !.cmp = 1, !.depth = @ + 1]
      /\ UNCHANGED <<img, cur, walk, stack, last, seen, stats>>
  BY EnterChildStep
<1>2. cur.id \in DOMAIN img.nodes /\ query \in QueryT /\ OnDisk(img) /\ query.state = "running"
  BY <1>1, ShapeFacts DEF Heads, Querying
<1>3. Node(cur.id).nkeys = Count(img, cur.id) /\ Count(img, cur.id) \in Nat /\ cur.id \in Nat
  BY <1>2, NodeTypes, Images DEF OnDisk
<1>8. query' = [state |-> "running", key |-> query.key, node |-> cur.id, left |-> 0, right |-> 0,
                index |-> Node(cur.id).nkeys, cmp |-> 1, depth |-> query.depth + 1, back |-> query.back]
  BY <1>1, <1>2 DEF QueryT
<1>9. query.key \in GoodKeys /\ query.depth + 1 \in Nat /\ query.back \in {"record", "parsed"}
  BY <1>2 DEF QueryT
<1>4. query' \in QueryT /\ query'.state = "running" /\ query'.back = query.back
  BY <1>3, <1>8, <1>9 DEF QueryT
<1>5. BoundsT(img, query')
  BY <1>2, <1>3, <1>8 DEF BoundsT
<1>6. PlaceT(pc', query') /\ Ph(pc', query') = Ph(pc, query)
  BY <1>1, <1>2, <1>4 DEF PlaceT, Ph
<1>7. QED
  BY <1>1, <1>4, <1>5, <1>6, ShapeFacts DEF Shape, Heads

\* One more comparison keeps to the range.
LEMMA BisectedBounds ==
  ASSUME NEW q \in QueryT, OnDisk(img), BoundsT(img, q), ~NothingLeft(q)
  PROVE  /\ Bisected(q) \in QueryT /\ Bisected(q).state = q.state /\ Bisected(q).back = q.back
         /\ Bisected(q).node = q.node /\ BoundsT(img, Bisected(q)) /\ Bisected(q).key = q.key
         /\ Bisected(q).left = (IF q.cmp > 0 THEN q.left ELSE q.index)
         /\ Bisected(q).right = (IF q.cmp > 0 THEN q.index - 1 ELSE q.right)
         /\ Bisected(q).left <= Bisected(q).index /\ Bisected(q).index <= Bisected(q).right
         /\ Bisected(q).right < Count(img, q.node)
         /\ Bisected(q).cmp = keycmp(KeyAt(img, q.node, Bisected(q).index + 1), q.key)
<1> DEFINE left == IF q.cmp > 0 THEN q.left ELSE q.index
           right == IF q.cmp > 0 THEN q.index - 1 ELSE q.right
           index == Middle(q, left, right)
           cmp == keycmp(Key(Node(q.node), index + 1), q.key)
<1>1. /\ q.left \in Int /\ q.index \in Int /\ q.right \in Int /\ q.cmp \in Int
      /\ q.node \in DOMAIN img.nodes /\ 0 <= q.left /\ q.left <= q.index
      /\ (q.cmp > 0 => q.index <= Count(img, q.node))
      /\ (~(q.cmp > 0) => q.index <= q.right /\ q.right < Count(img, q.node))
      /\ Count(img, q.node) \in Nat
  BY NodeTypes DEF QueryT, BoundsT
<1>2. left \in Int /\ right \in Int /\ 0 <= left /\ left <= right /\ right < Count(img, q.node)
  BY <1>1 DEF NothingLeft
<1>3. Bisected(q) = [q EXCEPT !.left = left, !.right = right, !.index = index, !.cmp = cmp]
  BY DEF Bisected
<1> HIDE DEF left, right
<1>4. index \in Int /\ left <= index /\ index <= right
  BY <1>2 DEF Middle
<1>5. cmp = keycmp(KeyAt(img, q.node, index + 1), q.key) /\ cmp \in {-1, 0, 1}
  BY Images DEF keycmp
<1> HIDE DEF index, cmp
<1>6. /\ Bisected(q) \in QueryT /\ Bisected(q).state = q.state /\ Bisected(q).back = q.back
      /\ Bisected(q).node = q.node /\ Bisected(q).left = left /\ Bisected(q).right = right
      /\ Bisected(q).index = index /\ Bisected(q).cmp = cmp /\ Bisected(q).key = q.key
  <2>1. cmp \in Int
    BY <1>5
  <2>2. /\ q = [state |-> q.state, key |-> q.key, node |-> q.node, left |-> q.left, right |-> q.right,
                index |-> q.index, cmp |-> q.cmp, depth |-> q.depth, back |-> q.back]
        /\ q.state \in {"idle", "running", "found", "failed"} /\ q.key \in GoodKeys /\ q.node \in Nat
        /\ q.depth \in Nat /\ q.back \in {"record", "parsed"}
    BY DEF QueryT
  <2>3. Bisected(q) = [state |-> q.state, key |-> q.key, node |-> q.node, left |-> left, right |-> right,
                       index |-> index, cmp |-> cmp, depth |-> q.depth, back |-> q.back]
    BY <1>3, <2>2
  <2>4. Bisected(q) \in QueryT
    BY <1>2, <1>4, <2>1, <2>2, <2>3 DEF QueryT
  <2>5. QED
    BY <2>3, <2>4
<1>7. BoundsT(img, Bisected(q))
  BY <1>1, <1>2, <1>4, <1>6 DEF BoundsT
<1>8. QED
  BY <1>2, <1>4, <1>5, <1>6, <1>7 DEF left, right

\* The range of a query stays inside the table of contents.
LEMMA ShapeBisect ==
  ASSUME Shape, pc # "reported", Bisect, pc' # "reported"
  PROVE  Shape' /\ Ph(pc', query') = Ph(pc, query)
<1>1. pc = "bisect" /\ UNCHANGED <<img, cur, walk, stack, last, seen, stats>>
  BY BisectStep
<1>2. query \in QueryT /\ OnDisk(img) /\ query.state = "running" /\ BoundsT(img, query)
  BY <1>1, ShapeFacts, PhaseOf
<1>3. CASE query' = [query EXCEPT !.state = "failed"] /\ pc' = query.back
  <2>1. query' \in QueryT /\ query'.state = "failed" /\ query.back \in {"record", "parsed"}
    BY <1>2, <1>3 DEF QueryT
  <2>2. PlaceT(pc', query') /\ Ph(pc', query') = query.back /\ Ph(pc, query) = query.back
    BY <1>2, <1>3, <2>1 DEF PlaceT, Ph, ParsePcs
  <2>3. QED
    BY <1>1, <1>3, <2>1, <2>2, ShapeFacts DEF Shape, Heads
<1>4. CASE ~NothingLeft(query) /\ query' = Bisected(query) /\ pc' = IF Bisecting(Bisected(query)) THEN "bisect" ELSE "bisected"
  <2>1. query' \in QueryT /\ query'.state = "running" /\ query'.back = query.back /\ BoundsT(img, query')
    BY <1>2, <1>4, BisectedBounds
  <2>2. pc' \in {"bisect", "bisected"}
    BY <1>4
  <2>3. PlaceT(pc', query') /\ Ph(pc', query') = Ph(pc, query)
    BY <1>2, <2>1, <2>2 DEF PlaceT, Ph
  <2>4. QED
    BY <1>1, <2>1, <2>2, <2>3, ShapeFacts DEF Shape, Heads
<1>5. QED
  BY <1>3, <1>4, BisectStep

\* A child that a query goes to is read with a frame of its own.
LEMMA ShapeEndBisection ==
  ASSUME Shape, pc # "reported", EndBisection, pc' # "reported"
  PROVE  Shape' /\ Ph(pc', query') = Ph(pc, query) /\ (query'.state = "running" => pc' = "read")
<1>1. pc = "bisected" /\ UNCHANGED <<img, walk, stack, last, seen, stats>>
  BY EndBisectionStep
<1>2. query \in QueryT /\ OnDisk(img) /\ query.state = "running" /\ BoundsT(img, query)
  BY <1>1, ShapeFacts, PhaseOf
<1>3. CASE /\ UNCHANGED cur /\ pc' = query.back
           /\ (query' = [query EXCEPT !.state = "failed"] \/ query' = [query EXCEPT !.state = "found"])
  <2>1. query' \in QueryT /\ query'.state # "running" /\ query.back \in {"record", "parsed"}
    BY <1>2, <1>3 DEF QueryT
  <2>2. PlaceT(pc', query') /\ Ph(pc', query') = query.back /\ Ph(pc, query) = query.back
    BY <1>2, <1>3, <2>1 DEF PlaceT, Ph, ParsePcs
  <2>3. QED
    BY <1>1, <1>3, <2>1, <2>2, ShapeFacts DEF Shape, Heads
<1>4. CASE /\ ~(query.cmp > 0) /\ ~node_is_leaf(Node(query.node)) /\ UNCHANGED query
           /\ cur' = Frame(Child(Node(query.node), query.index + 1), 0) /\ pc' = "read"
  <2>1. /\ query.node \in DOMAIN img.nodes /\ 0 <= query.left /\ query.left <= query.index
        /\ query.index <= query.right /\ query.right < Count(img, query.node)
        /\ query.left \in Int /\ query.index \in Int /\ query.right \in Int
    BY <1>2, <1>4 DEF BoundsT, QueryT
  <2>2. query.index + 1 \in 1..Count(img, query.node)
    BY <1>2, <2>1, NodeTypes
  <2>3. ChildAt(img, query.node, query.index + 1) \in Nat
    BY <1>2, <2>1, <2>2, NodeTypes
  <2>4. FreshT(cur')
    BY <1>4, <2>3, FrameFresh, Images
  <2>5. PlaceT(pc', query') /\ Ph(pc', query') = Ph(pc, query) /\ query' = query /\ Ph(pc, query) \in {"record", "parsed"}
    BY <1>2, <1>4 DEF PlaceT, Ph, Pending, QueryT
  <2>6. RootRead(img, Ph(pc, query), cur', seen)
    BY <2>5, ShapeFacts DEF RootRead
  <2>7. QED
    BY <1>1, <1>4, <2>4, <2>5, <2>6, ShapeFacts DEF Shape, Heads
<1>5. QED
  BY <1>3, <1>4, EndBisectionStep

\* The shape is kept by every step.
LEMMA ShapeStep == ASSUME Shape, [Next]_vars PROVE Shape'
<1>1. CASE pc' = "reported"
  <2>1. img' = img
    BY DEF Next, vars, StartTree, ReadNode, WalkKeyList, EndKeyList, WalkValList, EndValList, EnterNode,
           ReadRecord, EndNode, CheckFooter, StartQuery, EnterChild, Bisect, EndBisection, Terminated,
           Check, Report, QueryFails
  <2>2. QED
    BY <1>1, <2>1 DEF Shape
<1>2. CASE pc' # "reported" /\ UNCHANGED vars
  BY <1>2 DEF Shape, vars
<1>3. CASE pc' # "reported" /\ ~UNCHANGED vars
  <2>1. pc # "reported"
    BY <1>3, Alternatives, StartTreeStep, ReadNodeStep, WalkKeyListStep, EndKeyListStep, WalkValListStep,
       EndValListStep, EnterNodeStep, ReadRecordStep, EndNodeStep, CheckFooterStep, StartQueryStep,
       EnterChildStep, BisectStep, EndBisectionStep
  <2>2. QED
    BY <1>3, <2>1, Alternatives, ShapeStartTree, ShapeReadNode, ShapeWalkKeyList, ShapeEndKeyList,
       ShapeWalkValList, ShapeEndValList, ShapeEnterNode, ShapeReadRecord, ShapeEndNode, ShapeCheckFooter,
       ShapeStartQuery, ShapeEnterChild, ShapeBisect, ShapeEndBisection
<1>4. QED
  BY <1>1, <1>2, <1>3

\* The variables of the parser and of the query keep their types, whatever is on
\* disk: nodes that are read are there, a frame is never read past the last record
\* of its node, and a bisection never leaves the table of contents of its node.
THEOREM ShapeHolds == Spec => []Shape
<1>1. Init => Shape
  BY ShapeInit
<1>2. Shape /\ [Next]_vars => Shape'
  BY ShapeStep
<1>3. QED
  BY <1>1, <1>2, PTL DEF Spec

-----------------------------------------------------------------------------
(* The records that were read, of the nodes that were entered. *)

KeyR(m, r) == KeyAt(m, r[1], r[2])
LastR(m, r) == LastAt(m, r[1], r[2])
ChildR(m, r) == ChildAt(m, r[1], r[2])
Index(m, r) == ~IsLeaf(m, r[1])

OpenIds(st) == {st[k].id : k \in 1..Len(st)}
TopOf(st) == st[Len(st)]
\* A node that is still open was read up to a place.
DoneRecs(m, st, E) == {r \in Recs(m, E) : \A k \in 1..Len(st) : st[k].id = r[1] => r[2] <= st[k].i}
\* The record whose child is being read.
PendRecs(st, pd) == IF pd /\ Len(st) >= 1 THEN {<<TopOf(st).id, TopOf(st).i>>} ELSE {}

\* Records are pairs.
LEMMA RecIn ==
  ASSUME NEW m, NEW S
  PROVE  /\ \A r : r \in Recs(m, S) <=> r = <<r[1], r[2]>> /\ r[1] \in S /\ r[2] \in 1..Count(m, r[1])
         /\ \A id, i : <<id, i>> \in Recs(m, S) <=> id \in S /\ i \in 1..Count(m, id)
<1> DEFINE A(id) == {<<id, i>> : i \in 1..Count(m, id)}
<1>1. \A id, r : r \in A(id) <=> \E i \in 1..Count(m, id) : r = <<id, i>>
  OBVIOUS
<1>2. Recs(m, S) = UNION {A(id) : id \in S}
  BY DEF Recs
<1> HIDE DEF A
<1>3. \A r : r \in Recs(m, S) <=> \E id \in S : r \in A(id)
  BY <1>2
<1>4. \A r : r \in Recs(m, S) <=> \E id \in S : \E i \in 1..Count(m, id) : r = <<id, i>>
  BY <1>1, <1>3
<1>5. QED
  BY <1>4

\* Those of leaves too.
LEMMA LeafIn ==
  ASSUME NEW m, NEW S
  PROVE  /\ \A r : r \in Leaves(m, S) <=> r \in Recs(m, S) /\ ~Index(m, r)
         /\ \A id, i : <<id, i>> \in Leaves(m, S) <=> id \in S /\ IsLeaf(m, id) /\ i \in 1..Count(m, id)
<1> DEFINE T == {id \in S : IsLeaf(m, id)}
<1>1. Leaves(m, S) = Recs(m, T)
  BY DEF Leaves
<1>2. \A id : id \in T <=> id \in S /\ IsLeaf(m, id)
  OBVIOUS
<1> HIDE DEF T
<1>3. \A r : r \in Leaves(m, S) <=> r = <<r[1], r[2]>> /\ r[1] \in T /\ r[2] \in 1..Count(m, r[1])
  BY <1>1, RecIn
<1>4. \A id, i : <<id, i>> \in Leaves(m, S) <=> id \in T /\ i \in 1..Count(m, id)
  <2>1. \A id, i : <<id, i>> \in Recs(m, T) <=> id \in T /\ i \in 1..Count(m, id)
    BY RecIn, Zenon
  <2>2. QED
    BY <1>1, <2>1, Zenon
<1>5. \A r : r \in Leaves(m, S) <=> r \in Recs(m, S) /\ ~Index(m, r)
  BY <1>2, <1>3, RecIn DEF Index
<1>6. QED
  BY <1>2, <1>4, <1>5

\* The same for those that were read.
LEMMA DoneIn ==
  ASSUME NEW m, NEW st, NEW E
  PROVE  \A id, i : <<id, i>> \in DoneRecs(m, st, E)
                      <=> /\ id \in E /\ i \in 1..Count(m, id)
                          /\ \A k \in 1..Len(st) : st[k].id = id => i <= st[k].i
  BY RecIn DEF DoneRecs

\* Types of the records of nodes that are there.
LEMMA RecTypes ==
  ASSUME NEW m, OnDisk(m), NEW E, E \subseteq DOMAIN m.nodes, NEW r \in Recs(m, E)
  PROVE  /\ r = <<r[1], r[2]>> /\ r[1] \in E /\ r[1] \in DOMAIN m.nodes /\ Count(m, r[1]) \in Nat
         /\ r[2] \in 1..Count(m, r[1]) /\ KeyR(m, r) \in GoodKeys /\ ChildR(m, r) \in Nat
<1>1. r = <<r[1], r[2]>> /\ r[1] \in E /\ r[2] \in 1..Count(m, r[1])
  BY RecIn
<1>2. r[1] \in DOMAIN m.nodes
  BY <1>1
<1>3. Count(m, r[1]) \in Nat /\ KeyAt(m, r[1], r[2]) \in GoodKeys /\ ChildAt(m, r[1], r[2]) \in Nat
  BY <1>1, <1>2, NodeTypes
<1>4. QED
  BY <1>1, <1>2, <1>3 DEF KeyR, ChildR

\* A node is entered: none of its records is read.
LEMMA DonePush ==
  ASSUME NEW m, NEW st, StackT(m, st), NEW st2, NEW f, Pushed(st, st2, f), f.i = 0,
         NEW E, f.id \notin E
  PROVE  DoneRecs(m, st2, E \cup {f.id}) = DoneRecs(m, st, E)
<1>0. Len(st) \in Nat
  BY DEF StackT
<1>1. ASSUME NEW id, NEW i
      PROVE  <<id, i>> \in DoneRecs(m, st2, E \cup {f.id}) <=> <<id, i>> \in DoneRecs(m, st, E)
  <2> DEFINE A == \A k \in 1..Len(st2) : st2[k].id = id => i <= st2[k].i
             B == \A k \in 1..Len(st) : st[k].id = id => i <= st[k].i
  <2>1. <<id, i>> \in DoneRecs(m, st2, E \cup {f.id}) <=> id \in E \cup {f.id} /\ i \in 1..Count(m, id) /\ A
    BY DoneIn
  <2>2. <<id, i>> \in DoneRecs(m, st, E) <=> id \in E /\ i \in 1..Count(m, id) /\ B
    BY DoneIn
  <2>3. A <=> B /\ (f.id = id => i <= 0)
    BY <1>0 DEF Pushed
  <2> HIDE DEF A, B
  <2>4. i \in 1..Count(m, id) => ~(i <= 0)
    OBVIOUS
  <2>5. QED
    BY <2>1, <2>2, <2>3, <2>4
<1>2. \A r \in DoneRecs(m, st2, E \cup {f.id}) \cup DoneRecs(m, st, E) : r = <<r[1], r[2]>>
  BY RecIn DEF DoneRecs
<1>3. QED
  BY <1>1, <1>2

\* A record of the last call is read.
LEMMA DoneChange ==
  ASSUME NEW m, OnDisk(m), NEW st, StackT(m, st), NEW st2, NEW f, Changed(st, st2, f),
         f.id = TopOf(st).id, f.i = TopOf(st).i + 1, f.i <= Count(m, f.id),
         NEW E, f.id \in E, \A j, k \in 1..Len(st) : st[j].id = st[k].id => j = k
  PROVE  /\ DoneRecs(m, st2, E) = DoneRecs(m, st, E) \cup {<<f.id, f.i>>}
         /\ <<f.id, f.i>> \notin DoneRecs(m, st, E) /\ OpenIds(st2) = OpenIds(st)
<1>0. /\ Len(st) \in Nat /\ Len(st) >= 1 /\ TopOf(st).i \in Nat /\ f.i \in 1..Count(m, f.id) /\ Len(st2) = Len(st)
      /\ TopOf(st) = st[Len(st)] /\ f.id \in DOMAIN m.nodes
  <2>1. st \in Seq(FrameT) /\ Len(st) \in Nat /\ Len(st) >= 1 /\ Len(st2) = Len(st)
    BY DEF StackT, Changed
  <2>2. TopOf(st) \in FrameT /\ TopOf(st) = st[Len(st)]
    BY <2>1 DEF TopOf
  <2>3. st[Len(st)].id \in DOMAIN m.nodes
    BY <2>1 DEF StackT
  <2>4. TopOf(st).i \in Nat
    BY <2>2 DEF FrameT
  <2>5. f.i \in Nat /\ f.i >= 1
    BY <2>4
  <2>6. Count(m, f.id) \in Nat
    BY <2>2, <2>3, NodeTypes
  <2>7. QED
    BY <2>1, <2>2, <2>3, <2>4, <2>5, <2>6
<1>5. \A k \in 1..Len(st) : st2[k] = IF k = Len(st) THEN f ELSE st[k]
  BY <1>0 DEF Changed
<1>1. ASSUME NEW id, NEW i
      PROVE  <<id, i>> \in DoneRecs(m, st2, E) <=> <<id, i>> \in DoneRecs(m, st, E) \/ (id = f.id /\ i = f.i)
  <2> DEFINE A == \A k \in 1..Len(st2) : st2[k].id = id => i <= st2[k].i
             B == \A k \in 1..Len(st) : st[k].id = id => i <= st[k].i
  <2>1. <<id, i>> \in DoneRecs(m, st2, E) <=> id \in E /\ i \in 1..Count(m, id) /\ A
    BY DoneIn
  <2>2. <<id, i>> \in DoneRecs(m, st, E) <=> id \in E /\ i \in 1..Count(m, id) /\ B
    BY DoneIn
  <2>3. CASE id = f.id
    <3>1. A <=> i <= f.i
      BY <1>0, <1>5, <2>3
    <3>2. B <=> i <= TopOf(st).i
      BY <1>0, <2>3
    <3> HIDE DEF A, B
    <3>3. QED
      BY <1>0, <2>1, <2>2, <2>3, <3>1, <3>2
  <2>4. CASE id # f.id
    <3>1. A <=> B
      BY <1>0, <1>5, <2>4
    <3> HIDE DEF A, B
    <3>2. QED
      BY <2>1, <2>2, <2>4, <3>1
  <2>5. QED
    BY <2>3, <2>4
<1>2. \A r \in DoneRecs(m, st2, E) \cup DoneRecs(m, st, E) : r = <<r[1], r[2]>>
  BY RecIn DEF DoneRecs
<1>3. <<f.id, f.i>> \notin DoneRecs(m, st, E)
  <2>1. ~(f.i <= st[Len(st)].i) /\ Len(st) \in 1..Len(st)
    BY <1>0
  <2>2. QED
    BY <1>0, <2>1, DoneIn
<1>4. OpenIds(st2) = OpenIds(st)
  BY <1>0, <1>5 DEF OpenIds
<1>6. QED
  BY <1>1, <1>2, <1>3, <1>4

\* A call returns: all the records of its node are read.
LEMMA DonePop ==
  ASSUME NEW m, NEW st, StackT(m, st), NEW st2, Popped(st, st2),
         TopOf(st).i = Count(m, TopOf(st).id), NEW E
  PROVE  DoneRecs(m, st2, E) = DoneRecs(m, st, E)
<1>0. Len(st) \in Nat /\ Len(st) >= 1 /\ Len(st2) = Len(st) - 1 /\ TopOf(st) = st[Len(st)]
  BY DEF StackT, Popped, TopOf
<1>1. ASSUME NEW id, NEW i
      PROVE  <<id, i>> \in DoneRecs(m, st2, E) <=> <<id, i>> \in DoneRecs(m, st, E)
  <2> DEFINE A == \A k \in 1..Len(st2) : st2[k].id = id => i <= st2[k].i
             B == \A k \in 1..Len(st) : st[k].id = id => i <= st[k].i
  <2>1. <<id, i>> \in DoneRecs(m, st2, E) <=> id \in E /\ i \in 1..Count(m, id) /\ A
    BY DoneIn
  <2>2. <<id, i>> \in DoneRecs(m, st, E) <=> id \in E /\ i \in 1..Count(m, id) /\ B
    BY DoneIn
  <2>3. B <=> A /\ (TopOf(st).id = id => i <= TopOf(st).i)
    BY <1>0 DEF Popped
  <2> HIDE DEF A, B
  <2>4. i \in 1..Count(m, id) => (TopOf(st).id = id => i <= TopOf(st).i)
    OBVIOUS
  <2>5. QED
    BY <2>1, <2>2, <2>3, <2>4
<1>2. \A r \in DoneRecs(m, st2, E) \cup DoneRecs(m, st, E) : r = <<r[1], r[2]>>
  BY RecIn DEF DoneRecs
<1>3. QED
  BY <1>1, <1>2

-----------------------------------------------------------------------------
(* The nodes under a node. *)

\* The subtree has its root and the children of its nodes.
LEMMA UnderStays ==
  ASSUME NEW m, OnDisk(m), NEW id
  PROVE  id \in Under(m, id) /\ \A x \in Under(m, id) \cap DOMAIN m.nodes : KidsOf(m, x) \subseteq Under(m, id)
<1>1. DOMAIN Kids(m) = DOMAIN m.nodes /\ IsFiniteSet(DOMAIN Kids(m))
  BY DEF Kids, OnDisk
<1>2. id \in Under(m, id) /\ Stays(Kids(m), Under(m, id))
  BY <1>1, ReachStays DEF Under
<1>3. \A x \in DOMAIN m.nodes : Kids(m)[x] = KidsOf(m, x)
  BY DEF Kids
<1>4. QED
  BY <1>1, <1>2, <1>3 DEF Stays

\* It has nothing else.
LEMMA UnderLeast ==
  ASSUME NEW m, OnDisk(m), NEW id, NEW X, id \in X,
         \A x \in X \cap DOMAIN m.nodes : KidsOf(m, x) \subseteq X
  PROVE  Under(m, id) \subseteq X
<1>1. DOMAIN Kids(m) = DOMAIN m.nodes /\ IsFiniteSet(DOMAIN Kids(m))
  BY DEF Kids, OnDisk
<1>2. \A x \in DOMAIN m.nodes : Kids(m)[x] = KidsOf(m, x)
  BY DEF Kids
<1>3. Stays(Kids(m), X)
  BY <1>1, <1>2 DEF Stays
<1>4. QED
  BY <1>1, <1>3, ReachLeast DEF Under

\* The children of a node.
LEMMA KidIn ==
  ASSUME NEW m, NEW id, NEW c
  PROVE  c \in KidsOf(m, id) <=> ~IsLeaf(m, id) /\ \E i \in 1..Count(m, id) : c = ChildAt(m, id, i)
  BY DEF KidsOf

\* The subtree is its root and the subtrees of the children.
LEMMA UnderSplit ==
  ASSUME NEW m, OnDisk(m), NEW id \in DOMAIN m.nodes
  PROVE  /\ \A x \in Under(m, id) : x = id \/ \E c \in KidsOf(m, id) : x \in Under(m, c)
         /\ \A c \in KidsOf(m, id) : Under(m, c) \subseteq Under(m, id)
<1> DEFINE X == {id} \cup UNION {Under(m, c) : c \in KidsOf(m, id)}
<1>1. ASSUME NEW x \in X \cap DOMAIN m.nodes, NEW y \in KidsOf(m, x) PROVE y \in X
  <2>1. CASE x = id
    BY <1>1, <2>1, UnderStays
  <2>2. CASE \E c \in KidsOf(m, id) : x \in Under(m, c)
    <3>1. PICK c \in KidsOf(m, id) : x \in Under(m, c)
      BY <2>2
    <3>2. y \in Under(m, c)
      BY <1>1, <3>1, UnderStays
    <3>3. QED
      BY <3>1, <3>2
  <2>3. QED
    BY <1>1, <2>1, <2>2
<1>2. Under(m, id) \subseteq X
  <2>1. id \in X
    OBVIOUS
  <2>2. \A x \in X \cap DOMAIN m.nodes : KidsOf(m, x) \subseteq X
    BY <1>1
  <2> HIDE DEF X
  <2>3. QED
    BY <2>1, <2>2, UnderLeast
<1>3. ASSUME NEW c \in KidsOf(m, id) PROVE Under(m, c) \subseteq Under(m, id)
  <2>1. c \in Under(m, id) /\ \A x \in Under(m, id) \cap DOMAIN m.nodes : KidsOf(m, x) \subseteq Under(m, id)
    BY <1>3, UnderStays
  <2>2. QED
    BY <2>1, UnderLeast
<1>4. QED
  BY <1>2, <1>3

-----------------------------------------------------------------------------
(* The calls follow a path, and each node has one parent. *)

Chain(m, st, E, pd) ==
  /\ \A k \in 1..Len(st) : st[k].id \in E
  /\ \A j, k \in 1..Len(st) : st[j].id = st[k].id => j = k
  /\ Len(st) >= 1 => st[1].id = m.root
  /\ \A k \in 1..Len(st) : (k < Len(st) \/ pd) => ~IsLeaf(m, st[k].id) /\ st[k].i >= 1
  /\ \A k \in 1..Len(st) : k < Len(st) => st[k + 1].id = ChildAt(m, st[k].id, st[k].i)
  /\ (Len(st) = 0 /\ pd) => E = {}

TreeInv(m, E, D, P) ==
  /\ E \subseteq DOMAIN m.nodes /\ E \subseteq Under(m, m.root)
  /\ \A r \in D \ P : Index(m, r) => ChildR(m, r) \in E /\ ChildR(m, r) # m.root
  /\ \A r, s \in D \ P : Index(m, r) /\ Index(m, s) /\ ChildR(m, r) = ChildR(m, s) => r = s
  /\ \A id \in E : id # m.root => \E r \in D \ P : Index(m, r) /\ ChildR(m, r) = id

\* The records that the open calls are at have been read.
LEMMA OpenDone ==
  ASSUME NEW m, OnDisk(m), NEW st, StackT(m, st), NEW E, NEW pd, Chain(m, st, E, pd), E \subseteq DOMAIN m.nodes,
         NEW k \in 1..Len(st), st[k].i >= 1
  PROVE  /\ <<st[k].id, st[k].i>> \in DoneRecs(m, st, E) /\ st[k].i \in 1..Count(m, st[k].id)
         /\ (k < Len(st) \/ ~pd => <<st[k].id, st[k].i>> \notin PendRecs(st, pd))
<1>1. st \in Seq(FrameT) /\ Len(st) \in Nat /\ st[k].id \in E /\ st[k].i <= Count(m, st[k].id)
  BY DEF StackT, Chain
<1>2. st[k].i \in Nat
  <2>1. st[k] \in FrameT
    BY <1>1
  <2>2. QED
    BY <2>1 DEF FrameT
<1>3. st[k].id \in DOMAIN m.nodes
  BY <1>1
<1>4. Count(m, st[k].id) \in Nat
  BY <1>3, NodeTypes
<1>5. st[k].i \in 1..Count(m, st[k].id)
  BY <1>1, <1>2, <1>4
<1>6. \A j \in 1..Len(st) : st[j].id = st[k].id => st[k].i <= st[j].i
  <2>1. ASSUME NEW j \in 1..Len(st), st[j].id = st[k].id PROVE j = k
    BY <2>1 DEF Chain
  <2>2. QED
    BY <1>2, <2>1
<1>7. k < Len(st) => st[Len(st)].id # st[k].id
  BY <1>1 DEF Chain
<1>8. QED
  BY <1>1, <1>5, <1>6, <1>7, DoneIn DEF PendRecs, TopOf

\* The child of a record is closed, unless an open call is at the record.
LEMMA SettledClosed ==
  ASSUME NEW m, OnDisk(m), NEW st, StackT(m, st), NEW E, NEW pd, Chain(m, st, E, pd),
         TreeInv(m, E, DoneRecs(m, st, E), PendRecs(st, pd)),
         NEW r \in DoneRecs(m, st, E) \ PendRecs(st, pd), Index(m, r),
         \A k \in 1..Len(st) : k < Len(st) => r # <<st[k].id, st[k].i>>
  PROVE  ChildR(m, r) \in E \ OpenIds(st)
<1> DEFINE D == DoneRecs(m, st, E)
           P == PendRecs(st, pd)
<1>1. ChildR(m, r) \in E /\ ChildR(m, r) # m.root /\ E \subseteq DOMAIN m.nodes
  BY DEF TreeInv
<1>2. ASSUME NEW k \in 1..Len(st), st[k].id = ChildR(m, r) PROVE FALSE
  <2>0. Len(st) \in Nat
    BY DEF StackT
  <2>1. k # 1
    BY <1>1, <1>2, <2>0 DEF Chain
  <2> DEFINE j == k - 1
             s == <<st[j].id, st[j].i>>
  <2>2. j \in 1..Len(st) /\ j < Len(st) /\ j + 1 = k
    BY <2>0, <2>1
  <2>3. st[j].i >= 1 /\ ~IsLeaf(m, st[j].id) /\ st[j + 1].id = ChildAt(m, st[j].id, st[j].i)
    BY <2>2 DEF Chain
  <2>4. s \in D /\ s \notin P
    BY <1>1, <2>2, <2>3, OpenDone
  <2>5. Index(m, s) /\ ChildR(m, s) = ChildR(m, r)
    BY <1>2, <2>2, <2>3 DEF Index, ChildR
  <2>6. s # r
    BY <2>2
  <2> HIDE DEF s, D, P
  <2>7. TreeInv(m, E, D, P) /\ r \in D \ P /\ s \in D \ P
    BY <2>4 DEF D, P
  <2>8. QED
    BY <2>5, <2>6, <2>7 DEF TreeInv
<1>3. QED
  BY <1>1, <1>2 DEF OpenIds

\* All records of a closed node are read, and so are their children.
LEMMA ClosedDone ==
  ASSUME NEW m, OnDisk(m), NEW st, StackT(m, st), NEW E, NEW pd, Chain(m, st, E, pd),
         TreeInv(m, E, DoneRecs(m, st, E), PendRecs(st, pd)), NEW c \in E \ OpenIds(st)
  PROVE  /\ \A i \in 1..Count(m, c) : <<c, i>> \in DoneRecs(m, st, E) \ PendRecs(st, pd)
         /\ KidsOf(m, c) \subseteq E \ OpenIds(st)
<1>1. \A k \in 1..Len(st) : st[k].id # c
  BY DEF OpenIds
<1>2. ASSUME NEW i \in 1..Count(m, c) PROVE <<c, i>> \in DoneRecs(m, st, E) \ PendRecs(st, pd)
  <2>1. <<c, i>> \in DoneRecs(m, st, E)
    BY <1>1, DoneIn
  <2>2. <<c, i>> \notin PendRecs(st, pd)
    <3>1. Len(st) \in Nat
      BY DEF StackT
    <3>2. QED
      BY <1>1, <3>1 DEF PendRecs, TopOf
  <2>3. QED
    BY <2>1, <2>2
<1>3. ASSUME NEW d \in KidsOf(m, c) PROVE d \in E \ OpenIds(st)
  <2>1. PICK i \in 1..Count(m, c) : d = ChildAt(m, c, i) /\ ~IsLeaf(m, c)
    BY <1>3, KidIn
  <2> DEFINE r == <<c, i>>
  <2>2. r \in DoneRecs(m, st, E) \ PendRecs(st, pd)
    BY <1>2
  <2>3. Index(m, r) /\ ChildR(m, r) = d
    BY <2>1 DEF Index, ChildR
  <2>4. \A k \in 1..Len(st) : k < Len(st) => r # <<st[k].id, st[k].i>>
    BY <1>1
  <2> HIDE DEF r
  <2>5. QED
    BY <2>2, <2>3, <2>4, SettledClosed
<1>4. QED
  BY <1>2, <1>3

\* So the whole subtree of a closed node is closed.
LEMMA ClosedUnder ==
  ASSUME NEW m, OnDisk(m), NEW st, StackT(m, st), NEW E, NEW pd, Chain(m, st, E, pd),
         TreeInv(m, E, DoneRecs(m, st, E), PendRecs(st, pd)), NEW c \in E \ OpenIds(st)
  PROVE  /\ Under(m, c) \subseteq E \ OpenIds(st)
         /\ \A x \in Leaves(m, Under(m, c)) : x \in DoneRecs(m, st, E)
<1>1. \A x \in (E \ OpenIds(st)) \cap DOMAIN m.nodes : KidsOf(m, x) \subseteq E \ OpenIds(st)
  BY ClosedDone
<1>2. Under(m, c) \subseteq E \ OpenIds(st)
  BY <1>1, UnderLeast
<1>3. ASSUME NEW x \in Leaves(m, Under(m, c)) PROVE x \in DoneRecs(m, st, E)
  <2>1. x = <<x[1], x[2]>> /\ x[1] \in Under(m, c) /\ x[2] \in 1..Count(m, x[1])
    BY <1>3, LeafIn, RecIn
  <2>2. x[1] \in E \ OpenIds(st)
    BY <1>2, <2>1
  <2>3. <<x[1], x[2]>> \in DoneRecs(m, st, E)
    BY <2>1, <2>2, ClosedDone
  <2>4. QED
    BY <2>1, <2>3
<1>4. QED
  BY <1>2, <1>3

\* A node is entered.
LEMMA ChainPush ==
  ASSUME NEW m, NEW st, StackT(m, st), NEW E, Chain(m, st, E, TRUE), NEW st2, NEW f, Pushed(st, st2, f),
         f.id \notin E, Len(st) = 0 => f.id = m.root,
         Len(st) >= 1 => f.id = ChildAt(m, TopOf(st).id, TopOf(st).i)
  PROVE  Chain(m, st2, E \cup {f.id}, FALSE)
<1> DEFINE N == Len(st)
<1>1. N \in Nat /\ Len(st2) = N + 1 /\ st2[N + 1] = f /\ \A k \in 1..N : st2[k] = st[k]
  BY DEF StackT, Pushed
<1>2. /\ \A k \in 1..N : st[k].id \in E
      /\ \A j, k \in 1..N : st[j].id = st[k].id => j = k
      /\ N >= 1 => st[1].id = m.root
      /\ \A k \in 1..N : ~IsLeaf(m, st[k].id) /\ st[k].i >= 1
      /\ \A k \in 1..N : k < N => st[k + 1].id = ChildAt(m, st[k].id, st[k].i)
  BY DEF Chain
<1>3. N >= 1 => f.id = ChildAt(m, st[N].id, st[N].i)
  BY DEF TopOf
<1>0. N = 0 => f.id = m.root
  OBVIOUS
<1> HIDE DEF N
<1>4. \A k \in 1..(N + 1) : st2[k].id \in E \cup {f.id}
  BY <1>1, <1>2
<1>5. \A j, k \in 1..(N + 1) : st2[j].id = st2[k].id => j = k
  BY <1>1, <1>2
<1>6. st2[1].id = m.root
  BY <1>0, <1>1, <1>2
<1>7. \A k \in 1..(N + 1) : k < N + 1 => ~IsLeaf(m, st2[k].id) /\ st2[k].i >= 1
  BY <1>1, <1>2
<1>8. ASSUME NEW k \in 1..(N + 1), k < N + 1 PROVE st2[k + 1].id = ChildAt(m, st2[k].id, st2[k].i)
  <2>1. CASE k = N
    BY <1>1, <1>3, <2>1
  <2>2. CASE k < N
    <3>1. k \in 1..N /\ k + 1 \in 1..N
      BY <1>1, <2>2
    <3>2. QED
      BY <1>1, <1>2, <2>2, <3>1
  <2>3. QED
    BY <1>1, <1>8, <2>1, <2>2
<1>9. QED
  BY <1>1, <1>4, <1>5, <1>6, <1>7, <1>8 DEF Chain

\* A record is read.
LEMMA ChainChange ==
  ASSUME NEW m, NEW st, StackT(m, st), NEW E, Chain(m, st, E, FALSE), NEW st2, NEW f, Changed(st, st2, f),
         f.id = TopOf(st).id, f.i = TopOf(st).i + 1, TopOf(st).i \in Nat,
         NEW pd \in BOOLEAN, pd => ~IsLeaf(m, f.id)
  PROVE  Chain(m, st2, E, pd)
<1> DEFINE N == Len(st)
<1>1. /\ N \in Nat /\ N >= 1 /\ Len(st2) = N /\ st2[N] = f /\ \A k \in 1..(N - 1) : st2[k] = st[k]
      /\ f.id = st[N].id /\ f.i = st[N].i + 1 /\ st[N].i \in Nat
  BY DEF StackT, Changed, TopOf
<1>2. /\ \A k \in 1..N : st[k].id \in E
      /\ \A j, k \in 1..N : st[j].id = st[k].id => j = k
      /\ st[1].id = m.root
      /\ \A k \in 1..N : k < N => ~IsLeaf(m, st[k].id) /\ st[k].i >= 1
      /\ \A k \in 1..N : k < N => st[k + 1].id = ChildAt(m, st[k].id, st[k].i)
  BY <1>1 DEF Chain
<1> HIDE DEF N
<1>3. \A k \in 1..N : st2[k].id = st[k].id
  BY <1>1
<1>4. \A k \in 1..N : k < N => st2[k] = st[k]
  BY <1>1
<1>5. f.i >= 1 /\ 1 \in 1..N
  BY <1>1
<1>6. \A k \in 1..N : (k < N \/ pd) => ~IsLeaf(m, st2[k].id) /\ st2[k].i >= 1
  BY <1>1, <1>2, <1>4, <1>5
<1>7. ASSUME NEW k \in 1..N, k < N PROVE st2[k + 1].id = ChildAt(m, st2[k].id, st2[k].i)
  <2>1. k + 1 \in 1..N
    BY <1>1, <1>7
  <2>2. QED
    BY <1>2, <1>3, <1>4, <1>7, <2>1
<1>8. (\A k \in 1..N : st2[k].id \in E) /\ st2[1].id = m.root
  BY <1>2, <1>3, <1>5
<1>9. \A j, k \in 1..N : st2[j].id = st2[k].id => j = k
  BY <1>2, <1>3
<1>10. ~(N = 0)
  BY <1>1
<1>11. QED
  BY <1>1, <1>6, <1>7, <1>8, <1>9, <1>10 DEF Chain

\* A call returns.
LEMMA ChainPop ==
  ASSUME NEW m, NEW st, StackT(m, st), NEW E, Chain(m, st, E, FALSE), NEW st2, Popped(st, st2)
  PROVE  Chain(m, st2, E, FALSE) /\ OpenIds(st2) = OpenIds(st) \ {TopOf(st).id} /\ TopOf(st).id \in OpenIds(st)
<1> DEFINE N == Len(st)
<1>1. /\ N \in Nat /\ N >= 1 /\ Len(st2) = N - 1 /\ \A k \in 1..(N - 1) : st2[k] = st[k]
  BY DEF StackT, Popped
<1>2. /\ \A k \in 1..N : st[k].id \in E
      /\ \A j, k \in 1..N : st[j].id = st[k].id => j = k
      /\ st[1].id = m.root
      /\ \A k \in 1..N : k < N => ~IsLeaf(m, st[k].id) /\ st[k].i >= 1
      /\ \A k \in 1..N : k < N => st[k + 1].id = ChildAt(m, st[k].id, st[k].i)
  BY <1>1 DEF Chain
<1> HIDE DEF N
<1>3. \A k \in 1..(N - 1) : k \in 1..N /\ k < N
  BY <1>1
<1>4. ASSUME NEW k \in 1..(N - 1), k < N - 1 PROVE st2[k + 1].id = ChildAt(m, st2[k].id, st2[k].i)
  <2>1. k + 1 \in 1..(N - 1)
    BY <1>1, <1>4
  <2>2. QED
    BY <1>1, <1>2, <1>3, <2>1
<1>5. N - 1 >= 1 => 1 \in 1..(N - 1)
  BY <1>1
<1>6. Chain(m, st2, E, FALSE)
  BY <1>1, <1>2, <1>3, <1>4, <1>5 DEF Chain
<1>7. OpenIds(st2) = OpenIds(st) \ {TopOf(st).id}
  <2>1. \A k \in 1..N : k = N \/ k \in 1..(N - 1)
    BY <1>1
  <2>2. \A k \in 1..(N - 1) : st[k].id # st[N].id
    BY <1>1, <1>2, <1>3
  <2>3. \A x : x \in OpenIds(st2) <=> \E k \in 1..(N - 1) : x = st[k].id
    BY <1>1 DEF OpenIds
  <2>4. \A x : x \in OpenIds(st) <=> \E k \in 1..N : x = st[k].id
    BY DEF OpenIds, N
  <2>5. TopOf(st) = st[N]
    BY DEF TopOf, N
  <2>6. QED
    BY <1>3, <2>1, <2>2, <2>3, <2>4, <2>5
<1>8. TopOf(st).id \in OpenIds(st)
  BY <1>1 DEF TopOf, OpenIds, N
<1>9. QED
  BY <1>6, <1>7, <1>8

\* A node is entered: it had no parent before, and has one now.
LEMMA TreePush ==
  ASSUME NEW m, OnDisk(m), NEW E, NEW D, D \subseteq Recs(m, E), NEW P, TreeInv(m, E, D, P),
         NEW c \in DOMAIN m.nodes, c \notin E,
         \/ E = {} /\ c = m.root
         \/ m.root \in E /\ \E p \in D : P = {p} /\ Index(m, p) /\ ChildR(m, p) = c
  PROVE  TreeInv(m, E \cup {c}, D, {})
<1>1. CASE E = {} /\ c = m.root
  <2>1. D = {}
    BY <1>1, RecIn
  <2>2. m.root \in Under(m, m.root)
    BY UnderStays
  <2>3. QED
    BY <1>1, <2>1, <2>2 DEF TreeInv
<1>2. CASE m.root \in E /\ \E p \in D : P = {p} /\ Index(m, p) /\ ChildR(m, p) = c
  <2>1. PICK p \in D : P = {p} /\ Index(m, p) /\ ChildR(m, p) = c
    BY <1>2
  <2>2. p[1] \in E /\ p[2] \in 1..Count(m, p[1])
    BY RecIn
  <2>3. p[1] \in Under(m, m.root) \cap DOMAIN m.nodes
    BY <2>2 DEF TreeInv
  <2>4. c \in KidsOf(m, p[1])
    BY <2>1, <2>2, KidIn DEF Index, ChildR
  <2>5. c \in Under(m, m.root)
    BY <2>3, <2>4, UnderStays
  <2>6. c # m.root
    BY <1>2
  <2>7. \A r \in D : Index(m, r) => ChildR(m, r) \in E \cup {c} /\ ChildR(m, r) # m.root
    BY <2>1, <2>6 DEF TreeInv
  <2>8. \A r \in D : Index(m, r) /\ ChildR(m, r) = c => r = p
    BY <2>1 DEF TreeInv
  <2>9. \A r, s \in D : Index(m, r) /\ Index(m, s) /\ ChildR(m, r) = ChildR(m, s) => r = s
    BY <2>1, <2>8 DEF TreeInv
  <2>10. \A id \in E \cup {c} : id # m.root => \E r \in D : Index(m, r) /\ ChildR(m, r) = id
    BY <2>1 DEF TreeInv
  <2>11. QED
    BY <2>5, <2>7, <2>9, <2>10 DEF TreeInv
<1>3. QED
  BY <1>1, <1>2

\* A record is read, and its child if it has one is still to be read.
LEMMA TreeChange ==
  ASSUME NEW m, NEW E, NEW D, TreeInv(m, E, D, {}), NEW r, r \notin D, NEW P,
         P = {r} \/ (P = {} /\ ~Index(m, r))
  PROVE  TreeInv(m, E, D \cup {r}, P)
<1>1. \A s \in (D \cup {r}) \ P : s \in D \/ ~Index(m, s)
  OBVIOUS
<1>2. D \subseteq (D \cup {r}) \ P
  OBVIOUS
<1>3. QED
  BY <1>1, <1>2 DEF TreeInv

-----------------------------------------------------------------------------
(* The order of the keys. *)

Blocks(m, r) == m.nodes[r[1]].vals[r[2]].blocks

\* All that was read is not after last_key.
OrdRead(m, D, lst) ==
  /\ lst \in GoodKeys
  /\ \A r \in D : LastR(m, r) \in GoodKeys /\ Le(KeyR(m, r), LastR(m, r)) /\ Le(LastR(m, r), lst)
\* The keys of a node grow.
OrdNode(m, D) ==
  \A r, s \in D : r[1] = s[1] /\ r[2] < s[2] =>
                    Le(KeyR(m, r), KeyR(m, s)) /\ (~Index(m, r) => Lt(KeyR(m, r), KeyR(m, s)))
\* A child begins with the key of its record.
OrdFirst(m, D, P) ==
  \A r \in D \ P, s \in D : Index(m, r) /\ s[1] = ChildR(m, r) /\ s[2] = 1 => KeyR(m, s) = KeyR(m, r)
\* What is under a record is not after the next.
OrdNext(m, D) ==
  \A r, s \in D : Index(m, r) /\ s[1] = r[1] /\ s[2] = r[2] + 1 =>
                    \A x \in Leaves(m, Under(m, ChildR(m, r))) : Le(KeyR(m, x), KeyR(m, s))
\* What is under a closed node is not before its first key, which is there.
OrdUnder(m, C) ==
  \A c \in C : /\ \A x \in Leaves(m, Under(m, c)) : Le(KeyAt(m, c, 1), KeyR(m, x))
               /\ Count(m, c) > 0 => \E x \in Leaves(m, Under(m, c)) : KeyR(m, x) = KeyAt(m, c, 1)
\* The physical extents.
OrdExtents(m, D) ==
  m.type = "extentref" =>
    /\ \A r \in D : ~Index(m, r) => Blocks(m, r) >= 1 /\ KeyR(m, r) = <<KeyR(m, r)[1], EXTENT, 0, 0>>
    /\ \A r, s \in D : ~Index(m, r) /\ ~Index(m, s) /\ KeyR(m, r)[1] < KeyR(m, s)[1] =>
                         KeyR(m, r)[1] + Blocks(m, r) <= KeyR(m, s)[1] + (IF r[1] = s[1] THEN 0 ELSE 1)
\* The first key of a child is yet to be compared with that of its parent.
OrdHere(m, st, pd, lst) ==
  /\ pd /\ Len(st) >= 1 => lst = KeyAt(m, TopOf(st).id, TopOf(st).i)
  /\ ~pd /\ Len(st) >= 2 /\ TopOf(st).i = 0 => lst = KeyAt(m, st[Len(st) - 1].id, st[Len(st) - 1].i)

\* What was checked of the record after last_key.
After(m, s, lst) ==
  /\ Le(lst, KeyR(m, s))
  /\ s[2] = 1 /\ s[1] # m.root => lst = KeyR(m, s)
  /\ s[2] # 1 /\ ~Index(m, s) => Lt(lst, KeyR(m, s))
  /\ m.type = "extentref" /\ ~Index(m, s) =>
       Blocks(m, s) >= 1 /\ KeyR(m, s) = <<KeyR(m, s)[1], EXTENT, 0, 0>>

\* The key to follow a record.
LEMMA LastGood ==
  ASSUME NEW m, OnDisk(m), NEW E, E \subseteq DOMAIN m.nodes, NEW s \in Recs(m, E), NEW lst, After(m, s, lst)
  PROVE  /\ LastR(m, s) \in GoodKeys /\ Le(KeyR(m, s), LastR(m, s))
         /\ Index(m, s) => LastR(m, s) = KeyR(m, s)
         /\ m.type = "extentref" /\ ~Index(m, s) => LastR(m, s)[1] = KeyR(m, s)[1] + Blocks(m, s) - 1
                                                    /\ Blocks(m, s) \in Nat
<1> DEFINE K == KeyR(m, s)
           b == Blocks(m, s)
<1>1. K \in GoodKeys
  BY RecTypes
<1>2. CASE ~(m.type = "extentref" /\ ~Index(m, s))
  <2>1. LastR(m, s) = K
    BY <1>2 DEF LastR, LastAt, KeyR, Index
  <2>2. QED
    BY <1>1, <1>2, <2>1, CmpTotal
<1>3. CASE m.type = "extentref" /\ ~Index(m, s)
  <2>1. LastR(m, s) = [K EXCEPT ![1] = @ + b - 1]
    BY <1>3 DEF LastR, LastAt, KeyR, Index, Blocks
  <2>2. b \in Nat /\ b >= 1 /\ K = <<K[1], EXTENT, 0, 0>> /\ K[1] \in Int
    <3>1. s[1] \in DOMAIN m.nodes /\ s[2] \in 1..Count(m, s[1])
      BY RecTypes
    <3>2. b \in Nat
      BY <3>1, NodeTypes DEF Blocks
    <3>3. QED
      BY <1>1, <1>3, <3>2, KeyFields DEF After
  <2> HIDE DEF K, b
  <2>3. LastR(m, s) = <<K[1] + b - 1, EXTENT, 0, 0>>
    BY <2>1, <2>2
  <2>4. LastR(m, s) \in GoodKeys
    BY <2>2, <2>3 DEF GoodKeys, EXTENT, NamedTypes, DIR_REC, XATTR, SNAP_NAME
  <2>5. Le(K, LastR(m, s))
    <3>1. K[1] <= LastR(m, s)[1]
      BY <2>2, <2>3
    <3>2. Lt(K, LastR(m, s)) \/ K = LastR(m, s)
      <4>1. K[1] < LastR(m, s)[1] => Lt(K, LastR(m, s))
        BY <1>1, <2>4, CmpFields
      <4>2. K[1] = LastR(m, s)[1] => K = LastR(m, s)
        BY <2>2, <2>3
      <4>3. QED
        BY <2>2, <2>3, <3>1, <4>1, <4>2
    <3>3. QED
      BY <1>1, <2>4, <3>2, CmpTotal
  <2>6. QED
    BY <1>3, <2>2, <2>3, <2>4, <2>5 DEF K, b
<1>4. QED
  BY <1>2, <1>3

\* Everything that was read is not after the next record.
LEMMA ReadBefore ==
  ASSUME NEW m, OnDisk(m), NEW E, E \subseteq DOMAIN m.nodes, NEW D, D \subseteq Recs(m, E), NEW lst,
         OrdRead(m, D, lst), NEW s \in Recs(m, E), After(m, s, lst), NEW r \in D
  PROVE  /\ Le(LastR(m, r), KeyR(m, s)) /\ Le(KeyR(m, r), KeyR(m, s)) /\ Le(LastR(m, r), LastR(m, s))
         /\ Lt(lst, KeyR(m, s)) => Lt(KeyR(m, r), KeyR(m, s)) /\ Lt(LastR(m, r), KeyR(m, s))
<1> DEFINE k == KeyR(m, r)
           l == LastR(m, r)
           ks == KeyR(m, s)
           ls == LastR(m, s)
<1>1. k \in GoodKeys /\ l \in GoodKeys /\ ks \in GoodKeys /\ ls \in GoodKeys /\ lst \in GoodKeys
  BY RecTypes, LastGood DEF OrdRead
<1>2. Le(k, l) /\ Le(l, lst) /\ Le(lst, ks) /\ Le(ks, ls)
  BY LastGood DEF OrdRead, After
<1> HIDE DEF k, l, ks, ls
<1>3. Le(l, ks) /\ (Lt(lst, ks) => Lt(l, ks))
  BY <1>1, <1>2, LeTrans
<1>4. Le(k, ks) /\ Le(l, ls) /\ (Lt(l, ks) => Lt(k, ks))
  BY <1>1, <1>2, <1>3, LeTrans
<1>5. QED
  BY <1>3, <1>4 DEF k, l, ks, ls

\* The next record keeps all before last_key, and its node in order.
LEMMA OrdReadChange ==
  ASSUME NEW m, OnDisk(m), NEW E, E \subseteq DOMAIN m.nodes, NEW D, D \subseteq Recs(m, E), NEW lst,
         OrdRead(m, D, lst), NEW s \in Recs(m, E), After(m, s, lst)
  PROVE  OrdRead(m, D \cup {s}, LastR(m, s))
<1>1. LastR(m, s) \in GoodKeys /\ Le(KeyR(m, s), LastR(m, s))
  BY LastGood
<1>2. Le(LastR(m, s), LastR(m, s))
  BY <1>1, CmpTotal
<1>3. \A r \in D : Le(LastR(m, r), LastR(m, s))
  BY ReadBefore
<1>4. QED
  BY <1>1, <1>2, <1>3 DEF OrdRead

\* The next record of a node is not before the others, and after them in a leaf.
LEMMA OrdNodeChange ==
  ASSUME NEW m, OnDisk(m), NEW E, E \subseteq DOMAIN m.nodes, NEW D, D \subseteq Recs(m, E), NEW lst,
         OrdRead(m, D, lst), OrdNode(m, D), NEW s \in Recs(m, E), After(m, s, lst),
         \A r \in D : r[1] = s[1] => r[2] < s[2]
  PROVE  OrdNode(m, D \cup {s})
<1>1. \A r \in D \cup {s} : r[2] \in Int
  BY RecTypes
<1>2. ASSUME NEW r \in D, r[1] = s[1]
      PROVE  Le(KeyR(m, r), KeyR(m, s)) /\ (~Index(m, r) => Lt(KeyR(m, r), KeyR(m, s)))
  <2>1. Le(KeyR(m, r), KeyR(m, s)) /\ (Lt(lst, KeyR(m, s)) => Lt(KeyR(m, r), KeyR(m, s)))
    BY ReadBefore
  <2>2. r[2] < s[2] /\ r[2] \in 1..Count(m, r[1]) /\ s[2] \in Int
    BY <1>1, <1>2, RecTypes
  <2>3. s[2] # 1
    BY <2>2
  <2>4. ~Index(m, r) => Lt(lst, KeyR(m, s))
    BY <1>2, <2>3 DEF After, Index
  <2>5. QED
    BY <2>1, <2>4
<1>3. ASSUME NEW r \in D \cup {s}, NEW t \in D \cup {s}, r[1] = t[1], r[2] < t[2]
      PROVE  Le(KeyR(m, r), KeyR(m, t)) /\ (~Index(m, r) => Lt(KeyR(m, r), KeyR(m, t)))
  <2>1. CASE r \in D /\ t \in D
    BY <1>3, <2>1 DEF OrdNode
  <2>2. CASE r \in D /\ t = s
    BY <1>2, <1>3, <2>2
  <2>3. CASE r = s
    <3>1. t \in D \/ t = s
      OBVIOUS
    <3>2. t \in D => t[2] < s[2]
      BY <1>3, <2>3
    <3>3. QED
      BY <1>1, <1>3, <2>3, <3>1, <3>2
  <2>4. QED
    BY <2>1, <2>2, <2>3
<1>4. QED
  BY <1>3 DEF OrdNode

\* The next extent does not overlap those before it.
LEMMA OrdExtentsChange ==
  ASSUME NEW m, OnDisk(m), NEW E, E \subseteq DOMAIN m.nodes, NEW D, D \subseteq Recs(m, E), NEW lst,
         OrdRead(m, D, lst), OrdExtents(m, D), NEW s \in Recs(m, E), After(m, s, lst),
         \A r \in D : r[1] = s[1] => r[2] < s[2]
  PROVE  OrdExtents(m, D \cup {s})
<1> SUFFICES ASSUME m.type = "extentref" PROVE OrdExtents(m, D \cup {s})
  BY DEF OrdExtents
<1>1. ASSUME NEW r \in D, ~Index(m, r), ~Index(m, s)
      PROVE  /\ KeyR(m, r)[1] + Blocks(m, r) <= KeyR(m, s)[1] + (IF r[1] = s[1] THEN 0 ELSE 1)
             /\ ~(KeyR(m, s)[1] < KeyR(m, r)[1])
  <2> DEFINE a == KeyR(m, r)[1]
             b == Blocks(m, r)
             z == KeyR(m, s)[1]
             l == LastR(m, r)
  <2>0. l = <<a + b - 1, EXTENT, 0, 0>> /\ b \in Nat
    <3>1. KeyR(m, r) = <<a, EXTENT, 0, 0>>
      BY <1>1 DEF OrdExtents
    <3>2. l = [KeyR(m, r) EXCEPT ![1] = @ + b - 1]
      BY <1>1 DEF LastR, LastAt, KeyR, Index, Blocks
    <3>3. r[1] \in DOMAIN m.nodes /\ r[2] \in 1..Count(m, r[1])
      BY RecTypes
    <3>4. b \in Nat
      BY <3>3, NodeTypes DEF Blocks
    <3> HIDE DEF a, b, l
    <3>5. QED
      BY <3>1, <3>2, <3>4
  <2>1. /\ KeyR(m, r) \in GoodKeys /\ KeyR(m, s) \in GoodKeys /\ l \in GoodKeys
        /\ l[1] = a + b - 1 /\ b \in Nat /\ b >= 1
    <3>1. KeyR(m, r) \in GoodKeys /\ KeyR(m, s) \in GoodKeys /\ l \in GoodKeys /\ b >= 1
      BY <1>1, RecTypes DEF OrdRead, OrdExtents
    <3> HIDE DEF a, b, l
    <3>2. QED
      BY <2>0, <3>1
  <2>2. a \in Int /\ z \in Int /\ l[1] \in Int
    BY <2>1, KeyFields
  <2>3. Le(l, KeyR(m, s)) /\ (Lt(lst, KeyR(m, s)) => Lt(l, KeyR(m, s)))
    BY ReadBefore
  <2>4. l[1] <= z
    <3>1. ~Lt(KeyR(m, s), l)
      BY <2>1, <2>3, CmpTotal
    <3>2. QED
      BY <2>1, <2>2, <3>1, CmpFields
  <2>5. ASSUME r[1] = s[1] PROVE l[1] < z
    <3>1. r[2] < s[2] /\ r[2] \in 1..Count(m, r[1]) /\ s[2] \in 1..Count(m, s[1])
      BY <2>5, RecTypes
    <3>2. s[2] # 1
      BY <3>1
    <3>3. Lt(l, KeyR(m, s))
      BY <1>1, <2>3, <3>2 DEF After
    <3>4. KeyR(m, s) = <<z, EXTENT, 0, 0>>
      BY <1>1 DEF After
    <3>6. l[2] = EXTENT /\ l[3] = 0 /\ l[4] = 0 /\ KeyR(m, s)[2] = EXTENT /\ KeyR(m, s)[3] = 0 /\ KeyR(m, s)[4] = 0
      <4> HIDE DEF a, b, z, l
      <4>1. QED
        BY <2>0, <3>4
    <3>7. QED
      <4>1. EXTENT \in Nat
        BY DEF EXTENT
      <4>2. QED
        BY <2>1, <2>2, <3>3, <3>6, <4>1, CmpFields
  <2> HIDE DEF a, b, z, l
  <2>6. a + b <= z + (IF r[1] = s[1] THEN 0 ELSE 1) /\ ~(z < a)
    BY <2>1, <2>2, <2>4, <2>5
  <2>7. QED
    BY <2>6 DEF a, b, z
<1>2. KeyR(m, s)[1] \in Int
  BY RecTypes, KeyFields
<1>3. ASSUME NEW r \in D \cup {s}, NEW t \in D \cup {s}, ~Index(m, r), ~Index(m, t), KeyR(m, r)[1] < KeyR(m, t)[1]
      PROVE  KeyR(m, r)[1] + Blocks(m, r) <= KeyR(m, t)[1] + (IF r[1] = t[1] THEN 0 ELSE 1)
  <2>1. CASE r \in D /\ t \in D
    BY <1>3, <2>1 DEF OrdExtents
  <2>2. CASE r \in D /\ t = s
    BY <1>1, <1>3, <2>2
  <2>3. CASE r = s /\ t \in D
    BY <1>1, <1>3, <2>3
  <2>4. CASE r = s /\ t = s
    BY <1>2, <1>3, <2>4
  <2>5. QED
    BY <2>1, <2>2, <2>3, <2>4
<1>4. \A r \in D \cup {s} : ~Index(m, r) => Blocks(m, r) >= 1 /\ KeyR(m, r) = <<KeyR(m, r)[1], EXTENT, 0, 0>>
  BY DEF OrdExtents, After
<1>5. QED
  BY <1>3, <1>4 DEF OrdExtents

\* The first record of a child.
LEMMA OrdFirstChange ==
  ASSUME NEW m, OnDisk(m), NEW st, StackT(m, st), NEW E, Chain(m, st, E, FALSE), NEW lst,
         TreeInv(m, E, DoneRecs(m, st, E), PendRecs(st, FALSE)), OrdFirst(m, DoneRecs(m, st, E), {}),
         OrdHere(m, st, FALSE, lst), NEW s, s = <<TopOf(st).id, TopOf(st).i + 1>>, TopOf(st).i \in Nat,
         Len(st) >= 1, After(m, s, lst), NEW P, P = {s} \/ (P = {} /\ ~Index(m, s))
  PROVE  OrdFirst(m, DoneRecs(m, st, E) \cup {s}, P)
<1> DEFINE D == DoneRecs(m, st, E)
<1>0. PendRecs(st, FALSE) = {}
  BY DEF PendRecs
<1>1. ASSUME NEW r \in D, Index(m, r), s[1] = ChildR(m, r), s[2] = 1 PROVE KeyR(m, s) = KeyR(m, r)
  <2>1. TopOf(st).i = 0 /\ TopOf(st).id = ChildR(m, r) /\ Len(st) \in Nat
    BY <1>1 DEF StackT
  <2>2. ChildR(m, r) # m.root /\ E \subseteq DOMAIN m.nodes
    BY <1>0, <1>1 DEF TreeInv
  <2>3. Len(st) >= 2
    BY <2>1, <2>2 DEF Chain, TopOf
  <2> DEFINE j == Len(st) - 1
             p == <<st[j].id, st[j].i>>
  <2>4. j \in 1..Len(st) /\ j < Len(st) /\ j + 1 = Len(st)
    BY <2>1, <2>3
  <2>5. ~IsLeaf(m, st[j].id) /\ st[j].i >= 1 /\ st[j + 1].id = ChildAt(m, st[j].id, st[j].i)
    BY <2>4 DEF Chain
  <2>6. p \in D
    BY <2>2, <2>4, <2>5, OpenDone
  <2>7. Index(m, p) /\ ChildR(m, p) = ChildR(m, r)
    BY <2>1, <2>4, <2>5 DEF Index, ChildR, TopOf
  <2>8. lst = KeyR(m, p)
    BY <2>1, <2>3 DEF OrdHere, KeyR
  <2> HIDE DEF p, D
  <2>9. TreeInv(m, E, D, {})
    BY <1>0 DEF D
  <2>10. p = r
    BY <1>1, <2>6, <2>7, <2>9 DEF TreeInv
  <2>11. lst = KeyR(m, s)
    BY <1>1, <2>2 DEF After
  <2>12. QED
    BY <2>8, <2>10, <2>11
<1>2. \A r \in (D \cup {s}) \ P : Index(m, r) => r \in D
  OBVIOUS
<1> HIDE DEF D
<1>3. OrdFirst(m, D, {})
  BY DEF D
<1>4. QED
  BY <1>1, <1>2, <1>3 DEF OrdFirst, D

\* The record after a record whose subtree was read.
LEMMA OrdNextChange ==
  ASSUME NEW m, OnDisk(m), NEW st, StackT(m, st), NEW E, Chain(m, st, E, FALSE), NEW lst,
         TreeInv(m, E, DoneRecs(m, st, E), PendRecs(st, FALSE)), OrdNext(m, DoneRecs(m, st, E)),
         OrdRead(m, DoneRecs(m, st, E), lst), NEW s \in Recs(m, E), s[1] = TopOf(st).id,
         Len(st) >= 1, After(m, s, lst), \A r \in DoneRecs(m, st, E) : r[1] = s[1] => r[2] < s[2]
  PROVE  OrdNext(m, DoneRecs(m, st, E) \cup {s})
<1> DEFINE D == DoneRecs(m, st, E)
<1>0. PendRecs(st, FALSE) = {} /\ D \subseteq Recs(m, E) /\ E \subseteq DOMAIN m.nodes /\ Len(st) \in Nat
  BY DEF PendRecs, DoneRecs, TreeInv, StackT
<1>1. ASSUME NEW r \in D, Index(m, r), s[1] = r[1], NEW x \in Leaves(m, Under(m, ChildR(m, r)))
      PROVE  Le(KeyR(m, x), KeyR(m, s))
  <2>1. \A k \in 1..Len(st) : k < Len(st) => st[k].id # r[1]
    <3>1. r[1] = st[Len(st)].id /\ Len(st) \in 1..Len(st)
      BY <1>0, <1>1 DEF TopOf
    <3>2. \A j, k \in 1..Len(st) : st[j].id = st[k].id => j = k
      BY DEF Chain
    <3>3. QED
      BY <3>1, <3>2
  <2>2. \A k \in 1..Len(st) : k < Len(st) => r # <<st[k].id, st[k].i>>
    BY <2>1
  <2>3. r \in DoneRecs(m, st, E) \ PendRecs(st, FALSE)
    BY <1>0
  <2>4. ChildR(m, r) \in E \ OpenIds(st)
    BY <1>1, <2>2, <2>3, SettledClosed
  <2>5. x \in D
    BY <1>1, <2>4, ClosedUnder
  <2>6. QED
    BY <1>0, <2>5, ReadBefore
<1>2. s[2] \in Int
  BY <1>0, RecTypes
<1>3. ASSUME NEW r \in D \cup {s}, NEW t \in D \cup {s}, Index(m, r), t[1] = r[1], t[2] = r[2] + 1,
             NEW x \in Leaves(m, Under(m, ChildR(m, r)))
      PROVE  Le(KeyR(m, x), KeyR(m, t))
  <2>1. CASE r \in D /\ t \in D
    BY <1>3, <2>1 DEF OrdNext
  <2>2. CASE r \in D /\ t = s
    BY <1>1, <1>3, <2>2
  <2>3. CASE r = s
    <3>1. t \in D => t[2] < s[2]
      BY <1>3, <2>3
    <3>2. t[2] \in Int
      BY <1>0, RecTypes
    <3>3. QED
      BY <1>2, <1>3, <2>3, <3>1, <3>2
  <2>4. QED
    BY <2>1, <2>2, <2>3
<1>4. QED
  BY <1>3 DEF OrdNext

NonEmpty(m, E) == \A c \in E : c # m.root => Count(m, c) > 0

\* What is under a node that is being left.
LEMMA OrdUnderPop ==
  ASSUME NEW m, OnDisk(m), NEW st, StackT(m, st), NEW E, Chain(m, st, E, FALSE),
         TreeInv(m, E, DoneRecs(m, st, E), PendRecs(st, FALSE)), NonEmpty(m, E),
         OrdNode(m, DoneRecs(m, st, E)), OrdFirst(m, DoneRecs(m, st, E), {}),
         OrdUnder(m, E \ OpenIds(st)), Len(st) >= 1, TopOf(st).i = Count(m, TopOf(st).id)
  PROVE  OrdUnder(m, (E \ OpenIds(st)) \cup {TopOf(st).id})
<1> DEFINE D == DoneRecs(m, st, E)
           t == TopOf(st).id
           C == E \ OpenIds(st)
<1>0. /\ PendRecs(st, FALSE) = {} /\ D \subseteq Recs(m, E) /\ E \subseteq DOMAIN m.nodes /\ Len(st) \in Nat
      /\ t \in E
  BY DEF PendRecs, DoneRecs, TreeInv, StackT, Chain, TopOf
<1>1. t \in DOMAIN m.nodes /\ Count(m, t) \in Nat
  BY <1>0, NodeTypes
<1>2. ASSUME NEW i \in 1..Count(m, t) PROVE <<t, i>> \in D
  <2>1. \A k \in 1..Len(st) : st[k].id = t => k = Len(st)
    BY <1>0 DEF Chain, TopOf
  <2>2. \A k \in 1..Len(st) : st[k].id = t => i <= st[k].i
    BY <1>1, <2>1 DEF TopOf
  <2>3. QED
    BY <1>0, <2>2, DoneIn
<1>3. ASSUME NEW i \in 1..Count(m, t)
      PROVE  Le(KeyAt(m, t, 1), KeyAt(m, t, i)) /\ KeyAt(m, t, 1) \in GoodKeys /\ KeyAt(m, t, i) \in GoodKeys
             /\ 1 \in 1..Count(m, t)
  <2>1. 1 \in 1..Count(m, t)
    BY <1>1
  <2>2. KeyAt(m, t, 1) \in GoodKeys /\ KeyAt(m, t, i) \in GoodKeys
    BY <1>1, <2>1, NodeTypes
  <2>3. CASE i = 1
    BY <2>1, <2>2, <2>3, CmpTotal
  <2>4. CASE i # 1
    <3> DEFINE r == <<t, 1>>
               q == <<t, i>>
    <3>1. r \in D /\ q \in D /\ r[1] = q[1] /\ r[2] < q[2]
      BY <1>2, <2>1, <2>4
    <3> HIDE DEF r, q, D
    <3>2. Le(KeyR(m, r), KeyR(m, q))
      BY <3>1 DEF OrdNode, D
    <3>3. QED
      BY <2>1, <2>2, <3>2 DEF KeyR, r, q
  <2>5. QED
    BY <2>3, <2>4
<1>4. ASSUME NEW i \in 1..Count(m, t), ~IsLeaf(m, t)
      PROVE  LET c == ChildAt(m, t, i)
             IN  c \in C /\ Count(m, c) > 0 /\ KeyAt(m, c, 1) = KeyAt(m, t, i) /\ c \in KidsOf(m, t)
  <2> DEFINE c == ChildAt(m, t, i)
             r == <<t, i>>
  <2>1. r \in DoneRecs(m, st, E) \ PendRecs(st, FALSE) /\ Index(m, r) /\ ChildR(m, r) = c
    BY <1>0, <1>2, <1>4 DEF Index, ChildR
  <2>2. \A k \in 1..Len(st) : k < Len(st) => r # <<st[k].id, st[k].i>>
    BY <1>0 DEF Chain, TopOf
  <2> HIDE DEF r
  <2>3. c \in C
    <3>1. ChildR(m, r) \in E \ OpenIds(st)
      BY <2>1, <2>2, SettledClosed
    <3>2. QED
      BY <2>1, <3>1
  <2>4. c # m.root
    BY <2>1 DEF TreeInv
  <2>5. Count(m, c) > 0 /\ Count(m, c) \in Nat
    BY <1>0, <2>3, <2>4, NodeTypes DEF NonEmpty
  <2>6. <<c, 1>> \in D
    <3> HIDE DEF c
    <3>1. c \in E \ OpenIds(st) /\ 1 \in 1..Count(m, c)
      BY <2>3, <2>5
    <3>2. QED
      BY <3>1, ClosedDone
  <2> DEFINE q == <<c, 1>>
  <2>7. q \in D /\ q[1] = ChildR(m, r) /\ q[2] = 1 /\ r \in D \ {}
    BY <1>0, <2>1, <2>6
  <2> HIDE DEF q, c, D
  <2>8. KeyR(m, q) = KeyR(m, r)
    BY <2>1, <2>7 DEF OrdFirst, D
  <2>9. KeyAt(m, c, 1) = KeyAt(m, t, i)
    BY <2>8 DEF KeyR, q, r
  <2>10. c \in KidsOf(m, t)
    BY <1>4, KidIn DEF c
  <2>11. QED
    BY <2>3, <2>5, <2>9, <2>10 DEF c
<1>5. ASSUME NEW x \in Leaves(m, Under(m, t)) PROVE Le(KeyAt(m, t, 1), KeyR(m, x))
  <2>1. x = <<x[1], x[2]>> /\ x[1] \in Under(m, t) /\ x[2] \in 1..Count(m, x[1]) /\ IsLeaf(m, x[1])
    BY <1>5, LeafIn, RecIn DEF Index
  <2>2. CASE x[1] = t
    BY <1>3, <2>1, <2>2 DEF KeyR
  <2>3. CASE \E c \in KidsOf(m, t) : x[1] \in Under(m, c)
    <3>1. PICK c \in KidsOf(m, t) : x[1] \in Under(m, c)
      BY <2>3
    <3>2. PICK i \in 1..Count(m, t) : c = ChildAt(m, t, i) /\ ~IsLeaf(m, t)
      BY <3>1, KidIn
    <3>3. c \in C /\ KeyAt(m, c, 1) = KeyAt(m, t, i)
      BY <1>4, <3>2
    <3>4. x \in Leaves(m, Under(m, c))
      BY <2>1, <3>1, LeafIn, RecIn DEF Index
    <3>5. Le(KeyAt(m, c, 1), KeyR(m, x)) /\ x \in D
      BY <3>3, <3>4, ClosedUnder DEF OrdUnder
    <3>6. KeyR(m, x) \in GoodKeys
      BY <1>0, <3>5, RecTypes
    <3>7. QED
      BY <1>3, <3>3, <3>5, <3>6, LeTrans
  <2>4. QED
    BY <1>1, <2>1, <2>2, <2>3, UnderSplit
<1>6. ASSUME Count(m, t) > 0 PROVE \E x \in Leaves(m, Under(m, t)) : KeyR(m, x) = KeyAt(m, t, 1)
  <2>0. 1 \in 1..Count(m, t) /\ t \in Under(m, t)
    BY <1>1, <1>6, UnderStays
  <2>1. CASE IsLeaf(m, t)
    <3> DEFINE x == <<t, 1>>
    <3>1. x \in Leaves(m, Under(m, t)) /\ KeyR(m, x) = KeyAt(m, t, 1)
      BY <2>0, <2>1, LeafIn DEF KeyR
    <3>2. QED
      BY <3>1
  <2>2. CASE ~IsLeaf(m, t)
    <3> DEFINE c == ChildAt(m, t, 1)
    <3>1. c \in C /\ Count(m, c) > 0 /\ KeyAt(m, c, 1) = KeyAt(m, t, 1) /\ c \in KidsOf(m, t)
      BY <1>4, <2>0, <2>2
    <3> HIDE DEF c
    <3>2. PICK x \in Leaves(m, Under(m, c)) : KeyR(m, x) = KeyAt(m, c, 1)
      BY <3>1 DEF OrdUnder
    <3>3. Under(m, c) \subseteq Under(m, t)
      BY <1>1, <3>1, UnderSplit
    <3>4. x \in Leaves(m, Under(m, t))
      BY <3>3, LeafIn, RecIn
    <3>5. QED
      BY <3>1, <3>2, <3>4
  <2>3. QED
    BY <2>1, <2>2
<1> HIDE DEF t
<1>7. QED
  BY <1>5, <1>6 DEF OrdUnder, t

-----------------------------------------------------------------------------
(* The invariant of parse_subtree(): the tree and the order so far. *)

Core(m, E, pd, st, lst) ==
  /\ Chain(m, st, E, pd) /\ TreeInv(m, E, DoneRecs(m, st, E), PendRecs(st, pd)) /\ NonEmpty(m, E)
  /\ OrdRead(m, DoneRecs(m, st, E), lst) /\ OrdNode(m, DoneRecs(m, st, E))
  /\ OrdFirst(m, DoneRecs(m, st, E), PendRecs(st, pd)) /\ OrdNext(m, DoneRecs(m, st, E))
  /\ OrdUnder(m, E \ OpenIds(st)) /\ OrdExtents(m, DoneRecs(m, st, E)) /\ OrdHere(m, st, pd, lst)

\* A node is entered.
LEMMA CorePush ==
  ASSUME NEW m, OnDisk(m), NEW st, StackT(m, st), NEW E, NEW lst, Core(m, E, TRUE, st, lst),
         NEW st2, NEW f, Pushed(st, st2, f), f.i = 0, f.id \in DOMAIN m.nodes, f.id \notin E,
         Len(st) = 0 => f.id = m.root,
         Len(st) >= 1 => f.id = ChildAt(m, TopOf(st).id, TopOf(st).i) /\ Count(m, f.id) > 0
  PROVE  Core(m, E \cup {f.id}, FALSE, st2, lst)
<1> DEFINE D == DoneRecs(m, st, E)
           P == PendRecs(st, TRUE)
           c == f.id
           p == <<TopOf(st).id, TopOf(st).i>>
<1>0. Len(st) \in Nat /\ D \subseteq Recs(m, E) /\ E \subseteq DOMAIN m.nodes /\ Len(st2) = Len(st) + 1
  BY DEF StackT, DoneRecs, Core, TreeInv, Pushed
<1>1. Chain(m, st2, E \cup {c}, FALSE)
  <2>1. Chain(m, st, E, TRUE) /\ (Len(st) >= 1 => f.id = ChildAt(m, TopOf(st).id, TopOf(st).i))
    BY DEF Core
  <2>2. QED
    BY <2>1, ChainPush
<1>2. DoneRecs(m, st2, E \cup {c}) = D /\ PendRecs(st2, FALSE) = {}
  BY DonePush DEF PendRecs
<1>3. ASSUME Len(st) >= 1 PROVE P = {p} /\ p \in D /\ Index(m, p) /\ ChildR(m, p) = c /\ m.root \in E
  <2>0. Chain(m, st, E, TRUE)
    BY DEF Core
  <2>1. Len(st) \in 1..Len(st) /\ 1 \in 1..Len(st)
    BY <1>0, <1>3
  <2>2. ~IsLeaf(m, TopOf(st).id) /\ TopOf(st).i >= 1 /\ m.root \in E
    BY <1>3, <2>0, <2>1 DEF Chain, TopOf
  <2>3. <<st[Len(st)].id, st[Len(st)].i>> \in D
    BY <1>0, <2>0, <2>1, <2>2, OpenDone DEF TopOf
  <2>4. QED
    BY <1>3, <2>2, <2>3 DEF PendRecs, TopOf, Index, ChildR
<1>4. TreeInv(m, E \cup {c}, D, {})
  <2>1. Len(st) = 0 => E = {}
    BY DEF Core, Chain
  <2>2. \/ E = {} /\ c = m.root
        \/ m.root \in E /\ \E q \in D : P = {q} /\ Index(m, q) /\ ChildR(m, q) = c
    <3>1. CASE Len(st) = 0
      BY <2>1, <3>1
    <3>2. CASE Len(st) >= 1
      <4> HIDE DEF p, P, D, c
      <4>1. P = {p} /\ p \in D /\ Index(m, p) /\ ChildR(m, p) = c /\ m.root \in E
        BY <1>3, <3>2
      <4>2. QED
        BY <4>1
    <3>3. Len(st) = 0 \/ Len(st) >= 1
      BY <1>0
    <3> HIDE DEF P, D, c
    <3>4. QED
      BY <3>1, <3>2, <3>3
  <2>3. TreeInv(m, E, D, P)
    BY DEF Core
  <2> HIDE DEF D, P, c
  <2>4. c \in DOMAIN m.nodes /\ c \notin E
    BY DEF c
  <2>5. QED
    BY <1>0, <2>2, <2>3, <2>4, TreePush
<1>5. NonEmpty(m, E \cup {c})
  <2>1. c # m.root => Count(m, c) > 0
    BY <1>0
  <2>2. QED
    BY <2>1 DEF NonEmpty, Core
<1>6. OrdFirst(m, D, {})
  <2>1. ASSUME NEW r \in D, NEW s \in D, Index(m, r), s[1] = ChildR(m, r), s[2] = 1
        PROVE  KeyR(m, s) = KeyR(m, r)
    <3>1. CASE r \notin P
      <4>1. OrdFirst(m, D, P)
        BY DEF Core
      <4> HIDE DEF D, P
      <4>2. QED
        BY <2>1, <3>1, <4>1 DEF OrdFirst
    <3>2. CASE r \in P
      <4>1. Len(st) >= 1
        BY <3>2 DEF PendRecs
      <4>2. ChildR(m, r) = c
        BY <1>3, <3>2, <4>1
      <4>3. s[1] \in E
        BY <1>0, RecIn
      <4>4. QED
        BY <2>1, <4>2, <4>3
    <3>3. QED
      BY <3>1, <3>2
  <2> HIDE DEF D
  <2>2. QED
    BY <2>1 DEF OrdFirst
<1>7. (E \cup {c}) \ OpenIds(st2) = E \ OpenIds(st)
  <2>1. \A x : x \in OpenIds(st2) <=> x \in OpenIds(st) \/ x = c
    <3>1. \A k \in 1..Len(st2) : k \in 1..Len(st) \/ k = Len(st) + 1
      BY <1>0
    <3>2. \A k \in 1..Len(st) : k \in 1..Len(st2) /\ st2[k] = st[k]
      BY <1>0 DEF Pushed
    <3>3. st2[Len(st) + 1] = f /\ Len(st) + 1 \in 1..Len(st2)
      BY <1>0 DEF Pushed
    <3>4. QED
      BY <3>1, <3>2, <3>3 DEF OpenIds
  <2>2. QED
    BY <2>1
<1>8. OrdHere(m, st2, FALSE, lst)
  <2>1. ASSUME Len(st2) >= 2 PROVE lst = KeyAt(m, st2[Len(st2) - 1].id, st2[Len(st2) - 1].i)
    <3>1. Len(st) >= 1 /\ Len(st2) - 1 = Len(st) /\ Len(st) \in 1..Len(st)
      BY <1>0, <2>1
    <3>2. st2[Len(st)] = st[Len(st)]
      BY <3>1 DEF Pushed
    <3>3. lst = KeyAt(m, st[Len(st)].id, st[Len(st)].i)
      BY <3>1 DEF Core, OrdHere, TopOf
    <3>4. QED
      BY <3>1, <3>2, <3>3
  <2>2. QED
    BY <2>1 DEF OrdHere
<1>9. OrdRead(m, D, lst) /\ OrdNode(m, D) /\ OrdNext(m, D) /\ OrdUnder(m, E \ OpenIds(st)) /\ OrdExtents(m, D)
  BY DEF Core
<1> HIDE DEF D, c
<1>10. Core(m, E \cup {c}, FALSE, st2, lst)
  BY <1>1, <1>2, <1>4, <1>5, <1>6, <1>7, <1>8, <1>9 DEF Core
<1>11. QED
  BY <1>10 DEF c

\* A record is read.
LEMMA CoreChange ==
  ASSUME NEW m, OnDisk(m), NEW st, StackT(m, st), NEW E, NEW lst, Core(m, E, FALSE, st, lst),
         NEW st2, NEW f, Changed(st, st2, f), f.id = TopOf(st).id, f.i = TopOf(st).i + 1, TopOf(st).i \in Nat,
         f.i <= Count(m, f.id), NEW s, s = <<f.id, f.i>>, After(m, s, lst),
         NEW pd \in BOOLEAN, pd <=> Index(m, s)
  PROVE  Core(m, E, pd, st2, LastR(m, s))
<1> DEFINE D == DoneRecs(m, st, E)
           P == PendRecs(st2, pd)
<1>0. /\ Len(st) \in Nat /\ Len(st) >= 1 /\ D \subseteq Recs(m, E) /\ E \subseteq DOMAIN m.nodes
      /\ Len(st2) = Len(st) /\ TopOf(st2) = f /\ Chain(m, st, E, FALSE) /\ PendRecs(st, FALSE) = {}
  <2>1. Chain(m, st, E, FALSE)
    BY DEF Core
  <2>2. Len(st) \in Nat /\ Len(st) >= 1 /\ Len(st2) = Len(st) /\ TopOf(st2) = f
    BY DEF StackT, Changed, TopOf
  <2>3. PendRecs(st, FALSE) = {} /\ D \subseteq Recs(m, E)
    BY DEF PendRecs, DoneRecs
  <2>4. E \subseteq DOMAIN m.nodes
    BY DEF Core, TreeInv
  <2>5. QED
    BY <2>1, <2>2, <2>3, <2>4
<1>1. f.id \in E /\ \A j, k \in 1..Len(st) : st[j].id = st[k].id => j = k
  BY <1>0 DEF Chain, TopOf
<1>2. DoneRecs(m, st2, E) = D \cup {s} /\ s \notin D /\ OpenIds(st2) = OpenIds(st)
  BY <1>1, DoneChange
<1>3. s \in Recs(m, E) /\ s[1] = f.id /\ s[2] = f.i
  <2>1. f.id \in DOMAIN m.nodes /\ f.i \in Nat /\ f.i >= 1
    BY <1>0, <1>1
  <2>2. Count(m, f.id) \in Nat
    BY <2>1, NodeTypes
  <2>3. f.i \in 1..Count(m, f.id)
    BY <2>1, <2>2
  <2>4. QED
    BY <1>1, <2>3, RecIn
<1>4. P = {s} \/ (P = {} /\ ~Index(m, s))
  BY <1>0 DEF PendRecs
<1>5. \A r \in D : r[1] = s[1] => r[2] < s[2]
  <2>1. ASSUME NEW r \in D, r[1] = s[1] PROVE r[2] < s[2]
    <3>1. r[2] <= st[Len(st)].i
      <4>1. Len(st) \in 1..Len(st) /\ st[Len(st)].id = r[1]
        BY <1>0, <1>3, <2>1 DEF TopOf
      <4>2. QED
        BY <4>1 DEF DoneRecs
    <3>2. r[2] \in 1..Count(m, r[1])
      BY <1>0, RecTypes
    <3>3. QED
      BY <1>3, <3>1, <3>2 DEF TopOf
  <2>2. QED
    BY <2>1
<1>6. /\ TreeInv(m, E, D, PendRecs(st, FALSE)) /\ TreeInv(m, E, D, {}) /\ NonEmpty(m, E) /\ OrdRead(m, D, lst)
      /\ OrdNode(m, D) /\ OrdFirst(m, D, {}) /\ OrdNext(m, D) /\ OrdUnder(m, E \ OpenIds(st))
      /\ OrdExtents(m, D) /\ OrdHere(m, st, FALSE, lst)
  BY <1>0 DEF Core
<1>7. Chain(m, st2, E, pd)
  BY <1>0, <1>3, ChainChange DEF Index
<1>8. OrdFirst(m, D \cup {s}, P)
  <2> HIDE DEF P
  <2>1. s = <<TopOf(st).id, TopOf(st).i + 1>>
    OBVIOUS
  <2>2. QED
    BY <1>0, <1>4, <1>6, <2>1, OrdFirstChange
<1>9. OrdNext(m, D \cup {s})
  <2>1. s[1] = TopOf(st).id
    BY <1>3
  <2>2. QED
    BY <1>0, <1>3, <1>5, <1>6, <2>1, OrdNextChange
<1> HIDE DEF D, P
<1>10. TreeInv(m, E, D \cup {s}, P)
  BY <1>2, <1>4, <1>6, TreeChange
<1>11. OrdRead(m, D \cup {s}, LastR(m, s))
  BY <1>0, <1>3, <1>6, OrdReadChange
<1>12. OrdNode(m, D \cup {s})
  BY <1>0, <1>3, <1>5, <1>6, OrdNodeChange
<1>13. OrdExtents(m, D \cup {s})
  BY <1>0, <1>3, <1>5, <1>6, OrdExtentsChange
<1>14. OrdHere(m, st2, pd, LastR(m, s))
  <2>1. Index(m, s) => LastR(m, s) = KeyR(m, s)
    BY <1>0, <1>3, LastGood
  <2>2. TopOf(st2).i # 0
    BY <1>0
  <2>3. QED
    BY <1>0, <1>3, <2>1, <2>2 DEF OrdHere, KeyR
<1>15. QED
  BY <1>2, <1>6, <1>7, <1>8, <1>9, <1>10, <1>11, <1>12, <1>13, <1>14 DEF Core, P

\* A call returns.
LEMMA CorePop ==
  ASSUME NEW m, OnDisk(m), NEW st, StackT(m, st), NEW E, NEW lst, Core(m, E, FALSE, st, lst),
         NEW st2, Popped(st, st2), TopOf(st).i = Count(m, TopOf(st).id)
  PROVE  Core(m, E, FALSE, st2, lst)
<1> DEFINE D == DoneRecs(m, st, E)
           t == TopOf(st).id
<1>0. /\ Len(st) \in Nat /\ Len(st) >= 1 /\ Len(st2) = Len(st) - 1 /\ Chain(m, st, E, FALSE)
      /\ PendRecs(st, FALSE) = {} /\ PendRecs(st2, FALSE) = {}
  <2>1. Chain(m, st, E, FALSE)
    BY DEF Core
  <2>2. Len(st) \in Nat /\ Len(st) >= 1 /\ Len(st2) = Len(st) - 1
    BY DEF StackT, Popped
  <2>3. PendRecs(st, FALSE) = {} /\ PendRecs(st2, FALSE) = {}
    BY DEF PendRecs
  <2>4. QED
    BY <2>1, <2>2, <2>3
<1>1. DoneRecs(m, st2, E) = D
  BY DonePop
<1>2. Chain(m, st2, E, FALSE) /\ OpenIds(st2) = OpenIds(st) \ {t} /\ t \in OpenIds(st)
  BY <1>0, ChainPop
<1>3. t \in E
  BY <1>0 DEF Chain, TopOf
<1>4. E \ OpenIds(st2) = (E \ OpenIds(st)) \cup {t}
  BY <1>2, <1>3
<1>5. OrdUnder(m, (E \ OpenIds(st)) \cup {t})
  <2>1. /\ TreeInv(m, E, D, PendRecs(st, FALSE)) /\ NonEmpty(m, E) /\ OrdNode(m, D) /\ OrdFirst(m, D, {})
        /\ OrdUnder(m, E \ OpenIds(st))
    BY <1>0 DEF Core
  <2>2. QED
    BY <1>0, <2>1, OrdUnderPop
<1>6. OrdHere(m, st2, FALSE, lst)
  <2>1. ASSUME Len(st2) >= 2 PROVE TopOf(st2).i # 0
    <3>1. Len(st2) \in 1..(Len(st) - 1) /\ Len(st2) \in 1..Len(st) /\ Len(st2) < Len(st)
      BY <1>0, <2>1
    <3>2. TopOf(st2) = st[Len(st2)]
      BY <3>1 DEF Popped, TopOf
    <3>3. st[Len(st2)].i >= 1
      BY <1>0, <3>1 DEF Chain
    <3>4. QED
      BY <3>2, <3>3
  <2>2. QED
    BY <2>1 DEF OrdHere
<1>7. QED
  <2>1. /\ TreeInv(m, E, D, {}) /\ NonEmpty(m, E) /\ OrdNode(m, D) /\ OrdFirst(m, D, {}) /\ OrdRead(m, D, lst)
        /\ OrdNext(m, D) /\ OrdExtents(m, D)
    BY <1>0 DEF Core
  <2> HIDE DEF D
  <2>2. QED
    BY <1>0, <1>1, <1>2, <1>4, <1>5, <1>6, <2>1 DEF Core

-----------------------------------------------------------------------------
(* Counts. *)

CountInv(m, E, sts) == sts.nodes = Cardinality(E) /\ sts.keys = Cardinality(Leaves(m, E))

\* The records of one node.
LEMMA RowCount ==
  ASSUME NEW id, NEW n \in Nat
  PROVE  IsFiniteSet({<<id, i>> : i \in 1..n}) /\ Cardinality({<<id, i>> : i \in 1..n}) = n
<1> DEFINE S == {<<id, i>> : i \in 1..n}
           g == [i \in 1..n |-> <<id, i>>]
<1>0. 1 \in Int /\ n \in Int
  OBVIOUS
<1>1. IsFiniteSet(1..n) /\ Cardinality(1..n) = n
  <2>1. IsFiniteSet(1..n) /\ Cardinality(1..n) = (IF 1 > n THEN 0 ELSE n - 1 + 1)
    BY <1>0, FS_Interval
  <2>2. QED
    BY <2>1
<1>2. g \in Bijection(1..n, S)
  <2>1. g \in [1..n -> S] /\ \A i, j \in 1..n : g[i] = g[j] => i = j
    OBVIOUS
  <2>2. \A r \in S : \E i \in 1..n : g[i] = r
    OBVIOUS
  <2> HIDE DEF g, S
  <2>3. QED
    BY <2>1, <2>2 DEF Bijection, Injection, Surjection, IsInjective
<1> HIDE DEF S, g
<1>3. IsFiniteSet(S) /\ Cardinality(S) = Cardinality(1..n)
  <2>1. ExistsBijection(1..n, S)
    BY <1>2 DEF ExistsBijection
  <2>2. QED
    BY <1>1, <2>1, FS_Bijection
<1>4. QED
  BY <1>1, <1>3 DEF S

\* The records of finitely many nodes.
LEMMA RecsFinite ==
  ASSUME NEW m, OnDisk(m), NEW E, E \subseteq DOMAIN m.nodes
  PROVE  IsFiniteSet(E) /\ IsFiniteSet(Recs(m, E)) /\ IsFiniteSet(Leaves(m, E))
<1>1. IsFiniteSet(E)
  BY FS_Subset DEF OnDisk
<1> DEFINE A(id) == {<<id, i>> : i \in 1..Count(m, id)}
           F == {T \in SUBSET E : IsFiniteSet(Recs(m, T))}
<1>2. {} \in F
  <2>1. Recs(m, {}) = {}
    BY RecIn
  <2>2. QED
    BY <2>1, FS_EmptySet
<1>3. ASSUME NEW T \in SUBSET E, NEW x \in E \ T, T \in F PROVE T \cup {x} \in F
  <2>1. IsFiniteSet(A(x))
    BY NodeTypes, RowCount
  <2>2. ASSUME NEW r PROVE r \in Recs(m, T \cup {x}) <=> r \in Recs(m, T) \/ r \in A(x)
    <3>1. r \in A(x) <=> r = <<r[1], r[2]>> /\ r[1] = x /\ r[2] \in 1..Count(m, x)
      OBVIOUS
    <3> HIDE DEF A
    <3>2. QED
      BY <3>1, RecIn
  <2> HIDE DEF A
  <2>3. Recs(m, T \cup {x}) = Recs(m, T) \cup A(x)
    BY <2>2
  <2>4. IsFiniteSet(Recs(m, T) \cup A(x))
    BY <1>3, <2>1, FS_Union
  <2>5. QED
    BY <2>3, <2>4
<1>4. E \in F
  <2> HIDE DEF F
  <2>1. QED
    BY <1>1, <1>2, <1>3, FiniteInduction
<1>7. IsFiniteSet(Recs(m, E))
  BY <1>4
<1>8. Leaves(m, E) \subseteq Recs(m, E)
  BY LeafIn
<1>9. QED
  BY <1>1, <1>7, <1>8, FS_Subset

\* One more node.
LEMMA CountPush ==
  ASSUME NEW m, OnDisk(m), NEW E, E \subseteq DOMAIN m.nodes, NEW sts \in StatsT, CountInv(m, E, sts),
         NEW c \in DOMAIN m.nodes, c \notin E, NEW d, d = IF IsLeaf(m, c) THEN Count(m, c) ELSE 0
  PROVE  CountInv(m, E \cup {c}, [sts EXCEPT !.keys = @ + d, !.nodes = @ + 1])
<1> DEFINE t == [sts EXCEPT !.keys = @ + d, !.nodes = @ + 1]
           L == Leaves(m, E)
           A == {<<c, i>> : i \in 1..Count(m, c)}
<1>1. IsFiniteSet(E) /\ IsFiniteSet(L)
  BY RecsFinite
<1>2. Cardinality(E \cup {c}) = Cardinality(E) + 1 /\ Cardinality(E) \in Nat /\ Cardinality(L) \in Nat
  BY <1>1, FS_AddElement, FS_CardinalityType
<1>3. Count(m, c) \in Nat
  BY NodeTypes
<1>4. Cardinality(Leaves(m, E \cup {c})) = Cardinality(L) + d
  <2>1. CASE IsLeaf(m, c)
    <3>1. ASSUME NEW r PROVE r \in Leaves(m, E \cup {c}) <=> r \in L \/ r \in A
      <4>1. r \in Leaves(m, E \cup {c}) <=> r = <<r[1], r[2]>> /\ r[1] \in E \cup {c} /\ r[2] \in 1..Count(m, r[1]) /\ IsLeaf(m, r[1])
        BY LeafIn, RecIn DEF Index
      <4>2. r \in L <=> r = <<r[1], r[2]>> /\ r[1] \in E /\ r[2] \in 1..Count(m, r[1]) /\ IsLeaf(m, r[1])
        BY LeafIn, RecIn DEF Index
      <4>3. r \in A <=> r = <<r[1], r[2]>> /\ r[1] = c /\ r[2] \in 1..Count(m, c)
        OBVIOUS
      <4> HIDE DEF L, A
      <4>4. QED
        BY <2>1, <4>1, <4>2, <4>3
    <3>2. L \cap A = {}
      <4>1. \A r \in L : r[1] \in E
        BY LeafIn, RecIn
      <4>2. \A r \in A : r[1] = c
        OBVIOUS
      <4> HIDE DEF L, A
      <4>3. QED
        BY <4>1, <4>2
    <3>3. IsFiniteSet(A) /\ Cardinality(A) = Count(m, c)
      BY <1>3, RowCount
    <3> HIDE DEF L, A
    <3>4. Leaves(m, E \cup {c}) = L \cup A
      BY <3>1
    <3>5. Cardinality(L \cup A) = Cardinality(L) + Cardinality(A) - Cardinality(L \cap A) /\ Cardinality({}) = 0
      BY <1>1, <3>3, FS_Union, FS_EmptySet
    <3>7. d = Count(m, c)
      BY <2>1
    <3>8. Cardinality(L) \in Nat
      BY <1>2 DEF L
    <3>9. Cardinality(L \cup A) = Cardinality(L) + Cardinality(A) - 0
      BY <3>2, <3>5, Zenon
    <3> DEFINE z == Cardinality(Leaves(m, E \cup {c}))
               a == Cardinality(L)
               b == Cardinality(A)
    <3>10. z = a + b - 0
      BY <3>4, <3>9, Zenon
    <3>11. a \in Nat /\ b \in Nat /\ d = b
      BY <1>3, <3>3, <3>7, <3>8
    <3> HIDE DEF z, a, b
    <3>12. z = a + d
      BY <3>10, <3>11
    <3>6. QED
      BY <3>12 DEF z, a
  <2>2. CASE ~IsLeaf(m, c)
    <3>1. \A r : r \in Leaves(m, E \cup {c}) <=> r \in L
      BY <2>2, LeafIn, RecIn DEF Index
    <3>2. Leaves(m, E \cup {c}) = L
      BY <3>1
    <3>3. d = 0 /\ Cardinality(L) \in Nat
      BY <1>2, <2>2
    <3>4. QED
      BY <3>2, <3>3
  <2>3. QED
    BY <2>1, <2>2
<1>5. t.keys = sts.keys + d /\ t.nodes = sts.nodes + 1
  BY DEF StatsT
<1>6. QED
  BY <1>2, <1>4, <1>5 DEF CountInv

-----------------------------------------------------------------------------
(* The parser. *)

\* The nodes whose records are read: not the one whose lists are.
Entered(ph, c, se) == IF ph \in Heads THEN se \ {c.id} ELSE se
CoreAt(m, ph, E, st, lst) ==
  /\ ph \in Pending => Core(m, E, TRUE, st, lst)
  /\ ph \notin Pending => Core(m, E, FALSE, st, lst)
PlaceInv(m, ph, c, st, se) ==
  /\ ph \in Heads => c.id \in se /\ ("root" \in m.nodes[c.id].flags \/ Count(m, c.id) > 0)
  /\ ph \in Pending => /\ Len(st) = 0 => c.id = m.root
                       /\ Len(st) >= 1 => c.id = ChildAt(m, TopOf(st).id, TopOf(st).i)
  /\ ph \in {"start", "footer", "parsed"} => st = <<>>
  /\ ph = "start" => se = {}
NodesInv(m, E) ==
  \A id \in E : /\ id # m.root => "root" \notin m.nodes[id].flags
                /\ "fixed" \in m.nodes[id].flags <=> m.type \in FixedTrees
FooterInv(m, ph, sts) ==
  ph = "parsed" /\ ~(m.root = 0 /\ m.type \in {"free_queue", "fusion_mt"}) =>
    m.info.node_count = sts.nodes /\ m.info.key_count = sts.keys

Parse(m, ph, c, st, lst, se, sts) ==
  /\ CoreAt(m, ph, Entered(ph, c, se), st, lst) /\ PlaceInv(m, ph, c, st, se)
  /\ NodesInv(m, Entered(ph, c, se)) /\ CountInv(m, Entered(ph, c, se), sts) /\ FooterInv(m, ph, sts)

ParseInv == pc # "reported" => Parse(img, Ph(pc, query), cur, stack, last, seen, stats)

\* Nothing is read.
LEMMA CoreEmpty ==
  ASSUME NEW m, OnDisk(m), NEW pd \in BOOLEAN, NEW lst \in GoodKeys
  PROVE  Core(m, {}, pd, <<>>, lst)
<1>1. Len(<<>>) = 0 /\ 1..0 = {}
  OBVIOUS
<1>2. DoneRecs(m, <<>>, {}) = {}
  BY RecIn DEF DoneRecs
<1>3. Chain(m, <<>>, {}, pd) /\ OrdHere(m, <<>>, pd, lst)
  BY <1>1 DEF Chain, OrdHere
<1>4. TreeInv(m, {}, {}, PendRecs(<<>>, pd)) /\ NonEmpty(m, {}) /\ OrdFirst(m, {}, PendRecs(<<>>, pd))
  BY DEF TreeInv, NonEmpty, OrdFirst
<1>5. OrdRead(m, {}, lst) /\ OrdNode(m, {}) /\ OrdNext(m, {}) /\ OrdExtents(m, {}) /\ OrdUnder(m, {} \ OpenIds(<<>>))
  BY DEF OrdRead, OrdNode, OrdNext, OrdExtents, OrdUnder
<1>6. QED
  BY <1>2, <1>3, <1>4, <1>5 DEF Core

\* Nothing is read at the start.
LEMMA ParseInit == ASSUME Init PROVE ParseInv
<1>1. /\ OnDisk(img) /\ pc = "start" /\ stack = <<>> /\ last = NoKey /\ seen = {} /\ stats = NoStats /\ query = NoQuery
  BY DEF Init
<1>2. NoKey \in GoodKeys
  BY DEF NoKey, GoodKeys, NamedTypes, DIR_REC, XATTR, SNAP_NAME
<1>3. Core(img, {}, FALSE, <<>>, NoKey)
  BY <1>1, <1>2, CoreEmpty
<1>4. Ph(pc, query) = "start" /\ Entered("start", cur, seen) = {}
  BY <1>1 DEF Ph, NoQuery, Entered, Heads
<1>5. CoreAt(img, "start", {}, <<>>, NoKey)
  BY <1>3 DEF CoreAt, Pending, Heads
<1>6. Leaves(img, {}) = {}
  BY LeafIn, RecIn
<1>7. Cardinality({}) = 0
  BY FS_EmptySet
<1>8. CountInv(img, {}, NoStats)
  BY <1>6, <1>7 DEF CountInv, NoStats
<1>9. PlaceInv(img, "start", cur, stack, seen) /\ NodesInv(img, {}) /\ FooterInv(img, "start", stats)
  BY <1>1 DEF PlaceInv, NodesInv, FooterInv, Heads, Pending
<1>10. QED
  BY <1>1, <1>4, <1>5, <1>8, <1>9 DEF ParseInv, Parse

\* The root is read with no parent.
LEMMA ParseStartTree ==
  ASSUME Shape, ParseInv, pc # "reported", StartTree, pc' # "reported"
  PROVE  ParseInv'
<1>1. /\ pc = "start" /\ pc' = (IF Missing THEN "parsed" ELSE "read")
      /\ cur' = Frame(img.root, img.root_hash)
      /\ UNCHANGED <<img, walk, stack, last, seen, stats, query>>
  BY StartTreeStep
<1>2. query.state # "running" /\ Ph(pc, query) = "start" /\ OnDisk(img)
  BY <1>1, ShapeFacts, PhaseOf
<1>3. Parse(img, "start", cur, stack, last, seen, stats)
  BY <1>1, <1>2 DEF ParseInv
<1>4. seen = {} /\ stack = <<>> /\ Entered("start", cur, seen) = {}
  BY <1>3 DEF Parse, PlaceInv, Entered, Heads
<1>5. last \in GoodKeys
  BY <1>3, <1>4 DEF Parse, CoreAt, Core, OrdRead, Pending, Heads
<1>6. Ph(pc', query) = pc' /\ pc' \in {"read", "parsed"} /\ Entered(pc', cur', seen) = {}
  BY <1>1, <1>2, <1>4 DEF Ph, Entered, Heads
<1>7. CoreAt(img, pc', {}, stack, last)
  BY <1>2, <1>4, <1>5, CoreEmpty DEF CoreAt
<1>8. cur'.id = img.root
  BY <1>1 DEF Frame
<1>9. PlaceInv(img, pc', cur', stack, seen)
  <2>1. Len(stack) = 0
    BY <1>4
  <2>2. QED
    BY <1>4, <1>6, <1>8, <2>1 DEF PlaceInv, Heads, Pending
<1>10. NodesInv(img, {}) /\ CountInv(img, {}, stats) /\ FooterInv(img, pc', stats)
  BY <1>1, <1>3, <1>4 DEF Parse, NodesInv, FooterInv, Missing
<1>11. QED
  BY <1>1, <1>6, <1>7, <1>9, <1>10 DEF ParseInv, Parse

\* A node that is read was not met before, so it gets one parent.
LEMMA ParseReadNode ==
  ASSUME Shape, ParseInv, pc # "reported", ReadNode, pc' # "reported"
  PROVE  ParseInv'
<1>1. /\ pc = "read" /\ pc' = "key_list" /\ Readable(cur.id) /\ HeaderOK(Node(cur.id))
      /\ seen' = (IF Querying THEN seen ELSE seen \cup {cur.id})
      /\ UNCHANGED <<img, cur, stack, last, stats, query>>
  BY ReadNodeStep
<1>2. CASE Querying
  <2>1. Ph(pc', query) = Ph(pc, query) /\ seen' = seen
    BY <1>1, <1>2 DEF Ph, Querying
  <2>2. QED
    BY <1>1, <2>1 DEF ParseInv
<1>3. CASE ~Querying
  <2>1. Ph(pc, query) = "read" /\ Ph(pc', query) = "key_list" /\ seen' = seen \cup {cur.id} /\ cur.id \notin seen
    BY <1>1, <1>3 DEF Ph, Querying, Readable
  <2>2. Parse(img, "read", cur, stack, last, seen, stats)
    BY <1>1, <2>1 DEF ParseInv
  <2>3. Entered("key_list", cur, seen') = seen /\ Entered("read", cur, seen) = seen
    BY <2>1 DEF Entered, Heads
  <2>4. CoreAt(img, "key_list", seen, stack, last)
    BY <2>2, <2>3 DEF Parse, CoreAt, Pending, Heads
  <2>5. "root" \in img.nodes[cur.id].flags \/ Count(img, cur.id) > 0
    BY <1>1, Images DEF HeaderOK, node_is_valid, node_is_root, Node
  <2>6. PlaceInv(img, "key_list", cur, stack, seen')
    BY <2>1, <2>2, <2>5 DEF Parse, PlaceInv, Pending, Heads
  <2>7. NodesInv(img, seen) /\ CountInv(img, seen, stats) /\ FooterInv(img, "key_list", stats)
    BY <2>2, <2>3 DEF Parse, FooterInv
  <2>8. QED
    BY <1>1, <2>1, <2>3, <2>4, <2>6, <2>7 DEF ParseInv, Parse
<1>4. QED
  BY <1>2, <1>3

\* The lists change nothing else.
LEMMA ParseList ==
  ASSUME ParseInv, pc # "reported", pc' # "reported", pc \in {"key_list", "value_list"}, pc' \in Heads,
         cur'.id = cur.id, UNCHANGED <<img, stack, last, seen, stats, query>>
  PROVE  ParseInv'
<1>1. CASE query.state = "running"
  <2>1. Ph(pc', query) = Ph(pc, query)
    BY <1>1 DEF Ph
  <2>2. Parse(img, Ph(pc, query), cur', stack, last, seen, stats)
    BY DEF ParseInv, Parse, PlaceInv, Entered
  <2>3. QED
    BY <2>1, <2>2 DEF ParseInv
<1>2. CASE query.state # "running"
  <2>1. Ph(pc', query) = pc' /\ Ph(pc, query) = pc /\ pc \in Heads /\ pc \in Pending /\ pc' \in Pending
    BY <1>2 DEF Ph, Heads, Pending
  <2>2. Parse(img, pc, cur, stack, last, seen, stats)
    BY <2>1 DEF ParseInv
  <2>3. Entered(pc', cur', seen) = Entered(pc, cur, seen)
    BY <2>1 DEF Entered
  <2>4. CoreAt(img, pc', Entered(pc, cur, seen), stack, last)
    BY <2>1, <2>2 DEF Parse, CoreAt
  <2>5. PlaceInv(img, pc', cur', stack, seen) /\ FooterInv(img, pc', stats)
    BY <2>1, <2>2 DEF Parse, PlaceInv, FooterInv, Heads
  <2>6. Parse(img, pc', cur', stack, last, seen, stats)
    BY <2>2, <2>3, <2>4, <2>5 DEF Parse
  <2>7. QED
    BY <2>1, <2>6 DEF ParseInv
<1>3. QED
  BY <1>1, <1>2

\* A query changes nothing that the parser has.
LEMMA ParseQuery ==
  ASSUME Shape, ParseInv, pc # "reported", pc' # "reported", Ph(pc', query') = Ph(pc, query),
         Ph(pc, query) \in {"record", "parsed"}, UNCHANGED <<img, stack, last, seen, stats>>
  PROVE  ParseInv'
<1>1. Parse(img, Ph(pc, query), cur, stack, last, seen, stats)
  BY DEF ParseInv
<1>2. Ph(pc, query) \notin Heads /\ Ph(pc, query) \notin Pending
  BY DEF Heads, Pending
<1>3. Parse(img, Ph(pc, query), cur', stack, last, seen, stats)
  BY <1>1, <1>2 DEF Parse, Entered, PlaceInv
<1>4. QED
  BY <1>3 DEF ParseInv

\* A node that is entered is the child of the last record that was read.
LEMMA ParseEnterNode ==
  ASSUME Shape, ParseInv, pc # "reported", EnterNode, pc' # "reported"
  PROVE  ParseInv'
<1> DEFINE E == seen \ {cur.id}
           d == IF IsLeaf(img, cur.id) THEN Count(img, cur.id) ELSE 0
<1>1. /\ pc = "enter" /\ pc' = "record" /\ ~Querying
      /\ ChildOK(Node(cur.id)) /\ NodeOK(Node(cur.id))
      /\ stats' = [stats EXCEPT !.keys = @ + d, !.nodes = @ + 1]
      /\ UNCHANGED <<img, cur, walk, last, seen, query>>
  <2>1. (IF node_is_leaf(Node(cur.id)) THEN Node(cur.id).nkeys ELSE 0) = d
    BY Images
  <2> HIDE DEF d
  <2>2. QED
    BY <2>1, EnterNodeStep
<1>2. Ph(pc, query) = "enter" /\ Ph(pc', query) = "record"
  BY <1>1 DEF Ph, Querying
<1>3. Parse(img, "enter", cur, stack, last, seen, stats)
  BY <1>2 DEF ParseInv
<1>4. Entered("enter", cur, seen) = E /\ Entered("record", cur, seen) = seen
  BY DEF Entered, Heads
<1>5. /\ cur.id \in seen /\ ("root" \in img.nodes[cur.id].flags \/ Count(img, cur.id) > 0)
      /\ (Len(stack) = 0 => cur.id = img.root)
      /\ (Len(stack) >= 1 => cur.id = ChildAt(img, TopOf(stack).id, TopOf(stack).i))
  BY <1>3 DEF Parse, PlaceInv, Heads, Pending
<1>6. /\ OnDisk(img) /\ StackT(img, stack) /\ cur.id \in DOMAIN img.nodes /\ cur.i = 0 /\ stats \in StatsT
      /\ seen \subseteq DOMAIN img.nodes /\ Pushed(stack, stack', cur)
  BY <1>1, ShapeFacts, ShapeEnterNode DEF FreshT, Heads
<1>7. Core(img, E, TRUE, stack, last)
  BY <1>3, <1>4 DEF Parse, CoreAt, Pending, Heads
<1>8. Len(stack) >= 1 => "root" \notin img.nodes[cur.id].flags
  <2>1. Len(stack) >= 1 => stack # <<>>
    OBVIOUS
  <2>2. QED
    BY <1>1, <2>1 DEF ChildOK, node_is_root, Node
<1>9. E \cup {cur.id} = seen /\ cur.id \notin E
  BY <1>5
<1>10. Core(img, E \cup {cur.id}, FALSE, stack', last)
  <2>1. Len(stack) >= 1 => cur.id = ChildAt(img, TopOf(stack).id, TopOf(stack).i) /\ Count(img, cur.id) > 0
    BY <1>5, <1>8
  <2> HIDE DEF E
  <2>2. QED
    BY <1>5, <1>6, <1>7, <1>9, <2>1, CorePush
<1>11. CoreAt(img, "record", seen, stack', last)
  BY <1>9, <1>10 DEF CoreAt, Pending, Heads
<1>12. CountInv(img, seen, stats')
  <2>1. CountInv(img, E, stats)
    BY <1>3, <1>4 DEF Parse
  <2>2. E \subseteq DOMAIN img.nodes
    BY <1>6
  <2> HIDE DEF E, d
  <2>3. d = IF IsLeaf(img, cur.id) THEN Count(img, cur.id) ELSE 0
    BY DEF d
  <2>4. CountInv(img, E \cup {cur.id}, [stats EXCEPT !.keys = @ + d, !.nodes = @ + 1])
    BY <1>6, <1>9, <2>1, <2>2, <2>3, CountPush
  <2>5. QED
    BY <1>1, <1>9, <2>4
<1>13. NodesInv(img, seen)
  <2>1. cur.id # img.root => "root" \notin img.nodes[cur.id].flags
    <3>1. Len(stack) \in Nat
      BY <1>6 DEF StackT
    <3>2. QED
      BY <1>5, <1>8, <3>1
  <2>2. "fixed" \in img.nodes[cur.id].flags <=> img.type \in FixedTrees
    BY <1>1 DEF NodeOK, node_has_fixed_kv_size, Node
  <2>3. NodesInv(img, E)
    BY <1>3, <1>4 DEF Parse
  <2>4. QED
    BY <2>1, <2>2, <2>3 DEF NodesInv
<1>14. PlaceInv(img, "record", cur, stack', seen) /\ FooterInv(img, "record", stats')
  BY DEF PlaceInv, FooterInv, Heads, Pending
<1>15. Parse(img, "record", cur, stack', last, seen, stats')
  BY <1>4, <1>11, <1>12, <1>13, <1>14 DEF Parse
<1>16. QED
  BY <1>1, <1>2, <1>15 DEF ParseInv

\* What the checks of a record say of its key.
LEMMA RecordAfter ==
  ASSUME OnDisk(img), NEW id \in DOMAIN img.nodes, NEW i \in 1..Count(img, id), NEW len,
         RecordOK(Node(id), i, len), last \in GoodKeys,
         id # img.root => "root" \notin img.nodes[id].flags
  PROVE  After(img, <<id, i>>, last)
<1> DEFINE s == <<id, i>>
           n == Node(id)
           K == KeyAt(img, id, i)
<1>1. KeyR(img, s) = K /\ Key(n, i) = K /\ K \in GoodKeys /\ (Index(img, s) <=> ~node_is_leaf(n)) /\ Blocks(img, s) = n.vals[i].blocks
  BY NodeTypes, Images DEF KeyR, Index, Blocks, Node
<1>2. InOrder(n, i)
  BY DEF RecordOK
<1>3. Le(last, K)
  BY <1>1, <1>2 DEF InOrder, Le
<1>4. i = 1 /\ id # img.root => last = K
  <2>1. i = 1 /\ id # img.root => keycmp(last, K) = 0
    BY <1>1, <1>2 DEF InOrder, node_is_root, Node
  <2>2. keycmp(last, K) = 0 => last = K
    BY <1>1, CmpZero
  <2>3. QED
    BY <2>1, <2>2
<1>5. i # 1 /\ ~Index(img, s) => Lt(last, K)
  <2>1. i # 1 /\ ~Index(img, s) => keycmp(last, K) # 0
    BY <1>1, <1>2 DEF InOrder
  <2>2. keycmp(last, K) # 0 => last # K
    BY <1>1, CmpZero
  <2>3. QED
    BY <1>1, <1>3, <2>1, <2>2, CmpTotal
<1>6. ASSUME img.type = "extentref", ~Index(img, s)
      PROVE  Blocks(img, s) >= 1 /\ K = <<K[1], EXTENT, 0, 0>>
  <2>1. n.vals[i].blocks > 0
    BY <1>1, <1>6 DEF RecordOK
  <2>2. n.vals[i].blocks \in Nat
    BY NodeTypes DEF Node
  <2>3. KeyOK("extentref", img.hashed, n.keys[i], KeyLen(n, i))
    BY <1>6 DEF RecordOK
  <2>4. n.keys[i].type = EXTENT
    BY <2>3 DEF KeyOK, ExtentrefKeyOK
  <2> DEFINE raw == n.keys[i]
  <2>5. K = MemoryKey("extentref", img.hashed, raw) /\ raw.type = EXTENT
    BY <1>6, <2>4 DEF KeyAt, Node
  <2> HIDE DEF raw, K
  <2>6. K = <<raw.id, EXTENT, 0, 0>>
    BY <2>5 DEF MemoryKey, Named, EXTENT, DIR_REC, XATTR, SNAP_NAME, FILE_EXTENT, FILE_INFO, SIBLING_LINK
  <2>7. K = <<K[1], EXTENT, 0, 0>>
    BY <2>6
  <2>8. QED
    BY <1>1, <2>1, <2>2, <2>7
<1>7. s[1] = id /\ s[2] = i
  OBVIOUS
<1> HIDE DEF s, K, n
<1>8. After(img, s, last)
  BY <1>1, <1>3, <1>4, <1>5, <1>6, <1>7 DEF After
<1>9. QED
  BY <1>8 DEF s

\* A record that is accepted follows all that were read.
LEMMA ParseReadRecord ==
  ASSUME Shape, ParseInv, pc # "reported", ReadRecord, pc' # "reported"
  PROVE  ParseInv'
<1> DEFINE n == Node(Top.id)
           i == Top.i + 1
           s == <<Top.id, i>>
           f == stack'[Len(stack)]
<1>1. /\ pc = "record" /\ Top.i < n.nkeys
      /\ \E len \in ValLens(n, i) : RecordOK(n, i, len)
      /\ last' = LastKey(n, i)
      /\ IF node_is_leaf(n) THEN UNCHANGED <<pc, cur>>
         ELSE cur' = Frame(Child(n, i), n.vals[i].hash) /\ pc' = "read"
      /\ UNCHANGED <<img, walk, seen, query>>
  BY ReadRecordStep
<1>2. query.state # "running" /\ Ph(pc, query) = "record" /\ OnDisk(img) /\ StackT(img, stack)
  BY <1>1, ShapeFacts, PhaseOf
<1>3. /\ Len(stack) \in Nat /\ Len(stack) >= 1 /\ Top.id \in DOMAIN img.nodes /\ Top.i \in Nat
      /\ Count(img, Top.id) \in Nat /\ Top = TopOf(stack)
  BY <1>2, TopFacts DEF Top, TopOf
<1>4. i \in 1..Count(img, Top.id)
  BY <1>1, <1>3, Images
<1>5. Changed(stack, stack', f) /\ f.id = Top.id /\ f.i = i
  BY ShapeReadRecord
<1>6. Parse(img, "record", cur, stack, last, seen, stats) /\ Entered("record", cur, seen) = seen
  BY <1>2 DEF ParseInv, Entered, Heads
<1>7. Core(img, seen, FALSE, stack, last)
  BY <1>6 DEF Parse, CoreAt, Pending, Heads
<1>8. last \in GoodKeys /\ Chain(img, stack, seen, FALSE)
  BY <1>7 DEF Core, OrdRead
<1>9. Top.id \in seen
  BY <1>3, <1>8 DEF Chain, TopOf
<1>10. After(img, s, last)
  <2>1. PICK len \in ValLens(n, i) : RecordOK(n, i, len)
    BY <1>1
  <2>2. Top.id # img.root => "root" \notin img.nodes[Top.id].flags
    BY <1>6, <1>9 DEF Parse, NodesInv
  <2> HIDE DEF i
  <2>3. QED
    BY <1>2, <1>3, <1>4, <1>8, <2>1, <2>2, RecordAfter
<1>11. last' = LastR(img, s) /\ (Index(img, s) <=> ~node_is_leaf(n))
  BY <1>1, Images DEF LastR, Index
<1>12. Ph(pc', query) = pc' /\ (IF Index(img, s) THEN pc' = "read" ELSE pc' = "record") /\ Entered(pc', cur', seen) = seen
  BY <1>1, <1>2, <1>11 DEF Ph, Entered, Heads
<1>13. stats'.keys = stats.keys /\ stats'.nodes = stats.nodes
  <2>1. \E len \in ValLens(n, i) : stats' = [stats EXCEPT
                       !.longest_key = IF KeyLen(n, i) > @ THEN KeyLen(n, i) ELSE @,
                       !.longest_val = IF node_is_leaf(n) /\ len > @ THEN len ELSE @]
    BY ReadRecordStep
  <2>2. stats \in StatsT
    BY ShapeFacts
  <2> HIDE DEF n, i
  <2>3. QED
    BY <2>1, <2>2 DEF StatsT
<1>14. CoreAt(img, pc', seen, stack', last')
  <2> HIDE DEF f
  <2>0. /\ f.id = TopOf(stack).id /\ f.i = TopOf(stack).i + 1 /\ TopOf(stack).i \in Nat /\ f.i <= Count(img, f.id)
        /\ s = <<f.id, f.i>>
    BY <1>3, <1>4, <1>5
  <2> HIDE DEF s, i
  <2>1. CASE Index(img, s)
    <3>1. TRUE \in BOOLEAN /\ (TRUE <=> Index(img, s))
      BY <2>1
    <3>2. Core(img, seen, TRUE, stack', LastR(img, s))
      BY <1>2, <1>5, <1>7, <1>10, <2>0, <3>1, CoreChange
    <3>3. QED
      BY <1>11, <1>12, <2>1, <3>2 DEF CoreAt, Pending, Heads
  <2>2. CASE ~Index(img, s)
    <3>1. FALSE \in BOOLEAN /\ (FALSE <=> Index(img, s))
      BY <2>2
    <3>2. Core(img, seen, FALSE, stack', LastR(img, s))
      BY <1>2, <1>5, <1>7, <1>10, <2>0, <3>1, CoreChange
    <3>3. QED
      BY <1>11, <1>12, <2>2, <3>2 DEF CoreAt, Pending, Heads
  <2>3. QED
    BY <2>1, <2>2
<1>15. PlaceInv(img, pc', cur', stack', seen)
  <2>1. CASE Index(img, s)
    <3>1. pc' = "read" /\ cur'.id = ChildAt(img, Top.id, i)
      BY <1>1, <1>11, <1>12, <2>1, Images DEF Frame
    <3>2. Len(stack') = Len(stack) /\ TopOf(stack') = f
      BY <1>5 DEF Changed, TopOf
    <3> HIDE DEF f, i
    <3>3. QED
      BY <1>3, <1>5, <3>1, <3>2 DEF PlaceInv, Heads, Pending
  <2>2. CASE ~Index(img, s)
    BY <1>12, <2>2 DEF PlaceInv, Heads, Pending
  <2>3. QED
    BY <2>1, <2>2
<1>16. NodesInv(img, seen) /\ CountInv(img, seen, stats') /\ FooterInv(img, pc', stats')
  <2> HIDE DEF s
  <2>1. NodesInv(img, seen) /\ CountInv(img, seen, stats)
    BY <1>6 DEF Parse
  <2>2. QED
    BY <1>12, <1>13, <2>1 DEF CountInv, FooterInv
<1>17. Parse(img, pc', cur', stack', last', seen, stats')
  BY <1>12, <1>14, <1>15, <1>16 DEF Parse
<1>18. QED
  BY <1>1, <1>12, <1>17 DEF ParseInv

\* A node that is left has its whole subtree read, in order.
LEMMA ParseEndNode ==
  ASSUME Shape, ParseInv, pc # "reported", EndNode, pc' # "reported"
  PROVE  ParseInv'
<1>1. /\ pc = "record" /\ Top.i = Node(Top.id).nkeys
      /\ stack' = SubSeq(stack, 1, Len(stack) - 1)
      /\ pc' = (IF Len(stack) = 1 THEN "footer" ELSE "record")
      /\ UNCHANGED <<img, cur, walk, last, seen, stats, query>>
  BY EndNodeStep
<1>2. query.state # "running" /\ Ph(pc, query) = "record" /\ OnDisk(img) /\ StackT(img, stack) /\ stack # <<>>
  BY <1>1, ShapeFacts, PhaseOf
<1>3. Popped(stack, stack') /\ (Len(stack) = 1 => stack' = <<>>)
  BY <1>1, <1>2, PopStack
<1>4. Parse(img, "record", cur, stack, last, seen, stats) /\ Entered("record", cur, seen) = seen
  BY <1>2 DEF ParseInv, Entered, Heads
<1>5. Core(img, seen, FALSE, stack, last)
  BY <1>4 DEF Parse, CoreAt, Pending, Heads
<1>6. TopOf(stack).i = Count(img, TopOf(stack).id)
  BY <1>1, Images DEF Top, TopOf
<1>7. Core(img, seen, FALSE, stack', last)
  BY <1>2, <1>3, <1>5, <1>6, CorePop
<1>8. Ph(pc', query) = pc' /\ pc' \in {"record", "footer"} /\ Entered(pc', cur, seen) = seen
  BY <1>1, <1>2 DEF Ph, Entered, Heads
<1>9. CoreAt(img, pc', seen, stack', last)
  BY <1>7, <1>8 DEF CoreAt, Pending, Heads
<1>10. PlaceInv(img, pc', cur, stack', seen) /\ FooterInv(img, pc', stats)
  BY <1>1, <1>3, <1>8 DEF PlaceInv, FooterInv, Heads, Pending
<1>11. NodesInv(img, seen) /\ CountInv(img, seen, stats)
  BY <1>4 DEF Parse
<1>12. QED
  BY <1>1, <1>8, <1>9, <1>10, <1>11 DEF ParseInv, Parse

\* The footer has the counts of what was read.
LEMMA ParseCheckFooter ==
  ASSUME Shape, ParseInv, pc # "reported", CheckFooter, pc' # "reported"
  PROVE  ParseInv'
<1>1. /\ pc = "footer" /\ pc' = "parsed" /\ FooterOK(img.info)
      /\ UNCHANGED <<img, cur, walk, stack, last, seen, stats, query>>
  BY CheckFooterStep
<1>2. Ph(pc, query) = "footer" /\ Ph(pc', query) = "parsed"
  BY <1>1, ShapeFacts, PhaseOf DEF Ph
<1>3. Parse(img, "footer", cur, stack, last, seen, stats)
  BY <1>2 DEF ParseInv
<1>4. Entered("footer", cur, seen) = seen /\ Entered("parsed", cur, seen) = seen
  BY DEF Entered, Heads
<1>5. FooterInv(img, "parsed", stats)
  BY <1>1 DEF FooterOK, FooterInv
<1>6. CoreAt(img, "parsed", seen, stack, last) /\ PlaceInv(img, "parsed", cur, stack, seen)
  BY <1>3, <1>4 DEF Parse, CoreAt, PlaceInv, Heads, Pending
<1>7. QED
  BY <1>1, <1>2, <1>3, <1>4, <1>5, <1>6 DEF ParseInv, Parse

\* Every step keeps the invariant of the parser.
LEMMA ParseStep == ASSUME Shape, ParseInv, [Next]_vars PROVE ParseInv'
<1>1. CASE pc' = "reported"
  BY <1>1 DEF ParseInv
<1>2. CASE pc' # "reported" /\ UNCHANGED vars
  BY <1>2 DEF ParseInv, vars
<1>3. CASE pc' # "reported" /\ ~UNCHANGED vars
  <2>0. pc # "reported"
    BY <1>3, Alternatives, StartTreeStep, ReadNodeStep, WalkKeyListStep, EndKeyListStep, WalkValListStep,
       EndValListStep, EnterNodeStep, ReadRecordStep, EndNodeStep, CheckFooterStep, StartQueryStep,
       EnterChildStep, BisectStep, EndBisectionStep
  <2>1. CASE WalkKeyList
    <3>1. cur'.id = cur.id
      BY <2>0, WalkKeyListStep, <1>3, <2>1, ShapeFacts DEF FreshT, FrameT
    <3>2. QED
      BY <1>3, <2>0, <2>1, <3>1, WalkKeyListStep, ParseList DEF Heads
  <2>2. CASE EndKeyList
    BY <1>3, <2>0, <2>2, EndKeyListStep, ParseList DEF Heads
  <2>3. CASE WalkValList
    <3>1. cur'.id = cur.id
      BY <2>0, WalkValListStep, <1>3, <2>3, ShapeFacts DEF FreshT, FrameT
    <3>2. QED
      BY <1>3, <2>0, <2>3, <3>1, WalkValListStep, ParseList DEF Heads
  <2>4. CASE EndValList
    BY <1>3, <2>0, <2>4, EndValListStep, ParseList DEF Heads
  <2>5. CASE StartQuery \/ EnterChild \/ Bisect \/ EndBisection
    <3>1. UNCHANGED <<img, stack, last, seen, stats>>
      BY <1>3, <2>5, StartQueryStep, EnterChildStep, BisectStep, EndBisectionStep
    <3>2. Ph(pc', query') = Ph(pc, query)
      BY <1>3, <2>0, <2>5, ShapeStartQuery, ShapeEnterChild, ShapeBisect, ShapeEndBisection
    <3>3. Ph(pc, query) \in {"record", "parsed"}
      <4>1. CASE StartQuery
        <5>1. pc \in {"parsed", "record"} /\ query.state = "idle"
          BY <4>1, StartQueryStep
        <5>2. QED
          BY <5>1 DEF Ph
      <4>2. CASE EnterChild \/ Bisect \/ EndBisection
        <5>1. query.state = "running"
          BY <1>3, <2>0, <4>2, EnterChildStep, BisectStep, EndBisectionStep, ShapeFacts, PhaseOf DEF Querying
        <5>2. QED
          BY <2>0, <5>1, ShapeFacts, PhaseOf
      <4>3. QED
        BY <2>5, <4>1, <4>2
    <3>4. QED
      BY <1>3, <2>0, <3>1, <3>2, <3>3, ParseQuery
  <2>6. QED
    BY <1>3, <2>0, <2>1, <2>2, <2>3, <2>4, <2>5, Alternatives, ParseStartTree, ParseReadNode, ParseEnterNode,
       ParseReadRecord, ParseEndNode, ParseCheckFooter
<1>4. QED
  BY <1>1, <1>2, <1>3

\* The invariant of the parser: the calls are a path from the root, each node that
\* was entered has one parent, the keys that were read are in order, and the counts
\* are those of the nodes that were entered.
THEOREM ParseHolds == Spec => [](Shape /\ ParseInv)
<1>1. Init => Shape /\ ParseInv
  BY ShapeInit, ParseInit
<1>2. Shape /\ ParseInv /\ [Next]_vars => (Shape /\ ParseInv)'
  BY ShapeStep, ParseStep
<1>3. QED
  BY <1>1, <1>2, PTL DEF Spec

-----------------------------------------------------------------------------
(* A tree that was accepted. *)

Ordered(m) ==
  /\ Under(m, m.root) \subseteq DOMAIN m.nodes
  /\ OrdNode(m, Recs(m, Under(m, m.root))) /\ OrdNext(m, Recs(m, Under(m, m.root)))
  /\ \A r \in Recs(m, Under(m, m.root)) : Index(m, r) =>
       /\ \A x \in Leaves(m, Under(m, ChildR(m, r))) : Le(KeyR(m, r), KeyR(m, x))
       /\ \E x \in Leaves(m, Under(m, ChildR(m, r))) : KeyR(m, x) = KeyR(m, r)
       /\ Count(m, ChildR(m, r)) > 0 /\ KeyAt(m, ChildR(m, r), 1) = KeyR(m, r)

\* At the end all that can be reached from the root was read, and is in order.
LEMMA CoreEnd ==
  ASSUME NEW m, OnDisk(m), NEW E, NEW lst, Core(m, E, FALSE, <<>>, lst), m.root \in E
  PROVE  /\ E = Under(m, m.root) /\ Ordered(m) /\ OrdExtents(m, Recs(m, E))
         /\ TreeInv(m, E, Recs(m, E), {})
<1> DEFINE st == <<>>
           D == DoneRecs(m, st, E)
<1>0. Len(st) = 0 /\ 1..0 = {} /\ OpenIds(st) = {} /\ PendRecs(st, FALSE) = {}
  BY DEF OpenIds, PendRecs
<1>1. D = Recs(m, E)
  BY <1>0 DEF DoneRecs
<1>2. /\ TreeInv(m, E, Recs(m, E), {}) /\ NonEmpty(m, E) /\ OrdNode(m, Recs(m, E)) /\ OrdFirst(m, Recs(m, E), {})
      /\ OrdNext(m, Recs(m, E)) /\ OrdUnder(m, E) /\ OrdExtents(m, Recs(m, E))
  <2>1. E \ OpenIds(st) = E
    BY <1>0
  <2>2. QED
    BY <1>0, <1>1, <2>1 DEF Core
<1>3. ASSUME NEW x \in E PROVE KidsOf(m, x) \subseteq E
  <2>1. ASSUME NEW c \in KidsOf(m, x) PROVE c \in E
    <3>1. PICK i \in 1..Count(m, x) : c = ChildAt(m, x, i) /\ ~IsLeaf(m, x)
      BY <2>1, KidIn
    <3> DEFINE r == <<x, i>>
    <3>2. r \in Recs(m, E) /\ Index(m, r) /\ ChildR(m, r) = c
      BY <1>3, <3>1, RecIn DEF Index, ChildR
    <3> HIDE DEF r
    <3>3. QED
      BY <1>2, <3>2 DEF TreeInv
  <2>2. QED
    BY <2>1
<1>4. E = Under(m, m.root)
  <2>1. Under(m, m.root) \subseteq E
    BY <1>3, UnderLeast
  <2>2. E \subseteq Under(m, m.root)
    BY <1>2 DEF TreeInv
  <2>3. QED
    BY <2>1, <2>2
<1>5. ASSUME NEW r \in Recs(m, E), Index(m, r)
      PROVE  /\ \A x \in Leaves(m, Under(m, ChildR(m, r))) : Le(KeyR(m, r), KeyR(m, x))
             /\ \E x \in Leaves(m, Under(m, ChildR(m, r))) : KeyR(m, x) = KeyR(m, r)
             /\ Count(m, ChildR(m, r)) > 0 /\ KeyAt(m, ChildR(m, r), 1) = KeyR(m, r)
  <2> DEFINE c == ChildR(m, r)
             q == <<c, 1>>
  <2>1. c \in E /\ c # m.root /\ c \in DOMAIN m.nodes
    BY <1>2, <1>5 DEF TreeInv
  <2>2. Count(m, c) > 0 /\ Count(m, c) \in Nat
    BY <1>2, <2>1, NodeTypes DEF NonEmpty
  <2>3. q \in Recs(m, E) /\ q[1] = c /\ q[2] = 1
    BY <2>1, <2>2, RecIn
  <2>4. KeyR(m, q) = KeyR(m, r)
    <3> HIDE DEF q
    <3>1. QED
      BY <1>2, <1>5, <2>3 DEF OrdFirst
  <2>5. KeyAt(m, c, 1) = KeyR(m, r)
    BY <2>4 DEF KeyR
  <2> HIDE DEF c
  <2>6. /\ \A x \in Leaves(m, Under(m, c)) : Le(KeyAt(m, c, 1), KeyR(m, x))
        /\ \E x \in Leaves(m, Under(m, c)) : KeyR(m, x) = KeyAt(m, c, 1)
    BY <1>2, <2>1, <2>2 DEF OrdUnder
  <2>7. QED
    BY <2>2, <2>5, <2>6 DEF c
<1>6. Ordered(m)
  <2>1. E \subseteq DOMAIN m.nodes
    BY <1>2 DEF TreeInv
  <2>2. QED
    BY <1>2, <1>4, <1>5, <2>1 DEF Ordered
<1>7. QED
  BY <1>2, <1>4, <1>6

\* What the invariants say of an accepted tree.
LEMMA AcceptedTree ==
  ASSUME Shape, ParseInv, Accepted
  PROVE  /\ OnDisk(img) /\ seen = Under(img, img.root) /\ Ordered(img) /\ OrdExtents(img, Recs(img, seen))
         /\ TreeInv(img, seen, Recs(img, seen), {}) /\ img.root \in seen
         /\ img.info.node_count = Cardinality(seen) /\ img.info.key_count = Cardinality(Leaves(img, seen))
<1>1. pc = "parsed" /\ ~Missing
  BY DEF Accepted
<1>2. Ph(pc, query) = "parsed" /\ OnDisk(img)
  BY <1>1, ShapeFacts, PhaseOf
<1>3. Parse(img, "parsed", cur, stack, last, seen, stats)
  BY <1>1, <1>2 DEF ParseInv
<1>4. Entered("parsed", cur, seen) = seen /\ stack = <<>>
  BY <1>3 DEF Entered, Heads, Parse, PlaceInv
<1>5. img.root \in seen
  BY <1>1, <1>2, ShapeFacts DEF RootRead, Missing
<1>6. Core(img, seen, FALSE, <<>>, last)
  BY <1>3, <1>4 DEF Parse, CoreAt, Pending, Heads
<1>7. /\ seen = Under(img, img.root) /\ Ordered(img) /\ OrdExtents(img, Recs(img, seen))
      /\ TreeInv(img, seen, Recs(img, seen), {})
  BY <1>2, <1>5, <1>6, CoreEnd
<1>8. img.info.node_count = Cardinality(seen) /\ img.info.key_count = Cardinality(Leaves(img, seen))
  BY <1>1, <1>3, <1>4 DEF Parse, CountInv, FooterInv, Missing
<1>9. QED
  BY <1>2, <1>5, <1>7, <1>8

\* The keys of an accepted tree are in order.
LEMMA AcceptedOrder == ASSUME Shape, ParseInv, Accepted PROVE OrderRight
<1> DEFINE T == Under(img, img.root)
<1>1. Tree = T /\ Ordered(img) /\ OnDisk(img)
  BY AcceptedTree, ImageSets
<1>0. \A id \in T : Count(img, id) \in Nat
  BY <1>1, NodeTypes DEF Ordered
<1>2. ASSUME NEW id \in T, NEW i \in 1..Count(img, id), IsLeaf(img, id), i > 1
      PROVE  keycmp(KeyAt(img, id, i - 1), KeyAt(img, id, i)) < 0
  <2> DEFINE r == <<id, i - 1>>
             s == <<id, i>>
  <2>1. i - 1 \in 1..Count(img, id)
    <3>1. Count(img, id) \in Nat
      BY <1>0
    <3>2. QED
      BY <1>2, <3>1
  <2>2. r \in Recs(img, T) /\ s \in Recs(img, T) /\ r[1] = s[1] /\ r[2] < s[2] /\ ~Index(img, r)
    BY <1>2, <2>1, RecIn DEF Index
  <2> HIDE DEF r, s
  <2>3. Lt(KeyR(img, r), KeyR(img, s))
    BY <1>1, <2>2 DEF Ordered, OrdNode
  <2>4. QED
    BY <2>3 DEF Lt, KeyR, r, s
<1>3. ASSUME NEW id \in T, NEW i \in 1..Count(img, id), ~IsLeaf(img, id)
      PROVE  LET below == {KeyOf(r) : r \in LeafRecords(Subtree(ChildAt(img, id, i)))}
             IN  /\ KeyAt(img, id, i) \in below
                 /\ \A k \in below : /\ keycmp(KeyAt(img, id, i), k) <= 0
                                     /\ i < Count(img, id) => keycmp(k, KeyAt(img, id, i + 1)) <= 0
  <2> DEFINE c == ChildAt(img, id, i)
             L == Leaves(img, Under(img, c))
             r == <<id, i>>
             K == KeyAt(img, id, i)
  <2>1. LeafRecords(Subtree(c)) = L
    BY ImageSets
  <2>2. r \in Recs(img, T) /\ Index(img, r) /\ ChildR(img, r) = c /\ KeyR(img, r) = K /\ r[1] = id /\ r[2] = i
    BY <1>3, RecIn DEF Index, ChildR, KeyR
  <2> HIDE DEF r, c
  <2>3. (\A x \in L : Le(K, KeyR(img, x))) /\ (\E x \in L : KeyR(img, x) = K)
    BY <1>1, <2>2 DEF Ordered
  <2>4. ASSUME i < Count(img, id), NEW x \in L PROVE Le(KeyR(img, x), KeyAt(img, id, i + 1))
    <3> DEFINE s == <<id, i + 1>>
    <3>0. Count(img, id) \in Nat
      BY <1>0
    <3>1. i + 1 \in 1..Count(img, id)
      BY <2>4, <3>0
    <3>2. s \in Recs(img, T) /\ s[1] = r[1] /\ s[2] = r[2] + 1
      BY <2>2, <3>1, RecIn
    <3> HIDE DEF s
    <3>3. Le(KeyR(img, x), KeyR(img, s))
      BY <1>1, <2>2, <2>4, <3>2 DEF Ordered, OrdNext
    <3>4. QED
      BY <3>3 DEF KeyR, s
  <2>5. \A x : KeyOf(x) = KeyR(img, x)
    BY ImageSets DEF KeyR
  <2> HIDE DEF K, L
  <2>6. K \in {KeyOf(x) : x \in L}
    BY <2>3, <2>5
  <2>7. \A k \in {KeyOf(x) : x \in L} : Le(K, k) /\ (i < Count(img, id) => Le(k, KeyAt(img, id, i + 1)))
    BY <2>3, <2>4, <2>5
  <2>8. QED
    BY <2>1, <2>6, <2>7 DEF Le, K, c
<1>4. ASSUME NEW id \in T, NEW i \in Records(Node(id))
      PROVE  IF node_is_leaf(Node(id))
             THEN i > 1 => keycmp(Key(Node(id), i - 1), Key(Node(id), i)) < 0
             ELSE LET below == {KeyOf(r) : r \in LeafRecords(Subtree(Child(Node(id), i)))}
                  IN  /\ Key(Node(id), i) \in below
                      /\ \A k \in below : /\ keycmp(Key(Node(id), i), k) <= 0
                                          /\ i < Node(id).nkeys => keycmp(k, Key(Node(id), i + 1)) <= 0
  <2>1. /\ \A j : Key(Node(id), j) = KeyAt(img, id, j)
        /\ Child(Node(id), i) = ChildAt(img, id, i) /\ Node(id).nkeys = Count(img, id)
        /\ node_is_leaf(Node(id)) = IsLeaf(img, id) /\ i \in 1..Count(img, id)
    BY <1>4, Images
  <2>2. CASE IsLeaf(img, id)
    BY <1>2, <2>1, <2>2
  <2>3. CASE ~IsLeaf(img, id)
    <3> DEFINE B == {KeyOf(r) : r \in LeafRecords(Subtree(ChildAt(img, id, i)))}
    <3>1. /\ KeyAt(img, id, i) \in B
          /\ \A k \in B : /\ keycmp(KeyAt(img, id, i), k) <= 0
                          /\ i < Count(img, id) => keycmp(k, KeyAt(img, id, i + 1)) <= 0
      BY <1>3, <2>1, <2>3
    <3>2. {KeyOf(r) : r \in LeafRecords(Subtree(Child(Node(id), i)))} = B
      BY <2>1
    <3> HIDE DEF B
    <3>3. QED
      BY <2>1, <2>3, <3>1, <3>2
  <2>4. QED
    BY <2>2, <2>3
<1> HIDE DEF T
<1>5. QED
  BY <1>1, <1>4 DEF OrderRight

\* Its extents do not overlap.
LEMMA AcceptedExtents == ASSUME Shape, ParseInv, Accepted PROVE ExtentsRight
<1> SUFFICES ASSUME img.type = "extentref", NEW r \in LeafRecords(Tree), NEW s \in LeafRecords(Tree),
                    KeyOf(r)[1] < KeyOf(s)[1]
             PROVE  KeyOf(r)[1] + Node(r[1]).vals[r[2]].blocks <= KeyOf(s)[1] + (IF r[1] = s[1] THEN 0 ELSE 1)
  BY DEF ExtentsRight
<1>1. OrdExtents(img, Recs(img, seen)) /\ Tree = seen
  BY AcceptedTree, ImageSets
<1>2. r \in Recs(img, seen) /\ s \in Recs(img, seen) /\ ~Index(img, r) /\ ~Index(img, s)
  BY <1>1, ImageSets, LeafIn
<1>3. KeyOf(r) = KeyR(img, r) /\ KeyOf(s) = KeyR(img, s) /\ Node(r[1]).vals[r[2]].blocks = Blocks(img, r)
  BY ImageSets DEF KeyR, Blocks, Node
<1>4. QED
  BY <1>1, <1>2, <1>3 DEF OrdExtents

\* Its footer counts right, and each node has one parent.
LEMMA AcceptedCounts == ASSUME Shape, ParseInv, Accepted PROVE CountsRight
<1>1. /\ Tree = seen /\ TreeInv(img, seen, Recs(img, seen), {}) /\ img.root \in seen
      /\ img.info.node_count = Cardinality(seen) /\ img.info.key_count = Cardinality(Leaves(img, seen))
      /\ LeafRecords(Tree) = Leaves(img, seen) /\ RecordsOf(Tree) = Recs(img, seen)
  BY AcceptedTree, ImageSets
<1>2. seen \subseteq DOMAIN img.nodes
  BY <1>1 DEF TreeInv
<1>3. ASSUME NEW id \in seen
      PROVE  Cardinality({r \in RecordsOf(Tree) : ~node_is_leaf(Node(r[1])) /\ Child(Node(r[1]), r[2]) = id})
               = IF id = img.root THEN 0 ELSE 1
  <2> DEFINE S == {r \in RecordsOf(Tree) : ~node_is_leaf(Node(r[1])) /\ Child(Node(r[1]), r[2]) = id}
  <2>1. \A r : r \in S <=> r \in Recs(img, seen) /\ Index(img, r) /\ ChildR(img, r) = id
    BY <1>1, Images DEF Index, ChildR
  <2> HIDE DEF S
  <2>2. CASE id = img.root
    <3>1. S = {}
      BY <1>1, <2>1, <2>2 DEF TreeInv
    <3>2. Cardinality({}) = 0
      BY FS_EmptySet
    <3>3. QED
      BY <2>2, <3>1, <3>2 DEF S
  <2>3. CASE id # img.root
    <3>1. PICK p \in Recs(img, seen) : Index(img, p) /\ ChildR(img, p) = id
      BY <1>1, <1>3, <2>3 DEF TreeInv
    <3>2. \A r \in S : r = p
      BY <1>1, <2>1, <3>1 DEF TreeInv
    <3>3. S = {p}
      BY <2>1, <3>1, <3>2
    <3>4. Cardinality({p}) = 1
      BY FS_Singleton
    <3>5. QED
      BY <2>3, <3>3, <3>4 DEF S
  <2>4. QED
    BY <2>2, <2>3
<1>4. QED
  BY <1>1, <1>2, <1>3 DEF CountsRight

\* Comparing each key with last_key is enough (parse_subtree()): in an accepted
\* tree of any shape and depth all leaf keys under a record lie between its key and
\* that of the next, extents do not overlap within a leaf, and the footer counts the
\* nodes and the keys that can be reached from the root, each node by one path.
THEOREM OrderAcceptedHolds == Spec => []OrderAccepted
<1>1. Shape /\ ParseInv => OrderAccepted
  BY AcceptedOrder, AcceptedExtents, AcceptedCounts DEF OrderAccepted
<1>2. QED
  BY <1>1, ParseHolds, PTL

-----------------------------------------------------------------------------
(* Queries, in a tree that is in order. *)

\* A node that a query has come to: the record that is looked up is under it, or
\* has its first key.
Reached(m, id, k) ==
  /\ id \in Under(m, m.root)
  /\ id = m.root \/ (Count(m, id) > 0 /\ Le(KeyAt(m, id, 1), k))
  /\ \A r \in Leaves(m, Under(m, m.root)) : Le(KeyR(m, r), k) =>
       \/ r \in Leaves(m, Under(m, id))
       \/ Count(m, id) > 0 /\ Le(KeyR(m, r), KeyAt(m, id, 1)) /\ Le(KeyAt(m, id, 1), k)
\* The range of the bisection: what is after it has keys after the one looked up.
Narrowed(m, q) ==
  /\ q.cmp > 0 => \A j \in 1..Count(m, q.node) : j > q.index => Lt(q.key, KeyAt(m, q.node, j))
  /\ ~(q.cmp > 0) => /\ Le(KeyAt(m, q.node, q.index + 1), q.key)
                     /\ \A j \in 1..Count(m, q.node) : j > q.right + 1 => Lt(q.key, KeyAt(m, q.node, j))
  /\ q.left > 0 => q.left < Count(m, q.node) /\ Le(KeyAt(m, q.node, q.left + 1), q.key)
\* The end of the bisection.
Settled(m, q) ==
  /\ q.cmp > 0 => \A j \in 1..Count(m, q.node) : Lt(q.key, KeyAt(m, q.node, j))
  /\ ~(q.cmp > 0) =>
       /\ q.index + 1 \in 1..Count(m, q.node) /\ Le(KeyAt(m, q.node, q.index + 1), q.key)
       /\ \A j \in 1..Count(m, q.node) : j > q.index + 1 =>
            Lt(q.key, KeyAt(m, q.node, j)) \/ KeyAt(m, q.node, q.index + 1) = q.key
\* The end of the query.
Found(m, q) ==
  /\ <<q.node, q.index + 1>> \in Leaves(m, Under(m, m.root)) /\ Le(KeyAt(m, q.node, q.index + 1), q.key)
  /\ \A r \in Leaves(m, Under(m, m.root)) :
       Le(KeyR(m, r), q.key) => Le(KeyR(m, r), KeyAt(m, q.node, q.index + 1))
NotFound(m, q) == \A r \in Leaves(m, Under(m, m.root)) : ~Le(KeyR(m, r), q.key)

Search(m, p, c, q) ==
  /\ p \in {"bisect", "bisected"} => Reached(m, q.node, q.key)
  /\ p = "bisect" => Narrowed(m, q)
  /\ p = "bisected" => Settled(m, q)
  /\ p \in Pending /\ q.state = "running" => Reached(m, c.id, q.key)
  /\ q.state = "found" => Found(m, q)
  /\ q.state = "failed" => NotFound(m, q)
SearchInv == pc # "reported" /\ Ordered(img) => Search(img, pc, cur, query)

\* The keys of a node that is in order.
LEMMA NodeOrder ==
  ASSUME NEW m, OnDisk(m), Ordered(m), NEW id \in Under(m, m.root)
  PROVE  /\ id \in DOMAIN m.nodes /\ Count(m, id) \in Nat
         /\ \A i \in 1..Count(m, id) : KeyAt(m, id, i) \in GoodKeys
         /\ \A i, j \in 1..Count(m, id) : i <= j => Le(KeyAt(m, id, i), KeyAt(m, id, j))
<1>1. id \in DOMAIN m.nodes
  BY DEF Ordered
<1>2. Count(m, id) \in Nat /\ \A i \in 1..Count(m, id) : KeyAt(m, id, i) \in GoodKeys
  BY <1>1, NodeTypes
<1>3. ASSUME NEW i \in 1..Count(m, id), NEW j \in 1..Count(m, id), i <= j
      PROVE  Le(KeyAt(m, id, i), KeyAt(m, id, j))
  <2>1. CASE i = j
    BY <1>2, <2>1, CmpTotal
  <2>2. CASE i < j
    <3> DEFINE r == <<id, i>>
               s == <<id, j>>
    <3>1. r \in Recs(m, Under(m, m.root)) /\ s \in Recs(m, Under(m, m.root)) /\ r[1] = s[1] /\ r[2] < s[2]
      BY <2>2, RecIn
    <3> HIDE DEF r, s
    <3>2. Le(KeyR(m, r), KeyR(m, s))
      BY <3>1 DEF Ordered, OrdNode
    <3>3. QED
      BY <3>2 DEF KeyR, r, s
  <2>3. QED
    BY <1>2, <1>3, <2>1, <2>2
<1>4. QED
  BY <1>1, <1>2, <1>3

\* What is under each record of an index node.
LEMMA ChildOrder ==
  ASSUME NEW m, OnDisk(m), Ordered(m), NEW id \in Under(m, m.root), ~IsLeaf(m, id), NEW i \in 1..Count(m, id)
  PROVE  LET c == ChildAt(m, id, i)
         IN  /\ c \in Under(m, m.root) /\ Count(m, c) > 0 /\ KeyAt(m, c, 1) = KeyAt(m, id, i)
             /\ Under(m, c) \subseteq Under(m, m.root)
             /\ \A x \in Leaves(m, Under(m, c)) :
                  /\ KeyR(m, x) \in GoodKeys /\ Le(KeyAt(m, id, i), KeyR(m, x))
                  /\ i < Count(m, id) => Le(KeyR(m, x), KeyAt(m, id, i + 1))
<1> DEFINE c == ChildAt(m, id, i)
           T == Under(m, m.root)
           r == <<id, i>>
<1>1. id \in DOMAIN m.nodes /\ Count(m, id) \in Nat /\ T \subseteq DOMAIN m.nodes
  BY NodeOrder DEF Ordered
<1>2. c \in KidsOf(m, id)
  BY KidIn
<1>3. c \in T
  BY <1>1, <1>2, UnderStays
<1>4. Under(m, c) \subseteq T
  <2>1. \A x \in T \cap DOMAIN m.nodes : KidsOf(m, x) \subseteq T
    BY UnderStays
  <2>2. QED
    BY <1>3, <2>1, UnderLeast
<1>5. r \in Recs(m, T) /\ Index(m, r) /\ ChildR(m, r) = c /\ KeyR(m, r) = KeyAt(m, id, i) /\ r[1] = id /\ r[2] = i
  BY RecIn DEF Index, ChildR, KeyR
<1> HIDE DEF c, r
<1>6. /\ \A x \in Leaves(m, Under(m, c)) : Le(KeyR(m, r), KeyR(m, x))
      /\ Count(m, c) > 0 /\ KeyAt(m, c, 1) = KeyR(m, r)
  BY <1>5 DEF Ordered
<1>7. ASSUME NEW x \in Leaves(m, Under(m, c)) PROVE KeyR(m, x) \in GoodKeys
  <2>1. x \in Recs(m, Under(m, c)) /\ Under(m, c) \subseteq DOMAIN m.nodes
    BY <1>1, <1>4, <1>7, LeafIn
  <2>2. QED
    BY <2>1, RecTypes
<1>8. ASSUME NEW x \in Leaves(m, Under(m, c)), i < Count(m, id) PROVE Le(KeyR(m, x), KeyAt(m, id, i + 1))
  <2> DEFINE s == <<id, i + 1>>
  <2>1. i + 1 \in 1..Count(m, id)
    BY <1>1, <1>8
  <2>2. s \in Recs(m, T) /\ s[1] = r[1] /\ s[2] = r[2] + 1
    BY <1>5, <2>1, RecIn
  <2> HIDE DEF s
  <2>3. Le(KeyR(m, x), KeyR(m, s))
    BY <1>5, <1>8, <2>2 DEF Ordered, OrdNext
  <2>4. QED
    BY <2>3 DEF KeyR, s
<1>9. QED
  BY <1>3, <1>4, <1>5, <1>6, <1>7, <1>8 DEF c

\* A leaf record under a node is in it, or under one of its records.
LEMMA LeafUnder ==
  ASSUME NEW m, OnDisk(m), NEW id \in DOMAIN m.nodes, NEW r \in Leaves(m, Under(m, id))
  PROVE  \/ IsLeaf(m, id) /\ r[1] = id /\ r[2] \in 1..Count(m, id) /\ KeyR(m, r) = KeyAt(m, id, r[2])
         \/ ~IsLeaf(m, id) /\ \E i \in 1..Count(m, id) : r \in Leaves(m, Under(m, ChildAt(m, id, i)))
<1>1. /\ r = <<r[1], r[2]>> /\ r[1] \in Under(m, id) /\ r[2] \in 1..Count(m, r[1]) /\ IsLeaf(m, r[1])
  BY LeafIn, RecIn DEF Index
<1>2. CASE r[1] = id
  BY <1>1, <1>2 DEF KeyR
<1>3. CASE r[1] # id
  <2>1. PICK c \in KidsOf(m, id) : r[1] \in Under(m, c)
    BY <1>1, <1>3, UnderSplit
  <2>2. ~IsLeaf(m, id) /\ \E i \in 1..Count(m, id) : c = ChildAt(m, id, i)
    BY <2>1, KidIn
  <2>3. r \in Leaves(m, Under(m, c))
    BY <1>1, <2>1, LeafIn
  <2>4. QED
    BY <2>2, <2>3
<1>4. QED
  BY <1>2, <1>3

\* The root, where every query begins.
LEMMA ReachedRoot ==
  ASSUME NEW m, OnDisk(m), NEW k
  PROVE  Reached(m, m.root, k)
  BY UnderStays DEF Reached

\* The child of the record that a bisection found.
LEMMA ReachedChild ==
  ASSUME NEW m, OnDisk(m), Ordered(m), NEW q \in QueryT, Reached(m, q.node, q.key), Settled(m, q),
         ~(q.cmp > 0), ~IsLeaf(m, q.node)
  PROVE  Reached(m, ChildAt(m, q.node, q.index + 1), q.key)
<1> DEFINE id == q.node
           k == q.key
           p == q.index + 1
           T == Under(m, m.root)
           c == ChildAt(m, id, p)
<1>1. id \in T /\ k \in GoodKeys /\ p \in 1..Count(m, id) /\ Le(KeyAt(m, id, p), k)
  BY DEF Reached, Settled, QueryT
<1>2. \A j \in 1..Count(m, id) : j > p => Lt(k, KeyAt(m, id, j)) \/ KeyAt(m, id, p) = k
  BY DEF Settled
<1>3. /\ id \in DOMAIN m.nodes /\ Count(m, id) \in Nat
      /\ \A i \in 1..Count(m, id) : KeyAt(m, id, i) \in GoodKeys
      /\ \A i, j \in 1..Count(m, id) : i <= j => Le(KeyAt(m, id, i), KeyAt(m, id, j))
  BY <1>1, NodeOrder
<1>4. c \in T /\ Count(m, c) > 0 /\ KeyAt(m, c, 1) = KeyAt(m, id, p)
  BY <1>1, ChildOrder
<1>5. ASSUME NEW r \in Leaves(m, T), Le(KeyR(m, r), k), r \notin Leaves(m, Under(m, c))
      PROVE  Le(KeyR(m, r), KeyAt(m, id, p))
  <2>0. KeyR(m, r) \in GoodKeys
    <3>1. r \in Recs(m, T) /\ T \subseteq DOMAIN m.nodes
      BY <1>5, LeafIn DEF Ordered
    <3>2. QED
      BY <3>1, RecTypes
  <2>1. CASE Count(m, id) > 0 /\ Le(KeyR(m, r), KeyAt(m, id, 1))
    <3>1. 1 \in 1..Count(m, id) /\ 1 <= p
      BY <1>1, <1>3
    <3>2. Le(KeyAt(m, id, 1), KeyAt(m, id, p)) /\ KeyAt(m, id, 1) \in GoodKeys /\ KeyAt(m, id, p) \in GoodKeys
      BY <1>1, <1>3, <3>1
    <3>3. QED
      BY <2>0, <2>1, <3>2, LeTrans
  <2>2. CASE r \in Leaves(m, Under(m, id))
    <3>1. PICK i \in 1..Count(m, id) : r \in Leaves(m, Under(m, ChildAt(m, id, i)))
      BY <1>3, <2>2, LeafUnder
    <3>2. /\ Le(KeyAt(m, id, i), KeyR(m, r))
          /\ i < Count(m, id) => Le(KeyR(m, r), KeyAt(m, id, i + 1))
      BY <1>1, <3>1, ChildOrder
    <3>3. i # p
      BY <1>5, <3>1
    <3> HIDE DEF p
    <3>4. CASE i < p
      <4>1. i < Count(m, id) /\ i + 1 \in 1..Count(m, id) /\ i + 1 <= p
        BY <1>1, <1>3, <3>4
      <4>2. Le(KeyR(m, r), KeyAt(m, id, i + 1)) /\ Le(KeyAt(m, id, i + 1), KeyAt(m, id, p))
            /\ KeyAt(m, id, i + 1) \in GoodKeys /\ KeyAt(m, id, p) \in GoodKeys
        BY <1>1, <1>3, <3>2, <4>1
      <4>3. QED
        BY <2>0, <4>2, LeTrans
    <3>5. CASE i > p
      <4>1. KeyAt(m, id, i) \in GoodKeys /\ Le(KeyAt(m, id, i), KeyR(m, r))
        BY <1>3, <3>2
      <4>2. Le(KeyAt(m, id, i), k)
        BY <1>1, <1>5, <2>0, <4>1, LeTrans
      <4>3. ~Lt(k, KeyAt(m, id, i))
        BY <1>1, <4>1, <4>2, CmpTotal
      <4>4. KeyAt(m, id, p) = k
        BY <1>2, <3>5, <4>3
      <4>5. QED
        BY <1>5, <4>4
    <3>6. QED
      BY <1>1, <3>3, <3>4, <3>5
  <2>3. QED
    BY <1>5, <2>1, <2>2 DEF Reached
<1> HIDE DEF c
<1>6. Reached(m, c, k)
  BY <1>1, <1>4, <1>5 DEF Reached
<1>7. QED
  BY <1>6 DEF c

\* The record of a leaf that a bisection found.
LEMMA FoundLeaf ==
  ASSUME NEW m, OnDisk(m), Ordered(m), NEW q \in QueryT, Reached(m, q.node, q.key), Settled(m, q),
         ~(q.cmp > 0), IsLeaf(m, q.node)
  PROVE  Found(m, q)
<1> DEFINE id == q.node
           k == q.key
           p == q.index + 1
           T == Under(m, m.root)
<1>1. id \in T /\ k \in GoodKeys /\ p \in 1..Count(m, id) /\ Le(KeyAt(m, id, p), k)
  BY DEF Reached, Settled, QueryT
<1>2. \A j \in 1..Count(m, id) : j > p => Lt(k, KeyAt(m, id, j)) \/ KeyAt(m, id, p) = k
  BY DEF Settled
<1>3. /\ id \in DOMAIN m.nodes /\ Count(m, id) \in Nat
      /\ \A i \in 1..Count(m, id) : KeyAt(m, id, i) \in GoodKeys
      /\ \A i, j \in 1..Count(m, id) : i <= j => Le(KeyAt(m, id, i), KeyAt(m, id, j))
  BY <1>1, NodeOrder
<1>4. <<id, p>> \in Leaves(m, T)
  BY <1>1, LeafIn
<1>5. ASSUME NEW r \in Leaves(m, T), Le(KeyR(m, r), k) PROVE Le(KeyR(m, r), KeyAt(m, id, p))
  <2>0. KeyR(m, r) \in GoodKeys
    <3>1. r \in Recs(m, T) /\ T \subseteq DOMAIN m.nodes
      BY <1>5, LeafIn DEF Ordered
    <3>2. QED
      BY <3>1, RecTypes
  <2>1. CASE Count(m, id) > 0 /\ Le(KeyR(m, r), KeyAt(m, id, 1))
    <3>1. 1 \in 1..Count(m, id) /\ 1 <= p
      BY <1>1, <1>3
    <3>2. Le(KeyAt(m, id, 1), KeyAt(m, id, p)) /\ KeyAt(m, id, 1) \in GoodKeys /\ KeyAt(m, id, p) \in GoodKeys
      BY <1>1, <1>3, <3>1
    <3>3. QED
      BY <2>0, <2>1, <3>2, LeTrans
  <2>2. CASE r \in Leaves(m, Under(m, id))
    <3> DEFINE i == r[2]
    <3>1. i \in 1..Count(m, id) /\ KeyR(m, r) = KeyAt(m, id, i)
      BY <1>3, <2>2, LeafUnder
    <3> HIDE DEF p, i
    <3>2. CASE i <= p
      BY <1>1, <1>3, <3>1, <3>2
    <3>3. CASE i > p
      <4>1. ~Lt(k, KeyAt(m, id, i))
        BY <1>1, <1>5, <2>0, <3>1, CmpTotal
      <4>2. KeyAt(m, id, p) = k
        BY <1>2, <3>1, <3>3, <4>1
      <4>3. QED
        BY <1>5, <4>2
    <3>4. QED
      BY <1>1, <3>1, <3>2, <3>3
  <2>3. QED
    BY <1>5, <2>1, <2>2 DEF Reached
<1>6. QED
  BY <1>1, <1>4, <1>5 DEF Found

\* A bisection that fails: there is no such record in the whole tree.
LEMMA FailedNode ==
  ASSUME NEW m, OnDisk(m), Ordered(m), NEW q \in QueryT, Reached(m, q.node, q.key),
         \A j \in 1..Count(m, q.node) : Lt(q.key, KeyAt(m, q.node, j))
  PROVE  NotFound(m, q)
<1> DEFINE id == q.node
           k == q.key
<1>1. id \in Under(m, m.root) /\ k \in GoodKeys
  BY DEF Reached, QueryT
<1>2. /\ id \in DOMAIN m.nodes /\ Count(m, id) \in Nat
      /\ \A i \in 1..Count(m, id) : KeyAt(m, id, i) \in GoodKeys
  BY <1>1, NodeOrder
<1>3. ~(Count(m, id) > 0 /\ Le(KeyAt(m, id, 1), k))
  <2>1. SUFFICES ASSUME Count(m, id) > 0 PROVE ~Le(KeyAt(m, id, 1), k)
    OBVIOUS
  <2>2. 1 \in 1..Count(m, id)
    BY <1>2, <2>1
  <2>3. Lt(k, KeyAt(m, id, 1)) /\ KeyAt(m, id, 1) \in GoodKeys
    BY <1>2, <2>2
  <2>4. QED
    BY <1>1, <2>3, CmpTotal
<1>4. id = m.root
  BY <1>3 DEF Reached
<1>5. ASSUME NEW r \in Leaves(m, Under(m, id)) PROVE ~Le(KeyR(m, r), k)
  <2>1. CASE IsLeaf(m, id) /\ r[2] \in 1..Count(m, id) /\ KeyR(m, r) = KeyAt(m, id, r[2])
    BY <1>1, <1>2, <2>1, CmpTotal
  <2>2. CASE ~IsLeaf(m, id) /\ \E i \in 1..Count(m, id) : r \in Leaves(m, Under(m, ChildAt(m, id, i)))
    <3>1. PICK i \in 1..Count(m, id) : r \in Leaves(m, Under(m, ChildAt(m, id, i)))
      BY <2>2
    <3>2. Le(KeyAt(m, id, i), KeyR(m, r)) /\ KeyR(m, r) \in GoodKeys /\ KeyAt(m, id, i) \in GoodKeys
      BY <1>1, <1>2, <2>2, <3>1, ChildOrder
    <3>3. Lt(k, KeyAt(m, id, i)) /\ Le(k, KeyAt(m, id, i))
      BY <1>1, <3>2, CmpTotal
    <3>4. Lt(k, KeyR(m, r))
      BY <1>1, <3>2, <3>3, LeTrans
    <3>5. QED
      BY <1>1, <3>2, <3>4, CmpTotal
  <2>3. QED
    BY <1>2, <1>5, <2>1, <2>2, LeafUnder
<1>6. QED
  BY <1>4, <1>5 DEF NotFound

\* No record is left in the range: all of them are after the key.
LEMMA NarrowedOut ==
  ASSUME NEW m, OnDisk(m), Ordered(m), NEW q \in QueryT, q.node \in Under(m, m.root), BoundsT(m, q),
         Narrowed(m, q), NothingLeft(q)
  PROVE  \A j \in 1..Count(m, q.node) : Lt(q.key, KeyAt(m, q.node, j))
<1>1. q.left \in Int /\ q.index \in Int /\ q.left = q.index /\ q.cmp > 0 /\ 0 <= q.left /\ q.key \in GoodKeys
  BY DEF NothingLeft, BoundsT, QueryT
<1>2. Count(m, q.node) \in Nat /\ \A i \in 1..Count(m, q.node) : KeyAt(m, q.node, i) \in GoodKeys
  BY NodeOrder
<1>3. \A j \in 1..Count(m, q.node) : j > q.index => Lt(q.key, KeyAt(m, q.node, j))
  BY <1>1 DEF Narrowed
<1>4. ~(q.left > 0)
  <2>1. SUFFICES ASSUME q.left > 0 PROVE FALSE
    OBVIOUS
  <2>2. q.left < Count(m, q.node) /\ Le(KeyAt(m, q.node, q.left + 1), q.key)
    BY <2>1 DEF Narrowed
  <2>3. q.left + 1 \in 1..Count(m, q.node) /\ q.left + 1 > q.index
    BY <1>1, <1>2, <2>2
  <2>4. Lt(q.key, KeyAt(m, q.node, q.left + 1)) /\ KeyAt(m, q.node, q.left + 1) \in GoodKeys
    BY <1>2, <1>3, <2>3
  <2>5. QED
    BY <1>1, <2>2, <2>4, CmpTotal
<1>5. QED
  BY <1>1, <1>3, <1>4

\* One more comparison.
LEMMA NarrowedStep ==
  ASSUME OnDisk(img), Ordered(img), NEW q \in QueryT, q.node \in Under(img, img.root), BoundsT(img, q),
         Narrowed(img, q), ~NothingLeft(q)
  PROVE  /\ Narrowed(img, Bisected(q))
         /\ ~Bisecting(Bisected(q)) => Settled(img, Bisected(q))
<1> DEFINE b == Bisected(q)
           N == Count(img, q.node)
           K(j) == KeyAt(img, q.node, j)
<1>1. /\ b \in QueryT /\ b.node = q.node /\ b.key = q.key
      /\ b.left = (IF q.cmp > 0 THEN q.left ELSE q.index)
      /\ b.right = (IF q.cmp > 0 THEN q.index - 1 ELSE q.right)
      /\ b.left <= b.index /\ b.index <= b.right /\ b.right < N
      /\ b.cmp = keycmp(K(b.index + 1), q.key)
  BY BisectedBounds
<1>2. /\ q.left \in Int /\ q.index \in Int /\ q.right \in Int /\ q.cmp \in Int /\ 0 <= q.left /\ q.left <= q.index
      /\ b.left \in Int /\ b.index \in Int /\ b.right \in Int /\ b.cmp \in Int /\ q.key \in GoodKeys
      /\ (q.cmp > 0 => q.index <= N) /\ (~(q.cmp > 0) => q.index <= q.right /\ q.right < N)
  BY <1>1 DEF QueryT, BoundsT
<1>3. /\ N \in Nat /\ \A i \in 1..N : K(i) \in GoodKeys
      /\ \A i, j \in 1..N : i <= j => Le(K(i), K(j))
  BY NodeOrder
<1>4. /\ q.cmp > 0 => \A j \in 1..N : j > q.index => Lt(q.key, K(j))
      /\ ~(q.cmp > 0) => Le(K(q.index + 1), q.key) /\ \A j \in 1..N : j > q.right + 1 => Lt(q.key, K(j))
      /\ q.left > 0 => q.left < N /\ Le(K(q.left + 1), q.key)
  BY DEF Narrowed
<1> HIDE DEF b, N, K
<1>5. b.index + 1 \in 1..N /\ b.left >= 0
  BY <1>1, <1>2, <1>3
<1>6. /\ b.cmp > 0 <=> Lt(q.key, K(b.index + 1))
      /\ ~(b.cmp > 0) <=> Le(K(b.index + 1), q.key)
      /\ b.cmp = 0 <=> K(b.index + 1) = q.key
  BY <1>1, <1>2, <1>3, <1>5, CmpZero, CmpTotal
<1>7. ASSUME b.cmp > 0, NEW j \in 1..N, j > b.index PROVE Lt(q.key, K(j))
  <2>1. Le(K(b.index + 1), K(j)) /\ K(j) \in GoodKeys /\ K(b.index + 1) \in GoodKeys
    BY <1>2, <1>3, <1>5, <1>7
  <2>2. Lt(q.key, K(b.index + 1)) /\ Le(q.key, K(b.index + 1))
    BY <1>2, <1>6, <1>7, <2>1, CmpTotal
  <2>3. QED
    BY <1>2, <2>1, <2>2, LeTrans
<1>8. ASSUME NEW j \in 1..N, j > b.right + 1 PROVE Lt(q.key, K(j))
  BY <1>1, <1>2, <1>4, <1>8
<1>9. b.left > 0 => b.left < N /\ Le(K(b.left + 1), q.key)
  <2>1. CASE q.cmp > 0
    <3>1. b.left = q.left
      BY <1>1, <2>1
    <3>2. QED
      BY <1>4, <3>1
  <2>2. CASE ~(q.cmp > 0)
    <3>1. b.left = q.index /\ Le(K(q.index + 1), q.key) /\ q.index < N
      BY <1>1, <1>2, <1>3, <1>4, <2>2
    <3>2. QED
      BY <3>1
  <2>3. QED
    BY <2>1, <2>2
<1>10. Narrowed(img, b)
  BY <1>1, <1>6, <1>7, <1>8, <1>9 DEF Narrowed, N, K
<1>11. ASSUME ~Bisecting(b) PROVE Settled(img, b)
  <2>1. b.cmp = 0 \/ b.left = b.right
    BY <1>11 DEF Bisecting
  <2>2. ASSUME b.cmp > 0, NEW j \in 1..N PROVE Lt(q.key, K(j))
    <3>1. b.left = b.index
      BY <1>1, <1>2, <2>1, <2>2
    <3>2. ~(b.left > 0)
      <4>1. SUFFICES ASSUME b.left > 0 PROVE FALSE
        OBVIOUS
      <4>2. Le(K(b.index + 1), q.key) /\ Lt(q.key, K(b.index + 1)) /\ K(b.index + 1) \in GoodKeys
        BY <1>3, <1>5, <1>6, <1>9, <2>2, <3>1, <4>1
      <4>3. QED
        BY <1>2, <4>2, CmpTotal
    <3>3. j > b.index
      BY <1>2, <3>1, <3>2, <1>5
    <3>4. QED
      BY <1>7, <2>2, <3>3
  <2>3. ASSUME ~(b.cmp > 0), NEW j \in 1..N, j > b.index + 1 PROVE Lt(q.key, K(j)) \/ K(b.index + 1) = q.key
    <3>1. CASE b.cmp = 0
      BY <1>6, <3>1
    <3>2. CASE b.left = b.right
      <4>1. b.index = b.right
        BY <1>1, <1>2, <3>2
      <4>2. QED
        BY <1>8, <2>3, <4>1
    <3>3. QED
      BY <2>1, <3>1, <3>2
  <2>4. QED
    BY <1>1, <1>5, <1>6, <2>2, <2>3 DEF Settled, N, K
<1>12. QED
  BY <1>10, <1>11 DEF b

\* A query that is not running, or that is being read for, is not touched.
LEMMA SearchKept ==
  ASSUME SearchInv, pc # "reported", UNCHANGED <<img, query>>, cur'.id = cur.id \/ query.state # "running",
         pc \notin {"bisect", "bisected"}, pc' \notin {"bisect", "bisected"},
         pc' \in Pending /\ query.state = "running" => pc \in Pending
  PROVE  SearchInv'
<1>1. SUFFICES ASSUME Ordered(img) PROVE Search(img, pc', cur', query)
  BY DEF SearchInv
<1>2. Search(img, pc, cur, query)
  BY <1>1 DEF SearchInv
<1>3. QED
  BY <1>2 DEF Search

\* A query begins.
LEMMA SearchStartQuery ==
  ASSUME Shape, SearchInv, pc # "reported", StartQuery
  PROVE  SearchInv'
<1>1. SUFFICES ASSUME Ordered(img) PROVE Search(img, pc', cur', query')
  BY StartQueryStep DEF SearchInv
<1>2. PICK l \in Lookups :
        query' = [NoQuery EXCEPT !.state = "running", !.key = LookupKey(l[1], l[2]),
                                 !.node = img.root, !.index = Node(img.root).nkeys, !.back = pc]
  BY StartQueryStep
<1>3. /\ query'.node = img.root /\ query'.index = Node(img.root).nkeys /\ query'.cmp = 1 /\ query'.left = 0
      /\ query'.state = "running"
  BY <1>2 DEF NoQuery
<1>4. pc' = "bisect" /\ OnDisk(img)
  BY StartQueryStep, ShapeFacts
<1>5. Reached(img, query'.node, query'.key)
  BY <1>3, <1>4, ReachedRoot
<1>6. Count(img, img.root) \in Nat /\ query'.index = Count(img, img.root)
  BY <1>1, <1>3, <1>4, UnderStays, NodeOrder, Images
<1>7. Narrowed(img, query')
  BY <1>3, <1>6 DEF Narrowed
<1>8. QED
  BY <1>3, <1>4, <1>5, <1>7 DEF Search, Pending, Heads

\* It goes on in a child.
LEMMA SearchEnterChild ==
  ASSUME Shape, SearchInv, pc # "reported", EnterChild, pc' # "reported"
  PROVE  SearchInv'
<1>1. /\ pc = "enter" /\ pc' = "bisect" /\ Querying /\ UNCHANGED img
      /\ query' = [query EXCEPT !.node = cur.id, !.index = Node(cur.id).nkeys,
                                     !.left = 0, !.right = 0, !.cmp = 1, !.depth = @ + 1]
  BY EnterChildStep
<1>2. SUFFICES ASSUME Ordered(img) PROVE Search(img, pc', cur', query')
  BY <1>1 DEF SearchInv
<1>3. query \in QueryT /\ OnDisk(img) /\ query.state = "running" /\ Search(img, pc, cur, query)
  BY <1>1, <1>2, ShapeFacts DEF Querying, SearchInv
<1>4. /\ query'.node = cur.id /\ query'.index = Node(cur.id).nkeys /\ query'.cmp = 1 /\ query'.left = 0
      /\ query'.state = "running" /\ query'.key = query.key
  BY <1>1, <1>3 DEF QueryT
<1>5. Reached(img, cur.id, query.key)
  BY <1>1, <1>3 DEF Search, Pending, Heads
<1>6. Count(img, cur.id) \in Nat /\ query'.index = Count(img, cur.id)
  BY <1>2, <1>3, <1>4, <1>5, NodeOrder, Images DEF Reached
<1>7. Narrowed(img, query')
  BY <1>4, <1>6 DEF Narrowed
<1>8. QED
  BY <1>1, <1>4, <1>5, <1>7 DEF Search, Pending, Heads

\* The loop.
LEMMA SearchBisect ==
  ASSUME Shape, SearchInv, pc # "reported", Bisect, pc' # "reported"
  PROVE  SearchInv'
<1>1. pc = "bisect" /\ UNCHANGED <<img, cur>>
  BY BisectStep
<1>2. SUFFICES ASSUME Ordered(img) PROVE Search(img, pc', cur', query')
  BY <1>1 DEF SearchInv
<1>3. query \in QueryT /\ OnDisk(img) /\ query.state = "running" /\ BoundsT(img, query)
  BY <1>1, ShapeFacts, PhaseOf
<1>4. Reached(img, query.node, query.key) /\ Narrowed(img, query)
  BY <1>1, <1>2 DEF SearchInv, Search
<1>5. CASE NothingLeft(query) /\ query' = [query EXCEPT !.state = "failed"] /\ pc' = query.back
  <2>1. \A j \in 1..Count(img, query.node) : Lt(query.key, KeyAt(img, query.node, j))
    BY <1>2, <1>3, <1>4, <1>5, NarrowedOut DEF Reached
  <2>2. NotFound(img, query)
    BY <1>2, <1>3, <1>4, <2>1, FailedNode
  <2>3. query'.state = "failed" /\ query'.key = query.key /\ pc' \in {"record", "parsed"}
    BY <1>3, <1>5 DEF QueryT
  <2>4. NotFound(img, query')
    BY <2>2, <2>3 DEF NotFound
  <2>5. QED
    BY <2>3, <2>4 DEF Search, Pending, Heads
<1>6. CASE ~NothingLeft(query) /\ query' = Bisected(query)
           /\ pc' = IF Bisecting(Bisected(query)) THEN "bisect" ELSE "bisected"
  <2>1. query'.state = "running" /\ query'.node = query.node /\ query'.key = query.key
    BY <1>3, <1>6, BisectedBounds
  <2>2. Narrowed(img, query') /\ (~Bisecting(query') => Settled(img, query'))
    BY <1>2, <1>3, <1>4, <1>6, NarrowedStep DEF Reached
  <2>3. QED
    BY <1>4, <1>6, <2>1, <2>2 DEF Search, Pending, Heads
<1>7. QED
  BY <1>5, <1>6, BisectStep

\* The end of the loop.
LEMMA SearchEndBisection ==
  ASSUME Shape, SearchInv, pc # "reported", EndBisection, pc' # "reported"
  PROVE  SearchInv'
<1>1. pc = "bisected" /\ UNCHANGED img
  BY EndBisectionStep
<1>2. SUFFICES ASSUME Ordered(img) PROVE Search(img, pc', cur', query')
  BY <1>1 DEF SearchInv
<1>3. query \in QueryT /\ OnDisk(img) /\ query.state = "running"
  BY <1>1, ShapeFacts, PhaseOf
<1>4. Reached(img, query.node, query.key) /\ Settled(img, query)
  BY <1>1, <1>2 DEF SearchInv, Search
<1>5. CASE query.cmp > 0 /\ query' = [query EXCEPT !.state = "failed"] /\ pc' = query.back
  <2>1. NotFound(img, query)
    BY <1>2, <1>3, <1>4, <1>5, FailedNode DEF Settled
  <2>2. query'.state = "failed" /\ query'.key = query.key /\ pc' \in {"record", "parsed"}
    BY <1>3, <1>5 DEF QueryT
  <2>3. NotFound(img, query')
    BY <2>1, <2>2 DEF NotFound
  <2>4. QED
    BY <2>2, <2>3 DEF Search, Pending, Heads
<1>6. CASE ~(query.cmp > 0) /\ node_is_leaf(Node(query.node)) /\ query' = [query EXCEPT !.state = "found"] /\ pc' = query.back
  <2>1. Found(img, query)
    BY <1>2, <1>3, <1>4, <1>6, FoundLeaf, Images
  <2>2. query'.state = "found" /\ query'.key = query.key /\ query'.node = query.node /\ query'.index = query.index
        /\ pc' \in {"record", "parsed"}
    BY <1>3, <1>6 DEF QueryT
  <2>3. Found(img, query')
    BY <2>1, <2>2 DEF Found
  <2>4. QED
    BY <2>2, <2>3 DEF Search, Pending, Heads
<1>7. CASE /\ ~(query.cmp > 0) /\ ~node_is_leaf(Node(query.node)) /\ UNCHANGED query
           /\ cur' = Frame(Child(Node(query.node), query.index + 1), 0) /\ pc' = "read"
  <2>1. Reached(img, ChildAt(img, query.node, query.index + 1), query.key)
    BY <1>2, <1>3, <1>4, <1>7, ReachedChild, Images
  <2>2. cur'.id = ChildAt(img, query.node, query.index + 1)
    BY <1>7, Images DEF Frame
  <2>3. QED
    BY <1>3, <1>7, <2>1, <2>2 DEF Search, Pending, Heads
<1>8. QED
  BY <1>5, <1>6, <1>7, EndBisectionStep

\* Every step.
LEMMA SearchStep == ASSUME Shape, SearchInv, [Next]_vars PROVE SearchInv'
<1>1. CASE pc' = "reported"
  BY <1>1 DEF SearchInv
<1>2. CASE pc' # "reported" /\ UNCHANGED vars
  BY <1>2 DEF SearchInv, vars
<1>3. CASE pc' # "reported" /\ ~UNCHANGED vars
  <2>0. pc # "reported"
    BY <1>3, Alternatives, StartTreeStep, ReadNodeStep, WalkKeyListStep, EndKeyListStep, WalkValListStep,
       EndValListStep, EnterNodeStep, ReadRecordStep, EndNodeStep, CheckFooterStep, StartQueryStep,
       EnterChildStep, BisectStep, EndBisectionStep
  <2>1. CASE StartTree \/ ReadRecord \/ EndNode \/ CheckFooter
    <3>1. /\ pc \in {"start", "record", "footer"} /\ pc' \notin {"bisect", "bisected"} /\ UNCHANGED <<img, query>>
      BY <1>3, <2>1, StartTreeStep, ReadRecordStep, EndNodeStep, CheckFooterStep
    <3>2. query.state # "running"
      BY <2>0, <3>1, ShapeFacts, PhaseOf
    <3>3. QED
      BY <2>0, <3>1, <3>2, SearchKept
  <2>2. CASE WalkKeyList \/ WalkValList
    <3>1. /\ pc \in Pending /\ pc' = pc /\ UNCHANGED <<img, query>> /\ pc \notin {"bisect", "bisected"}
      BY <1>3, <2>2, WalkKeyListStep, WalkValListStep DEF Pending, Heads
    <3>2. cur'.id = cur.id
      BY <1>3, <2>0, <2>2, WalkKeyListStep, WalkValListStep, ShapeFacts DEF FreshT, FrameT
    <3>3. QED
      BY <2>0, <3>1, <3>2, SearchKept
  <2>3. CASE ReadNode \/ EndKeyList \/ EndValList
    <3>1. /\ pc \in {"read", "key_list", "value_list"} /\ pc' \in Heads /\ UNCHANGED <<img, query, cur>>
      BY <1>3, <2>3, ReadNodeStep, EndKeyListStep, EndValListStep DEF Heads
    <3>2. pc \in Pending /\ pc \notin {"bisect", "bisected"} /\ pc' \notin {"bisect", "bisected"}
      BY <3>1 DEF Pending, Heads
    <3>3. QED
      BY <2>0, <3>1, <3>2, SearchKept
  <2>4. CASE EnterNode
    <3>1. pc = "enter" /\ pc' = "record" /\ query.state # "running" /\ UNCHANGED <<img, query>>
      BY <1>3, <2>4, EnterNodeStep DEF Querying
    <3>2. QED
      BY <2>0, <3>1, SearchKept DEF Pending, Heads
  <2>5. QED
    BY <1>3, <2>0, <2>1, <2>2, <2>3, <2>4, Alternatives, SearchStartQuery, SearchEnterChild, SearchBisect,
       SearchEndBisection
<1>4. QED
  BY <1>1, <1>2, <1>3

\* The invariant of btree_query(), in a tree that is in order.
THEOREM SearchHolds == Spec => [](Shape /\ SearchInv)
<1>1. Init => Shape /\ SearchInv
  <2>1. ASSUME Init PROVE SearchInv
    BY <2>1 DEF Init, SearchInv, Search, NoQuery, Pending, Heads
  <2>2. QED
    BY <2>1, ShapeInit
<1>2. Shape /\ SearchInv /\ [Next]_vars => (Shape /\ SearchInv)'
  BY ShapeStep, SearchStep
<1>3. QED
  BY <1>1, <1>2, PTL DEF Spec

\* btree_query() finds the record with the last key not after the one looked up, in
\* an accepted tree of any shape, and fails only if no record has such a key; also if
\* it ran while the tree was being parsed.
THEOREM QueryFindsHolds == Spec => []QueryFinds
<1>1. ASSUME Shape, ParseInv, SearchInv PROVE QueryFinds
  <2>1. SUFFICES ASSUME Accepted, query.state \in {"found", "failed"}
                 PROVE  LET before == {r \in LeafRecords(Tree) : keycmp(KeyOf(r), query.key) <= 0}
                        IN  IF query.state = "failed" THEN before = {}
                            ELSE /\ <<query.node, query.index + 1>> \in before
                                 /\ \A r \in before : keycmp(KeyOf(r), KeyOf(<<query.node, query.index + 1>>)) <= 0
    BY DEF QueryFinds
  <2>2. Ordered(img) /\ pc # "reported"
    BY <1>1, <2>1, AcceptedTree DEF Accepted
  <2>3. Search(img, pc, cur, query)
    BY <1>1, <2>2 DEF SearchInv
  <2>4. LeafRecords(Tree) = Leaves(img, Under(img, img.root)) /\ \A r : KeyOf(r) = KeyR(img, r)
    BY ImageSets DEF KeyR
  <2>5. KeyOf(<<query.node, query.index + 1>>) = KeyAt(img, query.node, query.index + 1)
    BY ImageSets
  <2>6. CASE query.state = "failed"
    BY <2>3, <2>4, <2>6 DEF Search, NotFound, Le
  <2>7. CASE query.state = "found"
    BY <2>3, <2>4, <2>5, <2>7 DEF Search, Found, Le
  <2>8. QED
    BY <2>1, <2>6, <2>7
<1>2. QED
  BY <1>1, ParseHolds, SearchHolds, PTL

=============================================================================
