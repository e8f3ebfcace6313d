----------------------------- MODULE FiniteSums -----------------------------
(***************************************************************************)
(* Induction over the natural numbers and over finite sets, stated with    *)
(* sets in the place of predicates, and sums over finite sets.             *)
(***************************************************************************)
EXTENDS Integers, FiniteSets, FiniteSetTheorems, WellFoundedInduction, TLAPS

-----------------------------------------------------------------------------
(* Induction. *)

\* A set of natural numbers that is not empty has a least element.
LEMMA LeastNat ==
  ASSUME NEW T \in SUBSET Nat, T # {}
  PROVE  \E n \in T : \A m \in T : n <= m
<1> DEFINE R == OpToRel(<, Nat)
<1>1. IsWellFoundedOn(R, Nat)
  BY NatLessThanWellFounded
<1> HIDE DEF R
<1>2. PICK n \in T : \A m \in T : ~(<<m, n>> \in R)
  BY <1>1, WFMin
<1>3. ASSUME NEW m \in T PROVE ~(m < n)
  BY <1>2, Zenon DEF R, OpToRel
<1> QED
  BY <1>3

\* A bounded one has a greatest element.
LEMMA GreatestNat ==
  ASSUME NEW T \in SUBSET Nat, T # {}, NEW k \in Nat, \A m \in T : m <= k
  PROVE  \E n \in T : \A m \in T : m <= n
<1> DEFINE U == {k - m : m \in T}
<1>0. \A m \in T : k - m \in Nat
  OBVIOUS
<1>1. U \subseteq Nat /\ U # {}
  BY <1>0, Zenon
<1> HIDE DEF U
<1>2. PICK u \in U : \A v \in U : u <= v
  BY <1>1, LeastNat
<1>3. PICK n \in T : u = k - n
  BY DEF U
<1>4. ASSUME NEW m \in T PROVE m <= n
  <2>1. k - m \in U
    BY DEF U
  <2>2. k - n <= k - m /\ n \in Nat /\ m \in Nat
    BY <1>2, <1>3, <2>1
  <2> QED
    BY <2>2
<1> QED
  BY <1>4

\* A set with 0 and the successor of each of its numbers has all of them.
LEMMA SetInduction ==
  ASSUME NEW S, 0 \in S, \A n \in Nat : n \in S => n + 1 \in S
  PROVE  Nat \subseteq S
<1> SUFFICES ASSUME Nat \ S # {} PROVE FALSE
  OBVIOUS
<1>1. PICK n \in Nat \ S : \A m \in Nat \ S : n <= m
  BY LeastNat
<1>2. n - 1 \in Nat /\ n - 1 \in S
  BY <1>1
<1> QED
  BY <1>1, <1>2

\* A family with the empty set, closed under adding an element, has every
\* finite set.
LEMMA FiniteInduction ==
  ASSUME NEW F, NEW S, IsFiniteSet(S), {} \in F,
         \A T \in SUBSET S : \A x \in S \ T : T \in F => T \cup {x} \in F
  PROVE  S \in F
<1> DEFINE G == {n \in Nat : \A T \in SUBSET S :
                              IsFiniteSet(T) /\ Cardinality(T) = n => T \in F}
<1>1. 0 \in G
  BY FS_EmptySet
<1>2. ASSUME NEW n \in Nat, n \in G PROVE n + 1 \in G
  <2> SUFFICES ASSUME NEW T \in SUBSET S, IsFiniteSet(T), Cardinality(T) = n + 1
               PROVE  T \in F
    OBVIOUS
  <2>1. PICK x \in T : TRUE
    BY FS_EmptySet
  <2>2. IsFiniteSet(T \ {x}) /\ Cardinality(T \ {x}) = Cardinality(T) - 1
    BY <2>1, FS_RemoveElement
  <2>3. Cardinality(T \ {x}) = n
    BY <2>2
  <2>4. T \ {x} \in F
    BY <1>2, <2>2, <2>3
  <2>5. (T \ {x}) \cup {x} \in F
    BY <2>1, <2>4
  <2>6. (T \ {x}) \cup {x} = T
    BY <2>1
  <2> QED
    BY <2>5, <2>6
<1> HIDE DEF G
<1>3. Nat \subseteq G
  BY <1>1, <1>2, SetInduction
<1> QED
  BY <1>3, FS_CardinalityType DEF G

-----------------------------------------------------------------------------
(* Sums. *)

\* The element that a fold over a set takes first.
Pick(s) == CHOOSE x \in s : TRUE

\* h sums the values of g over each subset of S, one element after another: what
\* MapThenSumSet() computes.
SumsOf(h, g, S) ==
  h = [s \in SUBSET S |-> IF s = {} THEN 0 ELSE g[Pick(s)] + h[s \ {Pick(s)}]]

\* The sum of the values of g over S.
Total(g, S) == (CHOOSE h : SumsOf(h, g, S))[S]

\* It is an element.
LEMMA PickIn == ASSUME NEW s, s # {} PROVE Pick(s) \in s
  BY DEF Pick

\* Such a function exists for every finite set.
LEMMA SumsExist ==
  ASSUME NEW S, IsFiniteSet(S), NEW g, \A x \in S : g[x] \in Int
  PROVE  \E h \in [SUBSET S -> Int] : SumsOf(h, g, S)
<1> DEFINE Step(h, s) == IF s = {} THEN 0 ELSE g[Pick(s)] + h[s \ {Pick(s)}]
           G == {n \in Nat : \E h \in [SUBSET S -> Int] :
                   \A s \in SUBSET S : Cardinality(s) <= n => h[s] = Step(h, s)}
<1>0. \A s \in SUBSET S : IsFiniteSet(s) /\ Cardinality(s) \in Nat
  BY FS_Subset, FS_CardinalityType
<1>3. ASSUME NEW s \in SUBSET S, s # {}
      PROVE  /\ Pick(s) \in S /\ s \ {Pick(s)} \in SUBSET S
             /\ Cardinality(s \ {Pick(s)}) = Cardinality(s) - 1
  BY <1>0, <1>3, PickIn, FS_RemoveElement
<1>1. 0 \in G
  <2> DEFINE h == [s \in SUBSET S |-> 0]
  <2>1. h \in [SUBSET S -> Int]
    OBVIOUS
  <2>2. ASSUME NEW s \in SUBSET S, Cardinality(s) <= 0 PROVE h[s] = Step(h, s)
    <3>1. s = {}
      BY <1>0, <2>2, FS_EmptySet
    <3> QED
      BY <3>1
  <2> QED
    BY <2>1, <2>2
<1>2. ASSUME NEW n \in Nat, n \in G PROVE n + 1 \in G
  <2>1. PICK h \in [SUBSET S -> Int] :
          \A s \in SUBSET S : Cardinality(s) <= n => h[s] = Step(h, s)
    BY <1>2
  <2> DEFINE k == [s \in SUBSET S |-> IF Cardinality(s) <= n THEN h[s] ELSE Step(h, s)]
  <2>2. \A s \in SUBSET S : Step(h, s) \in Int
    BY <1>3
  <2>3. k \in [SUBSET S -> Int]
    BY <2>2
  <2>4. ASSUME NEW s \in SUBSET S, Cardinality(s) <= n + 1 PROVE k[s] = Step(k, s)
    <3>1. k[s] = Step(h, s)
      BY <2>1
    <3>2. CASE s = {}
      BY <3>1, <3>2
    <3>3. CASE s # {}
      <4>1. /\ s \ {Pick(s)} \in SUBSET S
            /\ Cardinality(s \ {Pick(s)}) = Cardinality(s) - 1 /\ Cardinality(s) \in Nat
        BY <1>0, <1>3, <3>3
      <4>2. Cardinality(s \ {Pick(s)}) <= n
        BY <2>4, <4>1
      <4>3. k[s \ {Pick(s)}] = h[s \ {Pick(s)}]
        BY <4>1, <4>2
      <4> QED
        BY <3>1, <3>3, <4>3
    <3> QED
      BY <3>2, <3>3
  <2> HIDE DEF k
  <2> QED
    BY <2>3, <2>4
<1> HIDE DEF G
<1>4. Nat \subseteq G
  BY <1>1, <1>2, SetInduction
<1>5. Cardinality(S) \in G
  BY <1>0, <1>4
<1>6. PICK h \in [SUBSET S -> Int] :
        \A s \in SUBSET S : Cardinality(s) <= Cardinality(S) => h[s] = Step(h, s)
  BY <1>5 DEF G
<1>7. ASSUME NEW s \in SUBSET S PROVE h[s] = Step(h, s)
  BY <1>0, <1>6, FS_Subset
<1>8. h = [s \in SUBSET S |-> Step(h, s)]
  BY <1>7
<1> QED
  BY <1>8 DEF SumsOf

\* There is one such function only, whatever larger set it is defined over.
LEMMA SumsAgree ==
  ASSUME NEW S, NEW U, IsFiniteSet(S), IsFiniteSet(U), NEW g, NEW f, NEW h, NEW k,
         SumsOf(h, g, S), SumsOf(k, f, U), NEW T, T \subseteq S, T \subseteq U,
         \A x \in T : g[x] = f[x]
  PROVE  h[T] = k[T]
<1> DEFINE G == {n \in Nat : \A s \in SUBSET T : Cardinality(s) = n => h[s] = k[s]}
<1>0. \A s \in SUBSET T : IsFiniteSet(s) /\ Cardinality(s) \in Nat
  BY FS_Subset, FS_CardinalityType
<1>1. ASSUME NEW s \in SUBSET T
      PROVE  /\ h[s] = IF s = {} THEN 0 ELSE g[Pick(s)] + h[s \ {Pick(s)}]
             /\ k[s] = IF s = {} THEN 0 ELSE f[Pick(s)] + k[s \ {Pick(s)}]
  <2>1. s \in SUBSET S /\ s \in SUBSET U
    OBVIOUS
  <2>2. h[s] = IF s = {} THEN 0 ELSE g[Pick(s)] + h[s \ {Pick(s)}]
    BY <2>1, Zenon DEF SumsOf
  <2>3. k[s] = IF s = {} THEN 0 ELSE f[Pick(s)] + k[s \ {Pick(s)}]
    BY <2>1, Zenon DEF SumsOf
  <2> QED
    BY <2>2, <2>3
<1>2. 0 \in G
  BY <1>0, <1>1, FS_EmptySet
<1>3. ASSUME NEW n \in Nat, n \in G PROVE n + 1 \in G
  <2> SUFFICES ASSUME NEW s \in SUBSET T, Cardinality(s) = n + 1 PROVE h[s] = k[s]
    OBVIOUS
  <2>1. s # {}
    BY FS_EmptySet
  <2>2. Pick(s) \in s /\ s \ {Pick(s)} \in SUBSET T
    BY <2>1, PickIn
  <2>3. Cardinality(s \ {Pick(s)}) = Cardinality(s) - 1
    BY <1>0, <2>2, FS_RemoveElement
  <2>4. h[s \ {Pick(s)}] = k[s \ {Pick(s)}]
    BY <1>3, <2>2, <2>3
  <2> QED
    BY <1>1, <2>1, <2>2, <2>4
<1> HIDE DEF G
<1>4. Nat \subseteq G
  BY <1>2, <1>3, SetInduction
<1> QED
  BY <1>0, <1>4 DEF G

\* Any function that sums gives the sum of the set.
LEMMA TotalIs ==
  ASSUME NEW S, IsFiniteSet(S), NEW g, \A x \in S : g[x] \in Int,
         NEW h, SumsOf(h, g, S), NEW T, T \subseteq S
  PROVE  h[T] = Total(g, T) /\ h[T] \in Int
<1>1. IsFiniteSet(T) /\ \A x \in T : g[x] \in Int
  BY FS_Subset
<1>2. PICK k \in [SUBSET T -> Int] : SumsOf(k, g, T)
  BY <1>1, SumsExist
<1>3. SumsOf(CHOOSE k1 : SumsOf(k1, g, T), g, T)
  BY <1>2, Zenon
<1> DEFINE k1 == CHOOSE k2 : SumsOf(k2, g, T)
<1>4. h[T] = k1[T] /\ h[T] = k[T]
  <2>1. SumsOf(k1, g, T)
    BY <1>3
  <2> HIDE DEF k1
  <2> QED
    BY <1>1, <1>2, <2>1, SumsAgree
<1>5. Total(g, T) = k1[T]
  BY Zenon DEF Total
<1> QED
  BY <1>2, <1>4, <1>5

\* The sum over no element.
LEMMA TotalEmpty == ASSUME NEW g PROVE Total(g, {}) = 0
<1>1. IsFiniteSet({}) /\ \A x \in {} : g[x] \in Int
  BY FS_EmptySet
<1>2. PICK h \in [SUBSET {} -> Int] : SumsOf(h, g, {})
  BY <1>1, SumsExist
<1>3. h[{}] = Total(g, {})
  BY <1>1, <1>2, TotalIs
<1>4. {} \in SUBSET {}
  OBVIOUS
<1>5. h[{}] = 0
  BY <1>2, <1>4, Zenon DEF SumsOf
<1> QED
  BY <1>3, <1>5

\* The sum over a set with one more element, whichever a fold takes first.
LEMMA TotalAdd ==
  ASSUME NEW S, IsFiniteSet(S), NEW g, \A x \in S : g[x] \in Int
  PROVE  \A y \in S : Total(g, S) = Total(g, S \ {y}) + g[y]
<1>1. PICK h \in [SUBSET S -> Int] : SumsOf(h, g, S)
  BY SumsExist
<1> DEFINE G == {n \in Nat : \A s \in SUBSET S : Cardinality(s) = n =>
                              \A y \in s : h[s] = h[s \ {y}] + g[y]}
<1>0. \A s \in SUBSET S : IsFiniteSet(s) /\ Cardinality(s) \in Nat
  BY FS_Subset, FS_CardinalityType
<1>2. ASSUME NEW s \in SUBSET S, s # {}
      PROVE  h[s] = g[Pick(s)] + h[s \ {Pick(s)}]
  BY <1>1, <1>2, Zenon DEF SumsOf
<1>3. 0 \in G
  BY <1>0, FS_EmptySet
<1>4. ASSUME NEW n \in Nat, n \in G PROVE n + 1 \in G
  <2> SUFFICES ASSUME NEW s \in SUBSET S, Cardinality(s) = n + 1, NEW y \in s
               PROVE  h[s] = h[s \ {y}] + g[y]
    OBVIOUS
  <2> DEFINE c == Pick(s)
  <2>1. c \in s /\ h[s] = g[c] + h[s \ {c}]
    BY <1>2, PickIn
  <2>2. /\ g[c] \in Int /\ g[y] \in Int
        /\ s \ {y} \in SUBSET S /\ s \ {c} \in SUBSET S
        /\ (s \ {y}) \ {c} \in SUBSET S
        /\ h[s \ {y}] \in Int /\ h[s \ {c}] \in Int /\ h[(s \ {y}) \ {c}] \in Int
    BY <1>1, <2>1
  <2> HIDE DEF c
  <2>3. CASE y = c
    BY <2>1, <2>2, <2>3
  <2>4. CASE y # c
    <3>1. /\ Cardinality(s \ {y}) = Cardinality(s) - 1
          /\ Cardinality(s \ {c}) = Cardinality(s) - 1
      BY <1>0, <2>1, FS_RemoveElement
    <3>2. c \in s \ {y} /\ y \in s \ {c}
      BY <2>1, <2>4
    <3>3. Cardinality(s \ {y}) = n /\ Cardinality(s \ {c}) = n
      BY <3>1
    <3>4. h[s \ {y}] = h[(s \ {y}) \ {c}] + g[c]
      BY <1>4, <2>2, <3>2, <3>3
    <3>5. h[s \ {c}] = h[(s \ {c}) \ {y}] + g[y]
      BY <1>4, <2>2, <3>2, <3>3
    <3>6. (s \ {c}) \ {y} = (s \ {y}) \ {c}
      OBVIOUS
    <3>7. h[s \ {c}] = h[(s \ {y}) \ {c}] + g[y]
      BY <3>5, <3>6, Zenon
    <3> QED
      BY <2>1, <2>2, <3>4, <3>7
  <2> QED
    BY <2>3, <2>4
<1> HIDE DEF G
<1>5. Nat \subseteq G
  BY <1>3, <1>4, SetInduction
<1>6. ASSUME NEW y \in S PROVE h[S] = h[S \ {y}] + g[y]
  BY <1>0, <1>5 DEF G
<1>7. ASSUME NEW s \in SUBSET S PROVE h[s] = Total(g, s)
  BY <1>1, TotalIs
<1> QED
  BY <1>6, <1>7

\* The sum of whole numbers is one, of natural numbers too.
LEMMA TotalType ==
  ASSUME NEW S, IsFiniteSet(S), NEW g, \A x \in S : g[x] \in Int
  PROVE  Total(g, S) \in Int
<1>1. PICK h \in [SUBSET S -> Int] : SumsOf(h, g, S)
  BY SumsExist
<1> QED
  BY <1>1, TotalIs

\* The sum depends only on the values over the set.
LEMMA TotalSame ==
  ASSUME NEW S, IsFiniteSet(S), NEW g, \A x \in S : g[x] \in Int,
         NEW f, \A x \in S : f[x] = g[x]
  PROVE  Total(f, S) = Total(g, S)
<1>1. PICK h \in [SUBSET S -> Int] : SumsOf(h, g, S)
  BY SumsExist
<1>2. PICK k \in [SUBSET S -> Int] : SumsOf(k, f, S)
  BY SumsExist
<1>3. h[S] = k[S]
  BY <1>1, <1>2, SumsAgree
<1> QED
  BY <1>1, <1>2, <1>3, TotalIs

\* Adding an element that the set does not have.
LEMMA TotalGrow ==
  ASSUME NEW S, IsFiniteSet(S), NEW y, y \notin S, NEW g,
         \A x \in S \cup {y} : g[x] \in Int
  PROVE  Total(g, S \cup {y}) = Total(g, S) + g[y]
<1>1. IsFiniteSet(S \cup {y}) /\ y \in S \cup {y}
  BY FS_AddElement
<1>2. Total(g, S \cup {y}) = Total(g, (S \cup {y}) \ {y}) + g[y]
  BY <1>1, TotalAdd
<1>3. (S \cup {y}) \ {y} = S
  OBVIOUS
<1> QED
  BY <1>2, <1>3, Zenon

\* The sum over two sets without a common element.
LEMMA TotalUnion ==
  ASSUME NEW S, IsFiniteSet(S), NEW U, IsFiniteSet(U), S \cap U = {}, NEW g,
         \A x \in S \cup U : g[x] \in Int
  PROVE  Total(g, S \cup U) = Total(g, S) + Total(g, U)
<1> DEFINE F == {T \in SUBSET U : Total(g, S \cup T) = Total(g, S) + Total(g, T)}
<1>1. {} \in F
  <2>1. Total(g, S) \in Int /\ Total(g, {}) = 0 /\ S \cup {} = S
    BY TotalType, TotalEmpty
  <2>2. QED
    BY <2>1
<1>2. ASSUME NEW T \in SUBSET U, NEW y \in U \ T, T \in F PROVE T \cup {y} \in F
  <2>1. IsFiniteSet(T) /\ IsFiniteSet(S \cup T)
    BY FS_Subset, FS_Union
  <2>2. y \notin T /\ y \notin S \cup T /\ g[y] \in Int
    OBVIOUS
  <2>3. Total(g, T \cup {y}) = Total(g, T) + g[y]
    BY <2>1, <2>2, TotalGrow
  <2>4. Total(g, (S \cup T) \cup {y}) = Total(g, S \cup T) + g[y]
    BY <2>1, <2>2, TotalGrow
  <2>5. (S \cup T) \cup {y} = S \cup (T \cup {y}) /\ T \cup {y} \in SUBSET U
    OBVIOUS
  <2>6. Total(g, S) \in Int /\ Total(g, T) \in Int
    BY <2>1, TotalType
  <2>7. Total(g, S \cup T) = Total(g, S) + Total(g, T)
    BY <1>2
  <2>8. Total(g, (S \cup T) \cup {y}) = Total(g, S) + Total(g, T \cup {y})
    BY <2>2, <2>3, <2>4, <2>6, <2>7
  <2>9. QED
    BY <2>5, <2>8, Zenon
<1> HIDE DEF F
<1>3. U \in F
  BY <1>1, <1>2, FiniteInduction
<1>4. QED
  BY <1>3 DEF F

\* The sum over one element.
LEMMA TotalOne == ASSUME NEW y, NEW g, g[y] \in Int PROVE Total(g, {y}) = g[y]
<1>1. {} \cup {y} = {y} /\ IsFiniteSet({}) /\ Total(g, {}) = 0
  BY FS_EmptySet, TotalEmpty
<1>2. Total(g, {} \cup {y}) = Total(g, {}) + g[y]
  BY <1>1, TotalGrow
<1>3. QED
  BY <1>1, <1>2
=============================================================================
