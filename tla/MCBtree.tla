------------------------------- MODULE MCBtree -------------------------------
(* B-trees for TLC: a consistent tree of each type and of a few shapes, and   *)
(* families in which some fields take all their small values.                 *)
EXTENDS Btree, TLC, SequencesExt

RawKey == [id |-> 0, type |-> 0, number |-> 0, name |-> 0, namelen |-> 0, strlen |-> 0,
           nul |-> TRUE, hash |-> 0, data_hash |-> TRUE]
Val(c) == [child |-> c, hash |-> c, blocks |-> 1]
\* A record: its raw key and value, with their lengths.
Rec(raw, klen, vlen, val) == [raw |-> raw, klen |-> klen, vlen |-> vlen, val |-> val]

Sum(s) == FoldSeq(LAMBDA a, b : a + b, 0, s)
NoList == [off |-> INVALID, len |-> 0]

(* A node with its keys one after the other from the start of their area and  *)
(* the values from the end of theirs.  After the first key, and before the    *)
(* first value, there is a hole, listed as free if an entry fits.             *)
Pack(tree, flags, level, recs, hole, id) ==
  LET fixed == tree \in FixedTrees
      n == Len(recs)
      leaf == "leaf" \in flags
      kpos(i) == Sum([j \in 1..(i - 1) |-> recs[j].klen]) + (IF i > 1 THEN hole ELSE 0)
      vpos(i) == Sum([j \in 1..i |-> recs[j].vlen]) + (IF i > 1 THEN hole ELSE 0)
      area == Sum([j \in 1..n |-> recs[j].klen]) + hole
      vals == Sum([j \in 1..n |-> recs[j].vlen]) + hole
      min == KVOFF * ((BlockSize - HEAD) \div (FixedKeyLen(tree) + FixedValLen(tree, leaf) + KVOFF))
      table == IF fixed THEN min ELSE KVLOC * (n + 1)
      end == BlockSize - (IF "root" \in flags THEN INFO ELSE 0)
      first == IF n > 0 THEN recs[1] ELSE Rec(RawKey, 0, 0, Val(0))
      list(off) == IF hole >= NLOC THEN [off |-> off, len |-> hole] ELSE [off |-> INVALID, len |-> hole]
      raw(off) == IF hole >= NLOC THEN off :> [off |-> INVALID, len |-> hole] ELSE <<>>
  IN  [flags |-> flags \cup (IF fixed THEN {"fixed"} ELSE {}), level |-> level, nkeys |-> n,
       table |-> [off |-> 0, len |-> table],
       free |-> [off |-> area, len |-> end - vals - area - table - HEAD],
       kfree |-> list(first.klen), kraw |-> raw(first.klen),
       vfree |-> list(first.vlen + hole), vraw |-> raw(first.vlen + hole),
       toc |-> [i \in 1..n |-> [k |-> kpos(i), klen |-> recs[i].klen, v |-> vpos(i), vlen |-> recs[i].vlen]],
       keys |-> [i \in 1..n |-> recs[i].raw], vals |-> [i \in 1..n |-> recs[i].val],
       xid |-> 5, type |-> IF "root" \in flags THEN "btree" ELSE "btree_node", subtype |-> tree, hash |-> id]

-----------------------------------------------------------------------------
(* Records of each tree; k is the place of the key in the order. *)

KLen(tree) == IF tree \in FixedTrees THEN FixedKeyLen(tree)
              ELSE IF tree = "catalog" THEN 8 ELSE 4
VLen(tree) == IF tree \in FixedTrees THEN FixedValLen(tree, TRUE)
              ELSE IF tree = "extentref" THEN 10 ELSE IF tree = "catalog" THEN 12 ELSE 6
KeyAt(tree, k) ==
  CASE tree \in {"omap", "free_queue"} -> [RawKey EXCEPT !.id = 1 + (k \div 2), !.number = 1 + (k % 2)]
    [] tree = "fext" -> [RawKey EXCEPT !.id = 1 + (k \div 2), !.number = BlockSize * (k % 2)]
    [] tree \in {"snapshots", "fusion_mt"} -> [RawKey EXCEPT !.id = 1 + k]
    [] tree = "extentref" -> [RawKey EXCEPT !.id = 1 + k, !.type = EXTENT]
    [] tree = "catalog" -> [RawKey EXCEPT !.id = 1 + (k \div 2), !.type = FILE_EXTENT,
                                          !.number = BlockSize * (k % 2)]
    [] tree = "snap_meta" -> [RawKey EXCEPT !.id = 1 + k, !.type = SNAP_METADATA]
Leaf(tree, k) == Rec(KeyAt(tree, k), KLen(tree), VLen(tree), Val(0))
Index(tree, k, c) == Rec(KeyAt(tree, k), KLen(tree), 4, Val(c))

InfoFlags(tree, sealed) ==
  (IF tree \in FixedTrees THEN {} ELSE {"nonaligned"})
    \cup (IF tree = "free_queue" THEN {"ghosts", "ephemeral"} ELSE {})
    \cup (IF tree \in {"catalog", "free_queue"} THEN {} ELSE {"physical"})
    \cup (IF sealed THEN {"hashed", "noheader"} ELSE {})
Image0(tree, nodes, keys) ==
  [type |-> tree, sealed |-> FALSE, hashed |-> TRUE, fusion |-> tree = "fusion_mt",
   root |-> 1, root_hash |-> 1, nodes |-> nodes,
   info |-> [flags |-> InfoFlags(tree, FALSE), key_count |-> keys, node_count |-> Cardinality(DOMAIN nodes),
             key_size |-> IF tree \in FixedTrees THEN KLen(tree) ELSE 0,
             val_size |-> IF tree \in FixedTrees THEN VLen(tree) ELSE 0,
             longest_key |-> KLen(tree), longest_val |-> VLen(tree)]]

Trees == FixedTrees \cup {"catalog", "extentref", "snap_meta"}

\* One node.
One(tree, ks, hole) ==
  Image0(tree, 1 :> Pack(tree, {"root", "leaf"}, 0, [i \in DOMAIN ks |-> Leaf(tree, ks[i])], hole, 1), Len(ks))
\* A root and two leaves with the given keys; the root has keys a and b.
Two(tree, a, b, l, m, hole) ==
  Image0(tree, 1 :> Pack(tree, {"root"}, 1, <<Index(tree, a, 2), Index(tree, b, 3)>>, hole, 1)
               @@ 2 :> Pack(tree, {"leaf"}, 0, [i \in DOMAIN l |-> Leaf(tree, l[i])], hole, 2)
               @@ 3 :> Pack(tree, {"leaf"}, 0, [i \in DOMAIN m |-> Leaf(tree, m[i])], 0, 3), Len(l) + Len(m))
\* Three levels, with the given children of the two index nodes and keys of
\* the second leaf.
Three(tree, c, d, e, ks) ==
  Image0(tree, 1 :> Pack(tree, {"root"}, 2, <<Index(tree, 0, 2), Index(tree, 4, 3)>>, 0, 1)
               @@ 2 :> Pack(tree, {}, 1, <<Index(tree, 0, c), Index(tree, 2, d)>>, 0, 2)
               @@ 3 :> Pack(tree, {}, 1, <<Index(tree, 4, e)>>, 0, 3)
               @@ 4 :> Pack(tree, {"leaf"}, 0, <<Leaf(tree, 0)>>, 0, 4)
               @@ 5 :> Pack(tree, {"leaf"}, 0, [i \in DOMAIN ks |-> Leaf(tree, ks[i])], 0, 5)
               @@ 6 :> Pack(tree, {"leaf"}, 0, <<Leaf(tree, 4)>>, 0, 6), 2 + Len(ks))
\* A sealed catalog: bigger values in the index, and offsets from the root.
SealNode(n) == [n EXCEPT !.flags = @ \cup {"noheader", "hashed"}, !.type = "none", !.subtype = "none"]
Sealed ==
  LET big(k, c) == Rec(KeyAt("catalog", k), 8, 20, Val(c))
      leaf(k) == Pack("catalog", {"leaf"}, 0, <<Leaf("catalog", k)>>, 0, k + 2)
      img0 == Image0("catalog", 1 :> Pack("catalog", {"root"}, 1, <<[big(0, 1) EXCEPT !.val.hash = 2]>>, 0, 1)
                                 @@ 2 :> leaf(0), 1)
  IN  [img0 EXCEPT !.sealed = TRUE, !.nodes = [m \in DOMAIN @ |-> SealNode(@[m])],
                   !.info.flags = InfoFlags("catalog", TRUE)]

-----------------------------------------------------------------------------
(* Families. *)

Shapes(tree) == {One(tree, <<0, 1>>, 0), One(tree, <<>>, 0), One(tree, <<0, 1>>, 3),
                 Two(tree, 0, 2, <<0, 1>>, <<2, 3>>, 1), Two(tree, 0, 2, <<0>>, <<2>>, 2)}
NodeFlags == {"root", "leaf", "fixed", "noheader", "hashed", "invalid"}
Toggle(S, x) == IF x \in S THEN S \ {x} ELSE S \cup {x}

\* Every tree, with a field of a node or of the footer changed.
Fields(i) ==
  \E img0 \in UNION {Shapes(t) : t \in Trees} \cup {Sealed} :
    \/ i = img0
    \/ \E m \in DOMAIN img0.nodes, f \in NodeFlags : i = [img0 EXCEPT !.nodes[m].flags = Toggle(@, f)]
    \/ \E m \in DOMAIN img0.nodes, l \in 0..2 : i = [img0 EXCEPT !.nodes[m].level = l]
    \/ \E m \in DOMAIN img0.nodes, x \in {1, 6} : i = [img0 EXCEPT !.nodes[m].xid = x]
    \/ \E m \in DOMAIN img0.nodes, x \in {"btree", "btree_node"} : i = [img0 EXCEPT !.nodes[m].type = x]
    \/ \E m \in DOMAIN img0.nodes, x \in {"omap", "catalog", "fusion_mt"} : i = [img0 EXCEPT !.nodes[m].subtype = x]
    \/ \E m \in DOMAIN img0.nodes, x \in {-2, 2} : i = [img0 EXCEPT !.nodes[m].table.len = @ + x, !.nodes[m].free.len = @ - x]
    \/ \E m \in DOMAIN img0.nodes : i = [img0 EXCEPT !.nodes[m].table.off = 2]
    \/ \E m \in DOMAIN img0.nodes, x \in {2, 40} : i = [img0 EXCEPT !.nodes[m].free.len = @ + x]
    \/ \E m \in DOMAIN img0.nodes : i = [img0 EXCEPT !.nodes[m].hash = 0]
    \/ \E m \in DOMAIN img0.nodes : i = [img0 EXCEPT !.nodes[m].nkeys = IF @ > 0 THEN @ - 1 ELSE 0]
    \/ \E x \in {"ghosts", "ephemeral", "physical", "nonpersistent", "nonaligned", "hashed", "noheader", "invalid"} :
         i = [img0 EXCEPT !.info.flags = Toggle(@, x)]
    \/ \E x \in -1..1, y \in -1..1 : i = [img0 EXCEPT !.info.key_count = @ + x, !.info.node_count = @ + y]
    \/ \E k \in {0, 4, 8}, v \in {0, 4, 8} :
         i = [img0 EXCEPT !.info.key_size = k, !.info.val_size = v]
    \/ \E k \in {0, 4, 8, 9}, v \in {0, 8, 10, 13} : i = [img0 EXCEPT !.info.longest_key = k, !.info.longest_val = v]
    \/ i = [img0 EXCEPT !.root = 0]
    \/ i = [img0 EXCEPT !.root = 0, !.fusion = FALSE]

\* Ghosts in a free queue: the second record has no value.
Ghosts(i) ==
  \E n \in {0, 1}, v \in {0, 4} :
    LET img0 == One("free_queue", <<0, 1>>, 0)
    IN  i = [img0 EXCEPT !.nodes[1].toc[2].v = INVALID, !.nodes[1].vfree.len = 4 * n,
                         !.info.longest_val = v]

\* Any keys in two leaves and in their parent.
Keys(i) ==
  \E tree \in {"extentref", "fext"}, a \in 0..1, b \in 1..3, l \in [1..2 -> 0..3], m \in [1..2 -> 1..4] :
    i = Two(tree, a, b, l, m, 0)
Blocks(i) ==
  \E a \in 1..3, b \in 0..2, c \in {<<0, 2>>, <<0, 3>>, <<1, 3>>} :
    LET img0 == Two("extentref", 0, 3, c, <<3, 5>>, 0)
    IN  i = [img0 EXCEPT !.nodes[2].vals[1].blocks = a, !.nodes[2].vals[2].blocks = b]

\* Trees of three levels, with children anywhere: nodes met twice, or cycles.
Deep(i) ==
  \/ \E tree \in {"catalog", "fext"}, c \in 1..6, d \in 1..6, e \in 1..7 :
       i = Three(tree, c, d, e, <<2, 3>>)
  \/ \E tree \in {"extentref", "catalog"}, ks \in [1..2 -> 1..5] :
       i = Three(tree, 4, 5, 6, ks)
  \/ \E a \in {1, 2}, b \in {1, 2, 4}, c \in {0, 1, 2} :
       LET img0 == Three("omap", 4, 5, 6, <<2>>)
       IN  i = [img0 EXCEPT !.nodes[2].xid = 5 - a, !.nodes[4].xid = 5 - b, !.nodes[6].xid = 5 - c]

\* Lists of free space: entries at three places, in any chain.
Lists(i) ==
  LET img0 == One("extentref", <<0, 1>>, 6)
      places == {4, 6, 8}
  IN  \E h \in {INVALID, 4, 9}, t \in {0, 4, 6}, e \in [off : {INVALID, 4, 6}, len : {0, 2, 4}],
         f \in [off : {INVALID, 4, 8}, len : {0, 2, 4}], k \in BOOLEAN :
        LET r == (4 :> e) @@ (6 :> f) @@ (8 :> [off |-> INVALID, len |-> 2]) IN
        i = IF k THEN [img0 EXCEPT !.nodes[1].kfree = [off |-> h, len |-> t], !.nodes[1].kraw = r]
            ELSE [img0 EXCEPT !.nodes[1].vfree = [off |-> IF h = INVALID THEN h ELSE h + 12, len |-> t],
                              !.nodes[1].vraw = [o \in {16, 14, 12} |->
                                 [r[o - 8] EXCEPT !.off = IF @ = INVALID THEN @ ELSE @ + 8]]]

\* Places of the second record: over the first, in the hole, or out of the area.
Places(i) ==
  \E tree \in {"extentref", "omap"}, k \in 0..20, v \in {0, 1, 8, 10, 12, 18, 20, 22, 30, 40}, d \in {0, 2, 4},
     f \in {0, 6} :
    LET img0 == One(tree, <<0, 1>>, 6)
    IN  i = [img0 EXCEPT !.nodes[1].toc[2].k = k, !.nodes[1].toc[2].v = v,
                         !.nodes[1].kfree.len = IF d = 0 THEN @ ELSE d,
                         !.nodes[1].vfree.len = f]

\* Raw keys of the catalog and of the snapshot metadata tree.
RawKeys(i) ==
  \/ \E tree \in {"catalog", "snap_meta"}, ty \in 0..14, n \in {3, 4, 5, 6, 7, 8, 9}, h \in BOOLEAN :
       LET raw == [RawKey EXCEPT !.id = IF ty = SNAP_NAME THEN SnapNameId ELSE 1, !.type = ty, !.name = 1,
                                 !.namelen = n - (IF h /\ ty = DIR_REC THEN 6 ELSE 5),
                                 !.strlen = n - (IF h /\ ty = DIR_REC THEN 6 ELSE 5)]
           img0 == Image0(tree, 1 :> Pack(tree, {"root", "leaf"}, 0, <<Rec(raw, n, 12, Val(0))>>, 0, 1), 1)
       IN  i = [img0 EXCEPT !.hashed = h, !.info.longest_key = 12, !.info.longest_val = 12]
  \/ \E ty \in {DIR_REC, XATTR, FILE_EXTENT, FILE_INFO, SNAP_NAME}, x \in 1..6, h \in BOOLEAN :
       LET size == IF ty = DIR_REC /\ h THEN 8 ELSE IF ty \in {FILE_EXTENT, FILE_INFO} THEN 8 ELSE 7
           raw == [RawKey EXCEPT !.id = IF ty = SNAP_NAME /\ x # 5 THEN SnapNameId ELSE 1, !.type = ty, !.name = 1,
                                 !.namelen = IF x = 1 THEN 3 ELSE 2, !.strlen = IF x = 2 THEN 3 ELSE 2,
                                 !.nul = x # 3, !.hash = IF x = 4 THEN 1 ELSE 0,
                                 !.number = IF x = 5 THEN 1 ELSE 0, !.data_hash = x # 6]
           tree == IF ty = SNAP_NAME THEN "snap_meta" ELSE "catalog"
           img0 == Image0(tree, 1 :> Pack(tree, {"root", "leaf"}, 0, <<Rec(raw, size, 12, Val(0))>>, 0, 1), 1)
       IN  i = [img0 EXCEPT !.hashed = h, !.info.longest_val = 12]
  \/ \E a \in 1..2, b \in 1..3, x \in 0..1, y \in 0..1 :
       LET raw(k, h) == [RawKey EXCEPT !.id = 1, !.type = DIR_REC, !.name = k, !.number = h, !.hash = h,
                                       !.namelen = 2, !.strlen = 2]
       IN  i = Image0("catalog", 1 :> Pack("catalog", {"root", "leaf"}, 0,
                        <<Rec(raw(a, x), 8, 6, Val(0)), Rec(raw(b, y), 8, 6, Val(0))>>, 0, 1), 2)
  \/ \E tree \in {"omap", "free_queue", "fext"}, a \in {0, 1}, x \in {0, 1, 6, BlockSize} :
       LET raw == [RawKey EXCEPT !.id = a, !.number = x]
       IN  i = Image0(tree, 1 :> Pack(tree, {"root", "leaf"}, 0, <<Rec(raw, KLen(tree), VLen(tree), Val(0))>>, 0, 1), 1)

\* Lookups in leaves and trees of several sizes.
Searched(i) ==
  \/ \E tree \in {"fext", "extentref", "catalog"}, ks \in {<<0>>, <<1, 2>>, <<0, 2>>, <<0, 1, 3>>, <<1, 2, 4>>} :
       i = One(tree, ks, 0) /\ i.nodes[1].free.len >= 0
  \/ \E l \in {<<0>>, <<0, 1>>}, m \in {<<2>>, <<2, 4>>}, tree \in {"fext", "catalog"} : i = Two(tree, 0, 2, l, m, 0)
  \* Children not checked yet, when the query meets them.
  \/ \E f \in SUBSET {"leaf", "fixed"}, v \in {0, 4, 12}, c \in 1..3 :
       LET img0 == Two("catalog", 0, 2, <<0, 1>>, <<2>>, 0)
       IN  i = [img0 EXCEPT !.nodes[3].flags = f, !.nodes[3].toc[1].vlen = v, !.nodes[3].vals[1].child = c]

AnyImage(i) ==
  \/ Fields(i) \/ Ghosts(i) \/ Keys(i) \/ Blocks(i) \/ Deep(i) \/ Lists(i) \/ Places(i) \/ RawKeys(i)
  \/ Searched(i)

SomeLookups == {<<x, y>> : x \in 0..4, y \in {0, BlockSize}}
=============================================================================
