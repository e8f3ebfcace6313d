------------------------------ MODULE MCCatalog ------------------------------
(* Small families of catalogs for TLC. *)
EXTENDS Catalog, TLC

\* Records with fields that most of them leave alone.
Rec(type, id, num, name, v) ==
  [type |-> type, id |-> id, num |-> num, name |-> name, copy |-> 0, v |-> v]

PlainInode == [parent |-> 2, private |-> 0, ftype |-> "reg", nlink |-> 1, name |-> 1,
               flags |-> {}, xf |-> {"name"}, sparse |-> 0, size |-> 0, alloced |-> 0,
               crypto |-> 0, stat |-> 0]
Ino(id, v) == Rec(INODE, id, 0, 0, [v EXCEPT !.private = IF @ = 0 THEN id ELSE @])
Entry(parent, name, ino, dtype, s) ==
  Rec(DIR_REC, parent, 0, name, [ino |-> ino, dtype |-> dtype,
                                 purg |-> parent = PURGEABLE_DIR_INO_NUM, sib |-> s])
Link(ino, s, parent, name) == Rec(SIBLING_LINK, ino, s, 0, [parent |-> parent, name |-> name])
Map(s, ino) == Rec(SIBLING_MAP, s, 0, 0, [file |-> ino])

Dir(v, n) == [v EXCEPT !.ftype = "dir", !.nlink = n]
RootIno(n) == Ino(2, [Dir(PlainInode, n) EXCEPT !.parent = 1, !.name = RootName])
PrivIno(n) == Ino(3, [Dir(PlainInode, n) EXCEPT !.parent = 1, !.name = PrivName])
RootEntries == {Entry(1, RootName, 2, "dir", 0), Entry(1, PrivName, 3, "dir", 0)}

\* A second record with the key of r.
Again(r) == [r EXCEPT !.copy = 1]

\* At most one of the records.
Maybe(S) == {{}} \cup {{r} : r \in S}

\* The right totals, and for catalogs with a symlink wrong ones.
TotalsOf(c) ==
  LET right == [t \in FileTypes |-> Cardinality(CountedInodes(c, t))]
  IN  {right} \cup IF \E r \in Of(c, INODE) : r.v.ftype = "lnk"
                   THEN {[right EXCEPT !["dir"] = @ + 1], [right EXCEPT !["lnk"] = 1 - @]}
                   ELSE {}

-----------------------------------------------------------------------------
\* The root and private directories, with the children that c gives them.
Rooted(c) == RootEntries \cup c \cup {RootIno(Cardinality(Children(c, 2))),
                                      PrivIno(Cardinality(Children(c, 3)))}

\* A directory 19 with a name of file 16.
Below19 == {Ino(19, [Dir(PlainInode, 1) EXCEPT !.name = 3]), Entry(2, 3, 19, "dir", 0),
            Entry(19, 2, 16, "reg", 18)}

\* A file with up to three names, in directories that come before and after it.
LinkCatalog(recs) ==
  \E i \in {{Ino(16, [PlainInode EXCEPT !.nlink = k, !.name = x])} : k \in 0 .. 2, x \in {1, 2}},
     a \in Maybe({Entry(2, 1, 16, "reg", s) : s \in {0, 17}}),
     b \in Maybe({Entry(2, 2, 16, "reg", s) : s \in {0, 17, 18}}) \cup {Below19},
     c \in Maybe({Entry(3, DeadName(16), 16, "reg", s) : s \in {0, 18}}),
     l \in Maybe({Link(16, 17, 2, 1), Link(16, 17, 2, 2)}),
     k \in Maybe({Link(16, 18, 2, 2), Link(16, 18, 19, 2), Link(16, 18, 3, DeadName(16))}),
     m \in {{}, {Map(17, 16)}, {Map(17, 16), Map(18, 16)}, {Map(17, 16), Map(18, 3)}} :
    recs = Rooted(i \cup a \cup b \cup c \cup l \cup k \cup m)

\* The same with two names, where any dentry or sibling link may be there twice.
RepeatCatalog(recs) ==
  LET twice(r) == {r, Again(r)}
      upTo2(S) == Maybe(S) \cup {twice(r) : r \in S}
  IN \E i \in {{Ino(16, [PlainInode EXCEPT !.nlink = k])} : k \in 1 .. 3},
        a \in upTo2({Entry(2, 1, 16, "reg", s) : s \in {0, 17}})
               \cup {{Entry(2, 1, 16, "reg", 17), Again(Entry(2, 1, 16, "reg", 18))}},
        b \in upTo2({Entry(2, 2, 16, "reg", 18)}),
        l \in upTo2({Link(16, 17, 2, 1)}) \cup {{Link(16, 17, 2, 1), Again(Link(16, 17, 2, 2))}},
        k \in upTo2({Link(16, 18, 2, 1), Link(16, 18, 2, 2)}),
        m \in {{Map(17, 16)}, {Map(17, 16), Map(18, 16)},
               twice(Map(17, 16)) \cup {Map(18, 16)}} :
       recs = Rooted(i \cup a \cup b \cup l \cup k \cup m)

Xattr(ino, name, ds, n) == Rec(XATTR, ino, 0, name, [ds |-> ds, size |-> n, alloced |-> n, crypto |-> 0])

\* A directory and a symlink, in the root directory, in each other or orphans;
\* some records are there twice, and directories may have wrong counts.
TreeCatalog(recs) ==
  LET dir == Entry(2, 1, 16, "dir", 0)
      link == {Entry(2, 2, 17, "lnk", 0), Entry(16, 2, 17, "lnk", 0),
               Entry(3, DeadName(17), 17, "lnk", 0), Entry(2, 5, 5, "lnk", 0)}
      miscounted(c) == {IF r = RootIno(r.v.nlink) THEN RootIno(r.v.nlink + 1) ELSE r :
                          r \in Of(c, INODE)} \cup (c \ Of(c, INODE))
      privless(c) == {r \in c : r.id # 3 \/ r.type # INODE}
  IN \E i \in Maybe({Ino(16, Dir(PlainInode, k)) : k \in 0 .. 1}),
        j \in {Ino(17, [PlainInode EXCEPT !.ftype = t, !.nlink = k, !.name = 2, !.parent = q]) :
                 t \in {"lnk", "special"}, k \in 0 .. 1, q \in {2, 16}},
        a \in {{}, {dir}, {dir, Again(dir)}, {Entry(3, DeadName(16), 16, "dir", 0)}},
        b \in Maybe(link) \cup {{r, Again(r)} : r \in link},
        x \in Maybe({Xattr(17, SYMLINK_XATTR, 0, 0)}) :
       LET c == Rooted(i \cup {j} \cup a \cup b \cup x)
       IN  recs \in {c, miscounted(c), privless(c)}

-----------------------------------------------------------------------------
Stream(v, n) == [v EXCEPT !.xf = @ \cup {"dstream"}, !.size = n, !.alloced = 2]
StreamId(d, n) == Rec(DSTREAM_ID, d, 0, 0, [refcnt |-> n])
Ext(d, n, len, hole, pre) ==
  Rec(FILE_EXTENT, d, n, 0, [len |-> len, hole |-> hole, prealloc |-> pre,
                                crypto |-> 0])

\* Two files that may share a stream, one of them perhaps an orphan or deleted,
\* the other one perhaps purgeable, and an xattr with a stream.
StreamCatalog(recs) ==
  LET file == Stream(PlainInode, 1)
      sparse == [file EXCEPT !.flags = {"cloned", "sparse"}, !.xf = @ \cup {"sparse"},
                             !.sparse = 1]
      live(v) == {Ino(16, v), Entry(2, 1, 16, "reg", 0)}
      orphan(v) == {Ino(16, [v EXCEPT !.nlink = 0]), Entry(3, DeadName(16), 16, "reg", 0)}
      clone(flags) == {Ino(17, [file EXCEPT !.private = 16, !.name = 2, !.flags = flags]),
                       Entry(2, 2, 17, "reg", 0)}
      purg(n) == {Entry(7, PurgeableName(n, 17), 17, "reg", 0)}
      fork(ds) == {Xattr(16, RSRC_FORK_XATTR, ds, 1)}
      hole == {Ext(18, 0, 1, TRUE, FALSE)}
      data == {Ext(18, 0, 1, FALSE, FALSE)}
  IN \E i \in {{}, live(file), live([file EXCEPT !.flags = {"cloned"}]),
               live([file EXCEPT !.size = 2]), live(sparse),
               live([sparse EXCEPT !.flags = @ \cup {"rsrc"}]),
               orphan(file), orphan([file EXCEPT !.flags = {"cloned"}])},
        j \in {{}, purg(1), clone({}), clone({"cloned"}), clone({"cloned"}) \cup purg(2),
               clone({"cloned", "purgeable"}), clone({"cloned", "purgeable"}) \cup purg(1),
               clone({"cloned", "purgeable"}) \cup purg(2)},
        d \in Maybe({StreamId(16, k) : k \in 1 .. 2} \cup {StreamId(18, 1)})
               \cup {{StreamId(16, 1), Again(StreamId(16, 2))}},
        e \in {{}, {Ext(16, 0, 1, FALSE, FALSE)}, {Ext(16, 1, 1, FALSE, FALSE)},
               {Ext(16, 1, 2, FALSE, FALSE)}, {Ext(16, 0, 2, FALSE, FALSE)},
               {Ext(16, 0, 2, FALSE, TRUE)},
               {Ext(16, 0, 1, FALSE, FALSE), Ext(16, 1, 1, TRUE, FALSE)}},
        x \in {{}, data, fork(0), fork(18), fork(18) \cup data, fork(18) \cup hole,
               {Xattr(17, 5, 16, 1)}, {Xattr(17, 5, 18, 1)} \cup data} :
       recs = Rooted(i \cup j \cup d \cup e \cup x)

CryptoState(k, n) == Rec(CRYPTO_STATE, k, 0, 0, [refcnt |-> n])
EncryptedBy(r, k) == [r EXCEPT !.v.crypto = k]

\* A file, a clone of it, an xattr and an extent that may share a crypto state,
\* the record of which comes before or after them.
CryptoCatalog(recs) ==
  LET file == [Stream(PlainInode, 1) EXCEPT !.alloced = 1]
      ids == {0, CRYPTO_SW_ID, 10, 18, UNASSIGNED_CRYPTO_ID}
      first(flags, k) == {EncryptedBy(Ino(16, [file EXCEPT !.flags = flags]), k),
                          Entry(2, 1, 16, "reg", 0)}
      clone(k) == {EncryptedBy(Ino(17, [file EXCEPT !.private = 16, !.name = 2,
                                                  !.flags = {"cloned"}]), k),
                   Entry(2, 2, 17, "reg", 0)}
      fork(k) == {EncryptedBy(Xattr(16, 5, 19, 1), k), Ext(19, 0, 1, FALSE, FALSE)}
  IN \E f \in {{}, {"cloned"}}, k \in ids,
        j \in {{StreamId(16, 1)}} \cup {clone(n) \cup {StreamId(16, 2)} : n \in ids},
        x \in {{}} \cup {fork(n) : n \in ids},
        e \in {{EncryptedBy(Ext(16, 0, 1, FALSE, FALSE), n)} : n \in {0, 18}},
        s \in Maybe({CryptoState(18, n) : n \in 0 .. 4})
               \cup {{CryptoState(18, n), Again(CryptoState(18, n + 1))} : n \in 1 .. 2},
        t \in Maybe({CryptoState(10, n) : n \in 1 .. 2} \cup {CryptoState(5, 1)}) :
       recs = Rooted(first(f, k) \cup j \cup x \cup e \cup s \cup t)

-----------------------------------------------------------------------------
Stats(s, n, size) == Rec(DIR_STATS, s, 0, 0, [num_children |-> n, total_size |-> size])

\* The inode v with the flags, and with statistics s (0: none).
Keeping(v, flags, s) ==
  [v EXCEPT !.flags = flags, !.stat = s, !.xf = IF s = 0 THEN @ ELSE @ \cup {"stats"}]

\* The directory d in directory p: it keeps no statistics, or it does.
StatDirs(d, p, n) ==
  LET plain == [Dir(PlainInode, 0) EXCEPT !.parent = p, !.name = n]
  IN  {Ino(d, plain)} \cup
      {Ino(d, Keeping(plain, f, s)) : f \in {{"stats", "origin"}, {"stats"}}, s \in {19, 20}}

\* The directories i have the children that they have in c.
Counted(i, c) == {[r EXCEPT !.v.nlink = Cardinality(Children(c, r.id))] : r \in i}

\* A directory with statistics, a directory in it, and a file in either; the size
\* in a record may be the one that the file's size takes over the limit.
StatCatalog(recs) ==
  LET inside(p, n) ==
        {Ino(18, [PlainInode EXCEPT !.parent = p, !.name = 3, !.size = n, !.alloced = n,
                                    !.xf = @ \cup {"dstream"}]),
         Entry(p, 3, 18, "reg", 0), StreamId(18, 1)}
        \cup {Ext(18, 0, k, FALSE, FALSE) : k \in {n} \ {0}}
      both == {Entry(2, 1, 16, "dir", 0), Entry(16, 2, 17, "dir", 0)}
  IN \E i \in StatDirs(16, 2, 1), j \in StatDirs(17, 16, 2),
        k \in {{}} \cup {inside(p, n) : p \in {16, 17}, n \in 0 .. 1},
        s \in Maybe({Stats(19, n, size) : n \in 1 .. 2, size \in {0, 1, CountMod - 1}})
               \cup {{Stats(19, 1, 0), Again(Stats(19, 2, 0))}},
        t \in Maybe({Stats(20, n, 0) : n \in 0 .. 1}) :
       recs = Rooted(Counted({i, j}, both \cup k) \cup both \cup k \cup s \cup t)

\* An orphan directory with statistics, whose parent may still be a directory that
\* has some too.
OrphanStatCatalog(recs) ==
  LET names == {Entry(3, DeadName(16), 16, "dir", 0), Entry(2, 2, 17, "dir", 0)}
  IN \E i \in StatDirs(16, 2, 1) \cup StatDirs(16, 17, 1), j \in StatDirs(17, 2, 2),
        s \in Maybe({Stats(19, n, 0) : n \in 0 .. 1}) \cup {{Stats(19, 0, 0), Again(Stats(19, 1, 0))}},
        t \in Maybe({Stats(20, n, size) : n \in 0 .. 1, size \in 0 .. 1}) :
       recs = Rooted(Counted({i, j}, names) \cup names \cup s \cup t)

-----------------------------------------------------------------------------
AnyVolume(c, t) ==
  /\ \/ LinkCatalog(c) \/ RepeatCatalog(c) \/ TreeCatalog(c) \/ StreamCatalog(c)
     \/ CryptoCatalog(c) \/ StatCatalog(c) \/ OrphanStatCatalog(c)
  /\ t \in TotalsOf(c)
StatVolume(c, t) == StatCatalog(c) /\ t \in TotalsOf(c)
=============================================================================
