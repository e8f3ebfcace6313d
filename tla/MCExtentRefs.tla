---------------------------- MODULE MCExtentRefs ----------------------------
(* Small instances of ExtentRefs for TLC. *)
EXTENDS ExtentRefs, TLC

CONSTANTS d1, d2, d3, inode, xattr

\* The dstream of an inode is its own owner (read_dstream_xfield()): two clones.
OwnIds == [d \in Dstreams |-> d]
SameType == [d \in Dstreams |-> inode]
\* The dstream of an xattr has its inode as owner (parse_xattr_record()): an
\* inode with a dstream of its own and one in an xattr, and a clone of it.
CloneAndXattr == (d1 :> d1) @@ (d2 :> d2) @@ (d3 :> d1)
MixedTypes == (d1 :> inode) @@ (d2 :> inode) @@ (d3 :> xattr)

\* Sound with OwnIds and SameType, which do not tell the dstreams apart.
Symmetry == Permutations(Dstreams)
=============================================================================
