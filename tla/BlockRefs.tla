------------------------------ MODULE BlockRefs ------------------------------
(***************************************************************************)
(* What the extent table of apfsck promises, with no extents in it: each   *)
(* known block has a reference count of its own.  A NEW record introduces  *)
(* a range of unknown blocks with one count; an UPDATE record adds its     *)
(* difference to every block of a range of known blocks, once to each, a   *)
(* piece at a time and from the first block to the last.  Nothing else     *)
(* changes a count, and no block is ever forgotten.                        *)
(***************************************************************************)
EXTENDS Integers

CONSTANTS
  Blocks,   \* blocks of the device
  Addrs,    \* addresses a record may name
  Lens,     \* lengths a record may have
  RefMod    \* counts are kept modulo RefMod

Counts == 0 .. (RefMod - 1)

VARIABLES
  known,    \* blocks that belong to some extent
  count,    \* their reference counts (0 for the others)
  from,     \* first block of the range still to be updated
  left,     \* blocks of that range
  diff      \* what the update adds

vars == <<known, count, from, left, diff>>

Range(b, n) == {c \in Blocks : b <= c /\ c < b + n}

Init ==
  /\ known = {}
  /\ count = [b \in Blocks |-> 0]
  /\ from = 0 /\ left = 0 /\ diff = 0

New(b, n, r) ==
  /\ left = 0 /\ n > 0
  /\ Range(b, n) \cap known = {}
  /\ known' = known \cup Range(b, n)
  /\ count' = [c \in Blocks |-> IF c \in Range(b, n) THEN r ELSE count[c]]
  /\ UNCHANGED <<from, left, diff>>

BeginUpdate(b, n, d) ==
  /\ left = 0 /\ n > 0
  /\ from' = b /\ left' = n /\ diff' = d
  /\ UNCHANGED <<known, count>>

\* The next n blocks of the range are known and get the difference.
UpdatePiece(n) ==
  /\ 0 < n /\ n <= left
  /\ Range(from, n) \subseteq known
  /\ count' = [c \in Blocks |-> IF c \in Range(from, n)
                                THEN (count[c] + diff) % RefMod
                                ELSE count[c]]
  /\ known' = known
  /\ left' = left - n
  /\ IF left = n THEN from' = 0 /\ diff' = 0
     ELSE from' = from + n /\ diff' = diff

Next ==
  \/ \E b \in Addrs, n \in Lens, r \in Counts : New(b, n, r)
  \/ \E b \in Addrs, n \in Lens, d \in Counts : BeginUpdate(b, n, d)
  \/ \E n \in Lens : UpdatePiece(n)

Spec == Init /\ [][Next]_vars
=============================================================================
