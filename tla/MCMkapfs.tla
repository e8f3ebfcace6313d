------------------------------ MODULE MCMkapfs ------------------------------
(* Container sizes for TLC: those of mkapfs/test.sh and the edges of the     *)
(* intervals of cpoint_desc_blocks() and cpoint_data_blocks(), in blocks.    *)
EXTENDS Mkapfs

Request(m, t, f) == [main |-> 0, tier2 |-> 0, mainDev |-> m, tier2Dev |-> t,
                     fusion |-> f, label |-> TRUE, mainUuid |-> TRUE, volUuid |-> TRUE]

\* 512K, 15G, 3T and 7T, and where the ip bitmap, the spaceman and the cabs grow.
TestSizes == {128, 3932160, 355074048, 355074049, 805306368,
              1808400384, 1808400385, 1879048192, 2093285376, 2093285377}
Edges == UNION {{n - 1, n, n + 1} :
                n \in {128, 4545, 13633, 32768, 36353, 131072, 131777, 262144, 393216,
                       786432, 1048576, 4063232, 13107200}}

SingleDevice ==
  {Request(n, 0, FALSE) : n \in TestSizes \cup Edges}
    \cup {[Request(3932160, 0, FALSE) EXCEPT !.main = 262144],
          [Request(128, 0, FALSE) EXCEPT !.main = 129],
          [Request(128, 0, FALSE) EXCEPT !.tier2 = 128],
          [Request(128, 0, FALSE) EXCEPT !.label = FALSE],
          [Request(128, 0, FALSE) EXCEPT !.mainUuid = FALSE],
          [Request(128, 0, FALSE) EXCEPT !.volUuid = FALSE]}

Fusion ==
  {Request(3932160, t, TRUE) : t \in {127, 128, 32769, 3932160, 355074049, 2093285377}}
    \cup {Request(m, 128, TRUE) : m \in {128, 4545, 786432, 355074049, 2093285377}}
    \cup {Request(128, 3932160, TRUE), Request(4545, 805306368, TRUE),
          [Request(3932160, 3932160, TRUE) EXCEPT !.tier2 = 262144],
          [Request(3932160, 3932160, TRUE) EXCEPT !.volUuid = FALSE]}

AllSizes == SingleDevice \cup Fusion

\* A main device of 512 KiB with a tier 2 of 128 MiB.
SmallMain == {Request(128, 32768, TRUE)}

\* The internal pool ends exactly at the end of the third chunk.
ExactEnd == {Request(23246 * BlocksPerChunk, 0, FALSE)}
=============================================================================
