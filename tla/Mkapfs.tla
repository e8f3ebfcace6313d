------------------------------- MODULE Mkapfs -------------------------------
(***************************************************************************)
(* mkapfs as a sequence of writes: complete_parameters(), make_container() *)
(* and make_spaceman().  One action stands for one call of the two make_   *)
(* functions; chunk-info blocks are made, and checkpoint descriptors are   *)
(* wiped, one block at a time.                                             *)
(* The program can stop at any step: fatal() exits, and a killed program   *)
(* leaves the writes made so far.                                          *)
(***************************************************************************)
EXTENDS MkfsLayout, FiniteSets, FiniteSetsExt

CONSTANT Requests   \* what the user asks for: sizes and devices; 0 is the default

ASSUME RequestsAssumption ==
  Requests \subseteq
    [main : Nat, tier2 : Nat, mainDev : Nat, tier2Dev : Nat, fusion : BOOLEAN,
     label : BOOLEAN,                        \* does the label fit?
     mainUuid : BOOLEAN, volUuid : BOOLEAN]  \* are the uuids well formed?

VARIABLES
  req,      \* the request
  param,    \* struct parameters
  disk,     \* blocks of each object written so far
  fields,   \* fields set in each object that has more than one writer
  seal,     \* fields covered by the checksum in the object's header
  desc,     \* blocks of the checkpoint descriptor area
  marks,    \* ranges marked in the allocation bitmaps
  free,     \* sm_free_count, and the sum of ci_free_count, of each device
  loop,     \* variables of the loops of make_single_device()
  pc

vars == <<req, param, disk, fields, seal, desc, marks, free, loop, pc>>

-----------------------------------------------------------------------------
(* Objects, and their blocks on the main device. *)

Area(p) ==
  [block_zero |-> <<0, 1>>,
   reaper |-> <<ReaperBno(p), 1>>,
   spaceman |-> <<SpacemanBno(p), SpacemanBlkcnt(p)>>,
   ip_queue |-> <<IpFreeQueueBno(p), 1>>,
   main_queue |-> <<IpFreeQueueBno(p) + 1, 1>>,
   tier2_queue |-> <<IpFreeQueueBno(p) + 2, 1>>,
   wbc_state |-> <<IpFreeQueueBno(p) + 3, 1>>,
   omap |-> <<CpointEnd(p), 2>>,
   volume |-> <<CpointEnd(p) + 2, 6>>,
   middle_tree |-> <<CpointEnd(p) + 8, 1>>,
   ip_bitmaps |-> <<IpBmapBase(p), IpBmapBlocks(p)>>,
   main_bitmap |-> <<MainChunkBmap(p), UsedChunksEnd(p)>>,
   main_cibs |-> <<MainCib(p), CibCount(p.main)>>,
   main_cabs |-> <<MainCab(p), CabCount(p.main)>>,
   tier2_bitmap |-> <<Tier2ChunkBmap(p), Tier2UsedEnd(p)>>,
   tier2_cibs |-> <<Tier2Cib(p), CibCount(p.tier2)>>,
   tier2_cabs |-> <<Tier2Cab(p), CabCount(p.tier2)>>,
   map_block |-> <<CpointDescBase, 1>>,
   checkpoint |-> <<CpointDescBase + 1, 1>>]

PoolObjects == {"main_bitmap", "main_cibs", "main_cabs",
                "tier2_bitmap", "tier2_cibs", "tier2_cabs"}
MainObjects == PoolObjects \cup
  {"block_zero", "reaper", "spaceman", "ip_queue", "main_queue", "tier2_queue",
   "wbc_state", "omap", "volume", "middle_tree", "ip_bitmaps", "map_block",
   "checkpoint"}
FusionObjects == {"tier2_queue", "wbc_state", "middle_tree", "tier2_bitmap"}
\* The superblock copy is the only object on the tier 2 device.
Objects == MainObjects \cup {"tier2_super"}
Sealable == {"block_zero", "spaceman", "checkpoint", "tier2_super"}

\* Objects written whole.
Whole(os) ==
  LET area == Area(param)
  IN  [o \in Objects |-> IF o \notin os THEN disk[o]
                         ELSE IF o = "tier2_super" THEN 1 ELSE area[o][2]]
Set(o, fs) == [fields EXCEPT ![o] = @ \cup fs]
\* set_object_header(): the checksum covers what the object holds now.
Seal(o) == [seal EXCEPT ![o] = fields[o]]

NoLoop == [dev |-> "main", cab |-> 0, cib |-> 0, start |-> 0]

Init ==
  /\ req \in Requests
  /\ param = [main |-> req.main, tier2 |-> req.tier2, fusion |-> req.fusion]
  /\ disk = [o \in Objects |-> 0]
  /\ fields = [o \in Sealable |-> {}]
  /\ seal = [o \in Sealable |-> {}]
  /\ desc = << >>
  /\ marks = [main |-> {}, tier2 |-> {}, ip |-> {}]
  /\ free = [main |-> <<0, 0>>, tier2 |-> <<0, 0>>]
  /\ loop = NoLoop
  /\ pc = "params"

\* fatal()
Fatal ==
  /\ pc' = "fatal"
  /\ UNCHANGED <<req, param, disk, fields, seal, desc, marks, free, loop>>

-----------------------------------------------------------------------------
(* complete_parameters(); a device that is not given has no blocks. *)

CompleteParameters ==
  /\ pc = "params"
  /\ LET tier2Limit == IF req.fusion THEN req.tier2Dev ELSE 0
         full == [param EXCEPT !.main = IF @ = 0 THEN req.mainDev ELSE @,
                               !.tier2 = IF @ = 0 THEN tier2Limit ELSE @]
         refused == full.main > req.mainDev \/ full.tier2 > tier2Limit \/ BadSizes(full)
                    \/ ~req.label
     IN  \/ refused /\ Fatal
         \/ /\ ~refused
            /\ param' = full
            /\ desc' = [b \in 1 .. CpointDescBlocks(full) |-> "old"]
            /\ pc' = "super"
            /\ UNCHANGED <<req, disk, fields, seal, marks, free, loop>>

-----------------------------------------------------------------------------
(* make_container() *)

\* The start: block zero is wiped before the uuid is parsed.
MakeSuper ==
  /\ pc = "super"
  /\ disk' = Whole({"block_zero"})
  /\ \/ ~req.mainUuid /\ pc' = "fatal" /\ UNCHANGED fields
     \/ /\ req.mainUuid
        /\ fields' = Set("block_zero", {"geometry", "uuid"} \cup
                                       IF param.tier2 # 0 THEN {"fusion"} ELSE {})
        /\ pc' = "info"
  /\ UNCHANGED <<req, param, seal, desc, marks, free, loop>>

\* set_spaceman_info() and set_ephemeral_bnos()
SetInfo ==
  /\ pc = "info"
  /\ \/ (TooBig(param) \/ EphTooBig(param)) /\ Fatal
     \/ /\ ~TooBig(param) /\ ~EphTooBig(param)
        /\ pc' = "spaceman"
        /\ UNCHANGED <<req, param, disk, fields, seal, desc, marks, free, loop>>

\* The first lines of make_spaceman().
BeginSpaceman ==
  /\ pc = "spaceman"
  /\ disk' = Whole({"spaceman"})
  /\ fields' = [Set("block_zero", {"spaceman_oid"}) EXCEPT !.spaceman = {"sizes"}]
  /\ pc' = "device"
  /\ UNCHANGED <<req, param, seal, desc, marks, free, loop>>

-----------------------------------------------------------------------------
(* make_single_device() *)

DevBlocks(d) == IF d = "main" THEN param.main ELSE param.tier2
UsedInChunk(p, d, c) ==
  IF d = "main" THEN MainUsedInChunk(p, c) ELSE Tier2UsedInChunk(p, c)
UsedChunks(p, d) == IF d = "main" THEN UsedChunksEnd(p) ELSE Tier2UsedEnd(p)
Cibs(d) == IF d = "main" THEN "main_cibs" ELSE "tier2_cibs"
Cabs(d) == IF d = "main" THEN "main_cabs" ELSE "tier2_cabs"

\* The used blocks of a set of chunks.
UsedInChunks(p, d, cs) == MapThenSumSet(LAMBDA c : UsedInChunk(p, d, c), cs)
\* count_used_blocks()
CountUsed(p, d) == UsedInChunks(p, d, 0 .. (UsedChunks(p, d) - 1))

BeginDevice ==
  /\ pc = "device"
  /\ free' = [free EXCEPT ![loop.dev] =
                 <<DevBlocks(loop.dev) - CountUsed(param, loop.dev), 0>>]
  /\ pc' = "chunks"
  /\ UNCHANGED <<req, param, disk, fields, seal, desc, marks, loop>>

\* The blocks of chunk c, and what make_chunk_info() sets as their free count.
ChunkBlocks(d, c) == LeastOf(BlocksPerChunk, DevBlocks(d) - c * BlocksPerChunk)
ChunkFree(d, c) == ChunkBlocks(d, c) - UsedInChunk(param, d, c)

\* Mutant: the last chunk-info block is not made.
MoreCibsShort == loop.cib + 1 < CibCount(DevBlocks(loop.dev))

\* Is there room in the current cib address block (if there are any), and in
\* the list of the spaceman?
MoreCibs ==
  IF CabCount(DevBlocks(loop.dev)) = 0
  THEN loop.cib < CibCount(DevBlocks(loop.dev))
  ELSE loop.cib < loop.cab * CibsPerCab /\ loop.start # DevBlocks(loop.dev)

\* make_chunk_info_block(): one more block of chunk infos, up to the end of the
\* device.  The chunks without used blocks add all of their blocks.
MakeCib ==
  /\ pc = "chunks" /\ MoreCibs
  /\ LET d == loop.dev
         end == LeastOf(loop.start + ChunksPerCib * BlocksPerChunk, DevBlocks(d))
         used == {c \in 0 .. (UsedChunks(param, d) - 1) :
                    loop.start <= c * BlocksPerChunk /\ c * BlocksPerChunk < end}
     IN  /\ disk' = [disk EXCEPT ![Cibs(d)] = loop.cib + 1]
         /\ free' = [free EXCEPT ![d][2] =
                       @ + (end - loop.start) - UsedInChunks(param, d, used)]
         /\ loop' = [loop EXCEPT !.cib = @ + 1, !.start = end]
  /\ UNCHANGED <<req, param, fields, seal, desc, marks, pc>>

\* make_cib_addr_block()
MakeCab ==
  /\ pc = "chunks" /\ ~MoreCibs
  /\ loop.cab < CabCount(DevBlocks(loop.dev))
  /\ disk' = [disk EXCEPT ![Cabs(loop.dev)] = loop.cab + 1]
  /\ loop' = [loop EXCEPT !.cab = @ + 1, !.cib = loop.cab * CibsPerCab]
  /\ UNCHANGED <<req, param, fields, seal, desc, marks, free, pc>>

EndDevice ==
  /\ pc = "chunks" /\ ~MoreCibs
  /\ loop.cab = CabCount(DevBlocks(loop.dev))
  /\ \/ loop.dev = "main" /\ loop' = [NoLoop EXCEPT !.dev = "tier2"] /\ pc' = "device"
     \/ loop.dev = "tier2" /\ loop' = NoLoop /\ pc' = "queues"
  /\ fields' = Set("spaceman", {loop.dev})
  /\ UNCHANGED <<req, param, disk, seal, desc, marks, free>>

-----------------------------------------------------------------------------
(* The rest of make_spaceman(). *)

MakeFreeQueues ==
  /\ pc = "queues"
  /\ disk' = Whole({"ip_queue", "main_queue"} \cup
                   IF param.fusion THEN {"tier2_queue"} ELSE {})
  /\ fields' = Set("spaceman", {"queues"})
  /\ pc' = "pool"
  /\ UNCHANGED <<req, param, seal, desc, marks, free, loop>>

MakeInternalPool ==
  /\ pc = "pool"
  /\ disk' = Whole({"ip_bitmaps"})
  /\ fields' = Set("spaceman", {"pool"})
  /\ marks' = [marks EXCEPT !.ip = IpMarks(param)]
  /\ pc' = "bitmaps"
  /\ UNCHANGED <<req, param, seal, desc, free, loop>>

MakeBitmaps ==
  /\ pc = "bitmaps"
  /\ disk' = Whole({"main_bitmap"} \cup IF param.fusion THEN {"tier2_bitmap"} ELSE {})
  /\ marks' = [marks EXCEPT !.main = MainMarks(param),
                            !.tier2 = IF param.fusion THEN {<<0, 1>>} ELSE {}]
  /\ seal' = Seal("spaceman")
  /\ pc' = "objects"
  /\ UNCHANGED <<req, param, fields, desc, free, loop>>

-----------------------------------------------------------------------------
(* The rest of make_container(). *)

MakeObjects ==
  /\ pc = "objects"
  /\ disk' = Whole({"reaper", "omap"} \cup
                   IF param.fusion THEN {"middle_tree", "wbc_state"} ELSE {})
  /\ fields' = Set("block_zero", {"reaper_oid", "omap_oid", "areas"} \cup
                                 IF param.fusion THEN {"fusion_oids"} ELSE {})
  /\ pc' = "volume"
  /\ UNCHANGED <<req, param, seal, desc, marks, free, loop>>

\* make_volume(): its uuid is parsed when its superblock is already there.
MakeVolume ==
  /\ pc = "volume"
  /\ \/ /\ ~req.volUuid
        /\ disk' = [disk EXCEPT !.volume = 1]
        /\ pc' = "fatal"
     \/ /\ req.volUuid
        /\ disk' = Whole({"volume"})
        /\ pc' = "seal"
  /\ fields' = Set("block_zero", {"fs_oid"})
  /\ UNCHANGED <<req, param, seal, desc, marks, free, loop>>

\* Mutant: the checksum is calculated before the last field is set.
SealSuperEarly ==
  /\ pc = "seal"
  /\ fields' = Set("block_zero", {"ephemeral_info"})
  /\ seal' = Seal("block_zero")
  /\ pc' = "wipe"
  /\ UNCHANGED <<req, param, disk, desc, marks, free, loop>>

SealSuper ==
  /\ pc = "seal"
  /\ LET full == Set("block_zero", {"ephemeral_info"})
     IN  /\ fields' = full
         /\ seal' = [seal EXCEPT !.block_zero = full["block_zero"]]
  /\ pc' = "wipe"
  /\ UNCHANGED <<req, param, disk, desc, marks, free, loop>>

\* The block of the descriptor area that zero_area() comes to next.
Unwiped(b) == desc[b] = "old" /\ (b > 1 => desc[b - 1] = "zero")

\* Mutant: the loop ends one block early.
WipeDescriptorsShort ==
  /\ pc = "wipe"
  /\ \/ \E b \in DOMAIN desc :
          b + 1 \in DOMAIN desc /\ Unwiped(b) /\ desc' = [desc EXCEPT ![b] = "zero"] /\ UNCHANGED pc
     \/ /\ \A b \in DOMAIN desc : b + 1 \in DOMAIN desc => desc[b] # "old"
        /\ pc' = "map" /\ UNCHANGED desc
  /\ UNCHANGED <<req, param, disk, fields, seal, marks, free, loop>>

\* zero_area(), one block of the descriptor area at a time.
WipeDescriptors ==
  /\ pc = "wipe"
  /\ \/ \E b \in DOMAIN desc :
          Unwiped(b) /\ desc' = [desc EXCEPT ![b] = "zero"] /\ UNCHANGED pc
     \/ /\ \A b \in DOMAIN desc : desc[b] # "old"
        /\ pc' = "map" /\ UNCHANGED desc
  /\ UNCHANGED <<req, param, disk, fields, seal, marks, free, loop>>

\* make_cpoint_map_block()
MakeCpointMapBlock ==
  /\ pc = "map"
  /\ disk' = Whole({"map_block"})
  /\ desc' = [desc EXCEPT ![1] = "map"]
  /\ pc' = "checkpoint"
  /\ UNCHANGED <<req, param, fields, seal, marks, free, loop>>

\* make_cpoint_superblock(): a copy of block zero, its checksum included.
MakeCpointSuperblock ==
  /\ pc = "checkpoint"
  /\ disk' = Whole({"checkpoint"})
  /\ desc' = [desc EXCEPT ![2] = "super"]
  /\ fields' = Set("checkpoint", fields["block_zero"])
  /\ seal' = [seal EXCEPT !.checkpoint = seal["block_zero"]]
  /\ pc' = IF param.fusion THEN "tier2" ELSE "done"
  /\ UNCHANGED <<req, param, marks, free, loop>>

\* make_tier2_superblock(): a copy with one bit changed, and a new checksum.
MakeTier2Super ==
  /\ pc = "tier2"
  /\ disk' = Whole({"tier2_super"})
  /\ LET copy == fields["block_zero"] \cup {"tier2_bit"}
     IN  /\ fields' = Set("tier2_super", copy)
         /\ seal' = [seal EXCEPT !.tier2_super = copy]
  /\ pc' = "done"
  /\ UNCHANGED <<req, param, desc, marks, free, loop>>

Exited == pc \in {"fatal", "done"} /\ UNCHANGED vars

Next ==
  \/ CompleteParameters \/ MakeSuper \/ SetInfo \/ BeginSpaceman
  \/ BeginDevice \/ MakeCib \/ MakeCab \/ EndDevice
  \/ MakeFreeQueues \/ MakeInternalPool \/ MakeBitmaps
  \/ MakeObjects \/ MakeVolume \/ SealSuper
  \/ WipeDescriptors \/ MakeCpointMapBlock \/ MakeCpointSuperblock \/ MakeTier2Super
  \/ Exited

\* mkapfs is a single thread that does not wait: it takes its next step.
Spec == Init /\ [][Next]_vars /\ WF_vars(Next)

-----------------------------------------------------------------------------
(* Properties. *)

Param == [main : Nat, tier2 : Nat, fusion : BOOLEAN]
Loop == [dev : {"main", "tier2"}, cab : Nat, cib : Nat, start : Nat]

\* The inductive invariant behind the proofs.  No object is written past its
\* area; nothing is written before the guards on the sizes; and the loops of
\* make_single_device() have described the device up to loop.start.
Guarded == {"spaceman", "device", "chunks", "queues", "pool", "bitmaps", "objects",
            "volume", "seal", "wipe", "map", "checkpoint", "tier2", "done"}
Accepted == ~BadSizes(param) /\ (param.fusion \/ param.tier2 = 0)
DiskOK ==
  LET area == Area(param)
  IN  /\ \A o \in MainObjects : disk[o] <= area[o][2]
      /\ param.fusion = req.fusion
      /\ disk["tier2_super"] > 0 \/ pc = "tier2" => param.fusion
GuardsOK ==
  /\ pc \in Guarded \cup {"params", "super", "info", "fatal"}
  /\ pc = "params" => \A o \in MainObjects : disk[o] = 0
  /\ pc \notin {"params", "fatal"} \/ disk["block_zero"] > 0 => Accepted
  /\ \/ ~EphTooBig(param) /\ ~TooBig(param) /\ Accepted
     \/ pc \notin Guarded /\ \A o \in MainObjects \ {"block_zero"} : disk[o] = 0
CibBlocks == ChunksPerCib * BlocksPerChunk   \* described by a chunk-info block
LoopOK ==
  LET n == DevBlocks(loop.dev)
  IN  /\ pc \in {"params", "super", "info", "spaceman"} =>
           loop = NoLoop /\ \A d \in {"main", "tier2"} : disk[Cibs(d)] = 0 /\ disk[Cabs(d)] = 0
      /\ pc = "device" => loop.cab = 0 /\ loop.cib = 0
      /\ pc \in {"device", "chunks"} =>
           /\ loop.dev = "main" => disk["tier2_cibs"] = 0 /\ disk["tier2_cabs"] = 0
           /\ disk[Cibs(loop.dev)] = loop.cib /\ disk[Cabs(loop.dev)] = loop.cab
           /\ loop.cib <= CibCount(n) /\ loop.cab <= CabCount(n)
           /\ loop.start = LeastOf(loop.cib * CibBlocks, n)
           /\ CabCount(n) > 0 => loop.cib <= loop.cab * CibsPerCab
Inv ==
  /\ req \in Requests /\ param \in Param /\ disk \in [Objects -> Nat] /\ loop \in Loop
  /\ DiskOK /\ GuardsOK /\ LoopOK

\* Ranges are pairs <<first block, blocks>>.
Meet(a, b) == a[2] > 0 /\ b[2] > 0 /\ a[1] < b[1] + b[2] /\ b[1] < a[1] + a[2]
Within(a, b) == b[1] <= a[1] /\ a[1] + a[2] <= b[1] + b[2]
Written ==
  LET area == Area(param) IN [o \in MainObjects |-> <<area[o][1], disk[o]>>]
Shared(m, c) ==   \* blocks of the range in chunk c
  LET from == IF m[1] > c * BlocksPerChunk THEN m[1] ELSE c * BlocksPerChunk
      to == LeastOf(m[1] + m[2], (c + 1) * BlocksPerChunk)
  IN  IF from < to THEN to - from ELSE 0
SharedBy(ms, c) == MapThenSumSet(LAMBDA m : Shared(m, c), ms)
SizeOf(ms) == MapThenSumSet(LAMBDA m : m[2], ms)

\* No block is written for two objects, whatever the sizes of the devices and
\* wherever the program is.
NoClobber ==
  LET w == Written
  IN  \A o1, o2 \in MainObjects : o1 # o2 => ~Meet(w[o1], w[o2])

\* mkapfs never touches a block past the end of its devices: either it refuses
\* the sizes or everything fits ("fails cleanly, not with sigbus", test.sh).
WritesInDevice ==
  /\ LET w == Written
     IN  \A o \in MainObjects : disk[o] > 0 => Within(w[o], <<0, param.main>>)
  /\ disk["tier2_super"] <= param.tier2

\* The list of free bitmap blocks of the internal pool, as its readers walk it:
\* from sm_ip_bm_free_head, for as many steps as there should be blocks.
FreeList(p) ==
  LET head == IpBmSize(p)
      next == IpFreeNext(p)
      at[k \in 0 .. (IpBmapBlocks(p) - 1 - head)] ==
        IF k = 0 THEN head ELSE next[at[k - 1]]
  IN  at

\* The free bitmap blocks of the internal pool form one list that begins at
\* sm_ip_bm_free_head, holds all but the blocks in use, and ends at
\* sm_ip_bm_free_tail.
FreeListWhole ==
  LET next == IpFreeNext(param)
      at == FreeList(param)
      head == IpBmSize(param)
      tail == IpBmapBlocks(param) - 1
  IN  /\ {at[k] : k \in 0 .. (tail - head)} = head .. tail
      /\ at[tail - head] = tail
      /\ \A i \in 0 .. (head - 1) : next[i] = 65535
      /\ next[tail] = 65535

\* When mkapfs is done, each object lies in a range that the allocation bitmap
\* marks, the ranges do not overlap, the bitmap of the internal pool marks exactly
\* the pool blocks that were written, and the free bitmaps are all on the list.
BitmapsMatch ==
  pc = "done" =>
    /\ \A o \in MainObjects : disk[o] > 0 =>
         \E m \in marks.main : Within(Written[o], m)
    /\ \A m, n \in marks.main : m # n => ~Meet(m, n)
    /\ \A o \in PoolObjects : disk[o] > 0 =>
         /\ <<Written[o][1] - IpBase(param), disk[o]>> \in marks.ip
         /\ Within(Written[o], <<IpBase(param), IpBlocks(param)>>)
    /\ \A m \in marks.ip : m[2] > 0 =>
         \E o \in PoolObjects : m = <<Written[o][1] - IpBase(param), disk[o]>>
    /\ FreeListWhole

\* The free counts of a device agree with its bitmap: the count of each chunk,
\* their sum, and the total of the device.
FreeCountsOf(d) ==
  /\ \A c \in 0 .. UsedChunks(param, d) : c < ChunkCount(DevBlocks(d)) =>
       ChunkFree(d, c) = ChunkBlocks(d, c) - SharedBy(marks[d], c)
  /\ free[d][1] = free[d][2]
  /\ free[d][1] = DevBlocks(d) - SizeOf(marks[d])

\* Does the internal pool end exactly at the end of a chunk, not the first?
PoolEndsChunk ==
  UsedChunksEnd(param) > 1 /\ UsedBlocksEnd(param) % BlocksPerChunk = 0

\* The free counts of both devices are those of the bitmaps, except when the
\* internal pool ends exactly at the end of a chunk.
FreeCountsMatch ==
  pc = "done" => FreeCountsOf("tier2") /\ (PoolEndsChunk \/ FreeCountsOf("main"))

\* count_used_blocks_in_chunk() does "calculate number of allocated blocks in a
\* chunk": the free counts always agree with the bitmaps.
FreeCountsExact ==
  pc = "done" => FreeCountsOf("main") /\ FreeCountsOf("tier2")

\* The chunk-info blocks describe each device to its last block, and there are
\* as many of them, and of cib address blocks, as the spaceman says.
DevicesCovered ==
  [][EndDevice => /\ loop.start = DevBlocks(loop.dev)
                  /\ disk[Cibs(loop.dev)] = CibCount(DevBlocks(loop.dev))
                  /\ disk[Cabs(loop.dev)] = CabCount(DevBlocks(loop.dev))]_vars

\* set_object_header(): "All other fields of the object must be set in advance":
\* no field of an object changes once its checksum is there, copies included.
ChecksumsHold == \A o \in Sealable : seal[o] # {} => seal[o] = fields[o]

\* The objects of os that this container has are written to their last block.
WholeOnDisk(os) ==
  LET area == Area(param)
  IN  \A o \in os : param.fusion \/ o \notin FusionObjects => disk[o] = area[o][2]

\* Wherever the program is stopped, by fatal() or by a signal:
\* - a checkpoint superblock means that the whole container is there, with nothing
\*   of an older filesystem in the descriptor area;
\* - nothing older is left there when the mapping block is written;
\* - a block zero with a checksum means that all is there but the checkpoint itself.
\*   A program killed between the two leaves a good block zero over descriptors
\*   that are old, wiped or without a superblock: make_container() sets the
\*   checksum before it wipes the area.
\* The second device has a superblock only after the checkpoint, and a finished
\* mkapfs has made all of these.
CheckpointMeansWhole ==
  /\ disk["checkpoint"] > 0 =>
       /\ WholeOnDisk(MainObjects)
       /\ seal["block_zero"] # {} /\ seal["checkpoint"] = seal["block_zero"]
       /\ \A b \in DOMAIN desc :
            desc[b] = CASE b = 1 -> "map" [] b = 2 -> "super" [] OTHER -> "zero"
  /\ disk["map_block"] > 0 => \A b \in DOMAIN desc : desc[b] # "old"
  /\ seal["block_zero"] # {} =>
       /\ seal["spaceman"] = {"sizes", "main", "tier2", "queues", "pool"}
       /\ WholeOnDisk(MainObjects \ {"map_block", "checkpoint"})
  /\ disk["tier2_super"] > 0 => disk["checkpoint"] > 0
  /\ pc = "done" => /\ disk["checkpoint"] > 0
                    /\ param.fusion => disk["tier2_super"] > 0

=============================================================================
