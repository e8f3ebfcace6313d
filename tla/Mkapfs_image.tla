---------------------------- MODULE Mkapfs_image ----------------------------
(***************************************************************************)
(* What is on the device when mkapfs stops: the checksums, the objects that *)
(* block zero refers to, the bitmaps and the free counts.                  *)
(***************************************************************************)
EXTENDS Mkapfs_proofs, FiniteSums

-----------------------------------------------------------------------------
(* How far the program is. *)

CheckpointMade == {"tier2", "done"}
MapMade == {"checkpoint"} \cup CheckpointMade
SuperSealed == {"wipe", "map"} \cup MapMade
VolumeMade == {"seal"} \cup SuperSealed
ObjectsMade == {"volume"} \cup VolumeMade
BitmapsMade == {"objects"} \cup ObjectsMade
PoolMade == {"bitmaps"} \cup BitmapsMade
QueuesMade == {"pool"} \cup PoolMade
DevicesMade == {"queues"} \cup QueuesMade
SpacemanBegun == {"device", "chunks"} \cup DevicesMade
SuperBegun == {"info", "spaceman"} \cup SpacemanBegun

\* The fields of the spaceman, in the order in which they are set.
SpacemanFields(at, dev) ==
  IF at \in PoolMade THEN {"sizes", "main", "tier2", "queues", "pool"}
  ELSE IF at \in QueuesMade THEN {"sizes", "main", "tier2", "queues"}
  ELSE IF at \in DevicesMade THEN {"sizes", "main", "tier2"}
  ELSE IF at \in SpacemanBegun
  THEN IF dev = "tier2" THEN {"sizes", "main"} ELSE {"sizes"}
  ELSE {}

FieldNames == {"geometry", "uuid", "fusion", "spaceman_oid", "reaper_oid", "omap_oid",
               "areas", "fusion_oids", "fs_oid", "ephemeral_info", "tier2_bit",
               "sizes", "main", "tier2", "queues", "pool"}

\* Each checksum is set once, last, and covers what the object holds.
FieldsOK ==
  /\ fields \in [Sealable -> SUBSET FieldNames]
  /\ seal \in [Sealable -> SUBSET FieldNames]
  /\ pc # "fatal" => /\ fields["spaceman"] = SpacemanFields(pc, loop.dev)
                     /\ seal["spaceman"] = IF pc \in BitmapsMade THEN fields["spaceman"] ELSE {}
  /\ pc = "fatal" => seal["spaceman"] \in {{}, fields["spaceman"]}
  /\ seal["block_zero"] = IF pc \in SuperSealed THEN fields["block_zero"] ELSE {}
  /\ pc \in SuperSealed => "ephemeral_info" \in fields["block_zero"]
  /\ fields["checkpoint"] = IF pc \in CheckpointMade THEN fields["block_zero"] ELSE {}
  /\ seal["checkpoint"] = fields["checkpoint"]
  /\ seal["tier2_super"] = fields["tier2_super"]
  /\ pc # "done" => fields["tier2_super"] = {}

\* The objects that are whole.
Made(at, dev) ==
  (IF at \in SuperBegun THEN {"block_zero"} ELSE {}) \cup
  (IF at \in SpacemanBegun THEN {"spaceman"} ELSE {}) \cup
  (IF at \in DevicesMade \/ (at \in {"device", "chunks"} /\ dev = "tier2")
   THEN {"main_cibs", "main_cabs"} ELSE {}) \cup
  (IF at \in DevicesMade THEN {"tier2_cibs", "tier2_cabs"} ELSE {}) \cup
  (IF at \in QueuesMade THEN {"ip_queue", "main_queue", "tier2_queue"} ELSE {}) \cup
  (IF at \in PoolMade THEN {"ip_bitmaps"} ELSE {}) \cup
  (IF at \in BitmapsMade THEN {"main_bitmap", "tier2_bitmap"} ELSE {}) \cup
  (IF at \in ObjectsMade THEN {"reaper", "omap", "middle_tree", "wbc_state"} ELSE {}) \cup
  (IF at \in VolumeMade THEN {"volume"} ELSE {}) \cup
  (IF at \in MapMade THEN {"map_block"} ELSE {}) \cup
  (IF at \in CheckpointMade THEN {"checkpoint"} ELSE {})

MadeOK ==
  /\ \A o \in Made(pc, loop.dev) :
       param.fusion \/ o \notin FusionObjects => disk[o] = Area(param)[o][2]
  /\ ~param.fusion => disk["middle_tree"] = 0
  /\ disk["tier2_super"] <= 1

\* What is written last is not written before.
LateOK ==
  /\ disk["map_block"] > 0 => pc \in MapMade
  /\ disk["checkpoint"] > 0 => pc \in CheckpointMade
  /\ disk["tier2_super"] > 0 => pc = "done"
  /\ pc = "done" /\ param.fusion => disk["tier2_super"] > 0

MarksOK ==
  /\ marks = [main |-> marks.main, tier2 |-> marks.tier2, ip |-> marks.ip]
  /\ pc \in PoolMade => marks.ip = IpMarks(param)
  /\ pc \in BitmapsMade => /\ marks.main = MainMarks(param)
                           /\ marks.tier2 = IF param.fusion THEN {<<0, 1>>} ELSE {}

DescOK ==
  /\ pc \notin {"fatal", "map"} \cup MapMade => \A b \in DOMAIN desc : desc[b] \in {"old", "zero"}
  /\ pc = "map" => \A b \in DOMAIN desc : desc[b] = "zero"
  /\ pc = "checkpoint" => \A b \in DOMAIN desc : desc[b] = IF b = 1 THEN "map" ELSE "zero"
  /\ pc \in CheckpointMade => \A b \in DOMAIN desc :
       desc[b] = CASE b = 1 -> "map" [] b = 2 -> "super" [] OTHER -> "zero"

\* The inductive invariant of this module; that of Mkapfs_proofs supports it.
ImageInv == FieldsOK /\ MadeOK /\ MarksOK /\ DescOK /\ LateOK

-----------------------------------------------------------------------------
(* Every step keeps it. *)

\* mkapfs starts with nothing written.
LEMMA ImageInit == Init => ImageInv
<1> SUFFICES ASSUME Init PROVE ImageInv
  OBVIOUS
<1>1. pc = "params" /\ loop.dev = "main"
  BY DEF Init, NoLoop
<1>2. FieldsOK
  BY <1>1 DEF Init, FieldsOK, Sealable, SpacemanFields, SuperSealed, MapMade, CheckpointMade, VolumeMade, ObjectsMade, BitmapsMade, PoolMade,
                 QueuesMade, DevicesMade, SpacemanBegun, SuperBegun
<1>3. MadeOK
  BY <1>1 DEF Init, MadeOK, Made, Objects, MainObjects, SuperSealed, MapMade, CheckpointMade, VolumeMade, ObjectsMade, BitmapsMade, PoolMade,
                 QueuesMade, DevicesMade, SpacemanBegun, SuperBegun
<1>4. MarksOK
  BY <1>1 DEF Init, MarksOK, SuperSealed, MapMade, CheckpointMade, VolumeMade, ObjectsMade, BitmapsMade, PoolMade,
                 QueuesMade, DevicesMade, SpacemanBegun, SuperBegun
<1>5. DescOK
  BY <1>1 DEF Init, DescOK
<1>6. LateOK
  BY <1>1 DEF Init, LateOK, Objects, MainObjects
<1>7. QED
  BY <1>2, <1>3, <1>4, <1>5, <1>6 DEF ImageInv

\* The program takes its steps in one order, and the device only changes at the
\* end of a device.
LEMMA FieldsNext == Inv /\ FieldsOK /\ [Next]_vars => FieldsOK'
<1> SUFFICES ASSUME Inv, FieldsOK, [Next]_vars PROVE FieldsOK'
  OBVIOUS
<1> USE DEF Sealable, SpacemanFields, SuperSealed, MapMade, CheckpointMade, VolumeMade, ObjectsMade, BitmapsMade, PoolMade,
                 QueuesMade, DevicesMade, SpacemanBegun, SuperBegun
<1>0. loop.dev \in {"main", "tier2"}
  BY DEF Inv, Loop
<1>1. CASE CompleteParameters
  BY <1>1 DEF FieldsOK, CompleteParameters, Fatal
<1>2. CASE MakeSuper
  BY <1>2 DEF FieldsOK, MakeSuper, Set, FieldNames
<1>3. CASE SetInfo
  BY <1>3 DEF FieldsOK, SetInfo, Fatal
<1>4. CASE BeginSpaceman
  <2>1. loop.dev = "main"
    BY <1>4 DEF BeginSpaceman, LoopOK, Inv, NoLoop
  <2>2. QED
    BY <1>4, <2>1 DEF FieldsOK, BeginSpaceman, Set, FieldNames
<1>5. CASE BeginDevice
  BY <1>5 DEF FieldsOK, BeginDevice
<1>6. CASE MakeCib
  <2>1. pc = "chunks" /\ loop'.dev = loop.dev /\ UNCHANGED <<fields, seal, pc>>
    BY <1>6 DEF MakeCib, Inv, Loop
  <2>2. QED
    BY <2>1 DEF FieldsOK
<1>7. CASE MakeCab
  <2>1. pc = "chunks" /\ loop'.dev = loop.dev /\ UNCHANGED <<fields, seal, pc>>
    BY <1>7 DEF MakeCab, Inv, Loop
  <2>2. QED
    BY <2>1 DEF FieldsOK
<1>8. CASE EndDevice
  BY <1>0, <1>8 DEF FieldsOK, EndDevice, Set, FieldNames, NoLoop
<1>9. CASE MakeFreeQueues
  BY <1>9 DEF FieldsOK, MakeFreeQueues, Set, FieldNames
<1>10. CASE MakeInternalPool
  BY <1>10 DEF FieldsOK, MakeInternalPool, Set, FieldNames
<1>11. CASE MakeBitmaps
  BY <1>11 DEF FieldsOK, MakeBitmaps, Seal
<1>12. CASE MakeObjects
  BY <1>12 DEF FieldsOK, MakeObjects, Set, FieldNames
<1>13. CASE MakeVolume
  BY <1>13 DEF FieldsOK, MakeVolume, Set, FieldNames
<1>14. CASE SealSuper
  BY <1>14 DEF FieldsOK, SealSuper, Set, FieldNames
<1>15. CASE WipeDescriptors
  BY <1>15 DEF FieldsOK, WipeDescriptors
<1>16. CASE MakeCpointMapBlock \/ MakeCpointSuperblock
  BY <1>16 DEF FieldsOK, MakeCpointMapBlock, MakeCpointSuperblock, Set
<1>17. CASE MakeTier2Super
  BY <1>17 DEF FieldsOK, MakeTier2Super, Set, FieldNames
<1>18. CASE UNCHANGED vars
  BY <1>18 DEF FieldsOK, vars
<1>19. QED
  BY <1>1, <1>2, <1>3, <1>4, <1>5, <1>6, <1>7, <1>8, <1>9, <1>10, <1>11, <1>12, <1>13,
     <1>14, <1>15, <1>16, <1>17, <1>18 DEF Next, Exited

\* A write of whole objects adds them to the objects that are whole.
LEMMA WholeMakes ==
  ASSUME Inv, MadeOK, NEW os \in SUBSET MainObjects, disk' = Whole(os),
         UNCHANGED <<param, loop>>,
         Made(pc', loop.dev) \subseteq
           Made(pc, loop.dev) \cup os \cup IF param.fusion THEN {} ELSE FusionObjects,
         "middle_tree" \in os => param.fusion
  PROVE  MadeOK'
<1>1. ASSUME NEW o \in os PROVE disk'[o] = Area(param)[o][2]
  BY <1>1 DEF Whole, Objects, MainObjects, PoolObjects
<1>2. ASSUME NEW o \in Objects \ os PROVE disk'[o] = disk[o]
  BY <1>2 DEF Whole
<1>3. Made(pc, loop.dev) \subseteq Objects /\ "middle_tree" \in Objects
  BY DEF Made, Objects, MainObjects, PoolObjects
<1>4. ASSUME NEW o \in Made(pc', loop.dev), param.fusion \/ o \notin FusionObjects
      PROVE  disk'[o] = Area(param)[o][2]
  BY <1>1, <1>2, <1>3, <1>4 DEF MadeOK
<1>5. ~param.fusion => disk'["middle_tree"] = 0
  BY <1>2, <1>3 DEF MadeOK
<1>6. disk'["tier2_super"] = disk["tier2_super"]
  BY <1>2 DEF Objects, MainObjects, PoolObjects
<1>7. QED
  BY <1>4, <1>5, <1>6 DEF MadeOK

\* What is whole stays whole, and each step adds its objects.
LEMMA MadeNext == Inv /\ MadeOK /\ [Next]_vars => MadeOK'
<1> SUFFICES ASSUME Inv, MadeOK, [Next]_vars PROVE MadeOK'
  OBVIOUS
<1> USE DEF SuperSealed, MapMade, CheckpointMade, VolumeMade, ObjectsMade, BitmapsMade, PoolMade,
                 QueuesMade, DevicesMade, SpacemanBegun, SuperBegun
<1>0. loop.dev \in {"main", "tier2"} /\ param.fusion \in BOOLEAN
  BY DEF Inv, Loop, Param
<1>1. CASE CompleteParameters
  <2>1. pc = "params" /\ pc' \in {"super", "fatal"} /\ UNCHANGED <<disk, loop>>
    BY <1>1 DEF CompleteParameters, Fatal
  <2>2. \A o \in MainObjects : disk[o] = 0
    BY <2>1 DEF Inv, GuardsOK
  <2>3. Made(pc', loop'.dev) = {}
    BY <2>1 DEF Made
  <2>4. QED
    BY <2>1, <2>2, <2>3 DEF MadeOK, MainObjects
<1>2. CASE MakeSuper
  <2>1. /\ pc = "super" /\ pc' \in {"fatal", "info"} /\ disk' = Whole({"block_zero"})
        /\ UNCHANGED <<param, loop>>
    BY <1>2 DEF MakeSuper
  <2>2. {"block_zero"} \in SUBSET MainObjects
    BY DEF MainObjects
  <2>3. Made(pc', loop.dev) \subseteq {"block_zero"}
    BY <2>1 DEF Made
  <2>4. QED
    BY <2>1, <2>2, <2>3, WholeMakes
<1>3. CASE SetInfo
  <2>1. pc = "info" /\ pc' \in {"fatal", "spaceman"} /\ UNCHANGED <<param, disk, loop>>
    BY <1>3 DEF SetInfo, Fatal
  <2>2. Made(pc', loop.dev) \subseteq Made(pc, loop.dev)
    BY <2>1 DEF Made
  <2>3. QED
    BY <2>1, <2>2 DEF MadeOK
<1>4. CASE BeginSpaceman
  <2>1. /\ pc = "spaceman" /\ pc' = "device" /\ disk' = Whole({"spaceman"})
        /\ UNCHANGED <<param, loop>> /\ loop.dev = "main"
    BY <1>4 DEF BeginSpaceman, Inv, LoopOK, NoLoop
  <2>2. {"spaceman"} \in SUBSET MainObjects
    BY DEF MainObjects
  <2>3. Made(pc', loop.dev) \subseteq Made(pc, loop.dev) \cup {"spaceman"}
    BY <2>1 DEF Made
  <2>4. QED
    BY <2>1, <2>2, <2>3, WholeMakes
<1>5. CASE BeginDevice
  <2>1. pc = "device" /\ pc' = "chunks" /\ UNCHANGED <<param, disk, loop>>
    BY <1>5 DEF BeginDevice
  <2>2. Made(pc', loop.dev) = Made(pc, loop.dev)
    BY <2>1 DEF Made
  <2>3. QED
    BY <2>1, <2>2 DEF MadeOK
<1>6. CASE MakeCib \/ MakeCab
  <2>1. /\ pc = "chunks" /\ loop'.dev = loop.dev /\ UNCHANGED <<param, pc>>
        /\ \A o \in Objects \ {Cibs(loop.dev), Cabs(loop.dev)} : disk'[o] = disk[o]
    BY <1>6 DEF MakeCib, MakeCab, Inv, Loop
  <2>2. Cibs(loop.dev) \notin Made(pc, loop.dev) /\ Cabs(loop.dev) \notin Made(pc, loop.dev)
    BY <1>0, <2>1 DEF Made, Cibs, Cabs
  <2>3. Made(pc, loop.dev) \subseteq Objects
    BY DEF Made, Objects, MainObjects, PoolObjects
  <2>4. {"middle_tree", "tier2_super"} \subseteq Objects \ {Cibs(loop.dev), Cabs(loop.dev)}
    BY <1>0 DEF Objects, MainObjects, PoolObjects, Cibs, Cabs
  <2>5. \A o \in Made(pc, loop.dev) : disk'[o] = disk[o]
    BY <2>1, <2>2, <2>3
  <2>6. QED
    BY <2>1, <2>4, <2>5 DEF MadeOK
<1>8. CASE EndDevice
  <2>1. /\ pc = "chunks" /\ UNCHANGED <<param, disk>>
        /\ \/ loop.dev = "main" /\ loop'.dev = "tier2" /\ pc' = "device"
           \/ loop.dev = "tier2" /\ pc' = "queues"
    BY <1>8 DEF EndDevice, NoLoop
  <2>2. /\ disk[Cibs(loop.dev)] = CibCount(DevBlocks(loop.dev))
        /\ disk[Cabs(loop.dev)] = CabCount(DevBlocks(loop.dev))
    BY <1>8, EndCovered
  <2>3. /\ disk[Cibs(loop.dev)] = Area(param)[Cibs(loop.dev)][2]
        /\ disk[Cabs(loop.dev)] = Area(param)[Cabs(loop.dev)][2]
    BY <1>0, <2>2, LoopObjects
  <2>4. Made(pc', loop'.dev) \subseteq Made(pc, loop.dev) \cup {Cibs(loop.dev), Cabs(loop.dev)}
    BY <2>1 DEF Made, Cibs, Cabs
  <2>5. QED
    BY <2>1, <2>3, <2>4 DEF MadeOK
<1>9. CASE MakeFreeQueues
  <2> DEFINE os == {"ip_queue", "main_queue"} \cup
                     IF param.fusion THEN {"tier2_queue"} ELSE {}
  <2>1. pc = "queues" /\ pc' = "pool" /\ disk' = Whole(os) /\ UNCHANGED <<param, loop>>
    BY <1>9 DEF MakeFreeQueues
  <2>2. os \in SUBSET MainObjects /\ "middle_tree" \notin os
    BY DEF MainObjects
  <2>3. Made(pc', loop.dev) \subseteq
          Made(pc, loop.dev) \cup os \cup IF param.fusion THEN {} ELSE FusionObjects
    BY <2>1 DEF Made, FusionObjects
  <2> HIDE DEF os
  <2>4. QED
    BY <2>1, <2>2, <2>3, WholeMakes
<1>10. CASE MakeInternalPool
  <2>1. /\ pc = "pool" /\ pc' = "bitmaps" /\ disk' = Whole({"ip_bitmaps"})
        /\ UNCHANGED <<param, loop>>
    BY <1>10 DEF MakeInternalPool
  <2>2. {"ip_bitmaps"} \in SUBSET MainObjects
    BY DEF MainObjects
  <2>3. Made(pc', loop.dev) \subseteq Made(pc, loop.dev) \cup {"ip_bitmaps"}
    BY <2>1 DEF Made
  <2>4. QED
    BY <2>1, <2>2, <2>3, WholeMakes
<1>11. CASE MakeBitmaps
  <2> DEFINE os == {"main_bitmap"} \cup IF param.fusion THEN {"tier2_bitmap"} ELSE {}
  <2>1. pc = "bitmaps" /\ pc' = "objects" /\ disk' = Whole(os) /\ UNCHANGED <<param, loop>>
    BY <1>11 DEF MakeBitmaps
  <2>2. os \in SUBSET MainObjects /\ "middle_tree" \notin os
    BY DEF MainObjects, PoolObjects
  <2>3. Made(pc', loop.dev) \subseteq
          Made(pc, loop.dev) \cup os \cup IF param.fusion THEN {} ELSE FusionObjects
    BY <2>1 DEF Made, FusionObjects
  <2> HIDE DEF os
  <2>4. QED
    BY <2>1, <2>2, <2>3, WholeMakes
<1>12. CASE MakeObjects
  <2> DEFINE os == {"reaper", "omap"} \cup
                     IF param.fusion THEN {"middle_tree", "wbc_state"} ELSE {}
  <2>1. pc = "objects" /\ pc' = "volume" /\ disk' = Whole(os) /\ UNCHANGED <<param, loop>>
    BY <1>12 DEF MakeObjects
  <2>2. os \in SUBSET MainObjects /\ ("middle_tree" \in os => param.fusion)
    BY DEF MainObjects
  <2>3. Made(pc', loop.dev) \subseteq
          Made(pc, loop.dev) \cup os \cup IF param.fusion THEN {} ELSE FusionObjects
    BY <2>1 DEF Made, FusionObjects
  <2> HIDE DEF os
  <2>4. QED
    BY <2>1, <2>2, <2>3, WholeMakes
<1>13. CASE MakeVolume
  <2>1. CASE pc' = "fatal"
    <3>1. /\ UNCHANGED <<param, loop>> /\ \A o \in Objects \ {"volume"} : disk'[o] = disk[o]
      BY <1>13, <2>1 DEF MakeVolume, Inv
    <3>2. Made(pc', loop'.dev) = {}
      BY <2>1 DEF Made
    <3>3. QED
      BY <3>1, <3>2 DEF MadeOK, Objects, MainObjects
  <2>2. CASE pc' = "seal"
    <3>1. /\ pc = "volume" /\ disk' = Whole({"volume"}) /\ UNCHANGED <<param, loop>>
      BY <1>13, <2>2 DEF MakeVolume
    <3>2. {"volume"} \in SUBSET MainObjects
      BY DEF MainObjects
    <3>3. Made(pc', loop.dev) \subseteq Made(pc, loop.dev) \cup {"volume"}
      BY <2>2, <3>1 DEF Made
    <3>4. QED
      BY <3>1, <3>2, <3>3, WholeMakes
  <2>3. QED
    BY <1>13, <2>1, <2>2 DEF MakeVolume
<1>14. CASE SealSuper \/ WipeDescriptors
  <2>1. /\ pc \in {"seal", "wipe"} /\ pc' \in {"wipe", "map"}
        /\ UNCHANGED <<param, disk, loop>>
    BY <1>14 DEF SealSuper, WipeDescriptors
  <2>2. Made(pc', loop.dev) = Made(pc, loop.dev)
    BY <2>1 DEF Made
  <2>3. QED
    BY <2>1, <2>2 DEF MadeOK
<1>15. CASE MakeCpointMapBlock
  <2>1. /\ pc = "map" /\ pc' = "checkpoint"
        /\ disk' = Whole({"map_block"}) /\ UNCHANGED <<param, loop>>
    BY <1>15 DEF MakeCpointMapBlock
  <2>2. {"map_block"} \in SUBSET MainObjects
    BY DEF MainObjects
  <2>3. Made(pc', loop.dev) \subseteq Made(pc, loop.dev) \cup {"map_block"}
    BY <2>1 DEF Made
  <2>4. QED
    BY <2>1, <2>2, <2>3, WholeMakes
<1>16. CASE MakeCpointSuperblock
  <2>1. /\ pc = "checkpoint" /\ pc' = IF param.fusion THEN "tier2" ELSE "done"
        /\ disk' = Whole({"checkpoint"}) /\ UNCHANGED <<param, loop>>
    BY <1>16 DEF MakeCpointSuperblock
  <2>2. {"checkpoint"} \in SUBSET MainObjects
    BY DEF MainObjects
  <2>3. Made(pc', loop.dev) \subseteq Made(pc, loop.dev) \cup {"checkpoint"}
    BY <2>1 DEF Made
  <2>4. QED
    BY <2>1, <2>2, <2>3, WholeMakes
<1>17. CASE MakeTier2Super
  <2>1. /\ pc = "tier2" /\ pc' = "done" /\ UNCHANGED <<param, loop>>
        /\ \A o \in Objects \ {"tier2_super"} : disk'[o] = disk[o]
        /\ disk'["tier2_super"] = 1
    BY <1>17 DEF MakeTier2Super, Whole, Objects
  <2>2. Made(pc', loop.dev) = Made(pc, loop.dev)
    BY <2>1 DEF Made
  <2>3. Made(pc, loop.dev) \subseteq Objects \ {"tier2_super"}
        /\ "middle_tree" \in Objects \ {"tier2_super"}
    BY DEF Made, Objects, MainObjects, PoolObjects
  <2>4. QED
    BY <2>1, <2>2, <2>3 DEF MadeOK
<1>18. CASE UNCHANGED vars
  BY <1>18 DEF MadeOK, vars
<1>19. QED
  BY <1>1, <1>2, <1>3, <1>4, <1>5, <1>6, <1>8, <1>9, <1>10, <1>11, <1>12, <1>13,
     <1>14, <1>15, <1>16, <1>17, <1>18 DEF Next, Exited

\* The bitmaps are made after the sizes are fixed, and not changed afterwards.
LEMMA MarksNext == Inv /\ MarksOK /\ [Next]_vars => MarksOK'
<1> SUFFICES ASSUME Inv, MarksOK, [Next]_vars PROVE MarksOK'
  OBVIOUS
<1> USE DEF SuperSealed, MapMade, CheckpointMade, VolumeMade, ObjectsMade, BitmapsMade, PoolMade,
                 QueuesMade, DevicesMade, SpacemanBegun, SuperBegun
<1>1. CASE CompleteParameters
  BY <1>1 DEF MarksOK, CompleteParameters, Fatal
<1>2. CASE MakeSuper \/ SetInfo \/ BeginSpaceman \/ BeginDevice
  BY <1>2 DEF MarksOK, MakeSuper, SetInfo, BeginSpaceman, BeginDevice, Fatal
<1>3. CASE MakeCib \/ MakeCab \/ EndDevice \/ MakeFreeQueues
  BY <1>3 DEF MarksOK, MakeCib, MakeCab, EndDevice, MakeFreeQueues
<1>4. CASE MakeInternalPool
  BY <1>4 DEF MarksOK, MakeInternalPool
<1>5. CASE MakeBitmaps
  BY <1>5 DEF MarksOK, MakeBitmaps
<1>6. CASE MakeObjects \/ MakeVolume \/ SealSuper \/ WipeDescriptors
  BY <1>6 DEF MarksOK, MakeObjects, MakeVolume, SealSuper, WipeDescriptors
<1>7. CASE MakeCpointMapBlock \/ MakeCpointSuperblock \/ MakeTier2Super
  BY <1>7 DEF MarksOK, MakeCpointMapBlock, MakeCpointSuperblock, MakeTier2Super
<1>8. CASE UNCHANGED vars
  BY <1>8 DEF MarksOK, vars
<1>9. QED
  BY <1>1, <1>2, <1>3, <1>4, <1>5, <1>6, <1>7, <1>8 DEF Next, Exited

\* The descriptor area is wiped before the checkpoint is written.
LEMMA DescNext == Inv /\ DescOK /\ [Next]_vars => DescOK'
<1> SUFFICES ASSUME Inv, DescOK, [Next]_vars PROVE DescOK'
  OBVIOUS
<1> USE DEF MapMade, CheckpointMade
<1>1. CASE CompleteParameters \/ MakeSuper \/ SetInfo \/ BeginSpaceman \/ BeginDevice
  BY <1>1 DEF DescOK, CompleteParameters, MakeSuper, SetInfo, BeginSpaceman, BeginDevice,
              Fatal
<1>2. CASE MakeCib \/ MakeCab \/ EndDevice \/ MakeFreeQueues \/ MakeInternalPool
  BY <1>2 DEF DescOK, MakeCib, MakeCab, EndDevice, MakeFreeQueues, MakeInternalPool
<1>3. CASE MakeBitmaps \/ MakeObjects \/ MakeVolume \/ SealSuper
  BY <1>3 DEF DescOK, MakeBitmaps, MakeObjects, MakeVolume, SealSuper
<1>4. CASE WipeDescriptors
  BY <1>4 DEF DescOK, WipeDescriptors
<1>5. CASE MakeCpointMapBlock \/ MakeCpointSuperblock
  BY <1>5 DEF DescOK, MakeCpointMapBlock, MakeCpointSuperblock
<1>6. CASE MakeTier2Super
  BY <1>6 DEF DescOK, MakeTier2Super
<1>7. CASE UNCHANGED vars
  BY <1>7 DEF DescOK, vars
<1>8. QED
  BY <1>1, <1>2, <1>3, <1>4, <1>5, <1>6, <1>7 DEF Next, Exited

\* The checkpoint and the second superblock are the last to be written.
LEMMA LateNext == Inv /\ LateOK /\ [Next]_vars => LateOK'
<1> SUFFICES ASSUME Inv, LateOK, [Next]_vars PROVE LateOK'
  OBVIOUS
<1> USE DEF MapMade, CheckpointMade
<1> DEFINE Late == {"map_block", "checkpoint", "tier2_super"}
<1>0. disk \in [Objects -> Nat] /\ Late \subseteq Objects
  BY DEF Inv, Objects, MainObjects
<1>1. ASSUME pc \notin MapMade, pc' # "done", \A o \in Late : disk'[o] = disk[o]
      PROVE  LateOK'
  BY <1>0, <1>1 DEF LateOK
<1>2. CASE CompleteParameters \/ SetInfo \/ BeginDevice \/ EndDevice \/ SealSuper \/ WipeDescriptors
  <2>1. pc \notin MapMade /\ pc' # "done" /\ disk' = disk
    BY <1>2 DEF CompleteParameters, SetInfo, BeginDevice, EndDevice, SealSuper,
                WipeDescriptors, Fatal
  <2>2. QED
    BY <1>1, <2>1
<1>3. CASE MakeCib \/ MakeCab
  <2>1. /\ pc = "chunks" /\ pc' = pc
        /\ \E o \in {Cibs(loop.dev), Cabs(loop.dev)}, n \in {loop.cib + 1, loop.cab + 1} :
             disk' = [disk EXCEPT ![o] = n]
    BY <1>3 DEF MakeCib, MakeCab
  <2>2. \A o \in Late : disk'[o] = disk[o]
    BY <1>0, <2>1 DEF Cibs, Cabs
  <2>3. QED
    BY <1>1, <2>1, <2>2
<1>4. CASE \/ MakeSuper \/ BeginSpaceman \/ MakeFreeQueues \/ MakeInternalPool \/ MakeBitmaps
           \/ MakeObjects
  <2>1. /\ pc \notin MapMade /\ pc' # "done"
        /\ \E os \in SUBSET (Objects \ Late) : disk' = Whole(os)
    BY <1>4 DEF MakeSuper, BeginSpaceman, MakeFreeQueues, MakeInternalPool, MakeBitmaps,
                MakeObjects, Objects, MainObjects, PoolObjects
  <2>2. \A o \in Late : disk'[o] = disk[o]
    BY <1>0, <2>1 DEF Whole
  <2>3. QED
    BY <1>1, <2>1, <2>2
<1>5. CASE MakeVolume
  <2>1. /\ pc \notin MapMade /\ pc' # "done"
        /\ disk' = Whole({"volume"}) \/ disk' = [disk EXCEPT !.volume = 1]
    BY <1>5 DEF MakeVolume
  <2>2. \A o \in Late : disk'[o] = disk[o]
    BY <1>0, <2>1 DEF Whole
  <2>3. QED
    BY <1>1, <2>1, <2>2
<1>6. CASE MakeCpointMapBlock
  <2>1. /\ pc = "map" /\ pc' = "checkpoint" /\ UNCHANGED param
        /\ \A o \in Late \ {"map_block"} : disk'[o] = disk[o]
    BY <1>0, <1>6 DEF MakeCpointMapBlock, Whole
  <2>2. QED
    BY <1>0, <2>1 DEF LateOK
<1>7. CASE MakeCpointSuperblock
  <2>1. /\ pc = "checkpoint" /\ pc' = (IF param.fusion THEN "tier2" ELSE "done")
        /\ UNCHANGED param /\ disk'["tier2_super"] = disk["tier2_super"]
    BY <1>0, <1>7 DEF MakeCpointSuperblock, Whole
  <2>2. QED
    BY <1>0, <2>1 DEF LateOK
<1>8. CASE MakeTier2Super
  <2>1. pc' = "done" /\ disk'["tier2_super"] = 1
    BY <1>0, <1>8 DEF MakeTier2Super, Whole
  <2>2. QED
    BY <2>1 DEF LateOK
<1>9. CASE UNCHANGED vars
  BY <1>9 DEF LateOK, vars
<1>10. QED
  BY <1>2, <1>3, <1>4, <1>5, <1>6, <1>7, <1>8, <1>9 DEF Next, Exited

\* The inductive invariant of this module holds in every reachable state.
THEOREM ImageInvariance == Spec => []ImageInv
<1>1. Init => ImageInv
  BY ImageInit
<1>2. Inv /\ ImageInv /\ [Next]_vars => ImageInv'
  BY FieldsNext, MadeNext, MarksNext, DescNext, LateNext DEF ImageInv
<1>3. QED
  BY <1>1, <1>2, Invariance, PTL DEF Spec

\* Whatever step mkapfs stops after, a checksum covers what its object holds:
\* set_object_header() is the last to touch block zero, the spaceman, the
\* checkpoint and the superblock of the second device.
THEOREM ChecksumsStay == Spec => []ChecksumsHold
<1>1. FieldsOK => ChecksumsHold
  BY DEF FieldsOK, ChecksumsHold, Sealable, BitmapsMade, ObjectsMade, VolumeMade, SuperSealed, MapMade, CheckpointMade
<1>2. QED
  BY <1>1, ImageInvariance, PTL DEF ImageInv

\* Wherever mkapfs is stopped, a checkpoint superblock stands for a container that
\* is there to the last block, in a descriptor area with nothing older; a block zero
\* with a checksum stands for all but the checkpoint, which make_container() writes
\* after it.
THEOREM CheckpointLast == Spec => []CheckpointMeansWhole
<1>1. ImageInv /\ Inv => CheckpointMeansWhole
  <2> SUFFICES ASSUME ImageInv, Inv PROVE CheckpointMeansWhole
    OBVIOUS
  <2>1. seal["block_zero"] # {} => /\ pc \in SuperSealed
                                  /\ seal["spaceman"] = {"sizes", "main", "tier2", "queues", "pool"}
    BY DEF ImageInv, FieldsOK, SpacemanFields, SuperSealed, MapMade, CheckpointMade, VolumeMade,
                   ObjectsMade, BitmapsMade, PoolMade, QueuesMade, DevicesMade, SpacemanBegun, SuperBegun
  <2>2. ASSUME pc \in SuperSealed PROVE WholeOnDisk(MainObjects \ {"map_block", "checkpoint"})
    <3>1. MainObjects \ {"map_block", "checkpoint"} \subseteq Made(pc, loop.dev)
      BY <2>2 DEF Made, MainObjects, PoolObjects, SuperSealed, MapMade, CheckpointMade, VolumeMade,
                   ObjectsMade, BitmapsMade, PoolMade, QueuesMade, DevicesMade, SpacemanBegun, SuperBegun
    <3>2. QED
      BY <3>1 DEF ImageInv, MadeOK, WholeOnDisk
  <2>3. ASSUME pc \in CheckpointMade
        PROVE  /\ WholeOnDisk(MainObjects) /\ disk["checkpoint"] > 0
               /\ seal["block_zero"] # {} /\ seal["checkpoint"] = seal["block_zero"]
    <3>1. MainObjects \subseteq Made(pc, loop.dev)
      BY <2>3 DEF Made, MainObjects, PoolObjects, SuperSealed, MapMade, CheckpointMade, VolumeMade,
                   ObjectsMade, BitmapsMade, PoolMade, QueuesMade, DevicesMade, SpacemanBegun, SuperBegun
    <3>2. WholeOnDisk(MainObjects)
      BY <3>1 DEF ImageInv, MadeOK, WholeOnDisk
    <3>3. disk["checkpoint"] = Area(param)["checkpoint"][2]
      BY <3>2 DEF WholeOnDisk, MainObjects, FusionObjects
    <3>4. Area(param)["checkpoint"][2] = 1
      BY DEF Area
    <3>5. seal["block_zero"] # {} /\ seal["checkpoint"] = seal["block_zero"]
      BY <2>3 DEF ImageInv, FieldsOK, SuperSealed, MapMade, CheckpointMade
    <3>6. QED
      BY <3>2, <3>3, <3>4, <3>5
  <2>4. disk["checkpoint"] > 0 =>
          /\ pc \in CheckpointMade
          /\ \A b \in DOMAIN desc :
               desc[b] = CASE b = 1 -> "map" [] b = 2 -> "super" [] OTHER -> "zero"
    BY DEF ImageInv, LateOK, DescOK
  <2>5. disk["map_block"] > 0 => \A b \in DOMAIN desc : desc[b] # "old"
    <3>1. SUFFICES ASSUME disk["map_block"] > 0, NEW b \in DOMAIN desc PROVE desc[b] # "old"
      OBVIOUS
    <3>2. pc \in MapMade
      BY <3>1 DEF ImageInv, LateOK
    <3>3. QED
      BY <3>1, <3>2 DEF ImageInv, DescOK, MapMade
  <2>6. disk["tier2_super"] > 0 \/ pc = "done" => pc \in CheckpointMade
    BY DEF ImageInv, LateOK, CheckpointMade
  <2>7. pc = "done" /\ param.fusion => disk["tier2_super"] > 0
    BY DEF ImageInv, LateOK
  <2>8. QED
    BY <2>1, <2>2, <2>3, <2>4, <2>5, <2>6, <2>7 DEF CheckpointMeansWhole
<1>2. QED
  BY <1>1, ImageInvariance, Invariance, PTL

-----------------------------------------------------------------------------
(* The bitmaps. *)

\* The internal pool holds all that is put in it: three times the blocks of the
\* structures of both devices leave room for the bitmaps of the used chunks.
LEMMA PoolFits ==
  ASSUME NEW p \in Param, ~BadSizes(p), ~TooBig(p)
  PROVE  PoolEnd(p) <= UsedBlocksEnd(p) /\ IpBlocks(p) > 0 /\ IpBmSize(p) > 0
<1> DEFINE m == p.main
           c == ChunkCount(m)
           i == IpBlocks(p)
           b == IpBmSize(p)
           u == UsedChunksEnd(p)
<1>1. m \in Nat /\ m >= 128 /\ p.tier2 \in Nat
  BY DEF Param, BadSizes, MinBlocks, BlockSize
<1>2. /\ c \in Nat /\ c * 32768 >= m
      /\ CibCount(m) \in Nat /\ CabCount(m) \in Nat
      /\ CibCount(p.tier2) \in Nat /\ CabCount(p.tier2) \in Nat
      /\ ChunkCount(p.tier2) \in Nat
  <2>1. c * 32768 >= m
    <3>1. \A a \in Nat : DivRoundUp(a, BlocksPerChunk) * 32768 >= a
      BY ChunkRounding
    <3>2. c = DivRoundUp(m, BlocksPerChunk)
      BY DEF ChunkCount
    <3>3. m \in Nat
      BY <1>1
    <3> HIDE DEF c, m
    <3>4. QED
      BY <3>1, <3>2, <3>3
  <2>2. QED
    BY <1>1, <2>1, InfoCounts
<1>3. i = 3 * (c + CibCount(m) + CabCount(m)
               + ChunkCount(p.tier2) + CibCount(p.tier2) + CabCount(p.tier2))
  BY <1>2 DEF IpBlocks, InfoBlocks
<1>4. i \in Nat /\ i > 0 /\ i <= m \div 2
  BY <1>1, <1>2, <1>3 DEF TooBig
<1>5. b \in Nat /\ (b - 1) * 32768 < i /\ b * 32768 >= i
  BY <1>4, ChunkRounding DEF IpBmSize
<1>6. /\ UsedBlocksEnd(p) = IpBase(p) + i
      /\ IpBase(p) \in Nat /\ IpBase(p) <= 27963 + 16 * b
  BY <1>4, <1>5, Quantities DEF UsedBlocksEnd, IpBase, IpBmapBase, IpBmapBlocks, CpointEnd,
       CpointDataBase, CpointDescBase
<1>7. u \in Nat /\ (u - 1) * 32768 < IpBase(p) + i
  BY <1>4, <1>6, ChunkRounding DEF UsedChunksEnd
<1>8. PoolEnd(p) = IpBase(p) + u + CibCount(m) + CabCount(m) + Tier2UsedEnd(p)
                   + CibCount(p.tier2) + CabCount(p.tier2)
      /\ Tier2UsedEnd(p) \in 0 .. 1
  BY <1>2, <1>6, <1>7 DEF PoolEnd, Tier2Cab, Tier2Cib, Tier2ChunkBmap, MainCab, MainCib,
       MainChunkBmap, Tier2UsedEnd
<1> HIDE DEF m, c, i, b, u
<1>9. u + 1 <= 3 * c
  BY <1>1, <1>2, <1>4, <1>5, <1>6, <1>7
<1>10. PoolEnd(p) <= UsedBlocksEnd(p)
  BY <1>2, <1>3, <1>6, <1>7, <1>8, <1>9
<1>11. QED
  BY <1>4, <1>5, <1>10 DEF i, b

\* The marks of the main device: one range after the other.
LEMMA MarksApart ==
  ASSUME NEW p \in Param
  PROVE  \A m, n \in MainMarks(p) : m # n => ~Meet(m, n)
<1> DEFINE desc0 == CpointDescBlocks(p)
           data == CpointDataBlocks(p)
           end == CpointEnd(p)
           bm == IpBmapBlocks(p)
           ip == IpBlocks(p)
<1>1. /\ desc0 \in Nat /\ desc0 > 0 /\ data \in Nat /\ data > 0
      /\ end = 1 + desc0 + data /\ CpointDataBase(p) = 1 + desc0
      /\ bm \in Nat /\ ip \in Nat
      /\ IpBmapBase(p) = end + 10 /\ IpBase(p) = end + 10 + bm
  BY Quantities DEF IpBase, IpBmapBase, IpBmapBlocks, CpointEnd, CpointDataBase, CpointDescBase
<1> HIDE DEF desc0, data, end, bm, ip
<1>2. ASSUME NEW m \in MainMarks(p), NEW n \in MainMarks(p), m # n, Meet(m, n) PROVE FALSE
  BY <1>1, <1>2 DEF MainMarks, FusionMarks, Meet, CpointDescBase, desc0, data, end, bm, ip
<1>3. QED
  BY <1>2

\* Every bitmap block of the internal pool that is not in use is on the list.
LEMMA FreeListHolds == param \in Param /\ IpBmSize(param) > 0 => FreeListWhole
<1> SUFFICES ASSUME param \in Param, IpBmSize(param) > 0 PROVE FreeListWhole
  OBVIOUS
<1> DEFINE next == IpFreeNext(param)
           at == FreeList(param)
           head == IpBmSize(param)
           tail == IpBmapBlocks(param) - 1
           Walk(f) == [k \in 0 .. (tail - head) |-> IF k = 0 THEN head ELSE next[f[k - 1]]]
           line == [k \in 0 .. (tail - head) |-> head + k]
<1>1. head \in Nat /\ head > 0 /\ tail = 16 * head - 1 /\ tail \in Nat /\ head < tail
  BY Quantities DEF IpBmapBlocks
<1>2. /\ \A i \in head .. (tail - 1) : next[i] = i + 1
      /\ \A i \in 0 .. (head - 1) : next[i] = 65535
      /\ next[tail] = 65535
  BY <1>1 DEF IpFreeNext
<1>0. at = CHOOSE f : f = Walk(f)
  BY Zenon DEF FreeList
<1> HIDE DEF next, head, tail, at
<1>3. line = Walk(line)
  <2>1. ASSUME NEW k \in 0 .. (tail - head), k # 0 PROVE head + k = next[line[k - 1]]
    <3>1. k - 1 \in 0 .. (tail - head) /\ head + (k - 1) \in head .. (tail - 1)
      BY <1>1, <2>1
    <3>2. line[k - 1] = head + (k - 1)
      BY <3>1
    <3>3. QED
      BY <1>1, <1>2, <2>1, <3>1, <3>2
  <2>2. ASSUME NEW k \in 0 .. (tail - head)
        PROVE  head + k = IF k = 0 THEN head ELSE next[line[k - 1]]
    <3>1. CASE k = 0
      BY <1>1, <3>1
    <3>2. CASE k # 0
      BY <2>1, <3>2, Zenon
    <3>3. QED
      BY <3>1, <3>2
  <2>3. QED
    BY <2>2, Zenon
<1>4. at = Walk(at)
  BY <1>0, <1>3, Zenon
<1>5. /\ at[0] = head
      /\ \A k \in 1 .. (tail - head) : at[k] = next[at[k - 1]]
  BY <1>1, <1>4
<1> DEFINE S == {k \in Nat : k <= tail - head => at[k] = head + k}
<1>6. 0 \in S
  BY <1>1, <1>5
<1>7. ASSUME NEW k \in Nat, k \in S PROVE k + 1 \in S
  <2>1. SUFFICES ASSUME k + 1 <= tail - head PROVE at[k + 1] = head + (k + 1)
    OBVIOUS
  <2>2. at[k] = head + k /\ k + 1 \in 1 .. (tail - head) /\ (k + 1) - 1 = k
    BY <1>1, <1>7, <2>1
  <2>3. head + k \in head .. (tail - 1)
    BY <1>1, <2>1
  <2>4. QED
    BY <1>1, <1>2, <1>5, <2>2, <2>3
<1>8. Nat \subseteq S
  BY <1>6, <1>7, SetInduction
<1>9. \A k \in 0 .. (tail - head) : at[k] = head + k
  BY <1>1, <1>8
<1>10. {at[k] : k \in 0 .. (tail - head)} = head .. tail
  <2>1. \A j \in head .. tail : j - head \in 0 .. (tail - head) /\ at[j - head] = j
    BY <1>1, <1>9
  <2>2. \A k \in 0 .. (tail - head) : head + k \in head .. tail
    BY <1>1
  <2>3. QED
    BY <1>9, <2>1, <2>2
<1>11. at[tail - head] = tail
  BY <1>1, <1>9
<1>12. /\ \A i \in 0 .. (head - 1) : next[i] = 65535
       /\ next[tail] = 65535
  BY <1>2
<1> HIDE DEF Walk, line, S
<1>13. QED
  BY <1>10, <1>11, <1>12 DEF FreeListWhole, next, head, tail, at

\* The pool objects of a finished image lie in the pool.
LEMMA PoolObjectIn ==
  ASSUME NEW p \in Param, ~EphTooBig(p), ~BadSizes(p), ~TooBig(p), NEW o \in PoolObjects
  PROVE  Within(Area(p)[o], <<IpBase(p), IpBlocks(p)>>)
<1> DEFINE a == Area(p)
           base == IpBase(p)
<1>1. IsRange(a[o]) /\ base <= a[o][1] /\ a[o][1] + a[o][2] <= PoolEnd(p) /\ base \in Nat
  BY AreaZones
<1>2. PoolEnd(p) <= base + IpBlocks(p) /\ IpBlocks(p) \in Nat
  BY PoolFits, Quantities DEF UsedBlocksEnd
<1>3. PoolEnd(p) \in Int
  <2>1. /\ CibCount(p.main) \in Nat /\ CabCount(p.main) \in Nat
        /\ CibCount(p.tier2) \in Nat /\ CabCount(p.tier2) \in Nat
    BY InfoCounts DEF Param
  <2>2. QED
    BY <1>1, <2>1, Quantities DEF PoolEnd, Tier2Cab, Tier2Cib, Tier2ChunkBmap, MainCab,
                                  MainCib, MainChunkBmap
<1>4. QED
  BY <1>1, <1>2, <1>3 DEF Within, IsRange

\* Each object lies in a range of the main bitmap, if its kind of object is made.
LEMMA MarkOfObject ==
  ASSUME NEW p \in Param, ~EphTooBig(p), ~BadSizes(p), ~TooBig(p), NEW o \in MainObjects,
         o = "middle_tree" => p.fusion
  PROVE  \E m \in MainMarks(p) : Within(Area(p)[o], m)
<1> DEFINE a == Area(p)
           data == CpointDataBase(p)
           end == CpointEnd(p)
           base == IpBase(p)
<1>1. /\ data \in Nat /\ end \in Nat /\ base \in Nat /\ IpBmapBlocks(p) \in Nat
      /\ end = data + CpointDataBlocks(p) /\ CpointDataBlocks(p) \in Nat
      /\ data = 1 + CpointDescBlocks(p) /\ CpointDescBlocks(p) \in Nat
      /\ CpointDescBlocks(p) >= 8 /\ IpBlocks(p) \in Nat
  BY Quantities DEF CpointEnd, CpointDataBase, CpointDescBase, IpBmapBlocks
<1>2. CASE o \in HeadZone
  <2>1. CASE o = "block_zero"
    <3>1. <<0, 1>> \in MainMarks(p) /\ a[o] = <<0, 1>>
      BY <2>1 DEF MainMarks, Area
    <3>2. Within(<<0, 1>>, <<0, 1>>)
      BY DEF Within
    <3>3. QED
      BY <3>1, <3>2
  <2>2. CASE o # "block_zero"
    <3>1. <<CpointDescBase, CpointDescBlocks(p)>> \in MainMarks(p)
      BY DEF MainMarks
    <3>2. Within(a[o], <<CpointDescBase, CpointDescBlocks(p)>>)
      BY <1>1, <1>2, <2>2 DEF HeadZone, Within, Area, CpointDescBase
    <3>3. QED
      BY <3>1, <3>2
  <2>3. QED
    BY <2>1, <2>2
<1>3. CASE o \in DataZone
  <2>1. IsRange(a[o]) /\ data <= a[o][1] /\ a[o][1] + a[o][2] <= end
    BY <1>3, AreaZones
  <2>2. <<data, CpointDataBlocks(p)>> \in MainMarks(p)
    BY DEF MainMarks
  <2>3. Within(a[o], <<data, CpointDataBlocks(p)>>)
    BY <1>1, <2>1 DEF Within
  <2>4. QED
    BY <2>2, <2>3
<1>4. CASE o \in FixedZone
  <2>1. a[o] \in MainMarks(p)
    BY <1>4 DEF FixedZone, Area, MainMarks, FusionMarks
  <2>2. IsRange(a[o])
    BY <1>4, AreaZones
  <2>3. Within(a[o], a[o])
    BY <2>2 DEF Within, IsRange
  <2>4. QED
    BY <2>1, <2>3
<1>5. CASE o \in PoolObjects
  <2>1. Within(a[o], <<base, IpBlocks(p)>>)
    BY <1>5, PoolObjectIn
  <2>2. <<base, IpBlocks(p)>> \in MainMarks(p)
    BY DEF MainMarks
  <2>3. QED
    BY <2>1, <2>2
<1>6. QED
  BY <1>2, <1>3, <1>4, <1>5 DEF MainObjects, HeadZone, DataZone, FixedZone, PoolObjects

\* When mkapfs is done every object is marked as used, the marks do not overlap,
\* the bitmap of the internal pool marks exactly the blocks that were written in
\* it, and the list of its free bitmap blocks is whole: for all sizes that
\* mkapfs accepts.
THEOREM BitmapsAgree == Spec => []BitmapsMatch
<1>1. Inv /\ ImageInv => BitmapsMatch
  <2> SUFFICES ASSUME Inv, ImageInv, pc = "done" PROVE BitmapsMatch
    BY DEF BitmapsMatch
  <2> DEFINE a == Area(param)
  <2>1. param \in Param /\ ~EphTooBig(param) /\ ~TooBig(param) /\ ~BadSizes(param)
    BY DEF Inv, GuardsOK, Guarded, Accepted
  <2>2. marks.main = MainMarks(param) /\ marks.ip = IpMarks(param)
    BY DEF ImageInv, MarksOK, PoolMade, BitmapsMade, ObjectsMade, VolumeMade, SuperSealed, MapMade, CheckpointMade
  <2>3. ASSUME NEW o \in MainObjects
        PROVE  /\ Written[o] = <<a[o][1], disk[o]>> /\ disk[o] \in Nat /\ disk[o] <= a[o][2]
               /\ IsRange(a[o])
    BY <2>1, <2>3, WriteFacts, AreaDisjoint
  <2>4. ASSUME NEW o \in MainObjects, NEW m, Within(a[o], m), m[1] \in Int, m[2] \in Int
        PROVE  Within(Written[o], m)
    BY <2>3, <2>4 DEF Within, IsRange
  <2>5. ASSUME NEW o \in PoolObjects
        PROVE  /\ param.fusion \/ o \notin FusionObjects => disk[o] = a[o][2]
               /\ ~param.fusion /\ o \in FusionObjects => a[o][2] = 0
    <3>1. o \in Made(pc, loop.dev)
      BY DEF Made, PoolObjects, DevicesMade, QueuesMade, PoolMade, BitmapsMade, ObjectsMade,
             VolumeMade, SuperSealed, MapMade, CheckpointMade
    <3>2. ~param.fusion /\ o \in FusionObjects => a[o][2] = 0
      BY DEF PoolObjects, FusionObjects, Area, Tier2UsedEnd
    <3>3. QED
      BY <3>1, <3>2 DEF ImageInv, MadeOK
  <2>6. ASSUME NEW o \in PoolObjects PROVE disk[o] = a[o][2] /\ o \in MainObjects
    <3>1. o \in MainObjects
      BY DEF MainObjects
    <3>2. ~param.fusion /\ o \in FusionObjects => disk[o] = 0
      BY <2>3, <2>5, <3>1
    <3>3. QED
      BY <2>5, <3>1, <3>2
  <2>7. ASSUME NEW o \in MainObjects, disk[o] > 0
        PROVE  \E m \in marks.main : Within(Written[o], m)
    <3>1. o = "middle_tree" => param.fusion
      BY <2>7 DEF ImageInv, MadeOK
    <3>2. PICK m \in MainMarks(param) : Within(a[o], m)
      BY <2>1, <3>1, MarkOfObject
    <3>3. m[1] \in Int /\ m[2] \in Int
      BY <2>1, Quantities DEF MainMarks, FusionMarks, CpointEnd, CpointDataBase,
           CpointDescBase, IpBmapBase, IpBmapBlocks
    <3>4. QED
      BY <2>2, <2>4, <3>2, <3>3
  <2>8. \A m, n \in marks.main : m # n => ~Meet(m, n)
    BY <2>1, <2>2, MarksApart
  <2>9. ASSUME NEW o \in PoolObjects
        PROVE  <<a[o][1] - IpBase(param), a[o][2]>> \in IpMarks(param)
    BY DEF PoolObjects, Area, IpMarks
  <2>10. ASSUME NEW o \in PoolObjects, disk[o] > 0
         PROVE  /\ <<Written[o][1] - IpBase(param), disk[o]>> \in marks.ip
                /\ Within(Written[o], <<IpBase(param), IpBlocks(param)>>)
    <3>1. Written[o][1] = a[o][1] /\ disk[o] = a[o][2]
      BY <2>3, <2>6
    <3>2. Within(a[o], <<IpBase(param), IpBlocks(param)>>)
      BY <2>1, PoolObjectIn
    <3>3. IpBase(param) \in Int /\ IpBlocks(param) \in Int
      BY <2>1, Quantities
    <3>4. QED
      BY <2>2, <2>4, <2>6, <2>9, <3>1, <3>2, <3>3
  <2>11. ASSUME NEW m \in marks.ip, m[2] > 0
         PROVE  \E o \in PoolObjects : m = <<Written[o][1] - IpBase(param), disk[o]>>
    <3>1. \E o \in PoolObjects : m = <<a[o][1] - IpBase(param), a[o][2]>>
      BY <2>2 DEF IpMarks, PoolObjects, Area
    <3>2. PICK o \in PoolObjects : m = <<a[o][1] - IpBase(param), a[o][2]>>
      BY <3>1
    <3>3. Written[o][1] = a[o][1] /\ disk[o] = a[o][2]
      BY <2>3, <2>6
    <3>4. QED
      BY <3>2, <3>3
  <2>12. FreeListWhole
    BY <2>1, PoolFits, FreeListHolds
  <2>13. QED
    BY <2>7, <2>8, <2>10, <2>11, <2>12 DEF BitmapsMatch
<1>2. QED
  BY <1>1, ImageInvariance, Invariance, PTL

-----------------------------------------------------------------------------
(* The free counts. *)

\* The chunks with used blocks that begin before block n of the device.
ChunksTo(p, d, n) == {c \in 0 .. (UsedChunks(p, d) - 1) : c * BlocksPerChunk < n}
\* Those that begin in it from block n up to block m.
ChunksIn(p, d, n, m) ==
  {c \in 0 .. (UsedChunks(p, d) - 1) : n <= c * BlocksPerChunk /\ c * BlocksPerChunk < m}
DevSize(p, d) == IF d = "main" THEN p.main ELSE p.tier2

\* sm_free_count, and the sum of ci_free_count up to block n.
Counted(p, d, n) ==
  <<DevSize(p, d) - CountUsed(p, d), n - UsedInChunks(p, d, ChunksTo(p, d, n))>>

\* The counts of a device are those of the chunks described so far, and mkapfs
\* does not make a filesystem larger than the device.
FreeOK ==
  /\ free \in [main : Int \X Int, tier2 : Int \X Int]
  /\ pc = "chunks" => free[loop.dev] = Counted(param, loop.dev, loop.start)
  /\ pc \in DevicesMade \/ (pc \in {"device", "chunks"} /\ loop.dev = "tier2") =>
       free["main"] = Counted(param, "main", param.main)
  /\ pc \in DevicesMade => free["tier2"] = Counted(param, "tier2", param.tier2)
  /\ pc \notin {"params", "fatal"} => param.main <= req.mainDev

\* The sum that MapThenSumSet() computes for a set of chunks.
LEMMA UsedIs ==
  ASSUME NEW S, IsFiniteSet(S), NEW p, NEW d, NEW g,
         \A c \in S : g[c] = UsedInChunk(p, d, c) /\ g[c] \in Int
  PROVE  UsedInChunks(p, d, S) = Total(g, S)
<1> DEFINE P(h) == h = [s \in SUBSET S |->
                          IF s = {} THEN 0
                          ELSE UsedInChunk(p, d, CHOOSE x \in s : TRUE)
                                 + h[s \ {CHOOSE x \in s : TRUE}]]
           sums == CHOOSE h : P(h)
<1>1. UsedInChunks(p, d, S) = sums[S]
  BY Zenon DEF UsedInChunks, MapThenSumSet, MapThenFoldSet
<1>2. ASSUME NEW h PROVE P(h) <=> SumsOf(h, g, S)
  <2>1. \A s \in SUBSET S : s # {} => UsedInChunk(p, d, Pick(s)) = g[Pick(s)]
    BY PickIn
  <2>2. [s \in SUBSET S |-> IF s = {} THEN 0
                            ELSE UsedInChunk(p, d, Pick(s)) + h[s \ {Pick(s)}]]
        = [s \in SUBSET S |-> IF s = {} THEN 0 ELSE g[Pick(s)] + h[s \ {Pick(s)}]]
    BY <2>1
  <2>3. QED
    BY <2>2, Zenon DEF SumsOf, Pick
<1> HIDE DEF P
<1>3. PICK h \in [SUBSET S -> Int] : SumsOf(h, g, S)
  BY SumsExist
<1>4. P(sums)
  BY <1>2, <1>3
<1>5. QED
  BY <1>1, <1>2, <1>4, TotalIs

\* The used blocks of a chunk are a number, and the chunks a finite set.
LEMMA UsedType ==
  ASSUME NEW p \in Param, NEW d \in {"main", "tier2"}
  PROVE  /\ UsedChunks(p, d) \in Nat
         /\ IsFiniteSet(0 .. (UsedChunks(p, d) - 1))
         /\ \A c \in Nat : UsedInChunk(p, d, c) \in Int
<1>1. UsedChunks(p, d) \in Nat
  BY Quantities DEF UsedChunks
<1>2. IsFiniteSet(0 .. (UsedChunks(p, d) - 1))
  BY <1>1, FS_Interval
<1>3. FirstChunkIpBlocks(p) \in Int
  BY Quantities DEF FirstChunkIpBlocks, LeastOf, BlocksPerChunk, BlockSize
<1>4. ASSUME NEW c \in Nat PROVE MainUsedInChunk(p, c) \in Int
  <2>1. IpBlocks(p) - FirstChunkIpBlocks(p) \in Int
    BY <1>3, Quantities
  <2>2. BlocksPerChunk = 32768
    BY DEF BlocksPerChunk, BlockSize
  <2>3. (IpBlocks(p) - FirstChunkIpBlocks(p)) % BlocksPerChunk \in Int
    BY <2>1, <2>2
  <2>4. QED
    BY <1>3, <2>2, <2>3, Quantities DEF MainUsedInChunk, IpBmapBlocks
<1>5. QED
  BY <1>1, <1>2, <1>4 DEF UsedInChunk, Tier2UsedInChunk

\* The sum over the chunks of a part of the device, as a sum of the module
\* FiniteSums.
LEMMA UsedTotal ==
  ASSUME NEW p \in Param, NEW d \in {"main", "tier2"},
         NEW S \in SUBSET (0 .. (UsedChunks(p, d) - 1))
  PROVE  LET g == [c \in Nat |-> UsedInChunk(p, d, c)]
         IN  /\ IsFiniteSet(S) /\ \A c \in S : c \in Nat /\ g[c] \in Int
             /\ UsedInChunks(p, d, S) = Total(g, S) /\ Total(g, S) \in Int
<1> DEFINE g == [c \in Nat |-> UsedInChunk(p, d, c)]
<1>1. IsFiniteSet(S) /\ S \subseteq Nat
  <2>1. IsFiniteSet(0 .. (UsedChunks(p, d) - 1))
    BY UsedType
  <2>2. IsFiniteSet(S)
    BY <2>1, FS_Subset
  <2>3. QED
    BY <2>2
<1>2. \A c \in S : c \in Nat /\ g[c] = UsedInChunk(p, d, c) /\ g[c] \in Int
  BY <1>1, UsedType
<1> HIDE DEF g
<1>3. UsedInChunks(p, d, S) = Total(g, S)
  BY <1>1, <1>2, UsedIs
<1>4. Total(g, S) \in Int
  BY <1>1, <1>2, TotalType
<1>5. QED
  BY <1>1, <1>2, <1>3, <1>4 DEF g

\* Nothing is used before the start of the device, and the chunks of a step add
\* to those of the steps before.
LEMMA UsedGrows ==
  ASSUME NEW p \in Param, NEW d \in {"main", "tier2"}, NEW n \in Nat, NEW m \in Nat, n <= m
  PROVE  /\ UsedInChunks(p, d, ChunksTo(p, d, 0)) = 0
         /\ UsedInChunks(p, d, ChunksTo(p, d, m)) =
              UsedInChunks(p, d, ChunksTo(p, d, n)) + UsedInChunks(p, d, ChunksIn(p, d, n, m))
         /\ UsedInChunks(p, d, ChunksIn(p, d, n, m)) \in Int
         /\ UsedInChunks(p, d, ChunksTo(p, d, n)) \in Int
         /\ CountUsed(p, d) \in Int
<1> DEFINE all == 0 .. (UsedChunks(p, d) - 1)
           step == ChunksIn(p, d, n, m)
           S == ChunksTo(p, d, n)
           T == ChunksTo(p, d, m)
           g == [c \in Nat |-> UsedInChunk(p, d, c)]
<1>0. BlocksPerChunk = 32768 /\ UsedChunks(p, d) \in Nat
  BY UsedType DEF BlocksPerChunk, BlockSize
<1>1. S \in SUBSET all /\ T \in SUBSET all /\ step \in SUBSET all /\ all \in SUBSET all
  BY DEF ChunksTo, ChunksIn
<1>2. ChunksTo(p, d, 0) = {}
  BY <1>0 DEF ChunksTo
<1>3. S \cup step = T /\ S \cap step = {}
  BY <1>0 DEF ChunksTo, ChunksIn
<1> HIDE DEF S, T, step
<1>4. /\ IsFiniteSet(S) /\ UsedInChunks(p, d, S) = Total(g, S) /\ Total(g, S) \in Int
      /\ \A c \in S : g[c] \in Int
  BY <1>1, UsedTotal
<1>5. /\ IsFiniteSet(step) /\ UsedInChunks(p, d, step) = Total(g, step)
      /\ Total(g, step) \in Int /\ \A c \in step : g[c] \in Int
  BY <1>1, UsedTotal
<1>6. UsedInChunks(p, d, T) = Total(g, T)
  BY <1>1, UsedTotal
<1>7. UsedInChunks(p, d, {}) = Total(g, {})
  BY UsedTotal
<1>8. CountUsed(p, d) \in Int
  BY <1>1, UsedTotal DEF CountUsed
<1> HIDE DEF g
<1>9. Total(g, S \cup step) = Total(g, S) + Total(g, step)
  BY <1>3, <1>4, <1>5, TotalUnion
<1>10. Total(g, {}) = 0
  BY TotalEmpty
<1>11. QED
  BY <1>2, <1>3, <1>4, <1>5, <1>6, <1>7, <1>8, <1>9, <1>10 DEF S, T, step

\* Each step of make_single_device() adds the chunks that it describes.
LEMMA FreeNext == Inv /\ FreeOK /\ [Next]_vars => FreeOK'
<1> SUFFICES ASSUME Inv, FreeOK, [Next]_vars PROVE FreeOK'
  OBVIOUS
<1> DEFINE d == loop.dev
<1>0. /\ d \in {"main", "tier2"} /\ param \in Param /\ param.main \in Nat /\ param.tier2 \in Nat
      /\ loop.start \in Nat /\ loop.cib \in Nat /\ DevBlocks(d) \in Nat
      /\ DevSize(param, d) = DevBlocks(d)
      /\ \A e \in {"main", "tier2"} : free[e] \in Int \X Int
  BY DEF Inv, Loop, Param, DevBlocks, DevSize, FreeOK
<1>1. CASE CompleteParameters
  <2>1. /\ pc = "params" /\ pc' \in {"super", "fatal"} /\ UNCHANGED <<req, free, loop>>
        /\ pc' = "super" => ~(param'.main > req.mainDev)
    BY <1>1 DEF CompleteParameters, Fatal
  <2>2. pc' = "super" => param'.main \in Nat /\ req.mainDev \in Nat
    <3>1. param'.main \in Nat
      BY <1>1, NextInv DEF Inv, Param, Next
    <3>2. QED
      BY <3>1, RequestsAssumption DEF Inv
  <2>3. pc' = "super" => param'.main <= req.mainDev
    BY <2>1, <2>2
  <2>4. QED
    BY <2>1, <2>3 DEF FreeOK, DevicesMade, QueuesMade, PoolMade, BitmapsMade, ObjectsMade,
                 VolumeMade, SuperSealed, MapMade, CheckpointMade
<1>2. CASE MakeSuper \/ SetInfo \/ BeginSpaceman
  <2>1. /\ pc \in {"super", "info", "spaceman"} /\ pc' \in {"info", "fatal", "spaceman", "device"}
        /\ UNCHANGED <<req, param, free, loop>>
    BY <1>2 DEF MakeSuper, SetInfo, BeginSpaceman, Fatal
  <2>2. loop.dev = "main"
    BY <2>1 DEF Inv, LoopOK, NoLoop
  <2>3. QED
    BY <2>1, <2>2 DEF FreeOK, DevicesMade, QueuesMade, PoolMade, BitmapsMade, ObjectsMade,
                 VolumeMade, SuperSealed, MapMade, CheckpointMade
<1>3. CASE BeginDevice
  <2>1. /\ pc = "device" /\ pc' = "chunks" /\ UNCHANGED <<req, param, loop>>
        /\ free' = [free EXCEPT ![d] = <<DevBlocks(d) - CountUsed(param, d), 0>>]
    BY <1>3 DEF BeginDevice
  <2>2. loop.start = 0
    <3>1. loop.cib = 0 /\ loop.start = LeastOf(loop.cib * CibBlocks, DevBlocks(d))
      BY <2>1 DEF Inv, LoopOK
    <3>2. CibBlocks \in Nat
      BY DEF CibBlocks, BlocksPerChunk, ChunksPerCib, BlockSize
    <3>3. QED
      BY <1>0, <3>1, <3>2, SMT DEF LeastOf
  <2>3. UsedInChunks(param, d, ChunksTo(param, d, 0)) = 0 /\ CountUsed(param, d) \in Int
    <3>1. 0 \in Nat /\ 0 <= 0
      OBVIOUS
    <3> HIDE DEF d
    <3>2. QED
      BY <1>0, <3>1, UsedGrows
  <2>4. Counted(param, d, 0) = <<DevBlocks(d) - CountUsed(param, d), 0>>
    BY <1>0, <2>3 DEF Counted
  <2>5. free' \in [main : Int \X Int, tier2 : Int \X Int] /\ free'[d] = Counted(param, d, 0)
        /\ \A e \in {"main", "tier2"} \ {d} : free'[e] = free[e]
    BY <1>0, <2>1, <2>3, <2>4 DEF FreeOK
  <2>6. QED
    BY <1>0, <2>1, <2>2, <2>5 DEF FreeOK, DevicesMade, QueuesMade, PoolMade, BitmapsMade, ObjectsMade,
                 VolumeMade, SuperSealed, MapMade, CheckpointMade
<1>4. CASE MakeCib
  <2> DEFINE end == LeastOf(loop.start + ChunksPerCib * BlocksPerChunk, DevBlocks(d))
             sum == UsedInChunks(param, d, ChunksIn(param, d, loop.start, end))
  <2>1. /\ pc = "chunks" /\ pc' = "chunks" /\ UNCHANGED <<req, param>>
        /\ free' = [free EXCEPT ![d][2] = @ + (end - loop.start) - sum]
        /\ loop' = [loop EXCEPT !.cib = @ + 1, !.start = end]
    BY <1>4 DEF MakeCib, ChunksIn
  <2>2. loop'.dev = d /\ loop'.start = end
    BY <2>1 DEF Inv, Loop
  <2>3. end \in Nat /\ loop.start <= end
    <3>1. loop.start <= DevBlocks(d)
      <4>1. loop.start = LeastOf(loop.cib * CibBlocks, DevBlocks(d))
        BY <2>1 DEF Inv, LoopOK
      <4>2. CibBlocks = 4128768
        BY DEF CibBlocks, BlocksPerChunk, ChunksPerCib, BlockSize
      <4>3. QED
        BY <1>0, <4>1, <4>2 DEF LeastOf
    <3>2. ChunksPerCib * BlocksPerChunk = 4128768
      BY DEF BlocksPerChunk, ChunksPerCib, BlockSize
    <3>3. QED
      BY <1>0, <3>1, <3>2 DEF LeastOf
  <2> HIDE DEF end, d
  <2>4. /\ UsedInChunks(param, d, ChunksTo(param, d, end)) =
             UsedInChunks(param, d, ChunksTo(param, d, loop.start)) + sum
        /\ sum \in Int /\ CountUsed(param, d) \in Int
        /\ UsedInChunks(param, d, ChunksTo(param, d, loop.start)) \in Int
    BY <1>0, <2>3, UsedGrows
  <2> USE DEF d
  <2> HIDE DEF sum
  <2>5. free[d] = <<DevBlocks(d) - CountUsed(param, d),
                    loop.start - UsedInChunks(param, d, ChunksTo(param, d, loop.start))>>
    BY <1>0, <2>1 DEF FreeOK, Counted
  <2>6. free'[d] = [free[d] EXCEPT ![2] = @ + (end - loop.start) - sum]
        /\ \A e \in {"main", "tier2"} \ {d} : free'[e] = free[e]
    BY <1>0, <2>1 DEF FreeOK
  <2>7. free'[d] = <<DevBlocks(d) - CountUsed(param, d),
                     end - UsedInChunks(param, d, ChunksTo(param, d, end))>>
    BY <1>0, <2>3, <2>4, <2>5, <2>6
  <2>8. free'[d] = Counted(param, d, end)
    BY <1>0, <2>7 DEF Counted
  <2>9. free'[d] \in Int \X Int
    BY <1>0, <2>3, <2>4, <2>7
  <2>10. free' \in [main : Int \X Int, tier2 : Int \X Int]
    <3>1. free' = [free EXCEPT ![d] = free'[d]]
      BY <1>0, <2>1, <2>6 DEF FreeOK
    <3>2. QED
      BY <1>0, <2>9, <3>1 DEF FreeOK
  <2>11. QED
    BY <1>0, <2>1, <2>2, <2>6, <2>8, <2>10 DEF FreeOK, DevicesMade, QueuesMade, PoolMade, BitmapsMade, ObjectsMade,
                 VolumeMade, SuperSealed, MapMade, CheckpointMade
<1>5. CASE MakeCab
  <2>1. /\ pc = "chunks" /\ UNCHANGED <<pc, req, param, free>>
        /\ loop'.dev = loop.dev /\ loop'.start = loop.start
    BY <1>5 DEF MakeCab, Inv, Loop
  <2>2. QED
    BY <2>1 DEF FreeOK
<1>6. CASE EndDevice
  <2>1. /\ pc = "chunks" /\ UNCHANGED <<req, param, free>>
        /\ \/ loop.dev = "main" /\ loop'.dev = "tier2" /\ pc' = "device"
           \/ loop.dev = "tier2" /\ pc' = "queues"
    BY <1>6 DEF EndDevice, NoLoop
  <2>2. loop.start = DevBlocks(loop.dev)
    BY <1>6, EndCovered
  <2>3. QED
    BY <2>1, <2>2 DEF FreeOK, DevBlocks, DevicesMade, QueuesMade, PoolMade, BitmapsMade, ObjectsMade,
                 VolumeMade, SuperSealed, MapMade, CheckpointMade
<1>7. CASE MakeFreeQueues \/ MakeInternalPool \/ MakeBitmaps \/ MakeObjects \/ MakeVolume
  <2>1. /\ pc \in DevicesMade /\ pc' \in DevicesMade \cup {"fatal"}
        /\ UNCHANGED <<req, param, free, loop>>
    BY <1>7 DEF MakeFreeQueues, MakeInternalPool, MakeBitmaps, MakeObjects, MakeVolume, DevicesMade, QueuesMade, PoolMade, BitmapsMade, ObjectsMade,
                 VolumeMade, SuperSealed, MapMade, CheckpointMade
  <2>2. QED
    BY <2>1 DEF FreeOK, DevicesMade, QueuesMade, PoolMade, BitmapsMade, ObjectsMade,
                 VolumeMade, SuperSealed, MapMade, CheckpointMade
<1>8. CASE \/ SealSuper \/ WipeDescriptors \/ MakeCpointMapBlock \/ MakeCpointSuperblock
           \/ MakeTier2Super
  <2>1. /\ pc \in DevicesMade /\ pc' \in DevicesMade
        /\ UNCHANGED <<req, param, free, loop>>
    BY <1>8 DEF SealSuper, WipeDescriptors, MakeCpointMapBlock, MakeCpointSuperblock, MakeTier2Super, DevicesMade, QueuesMade, PoolMade, BitmapsMade, ObjectsMade,
                 VolumeMade, SuperSealed, MapMade, CheckpointMade
  <2>2. QED
    BY <2>1 DEF FreeOK, DevicesMade, QueuesMade, PoolMade, BitmapsMade, ObjectsMade,
                 VolumeMade, SuperSealed, MapMade, CheckpointMade
<1>9. CASE UNCHANGED vars
  BY <1>9 DEF FreeOK, vars
<1>10. QED
  BY <1>1, <1>2, <1>3, <1>4, <1>5, <1>6, <1>7, <1>8, <1>9 DEF Next, Exited

\* What the free counts are is an invariant.
THEOREM FreeInvariance == Spec => []FreeOK
<1>1. Init => FreeOK
  BY DEF Init, FreeOK, NoLoop, DevicesMade, QueuesMade, PoolMade, BitmapsMade, ObjectsMade,
                 VolumeMade, SuperSealed, MapMade, CheckpointMade
<1>2. QED
  BY <1>1, FreeNext, Invariance, PTL DEF Spec

\* The sums over marks that the properties use.
LEMMA SharedIs ==
  ASSUME NEW S, IsFiniteSet(S), NEW c, NEW g,
         \A m \in S : g[m] = Shared(m, c) /\ g[m] \in Int
  PROVE  SharedBy(S, c) = Total(g, S)
<1> DEFINE P(h) == h = [s \in SUBSET S |->
                          IF s = {} THEN 0
                          ELSE Shared(CHOOSE x \in s : TRUE, c) + h[s \ {CHOOSE x \in s : TRUE}]]
           sums == CHOOSE h : P(h)
<1>1. SharedBy(S, c) = sums[S]
  BY Zenon DEF SharedBy, MapThenSumSet, MapThenFoldSet
<1>2. ASSUME NEW h PROVE P(h) <=> SumsOf(h, g, S)
  <2>1. \A s \in SUBSET S : s # {} => Shared(Pick(s), c) = g[Pick(s)]
    BY PickIn
  <2>2. [s \in SUBSET S |-> IF s = {} THEN 0 ELSE Shared(Pick(s), c) + h[s \ {Pick(s)}]]
        = [s \in SUBSET S |-> IF s = {} THEN 0 ELSE g[Pick(s)] + h[s \ {Pick(s)}]]
    BY <2>1
  <2>3. QED
    BY <2>2, Zenon DEF SumsOf, Pick
<1> HIDE DEF P
<1>3. PICK h \in [SUBSET S -> Int] : SumsOf(h, g, S)
  BY SumsExist
<1>4. P(sums)
  BY <1>2, <1>3
<1>5. QED
  BY <1>1, <1>2, <1>4, TotalIs

\* The same for the sizes of the marks.
LEMMA SizeIs ==
  ASSUME NEW S, IsFiniteSet(S),  NEW g,
         \A m \in S : g[m] = m[2] /\ g[m] \in Int
  PROVE  SizeOf(S) = Total(g, S)
<1> DEFINE P(h) == h = [s \in SUBSET S |->
                          IF s = {} THEN 0
                          ELSE (CHOOSE x \in s : TRUE)[2] + h[s \ {CHOOSE x \in s : TRUE}]]
           sums == CHOOSE h : P(h)
<1>1. SizeOf(S) = sums[S]
  BY Zenon DEF SizeOf, MapThenSumSet, MapThenFoldSet
<1>2. ASSUME NEW h PROVE P(h) <=> SumsOf(h, g, S)
  <2>1. \A s \in SUBSET S : s # {} => Pick(s)[2] = g[Pick(s)]
    BY PickIn
  <2>2. [s \in SUBSET S |-> IF s = {} THEN 0 ELSE Pick(s)[2] + h[s \ {Pick(s)}]]
        = [s \in SUBSET S |-> IF s = {} THEN 0 ELSE g[Pick(s)] + h[s \ {Pick(s)}]]
    BY <2>1
  <2>3. QED
    BY <2>2, Zenon DEF SumsOf, Pick
<1> HIDE DEF P
<1>3. PICK h \in [SUBSET S -> Int] : SumsOf(h, g, S)
  BY SumsExist
<1>4. P(sums)
  BY <1>2, <1>3
<1>5. QED
  BY <1>1, <1>2, <1>4, TotalIs

\* The sum over the marks of the main device, written out.
LEMMA MarksTotal ==
  ASSUME NEW p \in Param, IpBmSize(p) > 0, NEW g, \A m \in MainMarks(p) : g[m] \in Int
  PROVE  /\ IsFiniteSet(MainMarks(p))
         /\ Total(g, MainMarks(p)) =
              g[<<0, 1>>] + g[<<CpointDescBase, CpointDescBlocks(p)>>]
              + g[<<CpointDataBase(p), CpointDataBlocks(p)>>]
              + g[<<CpointEnd(p), 2>>] + g[<<CpointEnd(p) + 2, 6>>]
              + g[<<IpBmapBase(p), IpBmapBlocks(p)>>] + g[<<IpBase(p), IpBlocks(p)>>]
              + (IF p.fusion THEN g[<<CpointEnd(p) + 8, 1>>] + g[<<CpointEnd(p) + 9, 1>>]
                 ELSE 0)
<1> DEFINE a1 == <<0, 1>>
           a2 == <<CpointDescBase, CpointDescBlocks(p)>>
           a3 == <<CpointDataBase(p), CpointDataBlocks(p)>>
           a4 == <<CpointEnd(p), 2>>
           a5 == <<CpointEnd(p) + 2, 6>>
           a6 == <<IpBmapBase(p), IpBmapBlocks(p)>>
           a7 == <<IpBase(p), IpBlocks(p)>>
           a8 == <<CpointEnd(p) + 8, 1>>
           a9 == <<CpointEnd(p) + 9, 1>>
           t1 == {a1}
           t2 == t1 \cup {a2}
           t3 == t2 \cup {a3}
           t4 == t3 \cup {a4}
           t5 == t4 \cup {a5}
           t6 == t5 \cup {a6}
           t7 == t6 \cup {a7}
           t8 == t7 \cup {a8}
           t9 == t8 \cup {a9}
<1>1. /\ CpointDescBase = 1 /\ CpointDataBase(p) \in Nat /\ CpointDataBase(p) > 1
      /\ CpointEnd(p) \in Nat /\ CpointEnd(p) > CpointDataBase(p)
      /\ IpBmapBase(p) = CpointEnd(p) + 10 /\ IpBase(p) \in Nat /\ IpBase(p) > IpBmapBase(p)
  BY Quantities DEF CpointDescBase, CpointDataBase, CpointEnd, IpBmapBase, IpBase, IpBmapBlocks
<1>2. /\ a2 \notin t1 /\ a3 \notin t2 /\ a4 \notin t3 /\ a5 \notin t4 /\ a6 \notin t5
      /\ a7 \notin t6 /\ a8 \notin t7 /\ a9 \notin t8
  BY <1>1
<1>3. MainMarks(p) = IF p.fusion THEN t9 ELSE t7
  BY DEF MainMarks, FusionMarks
<1> HIDE DEF a1, a2, a3, a4, a5, a6, a7, a8, a9
<1>4. \A x \in t7 : g[x] \in Int
  BY <1>3
<1>5. /\ g[a1] \in Int /\ g[a2] \in Int /\ g[a3] \in Int /\ g[a4] \in Int
      /\ g[a5] \in Int /\ g[a6] \in Int /\ g[a7] \in Int
  BY <1>4
<1>6. IsFiniteSet(t1) /\ Total(g, t1) = g[a1]
  BY <1>5, TotalOne, FS_Singleton
<1>7. ASSUME NEW t, NEW y, y \notin t, IsFiniteSet(t), \A x \in t : g[x] \in Int, g[y] \in Int
      PROVE  /\ IsFiniteSet(t \cup {y}) /\ \A x \in t \cup {y} : g[x] \in Int
             /\ Total(g, t \cup {y}) = Total(g, t) + g[y]
  <2>1. \A x \in t \cup {y} : g[x] \in Int
    BY <1>7
  <2>2. IsFiniteSet(t \cup {y})
    BY <1>7, FS_AddElement
  <2>3. Total(g, t \cup {y}) = Total(g, t) + g[y]
    BY <1>7, <2>1, TotalGrow
  <2>4. QED
    BY <2>1, <2>2, <2>3
<1>8. \A x \in t1 : g[x] \in Int
  BY <1>5
<1> HIDE DEF t1
<1>9. IsFiniteSet(t2) /\ (\A x \in t2 : g[x] \in Int) /\ Total(g, t2) = Total(g, t1) + g[a2]
  BY <1>2, <1>5, <1>6, <1>7, <1>8
<1> HIDE DEF t2
<1>10. IsFiniteSet(t3) /\ (\A x \in t3 : g[x] \in Int) /\ Total(g, t3) = Total(g, t2) + g[a3]
  BY <1>2, <1>5, <1>7, <1>9
<1> HIDE DEF t3
<1>11. IsFiniteSet(t4) /\ (\A x \in t4 : g[x] \in Int) /\ Total(g, t4) = Total(g, t3) + g[a4]
  BY <1>2, <1>5, <1>7, <1>10
<1> HIDE DEF t4
<1>12. IsFiniteSet(t5) /\ (\A x \in t5 : g[x] \in Int) /\ Total(g, t5) = Total(g, t4) + g[a5]
  BY <1>2, <1>5, <1>7, <1>11
<1> HIDE DEF t5
<1>13. IsFiniteSet(t6) /\ (\A x \in t6 : g[x] \in Int) /\ Total(g, t6) = Total(g, t5) + g[a6]
  BY <1>2, <1>5, <1>7, <1>12
<1> HIDE DEF t6
<1>14. IsFiniteSet(t7) /\ (\A x \in t7 : g[x] \in Int) /\ Total(g, t7) = Total(g, t6) + g[a7]
  BY <1>2, <1>5, <1>7, <1>13
<1> HIDE DEF t7
<1>15. Total(g, t7) = g[a1] + g[a2] + g[a3] + g[a4] + g[a5] + g[a6] + g[a7]
  BY <1>5, <1>6, <1>9, <1>10, <1>11, <1>12, <1>13, <1>14
<1>16. CASE p.fusion
  <2>1. g[a8] \in Int /\ g[a9] \in Int
    BY <1>3, <1>16
  <2>2. IsFiniteSet(t8) /\ (\A x \in t8 : g[x] \in Int) /\ Total(g, t8) = Total(g, t7) + g[a8]
    BY <1>2, <1>7, <1>14, <2>1
  <2> HIDE DEF t8
  <2>3. IsFiniteSet(t9) /\ Total(g, t9) = Total(g, t8) + g[a9]
    BY <1>2, <1>7, <2>1, <2>2
  <2>4. /\ IsFiniteSet(MainMarks(p))
        /\ Total(g, MainMarks(p)) = g[a1] + g[a2] + g[a3] + g[a4] + g[a5] + g[a6] + g[a7]
                                    + (g[a8] + g[a9])
    BY <1>3, <1>5, <1>15, <1>16, <2>1, <2>2, <2>3
  <2>5. QED
    BY <1>16, <2>4 DEF a1, a2, a3, a4, a5, a6, a7, a8, a9
<1>17. CASE ~p.fusion
  <2>1. /\ IsFiniteSet(MainMarks(p))
        /\ Total(g, MainMarks(p)) = g[a1] + g[a2] + g[a3] + g[a4] + g[a5] + g[a6] + g[a7] + 0
    BY <1>3, <1>5, <1>14, <1>15, <1>17
  <2>2. QED
    BY <1>17, <2>1 DEF a1, a2, a3, a4, a5, a6, a7
<1>18. QED
  BY <1>16, <1>17 DEF Param

\* The marks are ranges of numbers.
LEMMA MarksAreRanges == ASSUME NEW p \in Param PROVE MainMarks(p) \subseteq Nat \X Nat
  BY Quantities DEF MainMarks, FusionMarks, CpointDescBase, CpointDataBase, CpointEnd,
                    IpBmapBase, IpBase, IpBmapBlocks

\* The middle tree and the write-back cache have a block each, used or not.
Gap(p) == IF p.fusion THEN 0 ELSE 2

\* The part of a range in its last chunk, if the range does not end with it.
LEMMA LastPart ==
  ASSUME NEW e \in Nat, NEW u \in Nat, u > 1, u * 32768 >= e, (u - 1) * 32768 < e,
         e % 32768 # 0
  PROVE  (e - 32768) % 32768 = e - (u - 1) * 32768
  OBVIOUS

\* What count_used_blocks_in_chunk() counts, if the pool begins in the first chunk
\* and does not end with a later one.
LEMMA MainUsedIs ==
  ASSUME NEW p \in Param, IpBlocks(p) > 0, IpBase(p) <= BlocksPerChunk,
         ~(UsedChunksEnd(p) > 1 /\ UsedBlocksEnd(p) % BlocksPerChunk = 0), NEW c \in Nat
  PROVE  LET u == UsedChunksEnd(p)
             e == UsedBlocksEnd(p)
         IN  /\ c = 0 => MainUsedInChunk(p, c) = LeastOf(32768, e) - Gap(p)
             /\ 0 < c /\ c < u - 1 => MainUsedInChunk(p, c) = 32768
             /\ 0 < c /\ c = u - 1 => MainUsedInChunk(p, c) = e - c * 32768
             /\ c >= u => MainUsedInChunk(p, c) = 0
<1> DEFINE u == UsedChunksEnd(p)
           e == UsedBlocksEnd(p)
           i == IpBlocks(p)
           base == IpBase(p)
           first == FirstChunkIpBlocks(p)
<1>1. BlocksPerChunk = 32768
  BY DEF BlocksPerChunk, BlockSize
<1>2. /\ i \in Nat /\ base \in Nat /\ e = base + i /\ e \in Nat /\ base > 0
      /\ base = 1 + CpointDescBlocks(p) + CpointDataBlocks(p) + 10 + IpBmapBlocks(p)
      /\ CpointDescBlocks(p) \in Nat /\ CpointDataBlocks(p) \in Nat /\ IpBmapBlocks(p) \in Nat
  BY Quantities DEF UsedBlocksEnd, IpBase, IpBmapBase, IpBmapBlocks, CpointEnd, CpointDataBase,
                    CpointDescBase
<1>3. u \in Nat /\ u * 32768 >= e /\ (u - 1) * 32768 < e /\ u >= 1
  BY <1>2, ChunkRounding DEF UsedChunksEnd
<1>4. first = IF i < 32768 - base THEN i ELSE 32768 - base
  BY <1>1, <1>2 DEF FirstChunkIpBlocks, LeastOf
<1>5. MainUsedInChunk(p, c) =
        IF c >= u THEN 0
        ELSE IF c = 0 THEN 1 + CpointDescBlocks(p) + CpointDataBlocks(p) + 2 + 6
                             + IpBmapBlocks(p) + (IF p.fusion THEN 2 ELSE 0) + first
        ELSE IF c # u - 1 THEN 32768 ELSE (i - first) % 32768
  BY <1>1 DEF MainUsedInChunk
<1>6. u > 1 => e % 32768 # 0
  BY <1>1
<1> HIDE DEF u, e, i, base, first
<1>7. c = 0 => MainUsedInChunk(p, c) = LeastOf(32768, e) - Gap(p)
  BY <1>1, <1>2, <1>3, <1>4, <1>5 DEF LeastOf, Gap
<1>8. 0 < c /\ c < u - 1 => MainUsedInChunk(p, c) = 32768
  BY <1>3, <1>5
<1>9. c >= u => MainUsedInChunk(p, c) = 0
  BY <1>5
<1>10. ASSUME 0 < c, c = u - 1 PROVE MainUsedInChunk(p, c) = e - c * 32768
  <2>1. e > 32768 /\ first = 32768 - base
    BY <1>2, <1>3, <1>4, <1>10
  <2>2. i - first = e - 32768
    BY <1>2, <2>1
  <2>4. (e - 32768) % 32768 = e - (u - 1) * 32768
    BY <1>2, <1>3, <1>6, <1>10, LastPart
  <2>5. QED
    BY <1>3, <1>5, <1>10, <2>2, <2>4
<1>11. QED
  BY <1>7, <1>8, <1>9, <1>10 DEF u, e

\* The bitmap of the main device has as many marks in a chunk.
LEMMA ChunkMarks ==
  ASSUME NEW p \in Param, IpBlocks(p) > 0, IpBmSize(p) > 0, IpBase(p) <= BlocksPerChunk,
         ~(UsedChunksEnd(p) > 1 /\ UsedBlocksEnd(p) % BlocksPerChunk = 0), NEW c \in Nat
  PROVE  SharedBy(MainMarks(p), c) = MainUsedInChunk(p, c)
<1> DEFINE u == UsedChunksEnd(p)
           e == UsedBlocksEnd(p)
           i == IpBlocks(p)
           base == IpBase(p)
           end == CpointEnd(p)
           data == CpointDataBase(p)
           bm == IpBmapBlocks(p)
           g == [m \in Nat \X Nat |-> Shared(m, c)]
<1>1. BlocksPerChunk = 32768
  BY DEF BlocksPerChunk, BlockSize
<1>2. /\ i \in Nat /\ base \in Nat /\ e = base + i /\ e \in Nat /\ base <= 32768
      /\ end \in Nat /\ data \in Nat /\ data = 1 + CpointDescBlocks(p)
      /\ end = data + CpointDataBlocks(p) /\ base = (end + 10) + bm /\ IpBmapBase(p) = end + 10
      /\ CpointDescBlocks(p) \in Nat /\ CpointDataBlocks(p) \in Nat /\ bm \in Nat
  BY <1>1, Quantities DEF UsedBlocksEnd, IpBase, IpBmapBase, IpBmapBlocks, CpointEnd,
                          CpointDataBase, CpointDescBase
<1>3. u \in Nat /\ u * 32768 >= e /\ (u - 1) * 32768 < e /\ u >= 1
  <2>1. e > 0
    BY <1>2 DEF i
  <2>2. QED
    BY <1>2, <2>1, ChunkRounding DEF UsedChunksEnd
<1>4. ASSUME NEW a \in Nat, NEW n \in Nat
      PROVE  LET from == IF a > c * 32768 THEN a ELSE c * 32768
                 to == IF a + n < (c + 1) * 32768 THEN a + n ELSE (c + 1) * 32768
             IN  g[<<a, n>>] = IF from < to THEN to - from ELSE 0
  BY <1>1 DEF Shared, LeastOf
<1>0. \A m \in MainMarks(p) : g[m] = Shared(m, c)
  BY MarksAreRanges
<1> HIDE DEF g
<1>5. ASSUME NEW a \in Nat, NEW n \in Nat PROVE g[<<a, n>>] \in Int
  <2>1. /\ c * 32768 \in Int /\ (c + 1) * 32768 \in Int /\ a + n \in Int
    OBVIOUS
  <2>2. QED
    BY <1>4, <2>1
<1>6. \A m \in MainMarks(p) : g[m] = Shared(m, c) /\ g[m] \in Int
  BY <1>0, <1>5, MarksAreRanges
<1>7. SharedBy(MainMarks(p), c) = Total(g, MainMarks(p))
  BY <1>6, MarksTotal, SharedIs
<1> HIDE DEF u, e, i, base, end, data, bm
<1>8. ASSUME NEW a \in Nat, NEW n \in Nat, a + n <= 32768
      PROVE  g[<<a, n>>] = IF c = 0 THEN n ELSE 0
  BY <1>4, <1>8
<1>9. Total(g, MainMarks(p)) =
        g[<<0, 1>>] + g[<<1, CpointDescBlocks(p)>>] + g[<<data, CpointDataBlocks(p)>>]
        + g[<<end, 2>>] + g[<<end + 2, 6>>] + g[<<end + 10, bm>>] + g[<<base, i>>]
        + (IF p.fusion THEN g[<<end + 8, 1>>] + g[<<end + 9, 1>>] ELSE 0)
  <2>1. Total(g, MainMarks(p)) =
          g[<<0, 1>>] + g[<<CpointDescBase, CpointDescBlocks(p)>>]
          + g[<<CpointDataBase(p), CpointDataBlocks(p)>>]
          + g[<<CpointEnd(p), 2>>] + g[<<CpointEnd(p) + 2, 6>>]
          + g[<<IpBmapBase(p), IpBmapBlocks(p)>>] + g[<<IpBase(p), IpBlocks(p)>>]
          + (IF p.fusion THEN g[<<CpointEnd(p) + 8, 1>>] + g[<<CpointEnd(p) + 9, 1>>] ELSE 0)
    BY <1>6, MarksTotal
  <2>2. CpointDescBase = 1 /\ IpBmapBase(p) = end + 10
    BY <1>2 DEF CpointDescBase
  <2>3. QED
    BY <2>1, <2>2, Zenon DEF data, end, bm, base, i
<1>10. /\ g[<<0, 1>>] = IF c = 0 THEN 1 ELSE 0
       /\ g[<<1, CpointDescBlocks(p)>>] = IF c = 0 THEN CpointDescBlocks(p) ELSE 0
       /\ g[<<data, CpointDataBlocks(p)>>] = IF c = 0 THEN CpointDataBlocks(p) ELSE 0
       /\ g[<<end, 2>>] = IF c = 0 THEN 2 ELSE 0
       /\ g[<<end + 2, 6>>] = IF c = 0 THEN 6 ELSE 0
       /\ g[<<end + 10, bm>>] = IF c = 0 THEN bm ELSE 0
       /\ g[<<end + 8, 1>>] = IF c = 0 THEN 1 ELSE 0
       /\ g[<<end + 9, 1>>] = IF c = 0 THEN 1 ELSE 0
  BY <1>2, <1>8
<1>11. g[<<base, i>>] =
         IF c = 0 THEN LeastOf(32768, e) - base
         ELSE IF c >= u THEN 0 ELSE IF c < u - 1 THEN 32768 ELSE e - c * 32768
  <2>1. LET from == IF base > c * 32768 THEN base ELSE c * 32768
            to == IF base + i < (c + 1) * 32768 THEN base + i ELSE (c + 1) * 32768
        IN  g[<<base, i>>] = IF from < to THEN to - from ELSE 0
    BY <1>2, <1>4
  <2>2. i > 0
    BY DEF i
  <2>3. CASE c = 0
    BY <1>2, <2>1, <2>2, <2>3 DEF LeastOf
  <2>4. CASE c > 0
    BY <1>2, <1>3, <2>1, <2>2, <2>4
  <2>5. QED
    BY <2>3, <2>4
<1>12. CASE c = 0
  <2>1. MainUsedInChunk(p, c) = LeastOf(32768, e) - Gap(p)
    BY <1>12, MainUsedIs DEF e
  <2>2. LeastOf(32768, e) \in Int
    BY <1>2 DEF LeastOf
  <2>3. QED
    BY <1>2, <1>7, <1>9, <1>10, <1>11, <1>12, <2>1, <2>2 DEF Gap
<1>13. CASE c > 0
  <2>1. Total(g, MainMarks(p)) = g[<<base, i>>]
    BY <1>2, <1>3, <1>9, <1>10, <1>11, <1>13
  <2>2. /\ c < u - 1 => MainUsedInChunk(p, c) = 32768
        /\ c = u - 1 => MainUsedInChunk(p, c) = e - c * 32768
        /\ c >= u => MainUsedInChunk(p, c) = 0
    BY <1>13, MainUsedIs DEF u, e
  <2>3. QED
    BY <1>3, <1>7, <1>11, <1>13, <2>1, <2>2
<1>14. QED
  BY <1>12, <1>13

\* The chunks together have the blocks up to the end of the pool.
LEMMA UsedSum ==
  ASSUME NEW p \in Param, IpBlocks(p) > 0, IpBase(p) <= BlocksPerChunk,
         ~(UsedChunksEnd(p) > 1 /\ UsedBlocksEnd(p) % BlocksPerChunk = 0)
  PROVE  CountUsed(p, "main") = UsedBlocksEnd(p) - Gap(p)
<1> DEFINE u == UsedChunksEnd(p)
           e == UsedBlocksEnd(p)
           g == [c \in Nat |-> UsedInChunk(p, "main", c)]
           K == {k \in Nat : k < u => Total(g, 0 .. k) = LeastOf((k + 1) * 32768, e) - Gap(p)}
<1>1. e \in Nat /\ e > 0
  BY Quantities DEF UsedBlocksEnd
<1>2. u \in Nat /\ u * 32768 >= e /\ (u - 1) * 32768 < e /\ u >= 1
  BY <1>1, ChunkRounding DEF UsedChunksEnd
<1>3. Gap(p) \in Int /\ UsedChunks(p, "main") = u
  BY DEF Gap, UsedChunks
<1>4. ASSUME NEW c \in Nat
      PROVE  /\ c = 0 => g[c] = LeastOf(32768, e) - Gap(p)
             /\ 0 < c /\ c < u - 1 => g[c] = 32768
             /\ 0 < c /\ c = u - 1 => g[c] = e - c * 32768
  BY MainUsedIs DEF UsedInChunk
<1>5. \A c \in Nat : g[c] \in Int
  BY UsedType
<1> HIDE DEF g, u, e
<1>6. 0 \in K
  <2>1. 0 .. 0 = {0}
    OBVIOUS
  <2>2. Total(g, 0 .. 0) = g[0]
    BY <1>5, <2>1, TotalOne
  <2>3. (0 + 1) * 32768 = 32768
    OBVIOUS
  <2>4. QED
    BY <1>4, <2>2, <2>3
<1>7. ASSUME NEW k \in Nat, k \in K PROVE k + 1 \in K
  <2> SUFFICES ASSUME k + 1 < u
               PROVE  Total(g, 0 .. (k + 1)) = LeastOf((k + 1 + 1) * 32768, e) - Gap(p)
    OBVIOUS
  <2>1. 0 .. (k + 1) = (0 .. k) \cup {k + 1} /\ k + 1 \notin 0 .. k
    OBVIOUS
  <2>2. IsFiniteSet(0 .. k)
    BY FS_Interval
  <2>3. \A x \in (0 .. k) \cup {k + 1} : g[x] \in Int
    BY <1>5
  <2>4. Total(g, (0 .. k) \cup {k + 1}) = Total(g, 0 .. k) + g[k + 1]
    <3> DEFINE y == k + 1
               S == 0 .. k
    <3>1. IsFiniteSet(S) /\ y \notin S /\ \A x \in S \cup {y} : g[x] \in Int
      BY <2>1, <2>2, <2>3
    <3> HIDE DEF y, S, g
    <3>2. Total(g, S \cup {y}) = Total(g, S) + g[y]
      BY <3>1, TotalGrow
    <3>3. QED
      BY <3>2, Zenon DEF y, S
  <2>5. Total(g, 0 .. k) = LeastOf((k + 1) * 32768, e) - Gap(p)
    BY <1>2, <1>7
  <2>6. LeastOf((k + 1) * 32768, e) = (k + 1) * 32768
    BY <1>1, <1>2 DEF LeastOf
  <2>7. /\ k + 1 \in Nat /\ 0 < k + 1
        /\ k + 1 < u - 1 => g[k + 1] = 32768
        /\ k + 1 = u - 1 => g[k + 1] = e - (k + 1) * 32768
    BY <1>4
  <2>8. (k + 1) * 32768 + g[k + 1] = LeastOf((k + 1 + 1) * 32768, e)
    BY <1>1, <1>2, <2>7 DEF LeastOf
  <2>9. Total(g, 0 .. (k + 1)) = Total(g, 0 .. k) + g[k + 1]
    BY <2>1, <2>4
  <2>10. g[k + 1] \in Int /\ (k + 1) * 32768 \in Int
    BY <1>5
  <2>11. Total(g, 0 .. k) = (k + 1) * 32768 - Gap(p)
    BY <2>5, <2>6
  <2>12. Total(g, 0 .. (k + 1)) = ((k + 1) * 32768 + g[k + 1]) - Gap(p)
    BY <1>3, <2>9, <2>10, <2>11
  <2>13. QED
    BY <2>8, <2>12
<1> HIDE DEF K
<1>8. Nat \subseteq K
  BY <1>6, <1>7, SetInduction
<1>9. u - 1 \in Nat /\ u - 1 < u /\ ((u - 1) + 1) * 32768 = u * 32768
  BY <1>2
<1>10. Total(g, 0 .. (u - 1)) = LeastOf(((u - 1) + 1) * 32768, e) - Gap(p)
  BY <1>8, <1>9 DEF K
<1>11. LeastOf(u * 32768, e) = e
  BY <1>1, <1>2 DEF LeastOf
<1>12. CountUsed(p, "main") = Total(g, 0 .. (u - 1))
  BY <1>3, UsedTotal DEF CountUsed, g
<1>13. QED
  BY <1>9, <1>10, <1>11, <1>12 DEF e

\* And so have the marks.
LEMMA MarksSum ==
  ASSUME NEW p \in Param, IpBmSize(p) > 0
  PROVE  SizeOf(MainMarks(p)) = UsedBlocksEnd(p) - Gap(p)
<1> DEFINE g == [m \in Nat \X Nat |-> m[2]]
<1>1. \A a, n \in Nat : g[<<a, n>>] = n
  OBVIOUS
<1>2. \A m \in MainMarks(p) : g[m] = m[2] /\ g[m] \in Int
  BY MarksAreRanges
<1> HIDE DEF g
<1>3. /\ SizeOf(MainMarks(p)) = Total(g, MainMarks(p))
  BY <1>2, MarksTotal, SizeIs
<1>4. Total(g, MainMarks(p)) =
        g[<<0, 1>>] + g[<<CpointDescBase, CpointDescBlocks(p)>>]
        + g[<<CpointDataBase(p), CpointDataBlocks(p)>>]
        + g[<<CpointEnd(p), 2>>] + g[<<CpointEnd(p) + 2, 6>>]
        + g[<<IpBmapBase(p), IpBmapBlocks(p)>>] + g[<<IpBase(p), IpBlocks(p)>>]
        + (IF p.fusion THEN g[<<CpointEnd(p) + 8, 1>>] + g[<<CpointEnd(p) + 9, 1>>] ELSE 0)
  BY <1>2, MarksTotal
<1>5. /\ CpointDescBase \in Nat /\ CpointDataBase(p) \in Nat /\ CpointEnd(p) \in Nat
      /\ IpBmapBase(p) \in Nat /\ IpBase(p) \in Nat /\ IpBlocks(p) \in Nat
      /\ CpointDescBlocks(p) \in Nat /\ CpointDataBlocks(p) \in Nat /\ IpBmapBlocks(p) \in Nat
      /\ CpointEnd(p) + 2 \in Nat /\ CpointEnd(p) + 8 \in Nat /\ CpointEnd(p) + 9 \in Nat
      /\ UsedBlocksEnd(p) = IpBase(p) + IpBlocks(p)
      /\ IpBase(p) = 1 + CpointDescBlocks(p) + CpointDataBlocks(p) + 10 + IpBmapBlocks(p)
  BY Quantities DEF CpointDescBase, CpointDataBase, CpointEnd, IpBmapBase, IpBase, IpBmapBlocks,
                    UsedBlocksEnd
<1>6. /\ g[<<0, 1>>] = 1
      /\ g[<<CpointDescBase, CpointDescBlocks(p)>>] = CpointDescBlocks(p)
      /\ g[<<CpointDataBase(p), CpointDataBlocks(p)>>] = CpointDataBlocks(p)
      /\ g[<<CpointEnd(p), 2>>] = 2 /\ g[<<CpointEnd(p) + 2, 6>>] = 6
      /\ g[<<IpBmapBase(p), IpBmapBlocks(p)>>] = IpBmapBlocks(p)
      /\ g[<<IpBase(p), IpBlocks(p)>>] = IpBlocks(p)
      /\ g[<<CpointEnd(p) + 8, 1>>] = 1 /\ g[<<CpointEnd(p) + 9, 1>>] = 1
  BY <1>1, <1>5
<1>7. QED
  BY <1>3, <1>4, <1>5, <1>6 DEF Gap

\* The second device has its superblock, or is not there.
LEMMA Tier2Counts ==
  ASSUME NEW p \in Param, NEW ms, ms = IF p.fusion THEN {<<0, 1>>} ELSE {}
  PROVE  /\ CountUsed(p, "tier2") = Tier2UsedEnd(p)
         /\ SizeOf(ms) = Tier2UsedEnd(p)
         /\ \A c \in Nat : SharedBy(ms, c) = Tier2UsedInChunk(p, c)
<1> DEFINE g == [c \in Nat |-> UsedInChunk(p, "tier2", c)]
           n == [m \in {<<0, 1>>} |-> 1]
<1>1. UsedChunks(p, "tier2") = Tier2UsedEnd(p) /\ Tier2UsedEnd(p) = IF p.fusion THEN 1 ELSE 0
  BY DEF UsedChunks, Tier2UsedEnd
<1>2. CountUsed(p, "tier2") = Total(g, 0 .. (Tier2UsedEnd(p) - 1))
  BY <1>1, UsedTotal DEF CountUsed
<1>3. CASE p.fusion
  <2>1. 0 .. (Tier2UsedEnd(p) - 1) = {0} /\ g[0] = 1 /\ Tier2UsedEnd(p) = 1
    BY <1>1, <1>3 DEF UsedInChunk, Tier2UsedInChunk
  <2> HIDE DEF g
  <2>2. CountUsed(p, "tier2") = 1
    BY <1>2, <2>1, TotalOne
  <2>3. IsFiniteSet(ms) /\ ms = {<<0, 1>>}
    BY <1>3, FS_Singleton
  <2>4. SizeOf(ms) = 1
    <3>1. \A m \in ms : n[m] = m[2] /\ n[m] \in Int
      BY <2>3
    <3>2. n[<<0, 1>>] = 1
      OBVIOUS
    <3> HIDE DEF n
    <3>3. SizeOf(ms) = Total(n, ms) /\ Total(n, ms) = 1
      BY <2>3, <3>1, <3>2, SizeIs, TotalOne
    <3>4. QED
      BY <3>3
  <2>5. ASSUME NEW c \in Nat PROVE SharedBy(ms, c) = Tier2UsedInChunk(p, c)
    <3> DEFINE f == [m \in {<<0, 1>>} |-> Shared(m, c)]
    <3>1. Shared(<<0, 1>>, c) = IF c = 0 THEN 1 ELSE 0
      BY DEF Shared, LeastOf, BlocksPerChunk, BlockSize
    <3>2. f[<<0, 1>>] = IF c = 0 THEN 1 ELSE 0
      BY <3>1
    <3>3. \A m \in ms : f[m] = Shared(m, c) /\ f[m] \in Int
      BY <2>3, <3>1
    <3> HIDE DEF f
    <3>4. SharedBy(ms, c) = Total(f, ms)
      BY <2>3, <3>3, SharedIs
    <3>5. Total(f, ms) = f[<<0, 1>>]
      BY <2>3, <3>2, TotalOne
    <3>6. QED
      BY <2>1, <3>2, <3>4, <3>5 DEF Tier2UsedInChunk
  <2>6. QED
    BY <2>1, <2>2, <2>4, <2>5
<1>4. CASE ~p.fusion
  <2>1. 0 .. (Tier2UsedEnd(p) - 1) = {} /\ Tier2UsedEnd(p) = 0
    BY <1>1, <1>4
  <2> HIDE DEF g
  <2>2. CountUsed(p, "tier2") = 0
    BY <1>2, <2>1, TotalEmpty
  <2>3. IsFiniteSet(ms) /\ ms = {}
    BY <1>4, FS_EmptySet
  <2>4. SizeOf(ms) = Total(n, ms)
    BY <2>3, SizeIs
  <2>5. ASSUME NEW c \in Nat PROVE SharedBy(ms, c) = Total(n, ms)
    BY <2>3, SharedIs
  <2>6. Total(n, ms) = 0
    BY <2>3, TotalEmpty
  <2>7. \A c \in Nat : Tier2UsedInChunk(p, c) = 0
    BY <2>1 DEF Tier2UsedInChunk
  <2>8. QED
    BY <2>1, <2>2, <2>4, <2>5, <2>6, <2>7
<1>5. QED
  BY <1>3, <1>4 DEF Param

\* The layout of mkapfs fits: it ends in the main device, the internal pool
\* begins in the first chunk ("This stuff always goes in the first chunk"), and a
\* second device is not empty.
LayoutFits ==
  /\ UsedBlocksEnd(param) <= param.main /\ IpBase(param) <= BlocksPerChunk
  /\ param.fusion => param.tier2 # 0

\* Where the layout fits, mkapfs writes nothing past the end of a device.
THEOREM FitsInBounds == Spec => [](LayoutFits => WritesInDevice)
<1>1. Inv /\ ImageInv => (LayoutFits => WritesInDevice)
  <2> SUFFICES ASSUME Inv, ImageInv, LayoutFits PROVE WritesInDevice
    OBVIOUS
  <2> DEFINE a == Area(param)
  <2>1. param \in Param /\ param.main \in Nat /\ param.tier2 \in Nat
    BY DEF Inv, DiskOK, Param
  <2>2. disk["tier2_super"] <= param.tier2
    <3>1. disk["tier2_super"] \in Nat /\ disk["tier2_super"] <= 1
      BY DEF Inv, Objects, ImageInv, MadeOK
    <3>2. disk["tier2_super"] > 0 => param.tier2 # 0
      BY DEF Inv, DiskOK, LayoutFits
    <3>3. QED
      BY <2>1, <3>1, <3>2
  <2>3. ASSUME NEW o \in MainObjects, disk[o] > 0
        PROVE  Within(Written[o], <<0, param.main>>)
    <3>1. Written[o] = <<a[o][1], disk[o]>> /\ disk[o] \in Nat /\ disk[o] <= a[o][2]
      BY WriteFacts
    <3>2. Accepted
      BY <2>3, <3>1, SMT DEF Inv, GuardsOK
    <3>3. CASE o = "block_zero"
      <4>1. a[o] = <<0, 1>> /\ param.main >= 128
        BY <2>1, <3>2, <3>3 DEF Area, Accepted, BadSizes, MinBlocks, BlockSize
      <4>2. QED
        BY <2>1, <3>1, <4>1 DEF Within
    <3>4. CASE o # "block_zero"
      <4>1. ~EphTooBig(param) /\ ~TooBig(param) /\ ~BadSizes(param)
        <5>1. \E x \in MainObjects \ {"block_zero"} : disk[x] # 0
          BY <2>3, <3>1, <3>4
        <5>2. QED
          BY <3>2, <5>1 DEF Inv, GuardsOK, Accepted
      <4>2. IsRange(a[o])
        BY <2>1, <4>1, AreaDisjoint
      <4>3. o = "middle_tree" => param.fusion
        BY <2>3 DEF ImageInv, MadeOK
      <4>4. PICK m \in MainMarks(param) : Within(a[o], m)
        BY <2>1, <4>1, <4>3, MarkOfObject
      <4>5. m[1] \in Nat /\ m[2] \in Nat /\ m[1] + m[2] <= UsedBlocksEnd(param)
        BY <2>1, Quantities DEF MainMarks, FusionMarks, CpointEnd, CpointDataBase,
             CpointDescBase, IpBmapBase, IpBmapBlocks, IpBase, UsedBlocksEnd
      <4>6. UsedBlocksEnd(param) \in Nat /\ UsedBlocksEnd(param) <= param.main
        BY <2>1, Quantities DEF LayoutFits
      <4> HIDE DEF a
      <4>7. QED
        BY <2>1, <3>1, <4>2, <4>4, <4>5, <4>6 DEF Within, IsRange
    <3>5. QED
      BY <3>3, <3>4
  <2>4. QED
    BY <2>2, <2>3 DEF WritesInDevice
<1>2. QED
  BY <1>1, Invariance, ImageInvariance, PTL

\* Every chunk in use begins before the end of its device.
LEMMA AllChunks ==
  ASSUME NEW p \in Param, NEW d \in {"main", "tier2"}, UsedBlocksEnd(p) <= p.main,
         p.fusion => p.tier2 # 0
  PROVE  Counted(p, d, DevSize(p, d)) = <<DevSize(p, d) - CountUsed(p, d),
                                          DevSize(p, d) - CountUsed(p, d)>>
<1>1. BlocksPerChunk = 32768 /\ p.main \in Nat /\ p.tier2 \in Nat
  BY DEF BlocksPerChunk, BlockSize, Param
<1>2. UsedBlocksEnd(p) \in Nat /\ UsedChunksEnd(p) \in Nat
  BY Quantities
<1>3. UsedBlocksEnd(p) > 0 => (UsedChunksEnd(p) - 1) * 32768 < UsedBlocksEnd(p)
  BY <1>2, ChunkRounding DEF UsedChunksEnd
<1>4. UsedBlocksEnd(p) > 0
  BY Quantities DEF UsedBlocksEnd, IpBase, IpBmapBase, IpBmapBlocks, CpointEnd, CpointDataBase,
                    CpointDescBase
<1>5. ChunksTo(p, d, DevSize(p, d)) = 0 .. (UsedChunks(p, d) - 1)
  <2>1. CASE d = "main"
    BY <1>1, <1>2, <1>3, <1>4, <2>1 DEF ChunksTo, DevSize, UsedChunks
  <2>2. CASE d = "tier2"
    BY <1>1, <2>2 DEF ChunksTo, DevSize, UsedChunks, Tier2UsedEnd, Param
  <2>3. QED
    BY <2>1, <2>2
<1>6. QED
  BY <1>5, Zenon DEF Counted, CountUsed

\* When mkapfs is done the free counts are those of the bitmaps, for all sizes
\* for which the layout fits: the count of each chunk, their sum over the
\* chunk-info blocks, and the total of count_used_blocks().
THEOREM FreeCountsAgree == Spec => [](LayoutFits => FreeCountsMatch)
<1>1. Inv /\ ImageInv /\ FreeOK => (LayoutFits => FreeCountsMatch)
  <2> SUFFICES ASSUME Inv, ImageInv, FreeOK, LayoutFits, pc = "done" PROVE FreeCountsMatch
    BY DEF FreeCountsMatch
  <2>1. param \in Param /\ ~TooBig(param) /\ ~BadSizes(param)
    BY DEF Inv, GuardsOK, Guarded, Accepted
  <2>2. /\ marks["main"] = MainMarks(param)
        /\ marks["tier2"] = IF param.fusion THEN {<<0, 1>>} ELSE {}
    BY DEF ImageInv, MarksOK, BitmapsMade, ObjectsMade, VolumeMade, SuperSealed, MapMade, CheckpointMade
  <2>3. /\ free["main"] = Counted(param, "main", param.main)
        /\ free["tier2"] = Counted(param, "tier2", param.tier2)
    BY DEF FreeOK, DevicesMade, QueuesMade, PoolMade, BitmapsMade, ObjectsMade, VolumeMade,
           SuperSealed, MapMade, CheckpointMade
  <2>4. \A d \in {"main", "tier2"} :
          free[d] = <<DevBlocks(d) - CountUsed(param, d), DevBlocks(d) - CountUsed(param, d)>>
    BY <2>1, <2>3, AllChunks DEF LayoutFits, DevSize, DevBlocks
  <2>5. IpBlocks(param) > 0 /\ IpBmSize(param) > 0
    BY <2>1, PoolFits
  <2>6. FreeCountsOf("tier2")
    <3>1. /\ CountUsed(param, "tier2") = Tier2UsedEnd(param)
          /\ SizeOf(marks["tier2"]) = Tier2UsedEnd(param)
          /\ \A c \in Nat : SharedBy(marks["tier2"], c) = Tier2UsedInChunk(param, c)
      BY <2>1, <2>2, Tier2Counts
    <3>2. \A c \in 0 .. UsedChunks(param, "tier2") : c \in Nat
      OBVIOUS
    <3>3. QED
      BY <2>4, <3>1, <3>2 DEF FreeCountsOf, ChunkFree, UsedInChunk
  <2>7. ASSUME ~PoolEndsChunk PROVE FreeCountsOf("main")
    <3>1. ~(UsedChunksEnd(param) > 1 /\ UsedBlocksEnd(param) % BlocksPerChunk = 0)
      BY <2>7 DEF PoolEndsChunk
    <3>2. CountUsed(param, "main") = UsedBlocksEnd(param) - Gap(param)
      BY <2>1, <2>5, <3>1, UsedSum DEF LayoutFits
    <3>3. SizeOf(marks["main"]) = UsedBlocksEnd(param) - Gap(param)
      BY <2>1, <2>2, <2>5, MarksSum
    <3>4. \A c \in Nat : SharedBy(marks["main"], c) = MainUsedInChunk(param, c)
      BY <2>1, <2>2, <2>5, <3>1, ChunkMarks DEF LayoutFits
    <3>5. \A c \in 0 .. UsedChunks(param, "main") : c \in Nat
      OBVIOUS
    <3>6. QED
      BY <2>4, <3>2, <3>3, <3>4, <3>5 DEF FreeCountsOf, ChunkFree, UsedInChunk
  <2>8. QED
    BY <2>6, <2>7 DEF FreeCountsMatch
<1>2. QED
  BY <1>1, Invariance, ImageInvariance, FreeInvariance, PTL

\* The blocks of 256 TiB.
ManyBlocks == 32768 * (2048 * 1024)

\* Up to 256 TiB, the checkpoint areas and the bitmaps of the internal pool leave
\* the start of the pool in the first chunk.
LEMMA FirstChunk ==
  ASSUME NEW p \in Param, p.tier2 = 0, p.main <= ManyBlocks
  PROVE  IpBase(p) <= BlocksPerChunk
<1> DEFINE n == p.main
           c == ChunkCount(n)
           b == CibCount(n)
           a == CabCount(n)
           s == IpBmSize(p)
<1>1. n \in Nat /\ c \in Nat /\ b \in Nat /\ a \in Nat
  BY InfoCounts DEF Param
<1>2. /\ n > 0 => (c - 1) * 32768 < n
      /\ n = 0 => c = 0
  <2>1. c = DivRoundUp(n, BlocksPerChunk)
    BY DEF ChunkCount
  <2> HIDE DEF n, c
  <2>2. QED
    BY <1>1, <2>1, ChunkRounding
<1>3. /\ (c = 0 => b = 0) /\ (b = 0 => a = 0)
      /\ c > 0 => (b - 1) * 126 < c
      /\ b > 0 => (a - 1) * 507 < b
  <2>1. ChunksPerCib = 126 /\ CibsPerCab = 507
    BY DEF ChunksPerCib, CibsPerCab, BlockSize
  <2>3. b = (c + 126 - 1) \div 126
    BY <2>1 DEF CibCount, DivRoundUp
  <2>4. a = IF (b + 507 - 1) \div 507 = 1 THEN 0 ELSE (b + 507 - 1) \div 507
    BY <2>1 DEF CabCount, DivRoundUp
  <2> HIDE DEF c, b, a, n
  <2>5. QED
    BY <1>1, <2>3, <2>4
<1>4. InfoBlocks(0) = 0
  <2>1. ChunkCount(0) = 0
    BY ChunkRounding DEF ChunkCount
  <2>2. CibCount(0) = 0
    BY <2>1 DEF CibCount, DivRoundUp, ChunksPerCib, BlockSize
  <2>3. CabCount(0) = 0
    BY <2>2 DEF CabCount, DivRoundUp, CibsPerCab, BlockSize
  <2>4. QED
    BY <2>1, <2>2, <2>3 DEF InfoBlocks
<1>5. IpBlocks(p) = 3 * (c + b + a)
  BY <1>1, <1>4 DEF IpBlocks, InfoBlocks
<1>6. s \in Nat /\ (IpBlocks(p) > 0 => (s - 1) * 32768 < IpBlocks(p))
      /\ (IpBlocks(p) = 0 => s = 0) /\ IpBlocks(p) \in Nat
  <2>1. IpBlocks(p) \in Nat /\ s = DivRoundUp(IpBlocks(p), BlocksPerChunk)
    BY Quantities DEF IpBmSize
  <2> DEFINE i == IpBlocks(p)
  <2> HIDE DEF s, i
  <2>2. i \in Nat /\ s = DivRoundUp(i, BlocksPerChunk)
    BY <2>1 DEF i
  <2>3. s \in Nat /\ (i > 0 => (s - 1) * 32768 < i) /\ (i = 0 => s = 0)
    BY <2>2, ChunkRounding
  <2>4. QED
    BY <2>2, <2>3 DEF i
<1>7. IpBase(p) <= 27963 + 16 * s
  BY <1>6, Quantities DEF IpBase, IpBmapBase, IpBmapBlocks, CpointEnd, CpointDataBase,
                          CpointDescBase
<1> HIDE DEF n, c, b, a, s
<1>8. n <= ManyBlocks
  BY DEF n
<1>9. c <= 2048 * 1024 + 1
  BY <1>1, <1>2, <1>3, <1>8, SMT DEF ManyBlocks
<1>10. b <= 16645
  BY <1>1, <1>3, <1>9, SMT
<1>11. a <= 34
  BY <1>1, <1>3, <1>10
<1>12. s <= 195
  BY <1>1, <1>5, <1>6, <1>9, <1>10, <1>11, SMT
<1>13. IpBase(p) \in Nat /\ BlocksPerChunk = 32768
  BY Quantities DEF BlocksPerChunk, BlockSize
<1>14. QED
  BY <1>6, <1>7, <1>12, <1>13

\* On a single device of up to 256 TiB the free counts agree with the bitmaps.
THEOREM SingleDeviceCounts ==
  (\A r \in Requests : ~r.fusion /\ r.mainDev <= ManyBlocks) => (Spec => []FreeCountsMatch)
<1> SUFFICES ASSUME \A r \in Requests : ~r.fusion /\ r.mainDev <= ManyBlocks
             PROVE  Spec => []FreeCountsMatch
  OBVIOUS
<1>1. Inv /\ FreeOK /\ (LayoutFits => FreeCountsMatch) => FreeCountsMatch
  <2> SUFFICES ASSUME Inv, FreeOK, pc = "done" PROVE LayoutFits
    BY DEF FreeCountsMatch
  <2>1. param \in Param /\ ~param.fusion /\ param.main \in Nat /\ req \in Requests
    BY DEF Inv, DiskOK, Param
  <2>2. param.tier2 = 0 /\ param.main >= 128
    BY <2>1 DEF Inv, GuardsOK, Guarded, Accepted, BadSizes, MinBlocks, BlockSize
  <2>3. UsedBlocksEnd(param) <= param.main
    BY <2>1, <2>2, SingleDeviceFits
  <2>4. param.main <= req.mainDev /\ req.mainDev \in Nat
    BY <2>1, RequestsAssumption DEF FreeOK
  <2>5. param.main <= ManyBlocks
    BY <2>1, <2>4, SMT DEF ManyBlocks
  <2>6. QED
    BY <2>1, <2>2, <2>3, <2>5, FirstChunk DEF LayoutFits
<1>2. QED
  BY <1>1, Invariance, FreeInvariance, FreeCountsAgree, PTL
=============================================================================
