SPECIFICATION Spec
CONSTANT Requests <- AllSizes
INVARIANTS NoClobber WritesInDevice BitmapsMatch FreeCountsMatch ChecksumsHold CheckpointMeansWhole
PROPERTIES DevicesCovered
