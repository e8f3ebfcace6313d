SPECIFICATION Spec
CONSTANT Requests <- SmallMain
INVARIANT WritesInDevice
