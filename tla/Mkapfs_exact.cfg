SPECIFICATION Spec
CONSTANT Requests <- ExactEnd
INVARIANT FreeCountsExact
