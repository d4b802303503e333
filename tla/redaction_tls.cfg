\* The walk ends: CHECK_DEADLOCK FALSE.
SPECIFICATION Apply
CONSTANT Documents <- SmallDocuments
CHECK_DEADLOCK FALSE
INVARIANT TLSMaterialHidden
