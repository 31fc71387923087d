SPECIFICATION Spec
CONSTANT Parts = {"indexer"}
INVARIANT IndexServes
CHECK_DEADLOCK FALSE
