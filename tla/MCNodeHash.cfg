SPECIFICATION Spec
CONSTANT Parts = {"queries"}
INVARIANT OnlyAccepted
CHECK_DEADLOCK FALSE
