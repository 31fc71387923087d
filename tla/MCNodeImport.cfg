SPECIFICATION Spec
CONSTANT Parts = {"vm"}
INVARIANT AcceptSucceeds
CHECK_DEADLOCK FALSE
