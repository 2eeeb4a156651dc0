SPECIFICATION Spec
CONSTANT NONE = NONE
INVARIANT DialFailureReported
CHECK_DEADLOCK FALSE
