SPECIFICATION FairSpec
CONSTANT NONE = NONE
INVARIANT IInv
INVARIANT SessionClosed
INVARIANT PanicFree
PROPERTY ServerEndNoticed
PROPERTY DisconnectEnds
CHECK_DEADLOCK FALSE
