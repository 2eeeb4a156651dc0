SPECIFICATION FairSpec
CONSTANTS
    NONE = NONE
    Candidates = 1
    MayFail = TRUE
INVARIANT IInv
INVARIANT MessagesUsed
INVARIANT AnswerFindsOffer
PROPERTY Settles
PROPERTY CloseTogether
CHECK_DEADLOCK FALSE
