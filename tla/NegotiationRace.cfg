SPECIFICATION Spec
CONSTANTS
    NONE = NONE
    Candidates = 1
    MayFail = FALSE
PROPERTY LateConnectSurvives
CHECK_DEADLOCK FALSE
