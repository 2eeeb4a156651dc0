SPECIFICATION Spec
CONSTANTS
    NONE = NONE
    Client = {a, b}
    Id = {i, j}
    Data = {x, y}
    Crashes = TRUE
    Failures = TRUE
INVARIANT Durable
INVARIANT IInv
PROPERTY ImplementsMap
