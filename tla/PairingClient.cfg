SPECIFICATION FairClientSpec
CONSTANTS
    NONE = NONE
    Creator = {c1}
    Redeemer = {r1, r2}
    Code = {k1, k2}
INVARIANT KeysMatch
INVARIANT KeptAgreed
INVARIANT ClientInv
PROPERTY KeptTogether
PROPERTY ApiReturns
