SPECIFICATION FairSpec
CONSTANTS
    NONE = NONE
    Creator = {c1, c2}
    Redeemer = {r1, r2}
    Code = {k1, k2}
PROPERTY KeepsPromise
INVARIANT NoLateRedemption
INVARIANT OneInitiator
INVARIANT Agreement
INVARIANT IInv
PROPERTY PairedTogether
PROPERTY CallsEnd
