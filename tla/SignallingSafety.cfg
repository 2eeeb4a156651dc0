SPECIFICATION Spec
CONSTANTS
    NONE = NONE
    i1 = i1
    i2 = i2
    r1 = r1
    r2 = r2
    s1 = s1
    s2 = s2
    s3 = s3
    Socket = {s1, s2, s3}
    Initiator = {i1, i2}
    Responder = {r1, r2}
    Pairing <- TwoPairings
    ClientType = {"data"}
    MaxRelay <- Relays
    Home <- AnySocket
    Resend = FALSE
    Faults = {"kv"}
SYMMETRY Symmetry
INVARIANT IInv
INVARIANT ClaimExclusive
INVARIANT PairIsolation
INVARIANT RelayOrder
PROPERTY Matching
