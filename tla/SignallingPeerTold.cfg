SPECIFICATION LiveSpec
CONSTANTS
    NONE = NONE
    i1 = i1
    i2 = i2
    r1 = r1
    r2 = r2
    s1 = s1
    s2 = s2
    s3 = s3
    Socket = {s1, s2}
    Initiator = {i1}
    Responder = {r1}
    Pairing <- OnePairing
    ClientType = {"data"}
    MaxRelay <- NoRelay
    Home <- AnySocket
    Resend = FALSE
    Faults = {}
PROPERTY PeerToldOfDisconnect
