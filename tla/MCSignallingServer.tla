-------------------------- MODULE MCSignallingServer --------------------------
(* Small instances of SignallingServer for TLC. *)
EXTENDS SignallingServer, TLC

CONSTANTS i1, i2, r1, r2, s1, s2, s3

(* i2 belongs to a pairing of its own. *)
TwoPairings == [h \in Handler |-> IF h = i2 THEN "q" ELSE "p"]

OnePairing == [h \in Handler |-> "p"]

(* Nothing is relayed. *)
NoRelay == [h \in Handler |-> 0]

(* Two messages of a responder follow its peerConnect; the initiator of    *)
(* its pairing relays one, that of the other, whom nobody joins, none.     *)
Relays ==
    [h \in Handler |->
        CASE h \in Responder -> 2
          [] h \in Initiator /\ Pairing[h] = "p" -> 1
          [] OTHER -> 0]

(* Sockets are interchangeable, and so are responders of one pairing. *)
Symmetry == Permutations(Socket) \union Permutations(Responder)

(* Any handler on any socket. *)
AnySocket == [h \in Handler |-> Socket]

(* Which socket a request arrives on makes no difference as long as each   *)
(* role has its own: fixing it takes the place of the symmetry that TLC    *)
(* cannot use when it checks liveness.                                     *)
SocketPerRole == [h \in Handler |-> IF h \in Initiator THEN {s1} ELSE {s2}]
=============================================================================
