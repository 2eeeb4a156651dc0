------------------------------ MODULE Rendezvous ------------------------------
(***************************************************************************)
(* What the signalling server promises its clients about matching, without *)
(* sockets, channels or a database: an initiator makes one offer, and the  *)
(* offer is taken by at most one responder of its pairing, or withdrawn,   *)
(* and never comes back.  SignallingServer is shown to implement this.     *)
(***************************************************************************)

CONSTANTS
    Initiator,  \* requests that offer a channel
    Responder,  \* requests that look for one
    Pairing,    \* the pairing each request was authenticated for
    NONE

VARIABLES
    status,     \* status[i]: what has become of initiator i's offer
    match       \* match[r]: the offer responder r has taken, or NONE

vars == <<status, match>>

Init == /\ status = [i \in Initiator |-> "absent"]
        /\ match = [r \in Responder |-> NONE]

(* An initiator's entry becomes visible to responders. *)
Offer(i) == /\ status[i] = "absent"
            /\ status' = [status EXCEPT ![i] = "offered"]
            /\ UNCHANGED match

(* A responder takes an offer of its own pairing, and no longer looks. *)
Take(r, i) == /\ status[i] = "offered"
              /\ match[r] = NONE
              /\ Pairing[r] = Pairing[i]
              /\ status' = [status EXCEPT ![i] = "taken"]
              /\ match' = [match EXCEPT ![r] = i]

(* Offers are cleared, expire, or are abandoned before they were made; the *)
(* failure of one isolate may end several at once.                         *)
Withdraw(I) ==
    /\ I \subseteq {i \in Initiator : status[i] \in {"absent", "offered"}}
    /\ status' = [i \in Initiator |-> IF i \in I THEN "withdrawn" ELSE status[i]]
    /\ UNCHANGED match

Next == \/ \E i \in Initiator : Offer(i)
        \/ \E I \in SUBSET Initiator : Withdraw(I)
        \/ \E r \in Responder, i \in Initiator : Take(r, i)

Spec == Init /\ [][Next]_vars

=============================================================================
