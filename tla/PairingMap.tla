------------------------------ MODULE PairingMap ------------------------------
(***************************************************************************)
(* What a PairingStorage promises: a map from pairing IDs to pairing data, *)
(* as inMemoryPairingStorage keeps it.  A storage that may lose its        *)
(* contents loses all of them together, never some of them.                *)
(***************************************************************************)
CONSTANTS
    Id,       \* pairing IDs
    Data,     \* pairing data
    MayLose,  \* whether the storage may be reset by a failure
    NONE

VARIABLE store  \* store[i]: the data saved for pairing i, or NONE

Empty == [i \in Id |-> NONE]

Init == store = Empty

savePairing(i, d) == store' = [store EXCEPT ![i] = d]
deletePairing(i) == store' = [store EXCEPT ![i] = NONE]
clearAllPairings == store' = Empty
Lose == MayLose /\ store' = Empty

Next == \/ \E i \in Id, d \in Data : savePairing(i, d)
        \/ \E i \in Id : deletePairing(i)
        \/ clearAllPairings
        \/ Lose

Spec == Init /\ [][Next]_store

=============================================================================
