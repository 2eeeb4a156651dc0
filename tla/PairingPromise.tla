----------------------------- MODULE PairingPromise -----------------------------
(***************************************************************************)
(* What the pairing server promises the two sides of a pairing, without    *)
(* sessions, channels, queues or timers: a creator's shortcode brings it   *)
(* one redeemer that presented it, or expires; its client is told which,   *)
(* once, or has left; and only after that is the redeemer, once, handed    *)
(* the credentials.  One other than the redeemer that the creator accepted *)
(* is handed them only if the shortcode was guessed before the creator     *)
(* waited.  PairingServer is shown to implement this.                      *)
(***************************************************************************)

CONSTANTS
    Creator,   \* those that ask for a shortcode
    Redeemer,  \* those that present one
    Code,      \* the shortcodes
    NONE

VARIABLES
    code,     \* the shortcode of each creator, or NONE
    typed,    \* the shortcode each redeemer has presented, or NONE
    guessed,  \* creators whose shortcode was presented too early
    peer,     \* the redeemer that a creator has accepted, or NONE
    told,     \* what the creator's client has been told, or NONE
    entry     \* the creator whose pairing a redeemer was handed, or NONE

vars == <<code, typed, guessed, peer, told, entry>>

Init == /\ code = [c \in Creator |-> NONE]
        /\ typed = [r \in Redeemer |-> NONE]
        /\ guessed = {}
        /\ peer = [c \in Creator |-> NONE]
        /\ told = [c \in Creator |-> NONE]
        /\ entry = [r \in Redeemer |-> NONE]

Undecided(c) == peer[c] = NONE /\ told[c] = NONE

(* A creator is given a shortcode, which somebody may have guessed. *)
Choose(c, k) ==
    /\ code[c] = NONE /\ Undecided(c)
    /\ code' = [code EXCEPT ![c] = k]
    /\ guessed' = guessed \union {d \in {c} : \E r \in Redeemer : typed[r] = k}
    /\ UNCHANGED <<typed, peer, told, entry>>

(* A redeemer presents a shortcode, too early for some of its creators. *)
Present(r, k) ==
    /\ typed[r] = NONE /\ entry[r] = NONE
    /\ typed' = [typed EXCEPT ![r] = k]
    /\ \E C \in SUBSET {c \in Creator : code[c] = k /\ Undecided(c)} :
          guessed' = guessed \union C
    /\ UNCHANGED <<code, peer, told, entry>>

(* A creator accepts a redeemer, of which its client, unless it has left,  *)
(* is told.                                                                *)
Accept(c, r) ==
    /\ Undecided(c)
    /\ code[c] # NONE /\ typed[r] = code[c]
    /\ peer' = [peer EXCEPT ![c] = r]
    /\ told' \in {told, [told EXCEPT ![c] = "paired"]}
    /\ UNCHANGED <<code, typed, guessed, entry>>

Expire(c) ==
    /\ Undecided(c)
    /\ code[c] # NONE
    /\ told' = [told EXCEPT ![c] = "expired"]
    /\ UNCHANGED <<code, typed, guessed, peer, entry>>

(* A redeemer is handed the credentials of a creator that has accepted one *)
(* that presented the same shortcode.                                      *)
Hand(r, c) ==
    /\ entry[r] = NONE
    /\ peer[c] # NONE /\ typed[r] = code[c]
    /\ peer[c] = r \/ c \in guessed
    /\ entry' = [entry EXCEPT ![r] = c]
    /\ UNCHANGED <<code, typed, guessed, peer, told>>

Next ==
    \/ \E c \in Creator, k \in Code : Choose(c, k)
    \/ \E r \in Redeemer, k \in Code : Present(r, k)
    \/ \E c \in Creator, r \in Redeemer : Accept(c, r) \/ Hand(r, c)
    \/ \E c \in Creator : Expire(c)

Spec == Init /\ [][Next]_vars

=============================================================================
