----------------------------- MODULE PairingServer -----------------------------
(***************************************************************************)
(* The pairing server: one device (a creator) asks for a shortcode, the    *)
(* other (a redeemer) presents it, and both are given credentials for one  *)
(* pairing.  They meet on an in-memory channel named by the shortcode.     *)
(*                                                                         *)
(* A creator is one call of createPairingRequest and stands also for the   *)
(* pairingId it makes up; a redeemer is one call of                        *)
(* respondToPairingRequest.  Channel listeners run synchronously, and      *)
(* whatever their messages wake runs before the next event: Confirm and    *)
(* TakeConfirm are such microtasks, every other action waits until none of *)
(* them is pending (Quiet).                                                *)
(***************************************************************************)
EXTENDS Naturals, Sequences

CONSTANTS
    Creator,     \* calls of createPairingRequest
    Redeemer,    \* calls of respondToPairingRequest
    Code,        \* what shortcodeGenerator may return
    NONE

ASSUME SessionAssumption == Creator \intersect Redeemer = {}
ASSUME NoneAssumption ==
    NONE \notin Creator \union Redeemer \union Code \union {"paired", "expired"}

VARIABLES
    pc,         \* where each call is
    code,       \* the shortcode of each creator, or NONE
    gone,       \* creators whose client has disconnected
    typed,      \* the shortcode each redeemer presented, or NONE
    responses,  \* responseQueue of each creator's session
    confirms,   \* confirmQueue of each redeemer's session
    peer,       \* the redeemer whose response a creator took, or NONE
    entry,      \* the creator whose confirmation a redeemer took, or NONE
    told,       \* the status sent to each creator's client, or NONE
    missed,     \* history: creators already settled when a redeemer began
    early       \* history: creators not yet waiting when a redeemer began

asked == <<code, gone, typed>>
sessions == <<responses, confirms>>
outcome == <<peer, entry, told>>
history == <<missed, early>>

vars == <<pc, asked, sessions, outcome, history>>

Open == {"sending", "offered"}
Settled == {"paired", "expired", "failed"}
CreatorPC == {"opening", "signing", "closed"} \union Open \union Settled
RedeemerPC == {"idle", "waiting", "signing", "paired", "failed"}

(* Creators whose session listens on the channel of a code.  Listeners are *)
(* never removed.                                                          *)
Listeners(k) == {c \in Creator : code[c] = k /\ pc[c] \in Open \union Settled}

Init ==
    /\ pc = [s \in Creator \union Redeemer |->
                IF s \in Creator THEN "opening" ELSE "idle"]
    /\ code = [c \in Creator |-> NONE]
    /\ gone = {}
    /\ typed = [r \in Redeemer |-> NONE]
    /\ responses = [c \in Creator |-> <<>>]
    /\ confirms = [r \in Redeemer |-> <<>>]
    /\ peer = [c \in Creator |-> NONE]
    /\ entry = [r \in Redeemer |-> NONE]
    /\ told = [c \in Creator |-> NONE]
    /\ missed = [r \in Redeemer |-> {}]
    /\ early = [r \in Redeemer |-> {}]

(* Mutant: a session answers after its call has ended. *)
ConfirmableAfterwards(c) ==
    pc[c] \in {"offered", "paired", "expired"} /\ responses[c] # <<>>

Confirmable(c) == pc[c] = "offered" /\ responses[c] # <<>>
Takeable(r) == pc[r] = "waiting" /\ confirms[r] # <<>>

Quiet == /\ \A c \in Creator : ~Confirmable(c)
         /\ \A r \in Redeemer : ~Takeable(r)

-----------------------------------------------------------------------------
(* createPairingRequest *)

(* No opening message within RESPONSE_TIMEOUT, or not a valid one. *)
Refuse(c) ==
    /\ Quiet
    /\ pc[c] = "opening"
    /\ pc' = [pc EXCEPT ![c] = "closed"]
    /\ UNCHANGED <<asked, sessions, outcome, history>>

(* A valid opening message: shortcode and pairingId are generated, and the *)
(* token is signed, which takes until a later event.  Nothing keeps the    *)
(* generator from a shortcode that is in use.                              *)
Opening(c) ==
    /\ Quiet
    /\ pc[c] = "opening"
    /\ pc' = [pc EXCEPT ![c] = "signing"]
    /\ \E k \in Code : code' = [code EXCEPT ![c] = k]
    /\ UNCHANGED <<gone, typed, sessions, outcome, history>>

(* Listen on the shortcode's channel, send the initial data and, once that *)
(* is sent, at once or later, wait for a response.  To a client that has   *)
(* gone sending throws, outside of any try, and the listener stays.        *)
Offer(c) ==
    /\ Quiet
    /\ pc[c] = "signing"
    /\ \/ c \in gone /\ pc' = [pc EXCEPT ![c] = "failed"]
       \/ c \notin gone /\ \E to \in Open : pc' = [pc EXCEPT ![c] = to]
    /\ UNCHANGED <<asked, sessions, outcome, history>>

(* The initial data has been sent or, to a client that went meanwhile, has *)
(* failed to be.                                                           *)
SendDone(c) ==
    /\ Quiet
    /\ pc[c] = "sending"
    /\ \/ pc' = [pc EXCEPT ![c] = "offered"]
       \/ c \in gone /\ pc' = [pc EXCEPT ![c] = "failed"]
    /\ UNCHANGED <<asked, sessions, outcome, history>>

(* Mutant: 'expired' is sent after 'paired' as well. *)
ConcludeTwice(c, status) ==
    IF c \in gone
    THEN pc' = [pc EXCEPT ![c] = "failed"] /\ UNCHANGED told
    ELSE pc' = [pc EXCEPT ![c] = status] /\ told' = [told EXCEPT ![c] = "expired"]

(* What the client is told, and the end of the call.  To a client that has *)
(* gone sending throws, and so does the 'expired' of the catch block.      *)
Conclude(c, status) ==
    IF c \in gone
    THEN pc' = [pc EXCEPT ![c] = "failed"] /\ UNCHANGED told
    ELSE pc' = [pc EXCEPT ![c] = status] /\ told' = [told EXCEPT ![c] = status]

(* Mutant: the confirmation goes to the channel of every code. *)
HearersOfAll(k) == {r \in Redeemer : typed[r] # NONE}

(* The redeemers that hear a confirmation on the channel of a code. *)
Hearers(k) == {r \in Redeemer : typed[r] = k}

(* Mutant: the session goes on waiting after it has confirmed. *)
ConfirmAgain(c) ==
    /\ Confirmable(c)
    /\ peer' = [peer EXCEPT ![c] = Head(responses[c])]
    /\ responses' = [responses EXCEPT ![c] = Tail(@)]
    /\ confirms' = [r \in Redeemer |->
                        IF r \in Hearers(code[c]) THEN Append(confirms[r], c)
                        ELSE confirms[r]]
    /\ told' = [told EXCEPT ![c] = "paired"]
    /\ UNCHANGED <<pc, asked, entry, history>>

(* Mutant: the status is sent before the confirmation, which is skipped    *)
(* when the client has gone.                                               *)
ConfirmSilently(c) ==
    /\ Confirmable(c)
    /\ peer' = [peer EXCEPT ![c] = Head(responses[c])]
    /\ responses' = [responses EXCEPT ![c] = Tail(@)]
    /\ Conclude(c, "paired")
    /\ UNCHANGED <<asked, confirms, entry, history>>

(* A response arrived: confirm to everyone on the channel, then tell the   *)
(* client.                                                                 *)
Confirm(c) ==
    /\ Confirmable(c)
    /\ peer' = [peer EXCEPT ![c] = Head(responses[c])]
    /\ responses' = [responses EXCEPT ![c] = Tail(@)]
    /\ confirms' = [r \in Redeemer |->
                        IF r \in Hearers(code[c]) THEN Append(confirms[r], c)
                        ELSE confirms[r]]
    /\ Conclude(c, "paired")
    /\ UNCHANGED <<asked, entry, history>>

(* No response within EXPIRY_MILLIS. *)
Expire(c) ==
    /\ Quiet
    /\ pc[c] = "offered"
    /\ Conclude(c, "expired")
    /\ UNCHANGED <<asked, sessions, peer, entry, history>>

ClientLeaves(c) ==
    /\ Quiet
    /\ c \notin gone
    /\ pc[c] \notin {"closed"} \union Settled
    /\ gone' = gone \union {c}
    /\ UNCHANGED <<pc, code, typed, sessions, outcome, history>>

-----------------------------------------------------------------------------
(* respondToPairingRequest *)

(* Listen on the code's channel, send a response to everyone on it and     *)
(* wait for a confirmation.                                                *)
Redeem(r, k) ==
    /\ Quiet
    /\ pc[r] = "idle"
    /\ pc' = [pc EXCEPT ![r] = "waiting"]
    /\ typed' = [typed EXCEPT ![r] = k]
    /\ responses' = [c \in Creator |->
                        IF c \in Listeners(k) THEN Append(responses[c], r)
                        ELSE responses[c]]
    /\ missed' = [missed EXCEPT ![r] = {c \in Creator : pc[c] \in Settled}]
    /\ early' = [early EXCEPT ![r] =
                    {c \in Creator : pc[c] \in {"opening", "signing", "sending"}}]
    /\ UNCHANGED <<code, gone, confirms, outcome>>

(* A confirmation arrived: the token for its pairing is signed. *)
TakeConfirm(r) ==
    /\ Takeable(r)
    /\ entry' = [entry EXCEPT ![r] = Head(confirms[r])]
    /\ confirms' = [confirms EXCEPT ![r] = Tail(@)]
    /\ pc' = [pc EXCEPT ![r] = "signing"]
    /\ UNCHANGED <<asked, responses, peer, told, history>>

(* The details are returned. *)
Signed(r) ==
    /\ Quiet
    /\ pc[r] = "signing"
    /\ pc' = [pc EXCEPT ![r] = "paired"]
    /\ UNCHANGED <<asked, sessions, outcome, history>>

(* Mutant: a call that has timed out waits again. *)
RedeemWaitsAgain(r) ==
    /\ Quiet
    /\ pc[r] = "waiting"
    /\ UNCHANGED vars

(* No confirmation within RESPONSE_TIMEOUT: 'Shortcode does not exist!'. *)
RedeemTimeout(r) ==
    /\ Quiet
    /\ pc[r] = "waiting"
    /\ pc' = [pc EXCEPT ![r] = "failed"]
    /\ UNCHANGED <<asked, sessions, outcome, history>>

-----------------------------------------------------------------------------

Finished ==
    /\ \A c \in Creator : pc[c] \in {"closed"} \union Settled
    /\ \A r \in Redeemer : pc[r] \in {"idle", "paired", "failed"}
    /\ UNCHANGED vars

CreatorStep(c) ==
    \/ Refuse(c) \/ Opening(c) \/ Offer(c) \/ SendDone(c)
    \/ Confirm(c) \/ Expire(c) \/ ClientLeaves(c)

RedeemerStep(r) ==
    \/ TakeConfirm(r) \/ Signed(r) \/ RedeemTimeout(r)
    \/ \E k \in Code : Redeem(r, k)

Next ==
    \/ \E c \in Creator : CreatorStep(c)
    \/ \E r \in Redeemer : RedeemerStep(r)
    \/ Finished

Spec == Init /\ [][Next]_vars

(* Microtasks run, signing and sending complete, timers fire. *)
Fairness ==
    /\ \A c \in Creator : /\ WF_vars(Refuse(c)) /\ WF_vars(Offer(c))
                          /\ WF_vars(SendDone(c)) /\ WF_vars(Confirm(c))
                          /\ WF_vars(Expire(c))
    /\ \A r \in Redeemer : /\ WF_vars(TakeConfirm(r)) /\ WF_vars(Signed(r))
                           /\ WF_vars(RedeemTimeout(r))

FairSpec == Spec /\ Fairness

-----------------------------------------------------------------------------
(* Properties. *)

(* The type of every variable. *)
TypeOK ==
    /\ pc \in [Creator \union Redeemer -> CreatorPC \union RedeemerPC]
    /\ \A c \in Creator : pc[c] \in CreatorPC
    /\ \A r \in Redeemer : pc[r] \in RedeemerPC
    /\ code \in [Creator -> Code \union {NONE}]
    /\ \A c \in Creator : code[c] = NONE <=> pc[c] \in {"opening", "closed"}
    /\ gone \subseteq Creator
    /\ typed \in [Redeemer -> Code \union {NONE}]
    /\ responses \in [Creator -> Seq(Redeemer)]
    /\ confirms \in [Redeemer -> Seq(Creator)]
    /\ peer \in [Creator -> Redeemer \union {NONE}]
    /\ entry \in [Redeemer -> Creator \union {NONE}]
    /\ told \in [Creator -> {"paired", "expired", NONE}]
    /\ missed \in [Redeemer -> SUBSET Creator]
    /\ early \in [Redeemer -> SUBSET Creator]

(* Only someone who presented its shortcode is given a pairing, and only   *)
(* one that some redeemer of that shortcode was accepted for.              *)
EntryByCode ==
    \A r \in Redeemer : LET c == entry[r] IN
        c # NONE => /\ typed[r] = code[c]
                    /\ peer[c] # NONE
                    /\ typed[peer[c]] = code[c]

(* A shortcode that was redeemed, has expired or was given up before a     *)
(* redeemer presented it gets that redeemer nothing: the late listener     *)
(* hears no confirmation, even if the shortcode is in use again.           *)
NoLateRedemption == \A r \in Redeemer : entry[r] \notin missed[r]

(* Somebody presented c's shortcode before c waited for a response. *)
Guessed(c) == \E r \in Redeemer : typed[r] = code[c] /\ c \in early[r]

(* A shortcode that nobody presents before its creator waits for a         *)
(* response gives the credentials of the pairing only to the redeemer      *)
(* whose key the creator's client is given, although confirmations are     *)
(* broadcast, and even when two creators share the shortcode.              *)
OneInitiator ==
    \A r \in Redeemer :
        entry[r] # NONE => peer[entry[r]] = r \/ Guessed(entry[r])

(* The two sides agree: what one is told of a pairing holds on the other,  *)
(* save for a client that has left.                                        *)
Agreement ==
    \A c \in Creator :
        /\ told[c] = "expired" => \A r \in Redeemer : entry[r] # c
        /\ \A r \in Redeemer : entry[r] = c => c \in gone \/ told[c] = "paired"

(* PairingServer implements the abstract promise. *)
guessed == {c \in Creator : Guessed(c)}

P == INSTANCE PairingPromise

(* What either side has learned of a pairing it has learned once and for   *)
(* good, and in the order accept, tell, hand over, however late messages,  *)
(* timers and broadcasts come.                                             *)
KeepsPromise == P!Spec

Shared(c) == \E d \in Creator \ {c} : code[d] = code[c]

(* A redeemer named to the creator's client does get its credentials,      *)
(* provided that the shortcode was the creator's own and was not guessed.  *)
PairedTogether ==
    \A c \in Creator, r \in Redeemer :
        (told[c] = "paired" /\ peer[c] = r) ~>
            (pc[r] = "paired" /\ entry[r] = c) \/ Shared(c) \/ Guessed(c)

(* No call waits for ever: whatever races with its timers, every creator   *)
(* and redeemer comes to an end.                                           *)
CallsEnd ==
    /\ \A c \in Creator : <>(pc[c] \in {"closed"} \union Settled)
    /\ \A r \in Redeemer : pc[r] = "waiting" ~> pc[r] \in {"paired", "failed"}

-----------------------------------------------------------------------------
(* Named parts of the inductive invariant. *)

(* A redeemer has presented a shortcode from the start of its call on, and *)
(* waits for what it has not got.                                          *)
Presented ==
    \A r \in Redeemer :
        /\ typed[r] = NONE <=> pc[r] = "idle"
        /\ pc[r] \in {"idle", "waiting"} => entry[r] = NONE

(* How the call of a creator that was told of a response, or that there    *)
(* was none, or that has taken one has ended.                              *)
Concluded ==
    \A c \in Creator :
        /\ told[c] # NONE => pc[c] = told[c]
        /\ peer[c] # NONE => \/ pc[c] = "paired" /\ told[c] = "paired"
                             \/ pc[c] = "failed" /\ c \in gone

(* Responses come from redeemers that presented the creator's shortcode. *)
Answered ==
    \A c \in Creator : \A n \in DOMAIN responses[c] :
        code[c] # NONE /\ typed[responses[c][n]] = code[c]

(* What the history variables say of creators that have or have not ended. *)
Remembered ==
    \A r \in Redeemer, c \in Creator :
        /\ c \in missed[r] => pc[c] \in Settled
        /\ c \in early[r] => typed[r] # NONE
        /\ typed[r] # NONE /\ pc[c] \in {"opening", "signing", "sending"}
              => c \in early[r]

(* While a creator waits, the first one that presented its shortcode after *)
(* it began to wait is the only one that did.                              *)
Offered ==
    \A c \in Creator, r \in Redeemer :
        pc[c] = "offered" /\ typed[r] = code[c] =>
            Guessed(c) \/ responses[c] = <<r>>

(* What it takes for a redeemer to get the credentials of a pairing. *)
Entitled(r, c) ==
    /\ code[c] # NONE /\ typed[r] = code[c]
    /\ peer[c] # NONE /\ typed[peer[c]] = code[c]
    /\ c \notin missed[r]
    /\ peer[c] = r \/ Guessed(c)

(* Whoever has, or will be handed, the credentials of a pairing may. *)
Promised(r, c) ==
    entry[r] = c \/ \E n \in DOMAIN confirms[r] : confirms[r][n] = c

Held == \A r \in Redeemer, c \in Creator : Promised(r, c) => Entitled(r, c)

(* The inductive invariant: who may hold which credentials follows from    *)
(* what is queued and from when each redeemer presented its shortcode.     *)
IInv == /\ TypeOK
        /\ Presented
        /\ Concluded
        /\ Answered
        /\ Remembered
        /\ Offered
        /\ Held

=============================================================================
