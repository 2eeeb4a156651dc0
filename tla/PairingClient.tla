----------------------------- MODULE PairingClient -----------------------------
(***************************************************************************)
(* The Go Pairing API over the pairing server: each call of the server has *)
(* a device, which reads what the server sends over a connection that may  *)
(* break, and keeps the pairing in a storage of its own.                   *)
(*                                                                         *)
(* The device of a creator is in InitiatePairing, that of a redeemer in    *)
(* RespondToPairing.  A storage is a map from pairing IDs (PairingMap); a  *)
(* pairing is a creator, so that a device has at most one entry of it.     *)
(***************************************************************************)
EXTENDS PairingServer

VARIABLES
    client,   \* where the device of each call is
    key       \* whose public key it was given, or NONE

Device == Creator \union Redeemer

clientVars == <<client, key>>
allVars == <<vars, clientVars>>

ClientInit ==
    /\ Init
    /\ client = [s \in Device |-> "calling"]
    /\ key = [s \in Device |-> NONE]

(* Device s goes on, from one place to another. *)
Moves(s, from, to) ==
    /\ client[s] = from
    /\ client' = [client EXCEPT ![s] = to]
    /\ UNCHANGED vars

(* The initial data with the shortcode has come, see PairingServer!Offer. *)
Pending(c) ==
    /\ pc[c] \in Open \union {"paired", "expired"}
    /\ Moves(c, "calling", "pending")
    /\ UNCHANGED key

(* Mutant: the result is complete with whoever answers first. *)
CompletedEarly(c) ==
    /\ \E r \in Redeemer :
          typed[r] = code[c] /\ key' = [key EXCEPT ![c] = r]
    /\ Moves(c, "pending", "saving")

(* PairingResult: the status has come.  It is not looked at: an 'expired'  *)
(* comes without a key, which cannot be imported.                          *)
Completed(c) ==
    /\ told[c] # NONE
    /\ key' = [key EXCEPT ![c] = IF told[c] = "paired" THEN peer[c] ELSE NONE]
    /\ Moves(c, "pending", IF told[c] = "paired" THEN "saving" ELSE "refused")

(* Mutant: the answer is awaited again. *)
RespondedLater(r) ==
    /\ pc[r] = "paired"
    /\ key' = [key EXCEPT ![r] = entry[r]]
    /\ Moves(r, "calling", "pending")

(* RespondToPairing: the details have come. *)
Responded(r) ==
    /\ pc[r] = "paired"
    /\ key' = [key EXCEPT ![r] = entry[r]]
    /\ Moves(r, "calling", "saving")

(* The server's side of the call has ended without a result, or the        *)
(* connection has.                                                         *)
Refused(s) ==
    /\ pc[s] \in {"closed", "failed"} \/ s \in gone
    /\ client[s] \in {"calling", "pending"}
    /\ Moves(s, client[s], "refused")
    /\ UNCHANGED key

Save(s) == Moves(s, "saving", "saved") /\ UNCHANGED key

(* A request, a read or the storage fails, or the device does. *)
Fails(s) ==
    /\ client[s] \in {"calling", "pending", "saving"}
    /\ Moves(s, client[s], "failed")
    /\ UNCHANGED key

(* DeletePairing. *)
Delete(s) == Moves(s, "saved", "deleted") /\ UNCHANGED key

-----------------------------------------------------------------------------

DeviceStep(s) ==
    \/ s \in Creator /\ (Pending(s) \/ Completed(s))
    \/ s \in Redeemer /\ Responded(s)
    \/ Save(s) \/ Refused(s)

ClientNext ==
    \/ Next /\ UNCHANGED clientVars
    \/ \E s \in Device : DeviceStep(s) \/ Fails(s) \/ Delete(s)

ClientSpec == ClientInit /\ [][ClientNext]_allVars

(* A device reads what was sent and stores it, and notices that nothing    *)
(* will come any more.  The server is fair as it is in PairingServer.      *)
FairClientSpec ==
    /\ ClientSpec
    /\ Fairness
    /\ \A s \in Device : WF_allVars(DeviceStep(s))

-----------------------------------------------------------------------------
(* Properties. *)

(* The type of the variables of the devices. *)
ClientTypeOK ==
    /\ client \in [Device -> {"calling", "pending", "saving", "saved",
                              "deleted", "refused", "failed"}]
    /\ key \in [Device -> Device \union {NONE}]
    /\ \A s \in Device :
          client[s] \in {"saving", "saved", "deleted"} => key[s] # NONE

(* Two devices that keep the same pairing keep each other's keys, unless   *)
(* its shortcode was presented too early.                                  *)
KeysMatch ==
    \A c \in Creator, r \in Redeemer :
        client[c] = "saved" /\ client[r] = "saved" /\ key[r] = c =>
            key[c] = r \/ Guessed(c)

(* What a device keeps, the server has agreed with its other end: the      *)
(* creator's is kept only with a redeemer that presented its shortcode and *)
(* was accepted, and a redeemer's only if the creator was not told that    *)
(* nobody had come.                                                        *)
KeptAgreed ==
    /\ \A c \in Creator : client[c] = "saved" =>
          typed[key[c]] = code[c] /\ pc[c] = "paired"
    /\ \A r \in Redeemer : client[r] = "saved" => told[key[r]] # "expired"

(* A pairing that a creator's device keeps comes to be kept by the device  *)
(* it names, which is only stopped by a failure of its own: the server     *)
(* does not refuse it.                                                     *)
KeptTogether ==
    \A c \in Creator, r \in Redeemer :
        client[c] = "saved" /\ key[c] = r ~>
            \/ client[r] \in {"saved", "deleted"} /\ key[r] = c
            \/ client[r] = "failed" \/ Shared(c) \/ Guessed(c)

(* Both API calls return, though neither has a timeout of its own. *)
ApiReturns ==
    LET Returned(s) == client[s] \in {"saved", "deleted", "refused", "failed"}
    IN  /\ \A c \in Creator : <>Returned(c)
        /\ \A r \in Redeemer : pc[r] # "idle" ~> Returned(r)

-----------------------------------------------------------------------------
(* Named parts of the inductive invariant, besides PairingServer's.        *)

(* A creator that was told so has paired with one that presented its code. *)
Named ==
    \A c \in Creator : told[c] = "paired" =>
        /\ pc[c] = "paired"
        /\ peer[c] \in Redeemer
        /\ code[c] # NONE /\ typed[peer[c]] = code[c]

(* A redeemer is given the details of some pairing. *)
Handed ==
    \A r \in Redeemer : pc[r] \in {"signing", "paired"} => entry[r] \in Creator

(* What the devices store is what the server has said. *)
HasKey == {"saving", "saved", "deleted"}

Given ==
    /\ \A c \in Creator : client[c] \in HasKey =>
          told[c] = "paired" /\ key[c] = peer[c]
    /\ \A r \in Redeemer : client[r] \in HasKey =>
          pc[r] = "paired" /\ key[r] = entry[r]

ClientInv == IInv /\ ClientTypeOK /\ Named /\ Handed /\ Given

=============================================================================
