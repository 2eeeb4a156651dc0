------------------------- MODULE PairingClientProofs -------------------------
(***************************************************************************)
(* Theorems about PairingClient: what two devices keep of a pairing fits   *)
(* together, for any numbers of devices and whatever fails.                *)
(***************************************************************************)
EXTENDS PairingClient, PairingServerProofs

LEMMA ClientInitHolds == ClientInit => ClientInv
  <1> SUFFICES ASSUME ClientInit PROVE ClientInv
    OBVIOUS
  <1>1. IInv
    BY IInvInit DEF ClientInit
  <1>2. ClientTypeOK
    BY DEF ClientInit, ClientTypeOK, Device
  <1>3. Named /\ Handed /\ Given
    BY NoneAssumption, SessionAssumption
    DEF ClientInit, Init, Named, Handed, Given, HasKey, Device
  <1> QED
    BY <1>1, <1>2, <1>3 DEF ClientInv

-----------------------------------------------------------------------------
(* Steps of the server. *)

(* What is said is not taken back. *)
LEMMA SaidKept ==
    ASSUME ClientInv, Next, NEW c \in Creator
    PROVE  told[c] = "paired" => told'[c] = "paired" /\ peer'[c] = peer[c]
  <1> SUFFICES ASSUME TypeOK, Named, Kept, told[c] = "paired", Next
               PROVE  told'[c] = "paired" /\ peer'[c] = peer[c]
    BY KeptStep DEF ClientInv, IInv
  <1>1. pc[c] = "paired" /\ peer[c] # NONE
    BY NoneAssumption DEF Named
  <1>2. peer'[c] = peer[c]
    BY <1>1 DEF Kept
  <1>3. told'[c] = "paired"
    <2>1. ASSUME NEW d \in Creator, CreatorStep(d) PROVE told'[c] = "paired"
      BY <1>1, <2>1 DEF TypeOK, CreatorStep, Refuse, Opening, Offer, SendDone,
         Confirm, Confirmable, Expire, Conclude, ClientLeaves, outcome
    <2>2. ASSUME NEW r \in Redeemer, RedeemerStep(r) PROVE told'[c] = "paired"
      BY <2>2 DEF RedeemerStep, TakeConfirm, Signed, RedeemTimeout, Redeem, outcome
    <2>3. CASE Finished
      BY <2>3 DEF Finished, vars, outcome
    <2> QED
      BY <2>1, <2>2, <2>3 DEF Next
  <1> QED
    BY <1>2, <1>3

LEMMA HandedStep == ClientInv /\ Next => Handed'
  <1> SUFFICES ASSUME TypeOK, Handed, Next, NEW r \in Redeemer,
                      pc'[r] \in {"signing", "paired"}
               PROVE  entry'[r] \in Creator
    BY DEF ClientInv, IInv, Handed
  <1>1. ASSUME NEW c \in Creator, CreatorStep(c) PROVE entry'[r] \in Creator
    <2>1. entry' = entry
      BY <1>1 DEF CreatorStep, Refuse, Opening, Offer, SendDone, Confirm, Expire,
         ClientLeaves, outcome
    <2>2. pc'[r] = pc[r]
      BY <1>1, SessionAssumption DEF TypeOK, CreatorStep, Refuse, Opening, Offer,
         SendDone, Confirm, Expire, Conclude, ClientLeaves
    <2> QED
      BY <2>1, <2>2 DEF Handed
  <1>2. ASSUME NEW q \in Redeemer, RedeemerStep(q) PROVE entry'[r] \in Creator
    <2>1. CASE TakeConfirm(q)
      <3>1. Head(confirms[q]) \in Creator
        BY <2>1 DEF TakeConfirm, Takeable, TypeOK
      <3> QED
        BY <2>1, <3>1 DEF TakeConfirm, TypeOK, Handed
    <2>2. CASE Signed(q)
      BY <2>2 DEF Signed, outcome, TypeOK, Handed
    <2>3. CASE RedeemTimeout(q)
      BY <2>3 DEF RedeemTimeout, outcome, TypeOK, Handed
    <2>4. ASSUME NEW k \in Code, Redeem(q, k) PROVE entry'[r] \in Creator
      BY <2>4 DEF Redeem, outcome, TypeOK, Handed
    <2> QED
      BY <1>2, <2>1, <2>2, <2>3, <2>4 DEF RedeemerStep
  <1>3. CASE Finished
    BY <1>3 DEF Finished, vars, outcome, Handed
  <1> QED
    BY <1>1, <1>2, <1>3 DEF Next

(* A call that has returned the details of a pairing has ended. *)
LEMMA HandedKept ==
    ASSUME ClientInv, Next, NEW r \in Redeemer, pc[r] = "paired"
    PROVE  pc'[r] = "paired" /\ entry'[r] = entry[r]
  <1> USE DEF ClientInv, IInv, TypeOK
  <1>1. ASSUME NEW c \in Creator, CreatorStep(c)
        PROVE  pc'[r] = "paired" /\ entry' = entry
    BY <1>1, SessionAssumption DEF CreatorStep, Refuse, Opening, Offer, SendDone,
       Confirm, Expire, Conclude, ClientLeaves, outcome
  <1>2. ASSUME NEW q \in Redeemer, RedeemerStep(q)
        PROVE  pc'[r] = "paired" /\ entry'[r] = entry[r]
    BY <1>2 DEF RedeemerStep, TakeConfirm, Takeable, Signed, RedeemTimeout,
       Redeem, outcome
  <1>3. CASE Finished
    BY <1>3 DEF Finished, vars, outcome
  <1> QED
    BY <1>1, <1>2, <1>3 DEF Next

LEMMA NamedStep == ClientInv /\ Next => Named'
  <1> SUFFICES ASSUME ClientInv, Next, NEW c \in Creator, told'[c] = "paired"
               PROVE  /\ pc'[c] = "paired"
                      /\ peer'[c] \in Redeemer
                      /\ code'[c] # NONE /\ typed'[peer'[c]] = code'[c]
    BY DEF Named
  <1>0. Kept
    BY KeptStep DEF ClientInv
  <1>1. CASE told[c] = "paired"
    <2>1. /\ pc[c] = "paired" /\ peer[c] \in Redeemer
          /\ code[c] # NONE /\ typed[peer[c]] = code[c]
      BY <1>1 DEF ClientInv, Named
    <2>2. peer'[c] = peer[c]
      BY <1>1, SaidKept
    <2> QED
      BY <1>0, <2>1, <2>2 DEF Kept, Settled
  <1>2. CASE told[c] # "paired"
    <2> USE DEF ClientInv, IInv, TypeOK
    <2>1. Confirm(c)
      <3>1. ASSUME NEW d \in Creator, CreatorStep(d) PROVE Confirm(c)
        BY <1>2, <3>1 DEF CreatorStep, Refuse, Opening, Offer, SendDone,
           Confirm, Expire, Conclude, ClientLeaves, outcome
      <3>2. ASSUME NEW r \in Redeemer, RedeemerStep(r) PROVE FALSE
        BY <1>2, <3>2 DEF RedeemerStep, TakeConfirm, Signed, RedeemTimeout,
           Redeem, outcome
      <3>3. ~Finished
        BY <1>2 DEF Finished, vars, outcome
      <3> QED
        BY <3>1, <3>2, <3>3 DEF Next
    <2>2. /\ responses[c] # <<>> /\ peer'[c] = Head(responses[c])
          /\ pc'[c] = "paired"
      BY <1>2, <2>1 DEF Confirm, Confirmable, Conclude
    <2>3. responses[c] \in Seq(Redeemer)
      OBVIOUS
    <2>4. 1 \in DOMAIN responses[c] /\ Head(responses[c]) = responses[c][1]
      BY <2>2, <2>3
    <2>5. code[c] # NONE /\ typed[responses[c][1]] = code[c]
      BY <2>4 DEF Answered
    <2>6. Head(responses[c]) \in Redeemer
      BY <2>2, <2>3
    <2> QED
      BY <1>0, <2>2, <2>4, <2>5, <2>6 DEF Kept
  <1> QED
    BY <1>1, <1>2

LEMMA ServerStepHolds ==
    ClientInv /\ Next /\ UNCHANGED clientVars => ClientInv'
  <1> SUFFICES ASSUME ClientInv, Next, UNCHANGED clientVars PROVE ClientInv'
    OBVIOUS
  <1>1. IInv'
    BY IInvStep DEF ClientInv
  <1>2. ClientTypeOK'
    BY DEF ClientInv, ClientTypeOK, clientVars
  <1>3. Given'
    BY SaidKept, HandedKept DEF ClientInv, Given, clientVars
  <1> QED
    BY <1>1, <1>2, <1>3, NamedStep, HandedStep DEF ClientInv

-----------------------------------------------------------------------------
(* Steps of the devices. *)

LEMMA DeviceStepHolds ==
    ASSUME ClientInv, NEW s \in Device, DeviceStep(s) \/ Fails(s) \/ Delete(s)
    PROVE  ClientInv'
  <1> USE DEF ClientInv
  <1>1. UNCHANGED vars
    BY DEF DeviceStep, Pending, Completed, Responded, Refused, Save, Fails,
       Delete, Moves
  <1>2. IInv' /\ Named' /\ Handed'
    <2>1. IInv'
      BY <1>1, IInvStep
    <2> QED
      BY <1>1, <2>1 DEF vars, asked, outcome, Named, Handed
  <1>3. ClientTypeOK' /\ Given'
    <2> USE <1>1, NoneAssumption, SessionAssumption
        DEF ClientTypeOK, Given, HasKey, Device, Moves, vars, outcome
    <2>1. CASE s \in Creator /\ Pending(s)
      BY <2>1 DEF Pending
    <2>2. CASE s \in Creator /\ Completed(s)
      <3>1. told[s] = "paired" => peer[s] \in Redeemer
        BY <2>2 DEF Named
      <3> QED
        BY <2>2, <3>1 DEF Completed
    <2>3. CASE s \in Redeemer /\ Responded(s)
      <3>1. entry[s] \in Creator
        BY <2>3 DEF Responded, Handed
      <3> QED
        BY <2>3, <3>1 DEF Responded
    <2>4. CASE Save(s)
      BY <2>4 DEF Save
    <2>5. CASE Refused(s)
      BY <2>5 DEF Refused
    <2>6. CASE Fails(s)
      BY <2>6 DEF Fails
    <2>7. CASE Delete(s)
      BY <2>7 DEF Delete
    <2> QED
      BY <2>1, <2>2, <2>3, <2>4, <2>5, <2>6, <2>7 DEF DeviceStep
  <1> QED
    BY <1>2, <1>3

(* The invariant of the server and its devices together. *)
THEOREM ClientInductive == ClientSpec => []ClientInv
  <1>1. ClientInv /\ [ClientNext]_allVars => ClientInv'
    <2> SUFFICES ASSUME ClientInv, [ClientNext]_allVars PROVE ClientInv'
      OBVIOUS
    <2>1. CASE Next /\ UNCHANGED clientVars
      BY <2>1, ServerStepHolds
    <2>2. ASSUME NEW s \in Device, DeviceStep(s) \/ Fails(s) \/ Delete(s)
          PROVE  ClientInv'
      BY <2>2, DeviceStepHolds
    <2>3. CASE UNCHANGED allVars
      <3>1. UNCHANGED vars /\ UNCHANGED clientVars
        BY <2>3 DEF allVars
      <3>2. IInv'
        BY <3>1, IInvStep DEF ClientInv
      <3> QED
        BY <3>1, <3>2 DEF ClientInv, ClientTypeOK, Named, Handed, Given, vars,
           asked, outcome, clientVars
    <2> QED
      BY <2>1, <2>2, <2>3 DEF ClientNext
  <1> QED
    BY <1>1, ClientInitHolds, PTL DEF ClientSpec

(* Two devices that keep the same pairing keep each other's keys, unless   *)
(* its shortcode was presented before the creator waited for it.           *)
THEOREM KeysMatchHolds == ClientSpec => []KeysMatch
  <1>1. ClientInv => KeysMatch
    BY DEF ClientInv, KeysMatch, Given, HasKey, IInv, Held, Promised, Entitled
  <1> QED
    BY <1>1, ClientInductive, PTL

(* What a device keeps, the server has agreed with its other end. *)
THEOREM KeptAgreedHolds == ClientSpec => []KeptAgreed
  <1>1. ClientInv => KeptAgreed
    <2> SUFFICES ASSUME ClientInv PROVE KeptAgreed
      OBVIOUS
    <2>1. ASSUME NEW c \in Creator, client[c] = "saved"
          PROVE  typed[key[c]] = code[c] /\ pc[c] = "paired"
      BY <2>1 DEF ClientInv, Given, HasKey, Named
    <2>2. ASSUME NEW r \in Redeemer, client[r] = "saved"
          PROVE  told[key[r]] # "expired"
      <3>1. entry[r] \in Creator /\ key[r] = entry[r]
        BY <2>2 DEF ClientInv, Given, HasKey, Handed
      <3>2. peer[entry[r]] # NONE
        BY <3>1 DEF ClientInv, IInv, Held, Promised, Entitled
      <3> QED
        BY <3>1, <3>2, NoneAssumption DEF ClientInv, IInv, Concluded
    <2> QED
      BY <2>1, <2>2 DEF KeptAgreed
  <1> QED
    BY <1>1, ClientInductive, PTL

=============================================================================
