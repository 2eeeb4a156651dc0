-------------------------- MODULE PairingServerProofs --------------------------
(***************************************************************************)
(* Theorems about PairingServer, for any numbers of creators, redeemers    *)
(* and shortcodes, which may collide and be guessed: the inductive         *)
(* invariant, the safety properties it implies, and the implementation of  *)
(* PairingPromise.                                                         *)
(***************************************************************************)
EXTENDS PairingServer, TLAPS

(* What no step takes back. *)
Kept ==
    /\ \A c \in Creator :
          /\ code[c] # NONE => code'[c] = code[c]
          /\ peer[c] # NONE => peer'[c] = peer[c]
          /\ pc[c] \in Settled => pc'[c] = pc[c]
    /\ \A r \in Redeemer :
          typed[r] # NONE => /\ typed'[r] = typed[r]
                             /\ missed'[r] = missed[r]
                             /\ early'[r] = early[r]

(* Conclude ends the call of its creator and of no other. *)
LEMMA ConcludeType ==
    ASSUME TypeOK, NEW c \in Creator, NEW status \in {"paired", "expired"},
           Conclude(c, status)
    PROVE  /\ pc' \in [Creator \union Redeemer -> CreatorPC \union RedeemerPC]
           /\ told' \in [Creator -> {"paired", "expired", NONE}]
           /\ \A s \in Creator \union Redeemer : s # c => pc'[s] = pc[s]
           /\ pc'[c] \in {"failed", status}
  BY DEF TypeOK, Conclude, CreatorPC, Settled

(* Every step keeps the types. *)
LEMMA TypeStep == IInv /\ Next => TypeOK'
  <1> SUFFICES ASSUME TypeOK, Next PROVE TypeOK'
    BY DEF IInv
  <1> USE DEF TypeOK, CreatorPC, RedeemerPC, Open, Settled,
              asked, sessions, outcome, history
  <1>1. ASSUME NEW c \in Creator, CreatorStep(c) PROVE TypeOK'
    <2> USE SessionAssumption
    <2>1. CASE Refuse(c)
      BY <2>1 DEF Refuse
    <2>2. CASE Opening(c)
      BY <2>2, NoneAssumption DEF Opening
    <2>3. CASE Offer(c)
      <3>1. PICK to \in Open \union {"failed"} : pc' = [pc EXCEPT ![c] = to]
        BY <2>3 DEF Offer
      <3>2. pc[c] = "signing" /\ UNCHANGED <<asked, sessions, outcome, history>>
        BY <2>3 DEF Offer
      <3> HIDE <1>1, <2>3
      <3> QED
        BY <3>1, <3>2
    <2>4. CASE SendDone(c)
      BY <2>4 DEF SendDone
    <2>5. CASE Confirm(c)
      <3>1. /\ pc[c] = "offered" /\ responses[c] # <<>>
            /\ responses[c] \in Seq(Redeemer)
        BY <2>5 DEF Confirm, Confirmable
      <3>2. Head(responses[c]) \in Redeemer /\ Tail(responses[c]) \in Seq(Redeemer)
        BY <3>1
      <3>3. peer' \in [Creator -> Redeemer \union {NONE}]
        BY <2>5, <3>2 DEF Confirm
      <3>4. responses' \in [Creator -> Seq(Redeemer)]
        BY <2>5, <3>2 DEF Confirm
      <3>5. confirms' \in [Redeemer -> Seq(Creator)]
        <4>1. ASSUME NEW r \in Redeemer PROVE Append(confirms[r], c) \in Seq(Creator)
          OBVIOUS
        <4> QED
          BY <2>5, <4>1 DEF Confirm
      <3>6. Conclude(c, "paired")
        BY <2>5 DEF Confirm
      <3> QED
        BY <2>5, <3>1, <3>3, <3>4, <3>5, <3>6, ConcludeType DEF Confirm
    <2>6. CASE Expire(c)
      BY <2>6, ConcludeType DEF Expire
    <2>7. CASE ClientLeaves(c)
      BY <2>7 DEF ClientLeaves
    <2> QED
      BY <1>1, <2>1, <2>2, <2>3, <2>4, <2>5, <2>6, <2>7 DEF CreatorStep
  <1>2. ASSUME NEW r \in Redeemer, RedeemerStep(r) PROVE TypeOK'
    <2> USE SessionAssumption
    <2>1. CASE TakeConfirm(r)
      <3>1. /\ pc[r] = "waiting" /\ confirms[r] # <<>>
            /\ confirms[r] \in Seq(Creator)
        BY <2>1 DEF TakeConfirm, Takeable
      <3>2. Head(confirms[r]) \in Creator /\ Tail(confirms[r]) \in Seq(Creator)
        BY <3>1
      <3> QED
        BY <2>1, <3>2 DEF TakeConfirm
    <2>2. CASE Signed(r)
      BY <2>2 DEF Signed
    <2>3. CASE RedeemTimeout(r)
      BY <2>3 DEF RedeemTimeout
    <2>4. ASSUME NEW k \in Code, Redeem(r, k) PROVE TypeOK'
      <3>1. responses' \in [Creator -> Seq(Redeemer)]
        <4>1. ASSUME NEW c \in Creator PROVE Append(responses[c], r) \in Seq(Redeemer)
          OBVIOUS
        <4> QED
          BY <2>4, <4>1 DEF Redeem
      <3>2. typed' \in [Redeemer -> Code \union {NONE}]
        BY <2>4 DEF Redeem
      <3>3. missed' \in [Redeemer -> SUBSET Creator] /\ early' \in [Redeemer -> SUBSET Creator]
        BY <2>4 DEF Redeem
      <3> QED
        BY <2>4, <3>1, <3>2, <3>3 DEF Redeem
    <2> QED
      BY <1>2, <2>1, <2>2, <2>3, <2>4 DEF RedeemerStep
  <1>3. CASE Finished
    BY <1>3 DEF Finished, vars
  <1> QED
    BY <1>1, <1>2, <1>3 DEF Next

(* No step takes back a shortcode, the response a creator took, the end of *)
(* a call, or what a redeemer presented and when.                          *)
LEMMA KeptStep == IInv /\ Next => Kept
  <1> SUFFICES ASSUME TypeOK, Presented, Concluded, Next PROVE Kept
    BY DEF IInv
  <1> USE SessionAssumption
      DEF Kept, TypeOK, Open, Settled, asked, sessions, outcome, history
  <1>1. ASSUME NEW c \in Creator, CreatorStep(c) PROVE Kept
    <2>1. CASE Refuse(c)
      BY <2>1 DEF Refuse
    <2>2. CASE Opening(c)
      BY <2>2 DEF Opening
    <2>3. CASE Offer(c)
      BY <2>3 DEF Offer
    <2>4. CASE SendDone(c)
      BY <2>4 DEF SendDone
    <2>5. CASE Confirm(c)
      <3>1. peer[c] = NONE /\ pc[c] = "offered"
        BY <2>5 DEF Confirm, Confirmable, Concluded
      <3>2. Conclude(c, "paired")
        BY <2>5 DEF Confirm
      <3> QED
        BY <2>5, <3>1, <3>2, ConcludeType DEF Confirm
    <2>6. CASE Expire(c)
      BY <2>6, ConcludeType DEF Expire
    <2>7. CASE ClientLeaves(c)
      BY <2>7 DEF ClientLeaves
    <2> QED
      BY <1>1, <2>1, <2>2, <2>3, <2>4, <2>5, <2>6, <2>7 DEF CreatorStep
  <1>2. ASSUME NEW r \in Redeemer, RedeemerStep(r) PROVE Kept
    <2>1. CASE TakeConfirm(r)
      BY <2>1 DEF TakeConfirm
    <2>2. CASE Signed(r)
      BY <2>2 DEF Signed
    <2>3. CASE RedeemTimeout(r)
      BY <2>3 DEF RedeemTimeout
    <2>4. ASSUME NEW k \in Code, Redeem(r, k) PROVE Kept
      BY <2>4 DEF Redeem, Presented
    <2> QED
      BY <1>2, <2>1, <2>2, <2>3, <2>4 DEF RedeemerStep
  <1>3. CASE Finished
    BY <1>3 DEF Finished, vars
  <1> QED
    BY <1>1, <1>2, <1>3 DEF Next

(* A shortcode that was guessed remains so. *)
LEMMA GuessedKept ==
    ASSUME TypeOK, Kept, NEW c \in Creator, code[c] # NONE, Guessed(c)
    PROVE  Guessed(c)'
  BY DEF TypeOK, Kept, Guessed

(* Whoever was entitled to the credentials of a pairing remains so. *)
LEMMA EntitledKept ==
    ASSUME TypeOK, Kept, NEW c \in Creator, NEW r \in Redeemer, Entitled(r, c)
    PROVE  Entitled(r, c)'
  <1>1. peer[c] \in Redeemer
    BY DEF TypeOK, Entitled
  <1> QED
    BY <1>1, GuessedKept DEF TypeOK, Kept, Entitled

-----------------------------------------------------------------------------
(* The calls of one side: what they presented and how they ended. *)

(* A creator whose call goes on has taken nobody and told nothing. *)
LEMMA Undecided ==
    ASSUME TypeOK, Concluded, NEW c \in Creator, pc[c] \notin Settled
    PROVE  peer[c] = NONE /\ told[c] = NONE
  <1>1. told[c] \in {"paired", "expired", NONE}
    BY DEF TypeOK
  <1> QED
    BY <1>1 DEF Concluded, Settled

(* Every step keeps how calls relate to what was presented and told. *)
LEMMA CallsStep == IInv /\ Next => Presented' /\ Concluded'
  <1> SUFFICES ASSUME TypeOK, Presented, Concluded, Next
               PROVE  Presented' /\ Concluded'
    BY DEF IInv
  <1>0. \A c \in Creator : pc[c] = "offered" => peer[c] = NONE /\ told[c] = NONE
    BY Undecided DEF Settled
  <1> USE SessionAssumption, NoneAssumption
      DEF Presented, Concluded, TypeOK, Open, Settled,
          asked, sessions, outcome, history
  <1>1. ASSUME NEW c \in Creator, CreatorStep(c) PROVE Presented' /\ Concluded'
    <2>1. CASE Refuse(c)
      BY <2>1 DEF Refuse
    <2>2. CASE Opening(c)
      BY <2>2 DEF Opening
    <2>3. CASE Offer(c)
      BY <2>3 DEF Offer
    <2>4. CASE SendDone(c)
      BY <2>4 DEF SendDone
    <2>5. CASE Confirm(c)
      <3>1. /\ pc[c] = "offered"
            /\ Conclude(c, "paired")
            /\ \A d \in Creator : d # c => peer'[d] = peer[d]
            /\ UNCHANGED <<asked, entry, history>>
        BY <2>5 DEF Confirm, Confirmable
      <3> HIDE <1>1, <2>5
      <3>2. Presented'
        <4>1. \A r \in Redeemer : pc'[r] = pc[r]
          BY <3>1 DEF Conclude
        <4>2. typed' = typed /\ entry' = entry
          BY <3>1
        <4> QED
          BY <4>1, <4>2
      <3>3. /\ \/ pc'[c] = "paired" /\ told'[c] = "paired"
               \/ pc'[c] = "failed" /\ c \in gone
            /\ told'[c] # NONE => pc'[c] = told'[c]
            /\ \A d \in Creator : d # c => told'[d] = told[d] /\ pc'[d] = pc[d]
        <4>1. told[c] = NONE
          BY <1>0, <3>1
        <4> QED
          BY <3>1, <4>1 DEF Conclude
      <3>4. gone' = gone
        BY <3>1
      <3>5. Concluded'
        BY <3>1, <3>3, <3>4
      <3> QED
        BY <3>2, <3>5
    <2>6. CASE Expire(c)
      <3>1. /\ pc[c] = "offered" /\ Conclude(c, "expired")
            /\ typed' = typed /\ entry' = entry /\ peer' = peer /\ gone' = gone
        BY <2>6 DEF Expire
      <3> HIDE <1>1, <2>6
      <3>2. Presented'
        <4>1. \A r \in Redeemer : pc'[r] = pc[r]
          BY <3>1 DEF Conclude
        <4> QED
          BY <3>1, <4>1
      <3>3. peer[c] = NONE /\ told[c] = NONE
        BY <1>0, <3>1
      <3>4. /\ told'[c] # NONE => pc'[c] = told'[c]
            /\ \A d \in Creator : d # c => told'[d] = told[d] /\ pc'[d] = pc[d]
        BY <3>1, <3>3 DEF Conclude
      <3>5. Concluded'
        BY <3>1, <3>3, <3>4
      <3> QED
        BY <3>2, <3>5
    <2>7. CASE ClientLeaves(c)
      BY <2>7 DEF ClientLeaves
    <2> QED
      BY <1>1, <2>1, <2>2, <2>3, <2>4, <2>5, <2>6, <2>7 DEF CreatorStep
  <1>2. ASSUME NEW r \in Redeemer, RedeemerStep(r) PROVE Presented' /\ Concluded'
    <2>1. CASE TakeConfirm(r)
      BY <2>1 DEF TakeConfirm, Takeable
    <2>2. CASE Signed(r)
      BY <2>2 DEF Signed
    <2>3. CASE RedeemTimeout(r)
      BY <2>3 DEF RedeemTimeout
    <2>4. ASSUME NEW k \in Code, Redeem(r, k) PROVE Presented' /\ Concluded'
      BY <2>4 DEF Redeem
    <2> QED
      BY <1>2, <2>1, <2>2, <2>3, <2>4 DEF RedeemerStep
  <1>3. CASE Finished
    BY <1>3 DEF Finished, vars
  <1> QED
    BY <1>1, <1>2, <1>3 DEF Next

-----------------------------------------------------------------------------
(* The queues of responses. *)

(* Only Confirm, TakeConfirm and Redeem touch the queues. *)
LEMMA QueuesStep ==
    ASSUME TypeOK, Next
    PROVE  \/ \E c \in Creator : Confirm(c)
           \/ \E r \in Redeemer : TakeConfirm(r)
           \/ \E r \in Redeemer, k \in Code : Redeem(r, k)
           \/ UNCHANGED <<responses, confirms, entry, peer>>
  <1> USE DEF asked, sessions, outcome, history
  <1>1. ASSUME NEW c \in Creator, CreatorStep(c), ~Confirm(c)
        PROVE  UNCHANGED <<responses, confirms, entry, peer>>
    BY <1>1 DEF CreatorStep, Refuse, Opening, Offer, SendDone, Expire, ClientLeaves
  <1>2. ASSUME NEW r \in Redeemer, RedeemerStep(r), ~TakeConfirm(r),
               ~\E k \in Code : Redeem(r, k)
        PROVE  UNCHANGED <<responses, confirms, entry, peer>>
    BY <1>2 DEF RedeemerStep, Signed, RedeemTimeout
  <1>3. CASE Finished
    BY <1>3 DEF Finished, vars
  <1> QED
    BY <1>1, <1>2, <1>3 DEF Next

(* Every step keeps the queues free of strangers. *)
LEMMA AnsweredStep == IInv /\ Next => Answered'
  <1> SUFFICES ASSUME TypeOK, Presented, Answered, Kept, Next,
                      NEW c \in Creator, NEW n \in DOMAIN responses'[c]
               PROVE  code'[c] # NONE /\ typed'[responses'[c][n]] = code'[c]
    BY KeptStep DEF IInv, Answered
  <1>0. responses[c] \in Seq(Redeemer)
    BY DEF TypeOK
  <1>1. ASSUME NEW j \in DOMAIN responses[c], responses'[c][n] = responses[c][j]
        PROVE  code'[c] # NONE /\ typed'[responses'[c][n]] = code'[c]
    <2>1. responses[c][j] \in Redeemer
      BY <1>0
    <2> QED
      BY <1>1, <2>1 DEF Answered, Kept
  <1>2. CASE responses'[c] = responses[c]
    BY <1>1, <1>2
  <1>3. ASSUME NEW d \in Creator, Confirm(d), responses'[c] # responses[c]
        PROVE  code'[c] # NONE /\ typed'[responses'[c][n]] = code'[c]
    <2>1. responses[c] # <<>> /\ responses'[c] = Tail(responses[c])
      BY <1>3 DEF Confirm, Confirmable, TypeOK
    <2>2. n + 1 \in DOMAIN responses[c] /\ responses'[c][n] = responses[c][n + 1]
      BY <1>0, <2>1
    <2> QED
      BY <1>1, <2>2
  <1>4. ASSUME NEW r \in Redeemer, NEW k \in Code, Redeem(r, k),
               responses'[c] # responses[c]
        PROVE  code'[c] # NONE /\ typed'[responses'[c][n]] = code'[c]
    <2>1. c \in Listeners(k) /\ responses'[c] = Append(responses[c], r)
      BY <1>4 DEF Redeem
    <2>2. code'[c] = k /\ typed'[r] = k /\ k # NONE
      BY <1>4, <2>1, NoneAssumption DEF Redeem, Listeners, TypeOK
    <2>3. CASE n = Len(responses[c]) + 1
      BY <1>0, <2>1, <2>2, <2>3
    <2>4. CASE n # Len(responses[c]) + 1
      <3>1. n \in DOMAIN responses[c] /\ responses'[c][n] = responses[c][n]
        BY <1>0, <2>1, <2>4
      <3> QED
        BY <1>1, <3>1
    <2> QED
      BY <2>3, <2>4
  <1>5. ASSUME NEW r \in Redeemer, TakeConfirm(r) PROVE responses'[c] = responses[c]
    BY <1>5 DEF TakeConfirm
  <1> QED
    BY <1>2, <1>3, <1>4, <1>5, QueuesStep

-----------------------------------------------------------------------------
(* Who presented a shortcode, and when. *)

Early == {"opening", "signing", "sending"}

(* Only Redeem presents a shortcode. *)
LEMMA PresentStep ==
    ASSUME TypeOK, Next
    PROVE  \/ \E r \in Redeemer, k \in Code : Redeem(r, k)
           \/ UNCHANGED <<typed, missed, early>>
  <1> USE DEF asked, sessions, outcome, history
  <1>1. ASSUME NEW c \in Creator, CreatorStep(c)
        PROVE  UNCHANGED <<typed, missed, early>>
    BY <1>1 DEF CreatorStep, Refuse, Opening, Offer, SendDone, Confirm, Expire,
                ClientLeaves
  <1>2. ASSUME NEW r \in Redeemer, RedeemerStep(r), ~\E k \in Code : Redeem(r, k)
        PROVE  UNCHANGED <<typed, missed, early>>
    BY <1>2 DEF RedeemerStep, TakeConfirm, Signed, RedeemTimeout
  <1>3. CASE Finished
    BY <1>3 DEF Finished, vars
  <1> QED
    BY <1>1, <1>2, <1>3 DEF Next

(* No creator starts again, and none waits that has not sent its data. *)
LEMMA CreatorStart ==
    ASSUME TypeOK, Next, NEW c \in Creator
    PROVE  /\ pc'[c] \in Early => pc[c] \in Early
           /\ pc'[c] = "offered" => pc[c] \in Early \union {"offered"}
  <1> USE SessionAssumption DEF Early, Open
  <1> DEFINE Goal == /\ pc'[c] \in Early => pc[c] \in Early
                     /\ pc'[c] = "offered" => pc[c] \in Early \union {"offered"}
  <1>0. pc \in [Creator \union Redeemer -> CreatorPC \union RedeemerPC]
    BY DEF TypeOK
  <1>1. ASSUME NEW d \in Creator, CreatorStep(d) PROVE Goal
    <2>1. CASE Refuse(d)
      BY <1>0, <2>1 DEF Refuse
    <2>2. CASE Opening(d)
      BY <1>0, <2>2 DEF Opening
    <2>3. CASE Offer(d)
      BY <1>0, <2>3 DEF Offer
    <2>4. CASE SendDone(d)
      BY <1>0, <2>4 DEF SendDone
    <2>5. CASE Confirm(d)
      BY <1>0, <2>5 DEF Confirm, Confirmable, Conclude
    <2>6. CASE Expire(d)
      BY <1>0, <2>6 DEF Expire, Conclude
    <2>7. CASE ClientLeaves(d)
      BY <2>7 DEF ClientLeaves
    <2> QED
      BY <1>1, <2>1, <2>2, <2>3, <2>4, <2>5, <2>6, <2>7 DEF CreatorStep
  <1>2. ASSUME NEW r \in Redeemer, RedeemerStep(r) PROVE Goal
    <2>1. pc'[c] = pc[c]
      BY <1>0, <1>2 DEF RedeemerStep, TakeConfirm, Signed, RedeemTimeout, Redeem
    <2> QED
      BY <2>1
  <1>3. CASE Finished
    BY <1>3 DEF Finished, vars
  <1> QED
    BY <1>1, <1>2, <1>3 DEF Next

(* Every step keeps what the history variables say. *)
LEMMA RememberedStep == IInv /\ Next => Remembered'
  <1> SUFFICES ASSUME TypeOK, Remembered, Kept, Next,
                      NEW r \in Redeemer, NEW c \in Creator
               PROVE  /\ c \in missed'[r] => pc'[c] \in Settled
                      /\ c \in early'[r] => typed'[r] # NONE
                      /\ typed'[r] # NONE /\ pc'[c] \in Early => c \in early'[r]
    BY KeptStep DEF IInv, Remembered, Early
  <1>1. pc'[c] \in Early => pc[c] \in Early
    BY CreatorStart
  <1>2. pc[c] \in Settled => pc'[c] \in Settled
    BY DEF Kept
  <1>3. CASE UNCHANGED <<typed, missed, early>>
    BY <1>1, <1>2, <1>3 DEF Remembered, Early
  <1>4. ASSUME NEW q \in Redeemer, NEW k \in Code, Redeem(q, k)
        PROVE  /\ c \in missed'[r] => pc'[c] \in Settled
               /\ c \in early'[r] => typed'[r] # NONE
               /\ typed'[r] # NONE /\ pc'[c] \in Early => c \in early'[r]
    <2>1. CASE r = q
      BY <1>1, <1>2, <1>4, <2>1, NoneAssumption DEF Redeem, TypeOK, Early
    <2>2. CASE r # q
      <3>1. typed'[r] = typed[r] /\ missed'[r] = missed[r] /\ early'[r] = early[r]
        BY <1>4, <2>2 DEF Redeem, TypeOK
      <3> QED
        BY <1>1, <1>2, <3>1 DEF Remembered, Early
    <2> QED
      BY <2>1, <2>2
  <1> QED
    BY <1>3, <1>4, PresentStep

(* While c waits its queue is empty at every event, so a response that     *)
(* finds it waiting is taken before another one comes.                     *)
LEMMA OfferedStep == IInv /\ Next => Offered'
  <1> SUFFICES ASSUME TypeOK, TypeOK', Kept, Remembered, Offered, Next,
                      NEW c \in Creator, NEW r \in Redeemer,
                      pc'[c] = "offered", typed'[r] = code'[c]
               PROVE  Guessed(c)' \/ responses'[c] = <<r>>
    BY KeptStep, TypeStep DEF IInv, Offered
  <1>0. code'[c] # NONE
    BY DEF TypeOK
  <1>1. CASE pc[c] \in Early
    <2>1. UNCHANGED <<typed, missed, early>>
      <3>1. ASSUME NEW q \in Redeemer, NEW k \in Code, Redeem(q, k) PROVE FALSE
        BY <1>1, <3>1, SessionAssumption DEF Redeem, TypeOK, Early
      <3> QED
        BY <3>1, PresentStep
    <2>2. c \in early[r]
      BY <1>0, <1>1, <2>1 DEF Remembered, Early
    <2> QED
      BY <2>1, <2>2 DEF Guessed
  <1>2. CASE pc[c] = "offered"
    <2>1. code[c] # NONE /\ code'[c] = code[c]
      BY <1>2 DEF TypeOK, Kept
    <2>2. ASSUME typed[r] = code[c]
          PROVE  Guessed(c)' \/ responses[c] = <<r>>
      BY <1>2, <2>1, <2>2, GuessedKept DEF Offered
    <2>3. ASSUME NEW q \in Redeemer, NEW k \in Code, Redeem(q, k)
          PROVE  Guessed(c)' \/ responses'[c] = <<r>>
      <3>1. responses[c] = <<>>
        BY <1>2, <2>3 DEF Redeem, Quiet, Confirmable
      <3>2. CASE r = q
        <4>1. code[c] = k
          BY <2>1, <2>3, <3>2 DEF Redeem, TypeOK
        <4>2. responses'[c] = Append(responses[c], r)
          BY <1>2, <2>3, <3>2, <4>1 DEF Redeem, Listeners, Open, TypeOK
        <4> QED
          BY <3>1, <4>2
      <3>3. CASE r # q
        <4>1. typed[r] = code[c]
          BY <2>1, <2>3, <3>3 DEF Redeem, TypeOK
        <4> QED
          BY <2>2, <3>1, <4>1
      <3> QED
        BY <3>2, <3>3
    <2>4. ASSUME UNCHANGED <<typed, missed, early>>
          PROVE  Guessed(c)' \/ responses'[c] = <<r>>
      <3>1. typed[r] = code[c]
        BY <2>1, <2>4
      <3>2. ASSUME NEW d \in Creator, Confirm(d) PROVE responses'[c] = responses[c]
        <4>1. d # c
          BY <3>2 DEF Confirm, Conclude, TypeOK
        <4> QED
          BY <3>2, <4>1 DEF Confirm, TypeOK
      <3>3. ASSUME NEW q \in Redeemer, TakeConfirm(q)
            PROVE  responses'[c] = responses[c]
        BY <3>3 DEF TakeConfirm
      <3>4. ASSUME NEW q \in Redeemer, NEW k \in Code, Redeem(q, k)
            PROVE  Guessed(c)' \/ responses'[c] = <<r>>
        BY <2>3, <3>4
      <3> QED
        BY <2>2, <3>1, <3>2, <3>3, <3>4, QueuesStep
    <2> QED
      BY <2>3, <2>4, PresentStep
  <1> QED
    BY <1>1, <1>2, CreatorStart

-----------------------------------------------------------------------------
(* The credentials. *)

(* When c confirms, everyone that hears it is entitled to its pairing. *)
LEMMA ConfirmEntitles ==
    ASSUME IInv, Kept, NEW c \in Creator, Confirm(c),
           NEW r \in Hearers(code[c])
    PROVE  Entitled(r, c)'
  <1> USE DEF IInv
  <1>1. /\ r \in Redeemer /\ typed[r] = code[c]
        /\ pc[c] = "offered" /\ responses[c] # <<>>
        /\ responses[c] \in Seq(Redeemer) /\ code[c] # NONE
    BY DEF Confirm, Confirmable, Hearers, TypeOK
  <1> DEFINE q == Head(responses[c])
  <1>2. q \in Redeemer /\ typed[q] = code[c]
    <2>1. 1 \in DOMAIN responses[c] /\ q = responses[c][1] /\ q \in Redeemer
      BY <1>1
    <2> QED
      BY <2>1 DEF Answered
  <1>3. peer'[c] = q
    BY DEF Confirm, TypeOK
  <1>4. c \notin missed[r]
    BY <1>1 DEF Remembered, Settled
  <1>5. /\ code'[c] = code[c] /\ typed'[r] = typed[r] /\ typed'[q] = typed[q]
        /\ missed'[r] = missed[r]
    BY <1>1, <1>2 DEF Kept
  <1>6. q = r \/ Guessed(c)'
    <2>1. CASE responses[c] = <<r>>
      BY <2>1
    <2>2. CASE Guessed(c)
      BY <1>1, <2>2, GuessedKept
    <2> QED
      BY <1>1, <2>1, <2>2 DEF Offered
  <1>7. q # NONE
    BY <1>2, NoneAssumption
  <1> QED
    BY <1>1, <1>2, <1>3, <1>4, <1>5, <1>6, <1>7 DEF Entitled

(* Every step gives credentials only to those entitled to them. *)
LEMMA HeldStep == IInv /\ Next => Held'
  <1> SUFFICES ASSUME IInv, Kept, Next, NEW r \in Redeemer, NEW c \in Creator,
                      Promised(r, c)'
               PROVE  Entitled(r, c)'
    BY KeptStep DEF Held
  <1>0. TypeOK /\ confirms[r] \in Seq(Creator)
    BY DEF IInv, TypeOK
  <1>1. CASE Promised(r, c)
    BY <1>0, <1>1, EntitledKept DEF IInv, Held
  <1>2. CASE UNCHANGED <<confirms, entry>>
    BY <1>1, <1>2 DEF Promised
  <1>3. ASSUME NEW d \in Creator, Confirm(d) PROVE Entitled(r, c)'
    <2>1. entry'[r] = entry[r]
      BY <1>3 DEF Confirm
    <2>2. CASE r \in Hearers(code[d])
      <3>1. confirms'[r] = Append(confirms[r], d)
        BY <1>3, <2>2 DEF Confirm
      <3>2. c = d \/ Promised(r, c)
        BY <1>0, <2>1, <3>1 DEF Promised
      <3> QED
        BY <1>1, <1>3, <2>2, <3>2, ConfirmEntitles
    <2>3. CASE r \notin Hearers(code[d])
      <3>1. confirms'[r] = confirms[r]
        BY <1>3, <2>3 DEF Confirm
      <3> QED
        BY <1>1, <2>1, <3>1 DEF Promised
    <2> QED
      BY <2>2, <2>3
  <1>4. ASSUME NEW q \in Redeemer, TakeConfirm(q) PROVE Entitled(r, c)'
    <2>1. CASE r = q
      <3>1. /\ confirms[r] # <<>>
            /\ entry'[r] = Head(confirms[r])
            /\ confirms'[r] = Tail(confirms[r])
        BY <1>0, <1>4, <2>1 DEF TakeConfirm, Takeable, TypeOK
      <3>2. 1 \in DOMAIN confirms[r] /\ entry'[r] = confirms[r][1]
        BY <1>0, <3>1
      <3>3. ASSUME NEW n \in DOMAIN confirms'[r]
            PROVE  /\ n + 1 \in DOMAIN confirms[r]
                   /\ confirms'[r][n] = confirms[r][n + 1]
        BY <1>0, <3>1, <3>3
      <3> QED
        BY <1>1, <3>2, <3>3 DEF Promised
    <2>2. CASE r # q
      <3>1. entry'[r] = entry[r] /\ confirms'[r] = confirms[r]
        BY <1>0, <1>4, <2>2 DEF TakeConfirm, TypeOK
      <3> QED
        BY <1>1, <3>1 DEF Promised
    <2> QED
      BY <2>1, <2>2
  <1>5. ASSUME NEW q \in Redeemer, NEW k \in Code, Redeem(q, k)
        PROVE  Entitled(r, c)'
    BY <1>2, <1>5 DEF Redeem, outcome
  <1> QED
    BY <1>0, <1>2, <1>3, <1>4, <1>5, QueuesStep

-----------------------------------------------------------------------------
(* The invariant and what follows from it. *)

(* The invariant holds initially. *)
LEMMA IInvInit == Init => IInv
  <1> SUFFICES ASSUME Init PROVE IInv
    OBVIOUS
  <1> USE SessionAssumption, NoneAssumption DEF Init
  <1>1. TypeOK
    BY DEF TypeOK, CreatorPC, RedeemerPC, Open, Settled
  <1>2. \A c \in Creator : /\ pc[c] = "opening" /\ told[c] = NONE
                           /\ peer[c] = NONE /\ responses[c] = <<>>
    OBVIOUS
  <1>3. \A r \in Redeemer : /\ pc[r] = "idle" /\ typed[r] = NONE
                            /\ entry[r] = NONE /\ confirms[r] = <<>>
                            /\ missed[r] = {} /\ early[r] = {}
    BY SessionAssumption
  <1> HIDE DEF Init
  <1>4. Presented /\ Answered /\ Remembered /\ Offered
    BY <1>2, <1>3 DEF Presented, Answered, Remembered, Offered
  <1>5. Concluded
    BY <1>2 DEF Concluded
  <1>6. Held
    BY <1>3 DEF Held, Promised
  <1> QED
    BY <1>1, <1>4, <1>5, <1>6 DEF IInv

(* Every step keeps the invariant. *)
LEMMA IInvStep == IInv /\ [Next]_vars => IInv'
  <1>1. CASE Next
    BY <1>1, TypeStep, CallsStep, AnsweredStep, RememberedStep, OfferedStep,
       HeldStep DEF IInv
  <1>2. CASE UNCHANGED vars
    BY <1>2 DEF vars, asked, sessions, outcome, history, IInv, TypeOK, Presented,
       Concluded, Answered, Remembered, Offered, Held, Promised, Entitled, Guessed
  <1> QED
    BY <1>1, <1>2

(* The invariant from which the safety of the pairing server follows. *)
THEOREM Inductive == Spec => []IInv
  <1> QED
    BY IInvInit, IInvStep, PTL DEF Spec

(* The type of every variable, for any number of calls. *)
THEOREM TypeCorrect == Spec => []TypeOK
  <1>1. IInv => TypeOK
    BY DEF IInv
  <1> QED
    BY <1>1, Inductive, PTL

(* Credentials of a pairing go only to one that presented its shortcode. *)
THEOREM EntryByCodeHolds == Spec => []EntryByCode
  <1>1. IInv => EntryByCode
    BY DEF IInv, TypeOK, Held, Promised, Entitled, EntryByCode
  <1> QED
    BY <1>1, Inductive, PTL

(* A shortcode that has been redeemed or has expired gets nobody anything. *)
THEOREM NoLateRedemptionHolds == Spec => []NoLateRedemption
  <1>1. IInv => NoLateRedemption
    BY NoneAssumption DEF IInv, TypeOK, Held, Promised, Entitled, NoLateRedemption
  <1> QED
    BY <1>1, Inductive, PTL

(* At most the redeemer named to the creator's client gets credentials,    *)
(* unless the shortcode was presented before it was offered.               *)
THEOREM OneInitiatorHolds == Spec => []OneInitiator
  <1>1. IInv => OneInitiator
    BY DEF IInv, TypeOK, Held, Promised, Entitled, OneInitiator
  <1> QED
    BY <1>1, Inductive, PTL

(* A creator that was told of the expiry has paired with nobody, and one   *)
(* with whose pairing a redeemer has credentials was told so or has left.  *)
THEOREM AgreementHolds == Spec => []Agreement
  <1>1. IInv => Agreement
    <2> SUFFICES ASSUME IInv, NEW c \in Creator, NEW r \in Redeemer, entry[r] = c
                 PROVE  told[c] # "expired" /\ (c \in gone \/ told[c] = "paired")
      BY DEF Agreement
    <2>1. peer[c] # NONE
      BY DEF IInv, Held, Promised, Entitled
    <2> QED
      BY <2>1, NoneAssumption DEF IInv, Concluded
  <1> QED
    BY <1>1, Inductive, PTL

(* No step takes back a shortcode, the redeemer a creator accepted, the    *)
(* end of its call, or what a redeemer presented: late messages and timers *)
(* find calls that have ended as they are.                                 *)
THEOREM OutcomesKept == Spec => [][Kept]_vars
  <1>1. IInv /\ [Next]_vars => [Kept]_vars
    BY KeptStep
  <1> QED
    BY <1>1, Inductive, PTL DEF Spec

-----------------------------------------------------------------------------
(* The implementation of PairingPromise: opening gives the creator its     *)
(* code, Redeem presents one, Confirm accepts, Expire to a client that is  *)
(* there expires, TakeConfirm hands over, and the rest is internal.        *)

(* What PairingPromise sees, and what it sees guesses in. *)
promise == <<code, typed, early, peer, told, entry>>

(* A step that leaves what PairingPromise sees alone is none of its steps. *)
LEMMA Unseen == UNCHANGED promise => UNCHANGED P!vars
  BY DEF promise, P!vars, guessed, Guessed

LEMMA PromiseInit == Init => P!Init
  <1> SUFFICES ASSUME Init PROVE P!Init
    OBVIOUS
  <1>1. guessed = {}
    BY DEF Init, guessed, Guessed
  <1> QED
    BY <1>1 DEF Init, P!Init

(* A shortcode is chosen: everyone that presented it already was early. *)
LEMMA OpeningChooses ==
    ASSUME IInv, NEW c \in Creator, Opening(c)
    PROVE  P!Next
  <1> USE DEF asked, sessions, outcome, history
  <1>0. /\ TypeOK /\ Concluded /\ Remembered /\ code \in [Creator -> Code \union {NONE}]
        /\ pc[c] = "opening"
    BY DEF IInv, TypeOK, Opening
  <1>1. PICK k \in Code : code' = [code EXCEPT ![c] = k]
    BY DEF Opening
  <1>2. /\ UNCHANGED <<typed, early, peer, told, entry>>
        /\ code[c] = NONE /\ k # NONE
    BY <1>0, NoneAssumption DEF Opening, TypeOK
  <1>3. peer[c] = NONE /\ told[c] = NONE
    BY <1>0, Undecided DEF Settled
  <1>4. ASSUME NEW r \in Redeemer
        PROVE  /\ c \in early[r] <=> typed[r] # NONE
               /\ typed[r] = NONE => typed[r] # k
    BY <1>0, <1>2 DEF Remembered
  <1>5. \A d \in Creator : Guessed(d)' <=>
            Guessed(d) \/ (d = c /\ \E r \in Redeemer : typed[r] = k)
    <2> SUFFICES ASSUME NEW d \in Creator
                 PROVE  Guessed(d)' <=>
                            Guessed(d) \/ (d = c /\ \E r \in Redeemer : typed[r] = k)
      OBVIOUS
    <2>1. CASE d = c
      <3>1. code'[d] = k
        BY <1>0, <1>1, <2>1
      <3>2. ~Guessed(d)
        BY <1>2, <1>4, <2>1 DEF Guessed
      <3>3. Guessed(d)' <=> \E r \in Redeemer : typed[r] = k /\ d \in early[r]
        BY <1>2, <3>1 DEF Guessed
      <3> QED
        BY <1>2, <1>4, <2>1, <3>2, <3>3
    <2>2. CASE d # c
      <3>1. code'[d] = code[d]
        BY <1>0, <1>1, <2>2
      <3> QED
        BY <1>2, <2>2, <3>1 DEF Guessed
    <2> QED
      BY <2>1, <2>2
  <1>6. guessed' = guessed \union {d \in {c} : \E r \in Redeemer : typed[r] = k}
    BY <1>5 DEF guessed
  <1>7. P!Choose(c, k)
    BY <1>1, <1>2, <1>3, <1>6 DEF P!Choose, P!Undecided
  <1> QED
    BY <1>7 DEF P!Next

(* A redeemer presents a shortcode: too early only for undecided creators. *)
LEMMA RedeemPresents ==
    ASSUME IInv, NEW r \in Redeemer, NEW k \in Code, Redeem(r, k)
    PROVE  P!Next
  <1> USE DEF asked, sessions, outcome, history
  <1>0. /\ TypeOK /\ Presented /\ Concluded /\ Remembered
        /\ typed \in [Redeemer -> Code \union {NONE}]
        /\ early \in [Redeemer -> SUBSET Creator]
        /\ pc[r] = "idle"
    BY DEF IInv, TypeOK, Redeem
  <1>1. typed[r] = NONE /\ entry[r] = NONE /\ early[r] = {}
    BY <1>0 DEF Presented, Remembered
  <1>2. /\ typed' = [typed EXCEPT ![r] = k]
        /\ early' = [early EXCEPT ![r] = {c \in Creator : pc[c] \in Early}]
        /\ UNCHANGED <<code, peer, told, entry>>
    BY DEF Redeem, Early
  <1> DEFINE C == {c \in Creator : code[c] = k /\ pc[c] \in Early}
  <1>3. C \subseteq {c \in Creator : code[c] = k /\ peer[c] = NONE /\ told[c] = NONE}
    BY <1>0, Undecided DEF Early, Settled
  <1>4. \A c \in Creator : Guessed(c)' <=> Guessed(c) \/ c \in C
    <2> SUFFICES ASSUME NEW c \in Creator
                 PROVE  Guessed(c)' <=> Guessed(c) \/ c \in C
      OBVIOUS
    <2>1. \A q \in Redeemer : q # r => typed'[q] = typed[q] /\ early'[q] = early[q]
      BY <1>0, <1>2
    <2>2. typed'[r] = k /\ (c \in early'[r] <=> pc[c] \in Early)
      BY <1>0, <1>2
    <2>3. code'[c] = code[c]
      BY <1>2
    <2> QED
      BY <1>1, <2>1, <2>2, <2>3 DEF Guessed
  <1>5. guessed' = guessed \union C
    BY <1>4 DEF guessed
  <1>6. P!Present(r, k)
    BY <1>1, <1>2, <1>3, <1>5 DEF P!Present, P!Undecided
  <1> QED
    BY <1>6 DEF P!Next

(* A creator confirms: it accepts the response at the head of its queue. *)
LEMMA ConfirmAccepts ==
    ASSUME IInv, NEW c \in Creator, Confirm(c)
    PROVE  P!Next
  <1> USE DEF asked, sessions, outcome, history
  <1>1. /\ TypeOK /\ Concluded /\ Answered
        /\ pc[c] = "offered" /\ responses[c] # <<>>
        /\ responses[c] \in Seq(Redeemer)
    BY DEF IInv, TypeOK, Confirm, Confirmable
  <1>2. peer[c] = NONE /\ told[c] = NONE
    BY <1>1, Undecided DEF Settled
  <1> DEFINE r == Head(responses[c])
  <1>3. r \in Redeemer /\ typed[r] = code[c] /\ code[c] # NONE
    <2>1. 1 \in DOMAIN responses[c] /\ r = responses[c][1] /\ r \in Redeemer
      BY <1>1
    <2> QED
      BY <1>1, <2>1 DEF Answered
  <1>4. /\ peer' = [peer EXCEPT ![c] = r]
        /\ told' \in {told, [told EXCEPT ![c] = "paired"]}
        /\ UNCHANGED <<code, typed, early, entry>>
    BY DEF Confirm, Conclude
  <1>5. guessed' = guessed
    BY <1>4 DEF guessed, Guessed
  <1>6. P!Accept(c, r)
    BY <1>2, <1>3, <1>4, <1>5 DEF P!Accept, P!Undecided
  <1> QED
    BY <1>3, <1>6 DEF P!Next

(* The wait for a response ends: it expires, unless nobody can be told. *)
LEMMA ExpireExpires ==
    ASSUME IInv, NEW c \in Creator, Expire(c)
    PROVE  [P!Next]_P!vars
  <1> USE DEF asked, sessions, outcome, history
  <1>1. /\ TypeOK /\ Concluded /\ pc[c] = "offered" /\ code[c] # NONE
        /\ UNCHANGED <<code, typed, early, peer, entry>>
        /\ \/ told' = told
           \/ told' = [told EXCEPT ![c] = "expired"]
    BY DEF IInv, TypeOK, Expire, Conclude
  <1>2. peer[c] = NONE /\ told[c] = NONE
    BY <1>1, Undecided DEF Settled
  <1>3. CASE told' = told
    BY <1>1, <1>3, Unseen DEF promise
  <1>4. CASE told' = [told EXCEPT ![c] = "expired"]
    <2>1. guessed' = guessed
      BY <1>1 DEF guessed, Guessed
    <2>2. P!Expire(c)
      BY <1>1, <1>2, <1>4, <2>1 DEF P!Expire, P!Undecided
    <2> QED
      BY <2>2 DEF P!Next
  <1> QED
    BY <1>1, <1>3, <1>4

(* A confirmation is taken: its credentials are handed to one entitled. *)
LEMMA TakeConfirmHands ==
    ASSUME IInv, NEW r \in Redeemer, TakeConfirm(r)
    PROVE  P!Next
  <1> USE DEF asked, sessions, outcome, history
  <1>1. /\ Presented /\ Held
        /\ pc[r] = "waiting" /\ confirms[r] # <<>>
        /\ confirms[r] \in Seq(Creator)
        /\ UNCHANGED <<code, typed, early, peer, told>>
    BY DEF IInv, TypeOK, TakeConfirm, Takeable
  <1> DEFINE c == Head(confirms[r])
  <1>2. c \in Creator /\ Promised(r, c)
    <2>1. 1 \in DOMAIN confirms[r] /\ c = confirms[r][1] /\ c \in Creator
      BY <1>1
    <2> QED
      BY <2>1 DEF Promised
  <1>3. Entitled(r, c)
    BY <1>1, <1>2 DEF Held
  <1>4. entry[r] = NONE /\ entry' = [entry EXCEPT ![r] = c]
    BY <1>1 DEF Presented, TakeConfirm
  <1>5. guessed' = guessed
    BY <1>1 DEF guessed, Guessed
  <1>6. Guessed(c) => c \in guessed
    BY <1>2 DEF guessed
  <1>7. P!Hand(r, c)
    BY <1>1, <1>3, <1>4, <1>5, <1>6 DEF P!Hand, Entitled
  <1> QED
    BY <1>2, <1>7 DEF P!Next

(* Every step is one of PairingPromise, or is not seen by it. *)
LEMMA PromiseStep == IInv /\ [Next]_vars => [P!Next]_P!vars
  <1> SUFFICES ASSUME IInv, [Next]_vars PROVE [P!Next]_P!vars
    OBVIOUS
  <1> USE DEF asked, sessions, outcome, history
  <1>1. ASSUME NEW c \in Creator, CreatorStep(c) PROVE [P!Next]_P!vars
    <2>1. ASSUME ~Opening(c), ~Confirm(c), ~Expire(c) PROVE UNCHANGED promise
      BY <1>1, <2>1 DEF CreatorStep, Refuse, Offer, SendDone, ClientLeaves, promise
    <2> QED
      BY <2>1, OpeningChooses, ConfirmAccepts, ExpireExpires, Unseen
  <1>2. ASSUME NEW r \in Redeemer, RedeemerStep(r) PROVE [P!Next]_P!vars
    <2>1. ASSUME ~TakeConfirm(r), ~\E k \in Code : Redeem(r, k)
          PROVE  UNCHANGED promise
      BY <1>2, <2>1 DEF RedeemerStep, Signed, RedeemTimeout, promise
    <2> QED
      BY <2>1, TakeConfirmHands, RedeemPresents, Unseen
  <1>3. CASE Finished \/ UNCHANGED vars
    <2>1. UNCHANGED promise
      BY <1>3 DEF Finished, vars, promise
    <2> QED
      BY <2>1, Unseen
  <1> QED
    BY <1>1, <1>2, <1>3 DEF Next

(* The pairing server keeps its promise: each creator accepts at most one  *)
(* redeemer that presented its shortcode or expires, its client is told    *)
(* so once, and only then are credentials handed over, once to each        *)
(* redeemer, and to another than the accepted one only if the shortcode    *)
(* was presented before the creator waited.                                *)
THEOREM ImplementsPromise == Spec => KeepsPromise
  <1> QED
    BY PromiseInit, PromiseStep, Inductive, PTL DEF Spec, KeepsPromise, P!Spec

=============================================================================
