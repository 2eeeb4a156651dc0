--------------------------- MODULE NegotiationProofs ---------------------------
(***************************************************************************)
(* Theorems about Negotiation: what two web peers say to each other can be *)
(* used when it arrives, for any number of candidates, and whether or not  *)
(* connections fail and peers leave.                                       *)
(***************************************************************************)
EXTENDS Negotiation, TLAPS

-----------------------------------------------------------------------------
(* Two peers. *)

LEMMA OtherPeer ==
    /\ Other("initiator") = "responder"
    /\ Other("responder") = "initiator"
    /\ \A p \in Peer : Other(p) \in Peer /\ Other(p) # p /\ Other(Other(p)) = p
  <1>1. \A q \in Peer : q # "initiator" <=> q = "responder"
    BY DEF Peer
  <1>2. Other("initiator") = "responder"
    BY <1>1 DEF Other, Peer
  <1>3. Other("responder") = "initiator"
    BY <1>1 DEF Other, Peer
  <1> QED
    BY <1>2, <1>3 DEF Peer

-----------------------------------------------------------------------------
(* Sequences of messages. *)

LEMMA HasAppend ==
    ASSUME NEW S, NEW s \in Seq(S), NEW m \in S, NEW T
    PROVE  Has(Append(s, m), T) <=> Has(s, T) \/ m.type \in T
  <1>1. \A k \in 1..Len(s) : Append(s, m)[k] = s[k]
    OBVIOUS
  <1>2. Append(s, m)[Len(s) + 1] = m /\ Len(s) + 1 \in DOMAIN Append(s, m)
    OBVIOUS
  <1>3. \A k \in DOMAIN Append(s, m) : k \in 1..Len(s) \/ k = Len(s) + 1
    OBVIOUS
  <1>4. DOMAIN s = 1..Len(s) /\ \A k \in 1..Len(s) : k \in DOMAIN Append(s, m)
    OBVIOUS
  <1> QED
    BY <1>1, <1>2, <1>3, <1>4 DEF Has

LEMMA HasTail ==
    ASSUME NEW S, NEW s \in Seq(S), NEW T, s # <<>>
    PROVE  Has(s, T) <=> Head(s).type \in T \/ Has(Tail(s), T)
  <1>1. ASSUME NEW k \in DOMAIN s PROVE k = 1 \/ (k - 1 \in DOMAIN Tail(s) /\ Tail(s)[k - 1] = s[k])
    OBVIOUS
  <1>2. ASSUME NEW k \in DOMAIN Tail(s) PROVE k + 1 \in DOMAIN s /\ Tail(s)[k] = s[k + 1]
    OBVIOUS
  <1>3. 1 \in DOMAIN s /\ Head(s) = s[1]
    OBVIOUS
  <1> QED
    BY <1>1, <1>2, <1>3 DEF Has

LEMMA HeadTail ==
    ASSUME NEW S, NEW s \in Seq(S), s # <<>>
    PROVE  Head(s) \in S /\ Tail(s) \in Seq(S)
  OBVIOUS

LEMMA RemoveAtFirst ==
    ASSUME NEW S, NEW s \in Seq(S), s # <<>>
    PROVE  RemoveAt(s, 1) = Tail(s)
  <1>1. SubSeq(s, 1, 0) = <<>>
    OBVIOUS
  <1>2. SubSeq(s, 2, Len(s)) = Tail(s)
    OBVIOUS
  <1>3. <<>> \o Tail(s) = Tail(s)
    OBVIOUS
  <1>4. SubSeq(s, 1, 1 - 1) \o SubSeq(s, 1 + 1, Len(s)) = Tail(s)
    BY <1>1, <1>2, <1>3
  <1> QED
    BY <1>4 DEF RemoveAt

LEMMA RemoveAtIndex ==
    ASSUME NEW S, NEW s \in Seq(S), NEW k \in DOMAIN s
    PROVE  /\ RemoveAt(s, k) \in Seq(S)
           /\ \A i \in DOMAIN RemoveAt(s, k) :
                 LET j == IF i < k THEN i ELSE i + 1
                 IN  i \in Nat /\ j \in DOMAIN s /\ RemoveAt(s, k)[i] = s[j]
  <1> DEFINE a == SubSeq(s, 1, k - 1)
             b == SubSeq(s, k + 1, Len(s))
  <1>0. k \in 1..Len(s)
    OBVIOUS
  <1>1. a \in Seq(S) /\ Len(a) = k - 1 /\ \A i \in DOMAIN a : i \in DOMAIN s /\ a[i] = s[i]
    BY <1>0
  <1>2. b \in Seq(S) /\ Len(b) = Len(s) - k /\ \A i \in DOMAIN b : i + k \in DOMAIN s /\ b[i] = s[i + k]
    BY <1>0
  <1>3. RemoveAt(s, k) = a \o b
    BY DEF RemoveAt
  <1>4. a \o b \in Seq(S)
    BY <1>1, <1>2
  <1>5. ASSUME NEW i \in DOMAIN (a \o b)
        PROVE  LET j == IF i < k THEN i ELSE i + 1
               IN  i \in Nat /\ j \in DOMAIN s /\ (a \o b)[i] = s[j]
    <2> HIDE DEF a, b
    <2>1. i \in 1..(Len(a) + Len(b))
      BY <1>1, <1>2
    <2>2. CASE i < k
      <3>1. (a \o b)[i] = a[i] /\ i \in DOMAIN a
        BY <1>0, <1>1, <1>2, <2>1, <2>2
      <3> QED
        BY <1>1, <2>1, <2>2, <3>1
    <2>3. CASE ~(i < k)
      <3>1. i > Len(a)
        BY <1>0, <1>1, <2>1, <2>3
      <3>2. (a \o b)[i] = b[i - Len(a)] /\ i - Len(a) \in DOMAIN b
        BY <1>1, <1>2, <2>1, <3>1
      <3>3. i - Len(a) + k = i + 1
        BY <1>0, <1>1, <2>1
      <3> QED
        BY <1>2, <2>1, <2>3, <3>2, <3>3
    <2> QED
      BY <2>2, <2>3
  <1> QED
    BY <1>3, <1>4, <1>5

LEMMA RemoveAtElements ==
    ASSUME NEW S, NEW s \in Seq(S), NEW k \in DOMAIN s
    PROVE  /\ RemoveAt(s, k) \in Seq(S)
           /\ s[k] \in S
           /\ \A T : Has(RemoveAt(s, k), T) => Has(s, T)
  <1>1. s[k] \in S
    OBVIOUS
  <1>2. \A T : Has(RemoveAt(s, k), T) => Has(s, T)
    BY RemoveAtIndex DEF Has
  <1> QED
    BY <1>1, <1>2, RemoveAtIndex

LEMMA PrecededAppend ==
    ASSUME NEW S, NEW s \in Seq(S), NEW m \in S, NEW T, NEW B,
           Preceded(s, T, B), m.type \in T => Has(s, B)
    PROVE  Preceded(Append(s, m), T, B)
  <1> SUFFICES ASSUME NEW k \in 1..(Len(s) + 1), Append(s, m)[k].type \in T
               PROVE  \E j \in 1..(k - 1) : Append(s, m)[j].type \in B
    BY DEF Preceded
  <1>1. \A j \in 1..Len(s) : Append(s, m)[j] = s[j]
    OBVIOUS
  <1>2. CASE k = Len(s) + 1
    <2>1. Append(s, m)[k] = m
      BY <1>2
    <2>2. PICK j \in 1..Len(s) : s[j].type \in B
      BY <2>1 DEF Has
    <2> QED
      BY <1>1, <1>2, <2>2
  <1>3. CASE k # Len(s) + 1
    <2>1. k \in 1..Len(s) /\ s[k].type \in T
      BY <1>1, <1>3
    <2>2. PICK j \in 1..(k - 1) : s[j].type \in B
      BY <2>1 DEF Preceded
    <2> QED
      BY <1>1, <2>1, <2>2
  <1> QED
    BY <1>2, <1>3

LEMMA PrecededHead ==
    ASSUME NEW S, NEW s \in Seq(S), NEW T, NEW B, s # <<>>, Preceded(s, T, B)
    PROVE  Head(s).type \notin T
  <1>1. 1 \in DOMAIN s /\ Head(s) = s[1]
    OBVIOUS
  <1>2. s[1].type \in T => \E j \in 1..(1 - 1) : s[j].type \in B
    BY <1>1 DEF Preceded
  <1> QED
    BY <1>1, <1>2

LEMMA PrecededTail ==
    ASSUME NEW S, NEW s \in Seq(S), NEW T, NEW B, s # <<>>,
           Preceded(s, T, B), Head(s).type \notin B
    PROVE  Preceded(Tail(s), T, B)
  <1>0. DOMAIN Tail(s) = 1..(Len(s) - 1)
    OBVIOUS
  <1> SUFFICES ASSUME NEW k \in 1..(Len(s) - 1), Tail(s)[k].type \in T
               PROVE  \E j \in 1..(k - 1) : Tail(s)[j].type \in B
    BY <1>0 DEF Preceded
  <1>1. \A j \in 1..(Len(s) - 1) : Tail(s)[j] = s[j + 1]
    OBVIOUS
  <1>2. PICK j \in 1..k : s[j].type \in B
    BY <1>1 DEF Preceded
  <1>3. j - 1 \in 1..(k - 1)
    BY <1>2
  <1>4. Tail(s)[j - 1] = s[j]
    BY <1>1, <1>3
  <1> QED
    BY <1>2, <1>3, <1>4

LEMMA OnceAppend ==
    ASSUME NEW S, NEW s \in Seq(S), NEW m \in S, NEW T,
           Once(s, T), m.type \notin T \/ ~Has(s, T)
    PROVE  Once(Append(s, m), T)
  <1>1. \A k \in DOMAIN Append(s, m) :
           \/ k \in DOMAIN s /\ Append(s, m)[k] = s[k]
           \/ k = Len(s) + 1 /\ Append(s, m)[k] = m
    OBVIOUS
  <1> QED
    BY <1>1 DEF Once, Has

LEMMA OnceTail ==
    ASSUME NEW S, NEW s \in Seq(S), NEW T, s # <<>>, Once(s, T)
    PROVE  /\ Once(Tail(s), T)
           /\ Head(s).type \in T => ~Has(Tail(s), T)
  <1>1. \A k \in DOMAIN Tail(s) :
           k \in Nat /\ k > 0 /\ k + 1 \in DOMAIN s /\ Tail(s)[k] = s[k + 1]
    OBVIOUS
  <1>2. 1 \in DOMAIN s /\ Head(s) = s[1]
    OBVIOUS
  <1>3. Once(Tail(s), T)
    BY <1>1 DEF Once
  <1>4. ASSUME Head(s).type \in T, NEW k \in DOMAIN Tail(s), Tail(s)[k].type \in T
        PROVE  FALSE
    <2>1. 1 = k + 1
      BY <1>1, <1>2, <1>4 DEF Once
    <2> QED
      BY <1>1, <2>1
  <1> QED
    BY <1>3, <1>4 DEF Has

LEMMA OnceRemoveAt ==
    ASSUME NEW S, NEW s \in Seq(S), NEW k \in DOMAIN s, NEW T, Once(s, T)
    PROVE  /\ Once(RemoveAt(s, k), T)
           /\ s[k].type \in T => ~Has(RemoveAt(s, k), T)
  <1>1. ASSUME NEW i \in DOMAIN RemoveAt(s, k)
        PROVE  LET j == IF i < k THEN i ELSE i + 1
               IN  j \in DOMAIN s /\ RemoveAt(s, k)[i] = s[j] /\ i \in Nat
    BY <1>1, RemoveAtIndex
  <1>2. Once(RemoveAt(s, k), T)
    BY <1>1 DEF Once
  <1>3. ASSUME s[k].type \in T, NEW i \in DOMAIN RemoveAt(s, k),
               RemoveAt(s, k)[i].type \in T
        PROVE  FALSE
    <2>1. k = IF i < k THEN i ELSE i + 1
      BY <1>1, <1>3 DEF Once
    <2> QED
      BY <1>1, <2>1
  <1> QED
    BY <1>2, <1>3 DEF Has

LEMMA Empty ==
    \A T, B, t : ~Has(<<>>, T) /\ Preceded(<<>>, T, B) /\ Once(<<>>, t)
  BY DEF Has, Preceded, Once

-----------------------------------------------------------------------------
(* Types. *)

LEMMA MsgTypes ==
    /\ \A p \in Peer : From(p) \subseteq Msg /\ Introduction(p) \in Msg
    /\ Plain("auth") \in Msg /\ Plain("close") \in Msg
    /\ \A p \in Peer, t \in Type, n \in Peer \union {NONE} :
          [type |-> t, nonce |-> n] \in Msg
  BY OtherPeer DEF From, Introduction, Plain, Msg, Type, Peer

LEMMA InitHolds == Init => IInv
  <1> SUFFICES ASSUME Init PROVE IInv
    OBVIOUS
  <1> USE DEF Init
  <1>1. TypeOK
    BY CandidatesAssumption DEF TypeOK
  <1>2. Spoken
    BY DEF Spoken
  <1>3. \A p \in Peer : ~Has(inbox[p], {"peerConnect"}) /\ ~Has(sent[p], Type)
                        /\ ~Has(inbox[p], Type) /\ Preceded(inbox[p], Type, {"peerConnect"})
                        /\ Once(inbox[p], {"peerConnect"})
    BY Empty
  <1>4. IntroducedOnce
    BY <1>3 DEF IntroducedOnce
  <1>5. IntroducedFirst
    BY <1>3 DEF IntroducedFirst, Relaying, Peer
  <1>6. OfferFirst
    BY <1>3 DEF OfferFirst, Peer
  <1>7. DescriptionLeads
    BY Empty, OtherPeer DEF DescriptionLeads, Led
  <1>8. DescribedOnce
    BY Empty, OtherPeer DEF DescribedOnce, Peer
  <1> QED
    BY <1>1, <1>2, <1>4, <1>5, <1>6, <1>7, <1>8 DEF IInv, MessagesUsed

LEMMA DisconnectTypes ==
    ASSUME TypeOK, NEW p \in Peer, Disconnect(p)
    PROVE  /\ sock' \in [Peer -> {"connecting", "open", "authed", "closing", "closed"}]
           /\ sent' \in [Peer -> Seq(Msg)]
  <1>1. Append(sent[p], Plain("close")) \in Seq(Msg)
    BY MsgTypes DEF TypeOK
  <1> QED
    BY <1>1 DEF TypeOK, Disconnect

LEMMA SendMessageTypes ==
    ASSUME TypeOK, NEW p \in Peer, NEW t \in Type, SendMessage(p, t)
    PROVE  signing' \in [Peer -> Seq(Msg)]
  BY MsgTypes DEF TypeOK, SendMessage

LEMMA JoinTells ==
    ASSUME NEW p \in Peer, Join(p), TypeOK
    PROVE  /\ inbox' \in [Peer -> Seq(Msg)]
           /\ \A q \in Peer :
                 inbox'[q] \in {inbox[q], Append(inbox[q], Introduction(q))}
           /\ server[Other(p)] = "joined" =>
                 inbox'["responder"] = Append(inbox["responder"], Introduction("responder"))
  <1>1. CASE server[Other(p)] # "joined"
    BY <1>1 DEF Join, TypeOK
  <1>2. CASE server[Other(p)] = "joined"
    <2>1. PICK told \in {Peer, {"responder"}} :
             inbox' = [q \in Peer |->
                          IF q \notin told THEN inbox[q]
                          ELSE Append(inbox[q], Introduction(q))]
      BY <1>2 DEF Join, Introduction
    <2>2. \A q \in Peer : /\ inbox[q] \in Seq(Msg)
                          /\ Append(inbox[q], Introduction(q)) \in Seq(Msg)
      BY MsgTypes DEF TypeOK
    <2>3. inbox' \in [Peer -> Seq(Msg)]
      BY <2>1, <2>2
    <2>4. \A q \in Peer : inbox'[q] \in {inbox[q], Append(inbox[q], Introduction(q))}
      BY <2>1
    <2>5. "responder" \in told /\ "responder" \in Peer
      BY <2>1 DEF Peer
    <2>6. inbox'["responder"] = Append(inbox["responder"], Introduction("responder"))
      BY <2>1, <2>5
    <2> QED
      BY <2>3, <2>4, <2>6
  <1> QED
    BY <1>1, <1>2

LEMMA TypeStep == TypeOK /\ [Next]_vars => TypeOK'
  <1> SUFFICES ASSUME TypeOK, [Next]_vars PROVE TypeOK'
    OBVIOUS
  <1> USE DEF clientVars, wireVars, peerVars, history
  <1>1. CASE UNCHANGED vars
    BY <1>1 DEF TypeOK, vars
  <1>2. ASSUME NEW p \in Peer, ClientStep(p) PROVE TypeOK'
    <2>1. CASE SocketOpens(p)
      BY <2>1 DEF SocketOpens, TypeOK
    <2>2. CASE SendAuth(p)
      BY <2>2, MsgTypes DEF SendAuth, TypeOK
    <2>3. CASE Signed(p)
      <3>1. PICK k \in Done(signing[p]) :
               /\ signing' = [signing EXCEPT ![p] = RemoveAt(@, k)]
               /\ sent' = IF sock[p] # "authed" THEN sent
                          ELSE [sent EXCEPT ![p] = Append(@, signing[p][k])]
        BY <2>3 DEF Signed
      <3>2. RemoveAt(signing[p], k) \in Seq(Msg) /\ signing[p][k] \in Msg
        BY RemoveAtElements DEF TypeOK, Done
      <3> QED
        BY <2>3, <3>1, <3>2 DEF Signed, TypeOK
    <2>4. CASE Verified(p)
      <3>1. PICK k \in Done(checking[p]) :
               /\ checking' = [checking EXCEPT ![p] = RemoveAt(@, k)]
               /\ remote' \in {remote, remote \union {p}}
               /\ local' \in {local, [local EXCEPT ![p] = "creating"]}
               /\ added' \in {added, added \union {p}}
               /\ lost' \in {lost, lost \union {p}}
        BY <2>4 DEF Verified
      <3>2. RemoveAt(checking[p], k) \in Seq(Msg)
        BY RemoveAtElements DEF TypeOK, Done
      <3> QED
        BY <2>4, <3>1, <3>2 DEF Verified, TypeOK
    <2>5. CASE PeerConnect(p)
      <3>1. inbox[p] \in Seq(Msg) /\ inbox[p] # <<>>
        BY <2>5 DEF PeerConnect, Incoming, TypeOK
      <3>2. Tail(inbox[p]) \in Seq(Msg) /\ Head(inbox[p]) \in Msg
        BY <3>1, HeadTail
      <3>3. Head(inbox[p]).nonce \in Peer \union {NONE}
        BY <3>2 DEF Msg
      <3> QED
        BY <2>5, <3>2, <3>3 DEF PeerConnect, Incoming, TypeOK
    <2>6. CASE HandleMessage(p)
      <3>1. inbox[p] \in Seq(Msg) /\ inbox[p] # <<>>
        BY <2>6 DEF HandleMessage, Incoming, TypeOK
      <3>2. Tail(inbox[p]) \in Seq(Msg) /\ Head(inbox[p]) \in Msg
        BY <3>1
      <3>3. Append(checking[p], Head(inbox[p])) \in Seq(Msg)
        BY <3>2 DEF TypeOK
      <3>4. inbox' \in [Peer -> Seq(Msg)]
        BY <2>6, <3>2 DEF HandleMessage, Incoming, TypeOK
      <3>5. CASE Head(inbox[p]).nonce # p
        BY <2>6, <3>4, <3>5, DisconnectTypes DEF HandleMessage, TypeOK
      <3>6. CASE Head(inbox[p]).nonce = p
        <4>1. /\ checking' = [checking EXCEPT ![p] = Append(@, Head(inbox[p]))]
              /\ UNCHANGED <<sock, sent, refused>>
          BY <2>6, <3>6 DEF HandleMessage
        <4>2. checking' \in [Peer -> Seq(Msg)]
          BY <3>3, <4>1 DEF TypeOK
        <4> QED
          BY <2>6, <3>4, <4>1, <4>2 DEF HandleMessage, TypeOK
      <3> QED
        BY <3>5, <3>6
    <2>7. CASE SendOffer(p)
      BY <2>7, SendMessageTypes DEF SendOffer, TypeOK, Type
    <2>8. CASE SendAnswer(p)
      BY <2>8, SendMessageTypes DEF SendAnswer, TypeOK, Type
    <2>9. CASE LocalSet(p)
      BY <2>9 DEF LocalSet, TypeOK
    <2>10. CASE SocketEnds(p)
      BY <2>10 DEF SocketEnds, TypeOK
    <2> QED
      BY <1>2, <2>1, <2>2, <2>3, <2>4, <2>5, <2>6, <2>7, <2>8, <2>9, <2>10 DEF ClientStep
  <1>3. ASSUME NEW p \in Peer, ServerStep(p) PROVE TypeOK'
    <2>1. CASE Join(p)
      <3>1. inbox' \in [Peer -> Seq(Msg)]
        BY <2>1, JoinTells
      <3>2. sent' \in [Peer -> Seq(Msg)]
            /\ UNCHANGED <<orderly, sock, clientVars, peerVars, rtc, history>>
        BY <2>1 DEF Join, Outgoing, TypeOK
      <3>3. server' \in [Peer -> {"new", "joined", "gone"}]
        BY <2>1 DEF Join, TypeOK
      <3> QED
        BY <3>1, <3>2, <3>3 DEF TypeOK
    <2>2. CASE Relay(p)
      BY <2>2, OtherPeer DEF Relay, Outgoing, TypeOK
    <2>3. CASE CloseEvent(p)
      BY <2>3, MsgTypes DEF CloseEvent, Release, Outgoing, TypeOK
    <2>4. CASE Drop(p)
      BY <2>4 DEF Drop, Outgoing, TypeOK
    <2> QED
      BY <1>3, <2>1, <2>2, <2>3, <2>4 DEF ServerStep
  <1>4. ASSUME NEW p \in Peer,
               SendIceCandidate(p) \/ RtcConnects(p) \/ RtcFails(p) \/ Leave(p)
        PROVE  TypeOK'
    <2>1. CASE SendIceCandidate(p)
      BY <2>1, SendMessageTypes, CandidatesAssumption DEF SendIceCandidate, TypeOK, Type
    <2>2. CASE RtcConnects(p)
      BY <2>2, DisconnectTypes DEF RtcConnects, TypeOK
    <2>3. CASE RtcFails(p)
      BY <2>3, DisconnectTypes DEF RtcFails, Close, TypeOK
    <2>4. CASE Leave(p)
      BY <2>4, DisconnectTypes DEF Leave, Close, TypeOK
    <2> QED
      BY <1>4, <2>1, <2>2, <2>3, <2>4
  <1>5. ASSUME NEW p \in Peer, Timeout(p) PROVE TypeOK'
    BY <1>5, MsgTypes DEF Timeout, Release, TypeOK
  <1> QED
    BY <1>1, <1>2, <1>3, <1>4, <1>5 DEF Next

-----------------------------------------------------------------------------
(* What each says. *)

LEMMA SpokenTypes ==
    ASSUME NEW p \in Peer
    PROVE  /\ \A m \in From(p) : m.type \in Type /\ m.nonce = Other(p)
           /\ \A m \in Upstream(p) : m.type \in Type => m \in From(p)
           /\ \A m \in Downstream(p) :
                 /\ m.type \in Type => m \in From(Other(p))
                 /\ m.type = "peerConnect" => m.nonce = Other(p)
           /\ From(p) \subseteq Upstream(p)
           /\ From(p) \subseteq Downstream(Other(p))
           /\ Plain("auth") \in Upstream(p) /\ Plain("close") \in Upstream(p)
           /\ Introduction(p) \in Downstream(p)
           /\ Plain("close") \in Downstream(p)
  BY OtherPeer DEF From, Upstream, Downstream, Introduction, Plain, Type

LEMMA SignsForOther ==
    ASSUME TypeOK, Spoken, IntroducedOnce, NEW p \in Peer, NEW t,
           SendMessage(p, t), local[p] # "none",
           t \in {"iceCandidate", IF p = "initiator" THEN "offer" ELSE "answer"}
    PROVE  \A q \in Peer : signing'[q] \in Seq(From(q))
  <1>1. remoteNonce[p] = Other(p)
    BY DEF Spoken, IntroducedOnce
  <1>2. [type |-> t, nonce |-> remoteNonce[p]] \in From(p)
    BY <1>1 DEF From
  <1>3. Append(signing[p], [type |-> t, nonce |-> remoteNonce[p]]) \in Seq(From(p))
    BY <1>2 DEF Spoken
  <1> QED
    BY <1>3 DEF SendMessage, TypeOK, Spoken

LEMMA DisconnectSpoken ==
    ASSUME TypeOK, Spoken, NEW p \in Peer, Disconnect(p)
    PROVE  \A q \in Peer : sent'[q] \in Seq(Upstream(q))
  <1>1. Append(sent[p], Plain("close")) \in Seq(Upstream(p))
    BY SpokenTypes DEF Spoken
  <1> QED
    BY <1>1 DEF Disconnect, TypeOK, Spoken

LEMMA SpokenStep == IInv /\ Next => Spoken'
  <1> SUFFICES ASSUME TypeOK, Spoken, IntroducedOnce, Next PROVE Spoken'
    BY DEF IInv
  <1> USE DEF clientVars, wireVars, peerVars, history
  <1>1. ASSUME NEW p \in Peer,
               SocketOpens(p) \/ LocalSet(p) \/ Drop(p) \/ SocketEnds(p)
        PROVE  Spoken'
    <2>1. CASE SocketOpens(p) \/ LocalSet(p)
      BY <2>1 DEF SocketOpens, LocalSet, Spoken
    <2>2. CASE Drop(p)
      <3>1. Tail(sent[p]) \in Seq(Upstream(p))
        BY <2>2, HeadTail DEF Drop, Outgoing, Spoken
      <3> QED
        BY <2>2, <3>1 DEF Drop, Outgoing, Spoken, TypeOK
    <2>3. CASE SocketEnds(p)
      BY <2>3 DEF SocketEnds, Spoken, TypeOK
    <2> QED
      BY <1>1, <2>1, <2>2, <2>3
  <1>2. ASSUME NEW p \in Peer, SendAuth(p) PROVE Spoken'
    <2>1. Append(sent[p], Plain("auth")) \in Seq(Upstream(p))
      BY SpokenTypes DEF Spoken
    <2> QED
      BY <1>2, <2>1 DEF SendAuth, Spoken, TypeOK
  <1>3. ASSUME NEW p \in Peer, Signed(p) PROVE Spoken'
    <2>1. PICK k \in Done(signing[p]) :
             /\ signing' = [signing EXCEPT ![p] = RemoveAt(@, k)]
             /\ sent' = IF sock[p] # "authed" THEN sent
                        ELSE [sent EXCEPT ![p] = Append(@, signing[p][k])]
      BY <1>3 DEF Signed
    <2>2. RemoveAt(signing[p], k) \in Seq(From(p)) /\ signing[p][k] \in From(p)
      BY RemoveAtElements DEF Spoken, Done
    <2>3. Append(sent[p], signing[p][k]) \in Seq(Upstream(p))
      BY <2>2, SpokenTypes DEF Spoken
    <2> QED
      BY <1>3, <2>1, <2>2, <2>3 DEF Signed, Spoken, TypeOK
  <1>4. ASSUME NEW p \in Peer, Verified(p) PROVE Spoken'
    <2>1. PICK k \in Done(checking[p]) :
             checking' = [checking EXCEPT ![p] = RemoveAt(@, k)]
      BY <1>4 DEF Verified
    <2>2. RemoveAt(checking[p], k) \in Seq(From(Other(p)))
      BY RemoveAtElements DEF Spoken, Done
    <2> QED
      BY <1>4, <2>1, <2>2 DEF Verified, Spoken, TypeOK
  <1>5. ASSUME NEW p \in Peer, NEW T, Incoming(p, T)
        PROVE  /\ Head(inbox[p]) \in Downstream(p) /\ Head(inbox[p]).type \in T
               /\ \A q \in Peer : inbox'[q] \in Seq(Downstream(q))
    <2>1. Head(inbox[p]) \in Downstream(p) /\ Tail(inbox[p]) \in Seq(Downstream(p))
      BY <1>5, HeadTail DEF Incoming, Spoken
    <2> QED
      BY <1>5, <2>1 DEF Incoming, Spoken, TypeOK
  <1>6. ASSUME NEW p \in Peer, PeerConnect(p) PROVE Spoken'
    <2>1. Head(inbox[p]).nonce = Other(p) /\ \A q \in Peer : inbox'[q] \in Seq(Downstream(q))
      BY <1>5, <1>6, SpokenTypes DEF PeerConnect
    <2> QED
      BY <1>6, <2>1 DEF PeerConnect, Spoken, TypeOK
  <1>7. ASSUME NEW p \in Peer, HandleMessage(p) PROVE Spoken'
    <2>1. Head(inbox[p]) \in From(Other(p)) /\ \A q \in Peer : inbox'[q] \in Seq(Downstream(q))
      BY <1>5, <1>7, SpokenTypes DEF HandleMessage
    <2>2. Append(checking[p], Head(inbox[p])) \in Seq(From(Other(p)))
      BY <2>1 DEF Spoken
    <2>3. \A q \in Peer : checking'[q] \in Seq(From(Other(q)))
      BY <1>7, <2>2 DEF HandleMessage, Spoken, TypeOK
    <2>4. \A q \in Peer : sent'[q] \in Seq(Upstream(q))
      BY <1>7, DisconnectSpoken DEF HandleMessage, Spoken
    <2> QED
      BY <1>7, <2>1, <2>3, <2>4 DEF HandleMessage, Spoken
  <1>8. ASSUME NEW p \in Peer, SendOffer(p) \/ SendAnswer(p) \/ SendIceCandidate(p)
        PROVE  Spoken'
    <2>1. \A q \in Peer : signing'[q] \in Seq(From(q))
      BY <1>8, SignsForOther DEF SendOffer, SendAnswer, SendIceCandidate, Peer
    <2> QED
      BY <1>8, <2>1 DEF SendOffer, SendAnswer, SendIceCandidate, Spoken
  <1>9. ASSUME NEW p \in Peer, RtcConnects(p) \/ RtcFails(p) \/ Leave(p)
        PROVE  Spoken'
    <2>1. Disconnect(p) /\ UNCHANGED <<remoteNonce, signing, inbox, checking>>
      BY <1>9 DEF RtcConnects, RtcFails, Leave, Close
    <2> QED
      BY <2>1, DisconnectSpoken DEF Spoken
  <1>10. ASSUME NEW p \in Peer, NEW T, Outgoing(p, T)
         PROVE  /\ Head(sent[p]) \in Upstream(p) /\ Head(sent[p]).type \in T
                /\ \A q \in Peer : sent'[q] \in Seq(Upstream(q))
                /\ UNCHANGED <<remoteNonce, signing, checking>>
    <2>1. Head(sent[p]) \in Upstream(p) /\ Tail(sent[p]) \in Seq(Upstream(p))
      BY <1>10, HeadTail DEF Outgoing, Spoken
    <2> QED
      BY <1>10, <2>1 DEF Outgoing, Spoken, TypeOK
  <1>11. ASSUME NEW p \in Peer, Join(p) PROVE Spoken'
    <2>1. \A q \in Peer : Append(inbox[q], Introduction(q)) \in Seq(Downstream(q))
      BY SpokenTypes DEF Spoken
    <2>2. \A q \in Peer : inbox'[q] \in Seq(Downstream(q))
      BY <1>11, <2>1, JoinTells DEF Spoken
    <2>3. UNCHANGED <<remoteNonce, signing, checking>>
          /\ \A q \in Peer : sent'[q] \in Seq(Upstream(q))
      BY <1>10, <1>11 DEF Join
    <2> QED
      BY <2>2, <2>3 DEF Spoken
  <1>12. ASSUME NEW p \in Peer, Relay(p) PROVE Spoken'
    <2>1. Head(sent[p]) \in Downstream(Other(p)) /\ UNCHANGED <<remoteNonce, signing, checking>>
          /\ \A q \in Peer : sent'[q] \in Seq(Upstream(q))
      BY <1>10, <1>12, SpokenTypes DEF Relay
    <2>2. Append(inbox[Other(p)], Head(sent[p])) \in Seq(Downstream(Other(p)))
      BY <2>1, OtherPeer DEF Spoken
    <2>3. \A q \in Peer : inbox'[q] \in Seq(Downstream(q))
      BY <1>12, <2>2, OtherPeer DEF Relay, Spoken, TypeOK
    <2> QED
      BY <2>1, <2>3 DEF Spoken
  <1>13. ASSUME NEW G, Release(G) PROVE \A q \in Peer : inbox'[q] \in Seq(Downstream(q))
    <2>1. \A q \in Peer : Append(inbox[q], Plain("close")) \in Seq(Downstream(q))
      BY SpokenTypes DEF Spoken
    <2> QED
      BY <1>13, <2>1 DEF Release, Spoken
  <1>14. ASSUME NEW p \in Peer, CloseEvent(p) \/ Timeout(p) PROVE Spoken'
    <2>1. \A q \in Peer : inbox'[q] \in Seq(Downstream(q))
      BY <1>13, <1>14 DEF CloseEvent, Timeout
    <2>2. CASE CloseEvent(p)
      BY <1>10, <2>1, <2>2 DEF CloseEvent, Spoken
    <2>3. CASE Timeout(p)
      BY <2>1, <2>3 DEF Timeout, Spoken
    <2> QED
      BY <1>14, <2>2, <2>3
  <1> QED
    BY <1>1, <1>2, <1>3, <1>4, <1>6, <1>7, <1>8, <1>9, <1>11, <1>12, <1>14
    DEF Next, ClientStep, ServerStep

-----------------------------------------------------------------------------
(* When a peer is introduced. *)

LEMMA DisconnectSays ==
    ASSUME TypeOK, NEW p \in Peer, Disconnect(p), NEW q \in Peer
    PROVE  /\ \A T : "close" \notin T => (Has(sent'[q], T) <=> Has(sent[q], T))
           /\ sock'[q] = sock[q] \/ sock'[q] = "closing"
  <1>1. sent[p] \in Seq(Msg) /\ Plain("close") \in Msg /\ Plain("close").type = "close"
    BY MsgTypes DEF TypeOK, Plain
  <1>2. \A T : "close" \notin T =>
           (Has(Append(sent[p], Plain("close")), T) <=> Has(sent[p], T))
    BY <1>1, HasAppend
  <1> QED
    BY <1>2 DEF Disconnect, TypeOK

(* What is taken from the head of a queue. *)
LEMMA OutgoingTakes ==
    ASSUME TypeOK, NEW p \in Peer, NEW U, Outgoing(p, U), NEW q \in Peer
    PROVE  \A T : Has(sent[q], T) <=> \/ Has(sent'[q], T)
                                      \/ q = p /\ Head(sent[p]).type \in T
  <1>1. sent[p] \in Seq(Msg) /\ sent[p] # <<>> /\ sent' = [sent EXCEPT ![p] = Tail(@)]
    BY DEF TypeOK, Outgoing
  <1>2. \A T : Has(sent[p], T) <=> Head(sent[p]).type \in T \/ Has(Tail(sent[p]), T)
    BY <1>1, HasTail
  <1> QED
    BY <1>1, <1>2 DEF TypeOK

LEMMA IncomingTakes ==
    ASSUME TypeOK, NEW p \in Peer, NEW U, Incoming(p, U), NEW q \in Peer
    PROVE  \A T : Has(inbox[q], T) <=> \/ Has(inbox'[q], T)
                                       \/ q = p /\ Head(inbox[p]).type \in T
  <1>1. inbox[p] \in Seq(Msg) /\ inbox[p] # <<>> /\ inbox' = [inbox EXCEPT ![p] = Tail(@)]
    BY DEF TypeOK, Incoming
  <1>2. \A T : Has(inbox[p], T) <=> Head(inbox[p]).type \in T \/ Has(Tail(inbox[p]), T)
    BY <1>1, HasTail
  <1> QED
    BY <1>1, <1>2 DEF TypeOK

(* What the server adds to the inbox of a peer when sockets end. *)
LEMMA ReleaseSays ==
    ASSUME TypeOK, NEW G, Release(G), NEW q \in Peer
    PROVE  /\ \/ inbox'[q] = inbox[q]
              \/ inbox'[q] = Append(inbox[q], Plain("close"))
           /\ \A T : "close" \notin T => (Has(inbox'[q], T) <=> Has(inbox[q], T))
           /\ server'[q] \in {server[q], "gone"}
  <1>1. inbox[q] \in Seq(Msg) /\ Plain("close") \in Msg /\ Plain("close").type = "close"
    BY MsgTypes DEF TypeOK, Plain
  <1>2. \A T : "close" \notin T =>
           (Has(Append(inbox[q], Plain("close")), T) <=> Has(inbox[q], T))
    BY <1>1, HasAppend
  <1>3. inbox'[q] \in {inbox[q], Append(inbox[q], Plain("close"))}
    BY DEF Release, TypeOK
  <1> QED
    BY <1>2, <1>3 DEF Release, TypeOK

(* The head of what a peer is sent and of what it has sent. *)
LEMMA HeadsSpoken ==
    ASSUME TypeOK, Spoken, NEW p \in Peer, NEW T
    PROVE  /\ Incoming(p, T) => /\ inbox[p] \in Seq(Msg) /\ inbox[p] # <<>>
                                /\ Head(inbox[p]) \in Downstream(p)
                                /\ Head(inbox[p]).type \in T
           /\ Outgoing(p, T) => /\ sent[p] \in Seq(Msg) /\ sent[p] # <<>>
                                /\ Head(sent[p]) \in Upstream(p)
                                /\ Head(sent[p]).type \in T
  <1>1. Incoming(p, T) => Head(inbox[p]) \in Downstream(p)
    BY HeadTail DEF Incoming, Spoken
  <1>2. Outgoing(p, T) => Head(sent[p]) \in Upstream(p)
    BY HeadTail DEF Outgoing, Spoken
  <1> QED
    BY <1>1, <1>2 DEF Incoming, Outgoing, TypeOK

LEMMA MatchedKept == IInv /\ Next /\ Matched => Matched'
  <1> SUFFICES ASSUME TypeOK, Matched, Next PROVE Matched'
    BY DEF IInv
  <1>1. ASSUME NEW G, Release(G) PROVE Matched'
    BY <1>1, ReleaseSays DEF Matched
  <1>2. ASSUME NEW p \in Peer, Join(p) PROVE Matched'
    BY <1>2 DEF Join, Matched, TypeOK
  <1> QED
    BY <1>1, <1>2 DEF Next, ClientStep, ServerStep, SocketOpens, SendAuth, Signed, Verified,
       PeerConnect, HandleMessage, SendOffer, SendAnswer, LocalSet, SocketEnds,
       SendIceCandidate, RtcConnects, RtcFails, Leave, Relay, CloseEvent,
       Drop, Timeout, Matched, wireVars

(* What a peer does on its own, it does after it has been introduced. *)
OwnStep(p) ==
    \/ SocketOpens(p) \/ SendAuth(p) \/ Signed(p) \/ Verified(p)
    \/ SendOffer(p) \/ SendAnswer(p) \/ LocalSet(p) \/ SendIceCandidate(p)
    \/ RtcConnects(p) \/ RtcFails(p) \/ Leave(p)

LEMMA OwnStepFrame ==
    ASSUME NEW p \in Peer, OwnStep(p)
    PROVE  UNCHANGED <<orderly, remoteNonce, server, inbox>>
  BY DEF OwnStep, SocketOpens, SendAuth, Signed, Verified, SendOffer, SendAnswer,
     LocalSet, SendIceCandidate, RtcConnects, RtcFails, Leave, clientVars, wireVars

LEMMA StrangersSilent ==
    ASSUME TypeOK, Spoken, IntroducedOnce, NEW p \in Peer, OwnStep(p),
           NEW q \in Peer, remoteNonce[q] = NONE
    PROVE  /\ UNCHANGED <<local[q], signing[q], checking[q]>>
           /\ Has(sent'[q], Type) <=> Has(sent[q], Type)
  <1> USE DEF clientVars, wireVars, peerVars, history
  <1>1. CASE SocketOpens(p)
    BY <1>1 DEF SocketOpens
  <1>2. CASE SendAuth(p)
    <2>1. sent[p] \in Seq(Msg) /\ Plain("auth") \in Msg /\ Plain("auth").type \notin Type
      BY MsgTypes DEF TypeOK, Plain, Type
    <2>2. Has(Append(sent[p], Plain("auth")), Type) <=> Has(sent[p], Type)
      BY <2>1, HasAppend
    <2> QED
      BY <1>2, <2>2 DEF SendAuth, TypeOK
  <1>3. CASE Signed(p) \/ Verified(p)
    <2>1. signing[p] # <<>> \/ checking[p] # <<>>
      BY <1>3 DEF Signed, Verified, Done
    <2>2. q # p
      BY <2>1 DEF IntroducedOnce
    <2>3. CASE Signed(p)
      BY <2>2, <2>3 DEF Signed, TypeOK
    <2>4. CASE Verified(p)
      BY <2>2, <2>4 DEF Verified, TypeOK
    <2> QED
      BY <1>3, <2>3, <2>4
  <1>4. CASE SendOffer(p) \/ SendAnswer(p) \/ LocalSet(p) \/ SendIceCandidate(p)
    <2>1. local[p] # "none"
      BY <1>4 DEF SendOffer, SendAnswer, LocalSet, SendIceCandidate
    <2>2. q # p
      BY <2>1 DEF IntroducedOnce
    <2> QED
      BY <1>4, <2>2 DEF SendOffer, SendAnswer, LocalSet, SendIceCandidate, SendMessage, TypeOK
  <1>5. CASE RtcConnects(p) \/ RtcFails(p) \/ Leave(p)
    <2>1. Disconnect(p) /\ UNCHANGED <<local, signing, checking>>
      BY <1>5 DEF RtcConnects, RtcFails, Leave, Close
    <2>2. "close" \notin Type
      BY DEF Type
    <2> QED
      BY <2>1, <2>2, DisconnectSays
  <1> QED
    BY <1>1, <1>2, <1>3, <1>4, <1>5 DEF OwnStep

LEMMA IntroducedOnceStep == IInv /\ Next => IntroducedOnce'
  <1> SUFFICES ASSUME IInv, TypeOK, Spoken, IntroducedOnce, IntroducedFirst, Next,
                      NEW q \in Peer
               PROVE  /\ remoteNonce'[q] # NONE =>
                           /\ sock'[q] \notin {"connecting", "open"}
                           /\ Matched'
                           /\ ~Has(inbox'[q], {"peerConnect"})
                      /\ remoteNonce'[q] = NONE =>
                           /\ local'[q] = "none"
                           /\ signing'[q] = <<>> /\ checking'[q] = <<>>
                           /\ ~Has(sent'[q], Type)
                      /\ Has(inbox'[q], {"peerConnect"}) => Matched'
                      /\ Once(inbox'[q], {"peerConnect"})
    BY DEF IInv, IntroducedOnce
  <1> DEFINE Goal ==
               /\ remoteNonce'[q] # NONE =>
                     /\ sock'[q] \notin {"connecting", "open"}
                     /\ Matched'
                     /\ ~Has(inbox'[q], {"peerConnect"})
               /\ remoteNonce'[q] = NONE =>
                     /\ local'[q] = "none"
                     /\ signing'[q] = <<>> /\ checking'[q] = <<>>
                     /\ ~Has(sent'[q], Type)
               /\ Has(inbox'[q], {"peerConnect"}) => Matched'
               /\ Once(inbox'[q], {"peerConnect"})
  <1> USE DEF clientVars, wireVars, peerVars, history
  <1>0. Matched => Matched'
    BY MatchedKept
  <1>1. ASSUME NEW p \in Peer, OwnStep(p) PROVE Goal
    <2>1. remoteNonce[q] # NONE => sock'[q] \notin {"connecting", "open"}
      <3>1. CASE RtcConnects(p) \/ RtcFails(p) \/ Leave(p)
        BY <3>1, DisconnectSays DEF RtcConnects, RtcFails, Leave, Close, IntroducedOnce
      <3> QED
        BY <1>1, <3>1 DEF OwnStep, SocketOpens, SendAuth, Signed, Verified, SendOffer,
           SendAnswer, LocalSet, SendIceCandidate, IntroducedOnce, TypeOK
    <2> QED
      BY <1>0, <1>1, <2>1, OwnStepFrame, StrangersSilent DEF IntroducedOnce
  <1>2. ASSUME NEW p \in Peer, PeerConnect(p) PROVE Goal
    <2>1. /\ inbox[p] \in Seq(Msg) /\ inbox[p] # <<>>
          /\ Head(inbox[p]).type = "peerConnect" /\ Head(inbox[p]).nonce = Other(p)
          /\ inbox' = [inbox EXCEPT ![p] = Tail(@)]
      BY <1>2, HeadsSpoken, SpokenTypes DEF PeerConnect, Incoming
    <2>2. Has(inbox[p], {"peerConnect"})
      BY <2>1, HasTail
    <2>3. Once(Tail(inbox[p]), {"peerConnect"}) /\ ~Has(Tail(inbox[p]), {"peerConnect"})
      BY <2>1, OnceTail DEF IntroducedOnce
    <2>4. remoteNonce'[p] # NONE
      BY <1>2, <2>1, NoneAssumption, OtherPeer DEF PeerConnect, TypeOK
    <2>5. Matched'
      BY <1>0, <2>2 DEF IntroducedOnce
    <2>6. sock[p] = "authed"
      BY <1>2 DEF PeerConnect, Incoming
    <2>7. CASE q = p
      BY <1>2, <2>1, <2>3, <2>4, <2>5, <2>6, <2>7 DEF PeerConnect, TypeOK
    <2>8. CASE q # p
      BY <1>2, <2>1, <2>5, <2>8 DEF PeerConnect, TypeOK, IntroducedOnce
    <2> QED
      BY <2>7, <2>8
  <1>3. ASSUME NEW p \in Peer, HandleMessage(p) PROVE Goal
    <2>1. /\ inbox[p] \in Seq(Msg) /\ inbox[p] # <<>> /\ Head(inbox[p]).type \in Type
          /\ inbox' = [inbox EXCEPT ![p] = Tail(@)] /\ sock[p] = "authed"
      BY <1>3, HeadsSpoken DEF HandleMessage, Incoming
    <2>2. remoteNonce[p] # NONE
      BY <2>1, PrecededHead DEF IntroducedFirst
    <2>3. Once(inbox'[q], {"peerConnect"})
          /\ (Has(inbox'[q], {"peerConnect"}) => Has(inbox[q], {"peerConnect"}))
      <3>1. Once(Tail(inbox[p]), {"peerConnect"})
        BY <2>1, OnceTail DEF IntroducedOnce
      <3> QED
        BY <1>3, <2>1, <3>1, IncomingTakes DEF HandleMessage, TypeOK, IntroducedOnce
    <2>4. /\ sock'[q] \in {sock[q], "closing"}
          /\ Has(sent'[q], Type) <=> Has(sent[q], Type)
      <3>1. "close" \notin Type
        BY DEF Type
      <3> QED
        BY <1>3, <3>1, DisconnectSays DEF HandleMessage
    <2>5. remoteNonce[q] = NONE => checking'[q] = checking[q]
      BY <1>3, <2>2 DEF HandleMessage, TypeOK
    <2> QED
      BY <1>0, <1>3, <2>3, <2>4, <2>5 DEF HandleMessage, IntroducedOnce
  <1>4. ASSUME NEW p \in Peer, SocketEnds(p) PROVE Goal
    <2>1. /\ inbox'[q] \in {inbox[q], <<>>} /\ sock'[q] \in {sock[q], "closed"}
          /\ UNCHANGED <<remoteNonce, local, signing, checking, sent>>
      BY <1>4 DEF SocketEnds, TypeOK
    <2> QED
      BY <1>0, <2>1, Empty DEF IntroducedOnce
  <1>5. ASSUME NEW p \in Peer, NEW U, Outgoing(p, U)
        PROVE  /\ UNCHANGED <<remoteNonce, local, signing, checking, sock>>
               /\ Has(sent'[q], Type) => Has(sent[q], Type)
    BY <1>5, OutgoingTakes DEF Outgoing
  <1>6. ASSUME NEW p \in Peer, Join(p) PROVE Goal
    <2>1. server[p] = "new"
      BY <1>6 DEF Join
    <2>2. ~Matched
      BY <2>1 DEF Matched
    <2>3. remoteNonce[q] = NONE /\ ~Has(inbox[q], {"peerConnect"}) /\ Once(inbox[q], {"peerConnect"})
      BY <2>2 DEF IntroducedOnce
    <2>4. inbox[q] \in Seq(Msg) /\ Introduction(q) \in Msg
      BY MsgTypes DEF TypeOK
    <2>5. Once(Append(inbox[q], Introduction(q)), {"peerConnect"})
      BY <2>3, <2>4, OnceAppend
    <2>6. CASE server[Other(p)] # "joined"
      BY <1>5, <1>6, <2>3, <2>6 DEF Join, IntroducedOnce
    <2>7. CASE server[Other(p)] = "joined"
      <3>1. Matched'
        BY <1>6, <2>7, OtherPeer DEF Join, Matched, TypeOK, Peer
      <3> QED
        BY <1>5, <1>6, <2>3, <2>5, <3>1, JoinTells DEF Join, IntroducedOnce
    <2> QED
      BY <2>6, <2>7
  <1>7. ASSUME NEW p \in Peer, Relay(p) PROVE Goal
    <2>1. Head(sent[p]) \in Msg /\ Head(sent[p]).type \in Type
      BY <1>7, HeadsSpoken, HeadTail DEF Relay
    <2>2. inbox'[q] \in {inbox[q], Append(inbox[q], Head(sent[p]))}
      BY <1>7 DEF Relay, TypeOK
    <2>3. inbox[q] \in Seq(Msg) /\ Head(sent[p]).type # "peerConnect"
      BY <2>1 DEF TypeOK, Type
    <2>4. /\ Once(inbox'[q], {"peerConnect"})
          /\ Has(inbox'[q], {"peerConnect"}) <=> Has(inbox[q], {"peerConnect"})
      <3>1. Once(Append(inbox[q], Head(sent[p])), {"peerConnect"})
        BY <2>1, <2>3, OnceAppend DEF IntroducedOnce
      <3>2. Has(Append(inbox[q], Head(sent[p])), {"peerConnect"})
               <=> Has(inbox[q], {"peerConnect"})
        BY <2>1, <2>3, HasAppend
      <3> QED
        BY <2>2, <3>1, <3>2 DEF IntroducedOnce
    <2> QED
      BY <1>0, <1>5, <1>7, <2>4 DEF Relay, IntroducedOnce
  <1>8. ASSUME NEW G, Release(G)
        PROVE  /\ Once(inbox'[q], {"peerConnect"})
               /\ Has(inbox'[q], {"peerConnect"}) <=> Has(inbox[q], {"peerConnect"})
    <2>1. inbox[q] \in Seq(Msg) /\ Plain("close") \in Msg /\ Plain("close").type # "peerConnect"
      BY MsgTypes DEF TypeOK, Plain
    <2>2. Once(Append(inbox[q], Plain("close")), {"peerConnect"})
      BY <2>1, OnceAppend DEF IntroducedOnce
    <2> QED
      BY <1>8, <2>2, ReleaseSays DEF IntroducedOnce
  <1>9. ASSUME NEW p \in Peer, CloseEvent(p) \/ Timeout(p) PROVE Goal
    <2>1. CASE CloseEvent(p)
      BY <1>0, <1>5, <1>8, <2>1 DEF CloseEvent, IntroducedOnce
    <2>2. CASE Timeout(p)
      BY <1>0, <1>8, <2>2 DEF Timeout, IntroducedOnce
    <2> QED
      BY <1>9, <2>1, <2>2
  <1>10. ASSUME NEW p \in Peer, Drop(p) PROVE Goal
    BY <1>0, <1>5, <1>10 DEF Drop, IntroducedOnce
  <1> QED
    BY <1>1, <1>2, <1>3, <1>4, <1>6, <1>7, <1>9, <1>10
    DEF Next, ClientStep, ServerStep, OwnStep

LEMMA ReleaseEndsRelaying ==
    ASSUME TypeOK, NEW G, Release(G), G \in SUBSET Peer, G # {}
    PROVE  ~Relaying'
  BY DEF Release, Relaying, TypeOK

LEMMA IntroducedFirstStep == IInv /\ Next => IntroducedFirst'
  <1> SUFFICES ASSUME IInv, TypeOK, Spoken, IntroducedOnce, IntroducedFirst, Next,
                      NEW q \in Peer, remoteNonce'[q] = NONE, sock'[q] # "closed"
               PROVE  /\ Relaying' => q = "initiator" \/ Has(inbox'[q], {"peerConnect"})
                      /\ Preceded(inbox'[q], Type, {"peerConnect"})
    BY DEF IInv, IntroducedFirst
  <1> DEFINE Goal == /\ Relaying' => q = "initiator" \/ Has(inbox'[q], {"peerConnect"})
                     /\ Preceded(inbox'[q], Type, {"peerConnect"})
  <1> USE DEF clientVars, wireVars, peerVars, history
  <1>1. ASSUME NEW p \in Peer, OwnStep(p) PROVE Goal
    <2>1. sock[q] # "closed"
      BY <1>1 DEF OwnStep, SocketOpens, SendAuth, Signed, Verified, SendOffer,
         SendAnswer, LocalSet, SendIceCandidate, RtcConnects, RtcFails, Leave,
         Close, Disconnect, TypeOK
    <2> QED
      BY <1>1, <2>1, OwnStepFrame DEF Relaying, IntroducedFirst
  <1>2. ASSUME NEW p \in Peer, PeerConnect(p) \/ HandleMessage(p) PROVE Goal
    <2>1. CASE PeerConnect(p)
      <3>1. Head(inbox[p]).nonce = Other(p)
        BY <2>1, HeadsSpoken, SpokenTypes DEF PeerConnect
      <3>2. remoteNonce'[p] # NONE
        BY <2>1, <3>1, NoneAssumption, OtherPeer DEF PeerConnect, TypeOK
      <3> QED
        BY <2>1, <3>2 DEF PeerConnect, Incoming, Relaying, IntroducedFirst, TypeOK
    <2>2. CASE HandleMessage(p)
      <3>1. sock[p] = "authed" /\ inbox[p] \in Seq(Msg) /\ inbox[p] # <<>>
            /\ Head(inbox[p]).type \in Type
        BY <2>2, HeadsSpoken DEF HandleMessage, Incoming
      <3>2. remoteNonce[p] # NONE
        BY <3>1, PrecededHead DEF IntroducedFirst
      <3>3. q # p
        BY <2>2, <3>2 DEF HandleMessage
      <3> QED
        BY <2>2, <3>3 DEF HandleMessage, Incoming, Disconnect, Relaying,
           IntroducedFirst, TypeOK
    <2> QED
      BY <1>2, <2>1, <2>2
  <1>3. ASSUME NEW p \in Peer, SocketEnds(p) PROVE Goal
    BY <1>3 DEF SocketEnds, Relaying, IntroducedFirst, TypeOK
  <1>4. ASSUME NEW p \in Peer, Join(p) PROVE Goal
    <2>1. remoteNonce[q] = NONE /\ sock[q] # "closed" /\ inbox[q] \in Seq(Msg)
      BY <1>4 DEF Join, Outgoing, TypeOK
    <2>2. Introduction(q) \in Msg /\ Introduction(q).type = "peerConnect"
          /\ "peerConnect" \notin Type
      BY MsgTypes DEF Introduction, Type
    <2>3. Has(Append(inbox[q], Introduction(q)), {"peerConnect"})
      BY <2>1, <2>2, HasAppend
    <2>4. Preceded(Append(inbox[q], Introduction(q)), Type, {"peerConnect"})
      BY <2>1, <2>2, PrecededAppend DEF IntroducedFirst
    <2>5. CASE server[Other(p)] # "joined"
      BY <1>4, <2>1, <2>5, OtherPeer DEF Join, Relaying, IntroducedFirst, TypeOK
    <2>6. CASE server[Other(p)] = "joined"
      <3>1. inbox'[q] \in {inbox[q], Append(inbox[q], Introduction(q))}
            /\ (q = "initiator" \/ inbox'[q] = Append(inbox[q], Introduction(q)))
        BY <1>4, <2>6, JoinTells DEF Peer
      <3>2. Preceded(inbox'[q], Type, {"peerConnect"})
        BY <2>1, <2>4, <3>1 DEF IntroducedFirst
      <3> QED
        BY <2>3, <3>1, <3>2
    <2> QED
      BY <2>5, <2>6
  <1>5. ASSUME NEW p \in Peer, Relay(p) PROVE Goal
    <2>1. remoteNonce[q] = NONE /\ sock[q] # "closed" /\ inbox[q] \in Seq(Msg)
      BY <1>5 DEF Relay, Outgoing, TypeOK
    <2>2. Head(sent[p]) \in Msg
      BY <1>5, HeadsSpoken, HeadTail DEF Relay
    <2>3. CASE ~Relaying
      BY <1>5, <2>1, <2>3 DEF Relay, Relaying, IntroducedFirst
    <2>4. CASE Relaying
      <3>0. q # "initiator"
        <4>1. Has(sent[p], Type)
          BY <1>5, OutgoingTakes, HeadsSpoken DEF Relay
        <4>2. local["initiator"] = "set"
          BY <4>1 DEF IInv, OfferFirst
        <4> QED
          BY <2>1, <4>2 DEF IntroducedOnce
      <3>1. Has(inbox[q], {"peerConnect"})
        BY <2>1, <2>4, <3>0 DEF IntroducedFirst
      <3>2. Has(Append(inbox[q], Head(sent[p])), {"peerConnect"})
        BY <2>1, <2>2, <3>1, HasAppend
      <3>3. Preceded(Append(inbox[q], Head(sent[p])), Type, {"peerConnect"})
        BY <2>1, <2>2, <3>1, PrecededAppend DEF IntroducedFirst
      <3>4. inbox'[q] \in {inbox[q], Append(inbox[q], Head(sent[p]))}
        BY <1>5, <2>4 DEF Relay, TypeOK
      <3> QED
        BY <2>1, <3>1, <3>2, <3>3, <3>4 DEF IntroducedFirst
    <2> QED
      BY <2>3, <2>4
  <1>6. ASSUME NEW p \in Peer, CloseEvent(p) \/ Timeout(p) PROVE Goal
    <2>1. Release({p}) /\ remoteNonce[q] = NONE /\ sock[q] # "closed" /\ inbox[q] \in Seq(Msg)
      BY <1>6 DEF CloseEvent, Timeout, Outgoing, TypeOK
    <2>2. ~Relaying'
      BY <2>1, ReleaseEndsRelaying
    <2>3. Plain("close") \in Msg /\ Plain("close").type \notin Type
      BY MsgTypes DEF Plain, Type
    <2>4. Preceded(Append(inbox[q], Plain("close")), Type, {"peerConnect"})
      BY <2>1, <2>3, PrecededAppend DEF IntroducedFirst
    <2> QED
      BY <2>1, <2>2, <2>4, ReleaseSays DEF IntroducedFirst
  <1>7. ASSUME NEW p \in Peer, Drop(p) PROVE Goal
    BY <1>7 DEF Drop, Outgoing, Relaying, IntroducedFirst
  <1> QED
    BY <1>1, <1>2, <1>3, <1>4, <1>5, <1>6, <1>7
    DEF Next, ClientStep, ServerStep, OwnStep

-----------------------------------------------------------------------------
(* The offer comes first. *)

LEMMA LocalKept ==
    ASSUME IInv, Next, local["initiator"] = "set"
    PROVE  local'["initiator"] = "set"
  <1> USE DEF clientVars, wireVars, peerVars, history, IInv
  <1>1. remoteNonce["initiator"] # NONE
    BY DEF IntroducedOnce, Peer
  <1>2. ASSUME NEW p \in Peer, PeerConnect(p) PROVE local'["initiator"] = "set"
    <2>1. Has(inbox[p], {"peerConnect"})
      BY <1>2, HeadsSpoken, HasTail DEF PeerConnect
    <2>2. p # "initiator"
      BY <1>1, <2>1 DEF IntroducedOnce, Peer
    <2> QED
      BY <1>2, <2>2 DEF PeerConnect, Peer
  <1>3. ASSUME NEW p \in Peer, Verified(p) PROVE local'["initiator"] = "set"
    <2>1. CASE p = "initiator"
      <3>1. PICK k \in Done(checking[p]) :
               local' = IF rtc[p] # "closed" /\ checking[p][k].type = "offer"
                        THEN [local EXCEPT ![p] = "creating"] ELSE local
        BY <1>3 DEF Verified
      <3>2. checking[p][k] \in From("responder")
        BY <2>1, OtherPeer, RemoveAtElements DEF Spoken, Done
      <3>3. checking[p][k].type # "offer"
        BY <3>2 DEF From
      <3> QED
        BY <3>1, <3>3
    <2>2. CASE p # "initiator"
      BY <1>3, <2>2 DEF Verified, TypeOK
    <2> QED
      BY <2>1, <2>2
  <1>4. ASSUME NEW p \in Peer, SendOffer(p) \/ SendAnswer(p) \/ LocalSet(p)
        PROVE  local'["initiator"] = "set"
    BY <1>4 DEF SendOffer, SendAnswer, LocalSet, TypeOK, Peer
  <1>5. ASSUME UNCHANGED local PROVE local'["initiator"] = "set"
    BY <1>5
  <1> QED
    BY <1>2, <1>3, <1>4, <1>5 DEF Next, ClientStep, ServerStep, SocketOpens,
       SendAuth, Signed, HandleMessage, SocketEnds, SendIceCandidate,
       RtcConnects, RtcFails, Leave, Join, Relay, CloseEvent, Drop, Timeout,
       Outgoing

LEMMA OfferFirstStep == IInv /\ Next => OfferFirst'
  <1> SUFFICES ASSUME IInv, Next, local'["initiator"] # "set"
               PROVE  /\ local'["responder"] = "none" /\ remote' = {}
                      /\ \A q \in Peer : /\ signing'[q] = <<>> /\ checking'[q] = <<>>
                                         /\ ~Has(sent'[q], Type) /\ ~Has(inbox'[q], Type)
    BY DEF OfferFirst
  <1> DEFINE Goal == /\ local'["responder"] = "none" /\ remote' = {}
                     /\ \A q \in Peer : /\ signing'[q] = <<>> /\ checking'[q] = <<>>
                                        /\ ~Has(sent'[q], Type) /\ ~Has(inbox'[q], Type)
  <1> USE DEF clientVars, wireVars, peerVars, history
  <1>0. /\ TypeOK /\ Spoken /\ local["initiator"] # "set"
        /\ local["responder"] = "none" /\ remote = {}
        /\ \A q \in Peer : /\ signing[q] = <<>> /\ checking[q] = <<>>
                           /\ ~Has(sent[q], Type) /\ ~Has(inbox[q], Type)
    BY LocalKept DEF IInv, OfferFirst
  <1>a. "close" \notin Type /\ "auth" \notin Type /\ "peerConnect" \notin Type
    BY DEF Type
  <1>1. ASSUME NEW p \in Peer, SocketOpens(p) PROVE Goal
    BY <1>0, <1>1 DEF SocketOpens
  <1>2. ASSUME NEW p \in Peer, SendAuth(p) PROVE Goal
    <2>1. sent[p] \in Seq(Msg) /\ Plain("auth") \in Msg /\ Plain("auth").type \notin Type
      BY <1>0, MsgTypes DEF TypeOK, Plain, Type
    <2>2. ~Has(Append(sent[p], Plain("auth")), Type)
      BY <1>0, <2>1, HasAppend
    <2> QED
      BY <1>0, <1>2, <2>2 DEF SendAuth, TypeOK
  <1>3. ASSUME NEW p \in Peer, Signed(p) \/ Verified(p) PROVE Goal
    BY <1>0, <1>3 DEF Signed, Verified, Done
  <1>4. ASSUME NEW p \in Peer, PeerConnect(p) PROVE Goal
    <2>1. Incoming(p, {"peerConnect"})
      BY <1>4 DEF PeerConnect
    <2>2. \A q \in Peer : ~Has(inbox'[q], Type)
      BY <1>0, <2>1, IncomingTakes
    <2>3. local'["responder"] = "none"
      BY <1>0, <1>4 DEF PeerConnect, TypeOK, Peer
    <2> QED
      BY <1>0, <1>4, <2>2, <2>3 DEF PeerConnect
  <1>5. ASSUME NEW p \in Peer, HandleMessage(p) PROVE Goal
    <2>1. Incoming(p, Type)
      BY <1>5 DEF HandleMessage
    <2>2. Has(inbox[p], Type)
      BY <1>0, <2>1, IncomingTakes, HeadsSpoken
    <2> QED
      BY <1>0, <2>2
  <1>6. ASSUME NEW p \in Peer,
               SendOffer(p) \/ SendAnswer(p) \/ LocalSet(p) \/ SendIceCandidate(p)
        PROVE  Goal
    BY <1>0, <1>6 DEF SendOffer, SendAnswer, LocalSet, SendIceCandidate, TypeOK, Peer
  <1>7. ASSUME NEW p \in Peer, SocketEnds(p) PROVE Goal
    BY <1>0, <1>7, Empty DEF SocketEnds, TypeOK
  <1>8. ASSUME NEW p \in Peer, RtcConnects(p) \/ RtcFails(p) \/ Leave(p) PROVE Goal
    <2>1. Disconnect(p) /\ UNCHANGED <<local, remote, signing, checking, inbox>>
      BY <1>8 DEF RtcConnects, RtcFails, Leave, Close
    <2> QED
      BY <1>0, <1>a, <2>1, DisconnectSays
  <1>9. ASSUME NEW p \in Peer, NEW U, Outgoing(p, U)
        PROVE  /\ UNCHANGED <<local, remote, signing, checking>>
               /\ \A q \in Peer : ~Has(sent'[q], Type)
    BY <1>0, <1>9, OutgoingTakes DEF Outgoing
  <1>10. ASSUME NEW p \in Peer, Join(p) PROVE Goal
    <2>1. ASSUME NEW q \in Peer PROVE ~Has(Append(inbox[q], Introduction(q)), Type)
      <3>1. inbox[q] \in Seq(Msg) /\ Introduction(q) \in Msg
            /\ Introduction(q).type \notin Type
        BY <1>0, <1>a, MsgTypes DEF TypeOK, Introduction
      <3> QED
        BY <1>0, <3>1, HasAppend
    <2>2. \A q \in Peer : ~Has(inbox'[q], Type)
      BY <1>0, <1>10, <2>1, JoinTells
    <2> QED
      BY <1>0, <1>9, <1>10, <2>2 DEF Join
  <1>11. ASSUME NEW p \in Peer, Relay(p) PROVE Goal
    <2>1. Outgoing(p, Type)
      BY <1>11 DEF Relay
    <2>2. Has(sent[p], Type)
      BY <1>0, <2>1, OutgoingTakes, HeadsSpoken
    <2> QED
      BY <1>0, <2>2
  <1>12. ASSUME NEW p \in Peer, CloseEvent(p) \/ Timeout(p) PROVE Goal
    <2>1. \A q \in Peer : ~Has(inbox'[q], Type)
      BY <1>0, <1>a, <1>12, ReleaseSays DEF CloseEvent, Timeout
    <2>2. CASE CloseEvent(p)
      BY <1>0, <1>9, <2>1, <2>2 DEF CloseEvent
    <2>3. CASE Timeout(p)
      BY <1>0, <2>1, <2>3 DEF Timeout
    <2> QED
      BY <1>12, <2>2, <2>3
  <1>13. ASSUME NEW p \in Peer, Drop(p) PROVE Goal
    BY <1>0, <1>9, <1>13 DEF Drop
  <1> QED
    BY <1>1, <1>2, <1>3, <1>4, <1>5, <1>6, <1>7, <1>8, <1>10, <1>11, <1>12, <1>13
    DEF Next, ClientStep, ServerStep

-----------------------------------------------------------------------------
(* How the messages on their way change. *)

LEMMA LocalMoves ==
    ASSUME TypeOK, Next, NEW p \in Peer
    PROVE  \/ local'[p] \in {local[p], "creating"}
           \/ SendOffer(p) \/ SendAnswer(p) \/ LocalSet(p)
  BY DEF TypeOK, Next, ClientStep, ServerStep, SocketOpens, SendAuth, Signed,
     Verified, PeerConnect, HandleMessage, SendOffer, SendAnswer, LocalSet,
     SocketEnds, SendIceCandidate, RtcConnects, RtcFails, Leave, Join, Relay,
     CloseEvent, Drop, Timeout, Outgoing, peerVars

LEMMA SigningMoves ==
    ASSUME TypeOK, Next, NEW p \in Peer
    PROVE  \/ signing'[p] = signing[p] \/ Signed(p)
           \/ SendOffer(p) \/ SendAnswer(p) \/ SendIceCandidate(p)
  <1>1. ASSUME NEW q \in Peer, Signed(q) PROVE p = q \/ signing'[p] = signing[p]
    BY <1>1 DEF Signed, TypeOK
  <1>2. ASSUME NEW q \in Peer, NEW t, SendMessage(q, t)
        PROVE  p = q \/ signing'[p] = signing[p]
    BY <1>2 DEF SendMessage, TypeOK
  <1> QED
    BY <1>1, <1>2 DEF Next, ClientStep, ServerStep, SocketOpens, SendAuth,
       Verified, PeerConnect, HandleMessage, SendOffer, SendAnswer, LocalSet,
       SocketEnds, SendIceCandidate, RtcConnects, RtcFails, Leave,
       Join, Relay, CloseEvent, Drop, Timeout, Outgoing, clientVars

LEMMA CheckingMoves ==
    ASSUME TypeOK, Next, NEW p \in Peer
    PROVE  checking'[p] = checking[p] \/ HandleMessage(p) \/ Verified(p)
  <1>1. ASSUME NEW q \in Peer, HandleMessage(q) PROVE p = q \/ checking'[p] = checking[p]
    BY <1>1 DEF HandleMessage, TypeOK
  <1>2. ASSUME NEW q \in Peer, Verified(q) PROVE p = q \/ checking'[p] = checking[p]
    BY <1>2 DEF Verified, TypeOK
  <1> QED
    BY <1>1, <1>2 DEF Next, ClientStep, ServerStep, SocketOpens, SendAuth, Signed,
       PeerConnect, SendOffer, SendAnswer, LocalSet,
       SocketEnds, SendIceCandidate, RtcConnects, RtcFails, Leave,
       Join, Relay, CloseEvent, Drop, Timeout, Outgoing, clientVars

LEMMA SentMoves ==
    ASSUME TypeOK, Next, NEW p \in Peer
    PROVE  \/ sent'[p] = sent[p] \/ Signed(p) \/ Relay(p)
           \/ sent'[p] \in {Append(sent[p], Plain("auth")), Append(sent[p], Plain("close"))}
           \/ \E U : Outgoing(p, U) /\ U \in {{"auth"}, {"close"}}
  <1> USE DEF wireVars
  <1>a. ASSUME NEW q \in Peer, Signed(q) PROVE q = p \/ sent'[p] = sent[p]
    BY <1>a DEF Signed, TypeOK
  <1>b. ASSUME NEW q \in Peer, Disconnect(q)
        PROVE  sent'[p] \in {sent[p], Append(sent[p], Plain("close"))}
    BY <1>b DEF Disconnect, TypeOK
  <1>c. ASSUME NEW q \in Peer, SendAuth(q)
        PROVE  sent'[p] \in {sent[p], Append(sent[p], Plain("auth"))}
    BY <1>c DEF SendAuth, TypeOK
  <1>1. ASSUME NEW q \in Peer, OwnStep(q) \/ PeerConnect(q) \/ HandleMessage(q) \/ SocketEnds(q)
        PROVE  \/ sent'[p] = sent[p] \/ Signed(p)
               \/ sent'[p] \in {Append(sent[p], Plain("auth")), Append(sent[p], Plain("close"))}
    BY <1>a, <1>b, <1>c, <1>1 DEF OwnStep, SocketOpens, Verified, PeerConnect,
       HandleMessage, SendOffer, SendAnswer, LocalSet, SocketEnds,
       SendIceCandidate, RtcConnects, RtcFails, Leave, Close
  <1>2. ASSUME NEW q \in Peer, NEW U, Outgoing(q, U) PROVE q = p \/ sent'[p] = sent[p]
    BY <1>2 DEF Outgoing, TypeOK
  <1>3. ASSUME NEW q \in Peer, Timeout(q) PROVE sent'[p] = sent[p]
    BY <1>3 DEF Timeout
  <1> QED
    BY <1>1, <1>2, <1>3 DEF Next, ClientStep, ServerStep, OwnStep, Join, Relay,
       CloseEvent, Drop

LEMMA InboxMoves ==
    ASSUME TypeOK, Next, NEW p \in Peer
    PROVE  \/ inbox'[p] = inbox[p] \/ PeerConnect(p) \/ HandleMessage(p)
           \/ SocketEnds(p) \/ Relay(Other(p))
           \/ inbox'[p] \in {Append(inbox[p], Introduction(p)), Append(inbox[p], Plain("close"))}
  <1>1. ASSUME NEW q \in Peer, OwnStep(q) PROVE inbox'[p] = inbox[p]
    BY <1>1, OwnStepFrame
  <1>2. ASSUME NEW q \in Peer, PeerConnect(q) \/ HandleMessage(q) \/ SocketEnds(q)
        PROVE  q = p \/ inbox'[p] = inbox[p]
    BY <1>2 DEF PeerConnect, HandleMessage, Incoming, SocketEnds, TypeOK
  <1>3. ASSUME NEW q \in Peer, Relay(q) PROVE p = Other(q) \/ inbox'[p] = inbox[p]
    BY <1>3 DEF Relay, TypeOK
  <1>4. ASSUME NEW q \in Peer, CloseEvent(q) \/ Timeout(q)
        PROVE  inbox'[p] \in {inbox[p], Append(inbox[p], Plain("close"))}
    BY <1>4, ReleaseSays DEF CloseEvent, Timeout
  <1>5. ASSUME NEW q \in Peer, Join(q) \/ Drop(q)
        PROVE  inbox'[p] \in {inbox[p], Append(inbox[p], Introduction(p))}
    BY <1>5, JoinTells DEF Drop
  <1> QED
    BY <1>1, <1>2, <1>3, <1>4, <1>5, OtherPeer DEF Next, ClientStep, ServerStep, OwnStep

LEMMA SockMoves ==
    ASSUME TypeOK, Next, NEW p \in Peer, sock[p] \in {"closing", "closed"}
    PROVE  sock'[p] \in {"closing", "closed"}
  BY DEF TypeOK, Next, ClientStep, ServerStep, SocketOpens, SendAuth, Signed,
     Verified, PeerConnect, HandleMessage, SendOffer, SendAnswer, LocalSet,
     SocketEnds, SendIceCandidate, RtcConnects, RtcFails, Leave, Join, Relay,
     CloseEvent, Drop, Timeout, Outgoing, Close, Disconnect

LEMMA GoneKept ==
    ASSUME TypeOK, Next, NEW p \in Peer, server[p] = "gone"
    PROVE  server'[p] = "gone"
  <1>1. ASSUME NEW G, Release(G) PROVE server'[p] = "gone"
    BY <1>1, ReleaseSays
  <1> QED
    BY <1>1 DEF TypeOK, Next, ClientStep, ServerStep, SocketOpens, SendAuth,
       Signed, Verified, PeerConnect, HandleMessage, SendOffer, SendAnswer,
       LocalSet, SocketEnds, SendIceCandidate, RtcConnects, RtcFails, Leave,
       Join, Relay, CloseEvent, Drop, Timeout, wireVars

(* With signatures in order it is the first that is done. *)
LEMMA SignedFirst ==
    ASSUME TypeOK, Spoken, orderly, NEW p \in Peer, Signed(p)
    PROVE  /\ signing[p] # <<>> /\ signing'[p] = Tail(signing[p])
           /\ Head(signing[p]) \in From(p)
           /\ sent'[p] = IF sock[p] # "authed" THEN sent[p]
                         ELSE Append(sent[p], Head(signing[p]))
  <1>1. 1 \in DOMAIN signing[p] /\ signing[p] # <<>>
        /\ signing' = [signing EXCEPT ![p] = RemoveAt(@, 1)]
        /\ sent' = IF sock[p] # "authed" THEN sent
                   ELSE [sent EXCEPT ![p] = Append(@, signing[p][1])]
    BY DEF Signed, Done
  <1>2. signing[p] \in Seq(From(p))
    BY DEF Spoken
  <1>3. RemoveAt(signing[p], 1) = Tail(signing[p])
    BY <1>1, <1>2, RemoveAtFirst
  <1>4. Head(signing[p]) = signing[p][1] /\ Head(signing[p]) \in From(p)
    BY <1>1, <1>2
  <1> QED
    BY <1>1, <1>3, <1>4 DEF TypeOK

LEMMA VerifiedFirst ==
    ASSUME TypeOK, Spoken, orderly, NEW p \in Peer, Verified(p)
    PROVE  /\ checking[p] # <<>> /\ checking'[p] = Tail(checking[p])
           /\ Head(checking[p]) \in From(Other(p))
           /\ rtc[p] # "closed" /\ Head(checking[p]).type \in Description
                 => p \in remote'
           /\ rtc[p] = "closed" \/ p \in remote
                 \/ Head(checking[p]).type # "iceCandidate" => lost' = lost
           /\ rtc' = rtc
  <1>1. /\ 1 \in DOMAIN checking[p] /\ checking[p] # <<>>
        /\ checking' = [checking EXCEPT ![p] = RemoveAt(@, 1)]
        /\ rtc[p] # "closed" /\ checking[p][1].type \in Description => p \in remote'
        /\ rtc[p] = "closed" \/ p \in remote
              \/ checking[p][1].type # "iceCandidate" => lost' = lost
        /\ rtc' = rtc
    BY DEF Verified, Done, Description
  <1>2. checking[p] \in Seq(From(Other(p)))
    BY DEF Spoken
  <1>3. RemoveAt(checking[p], 1) = Tail(checking[p])
    BY <1>1, <1>2, RemoveAtFirst
  <1>4. Head(checking[p]) = checking[p][1] /\ Head(checking[p]) \in From(Other(p))
    BY <1>1, <1>2
  <1> QED
    BY <1>1, <1>3, <1>4 DEF TypeOK

-----------------------------------------------------------------------------
(* The description is not overtaken. *)

LEMMA OrderlyKept == Next => orderly' = orderly
  BY DEF Next, ClientStep, ServerStep, SocketOpens, SendAuth, Signed, Verified,
     PeerConnect, HandleMessage, SendOffer, SendAnswer, LocalSet, SocketEnds,
     SendIceCandidate, RtcConnects, RtcFails, Leave, Join, Relay, CloseEvent,
     Drop, Timeout, Outgoing

LEMMA DescriptionTypes ==
    /\ Description \subseteq Type
    /\ "auth" \notin Description /\ "close" \notin Description
    /\ "peerConnect" \notin Description /\ "iceCandidate" \notin Description
    /\ \A p \in Peer : \A m \in From(p) :
          m.type \in Description \/ m.type = "iceCandidate"
  BY DEF Description, Type, From

LEMMA KnownKept ==
    ASSUME TypeOK, Next, NEW p \in Peer, Known(p)
    PROVE  Known(p)'
  BY OtherPeer DEF Known, TypeOK, Next, ClientStep, ServerStep, SocketOpens,
     SendAuth, Signed, Verified, PeerConnect, HandleMessage, SendOffer, SendAnswer,
     LocalSet, SocketEnds, SendIceCandidate, RtcConnects, RtcFails, Leave, Close,
     Join, Relay, CloseEvent, Drop, Timeout, Outgoing, peerVars

LEMMA VerifiedKnown ==
    ASSUME TypeOK, Spoken, orderly, NEW p \in Peer, Verified(Other(p)),
           Head(checking[Other(p)]).type \in Description
    PROVE  Known(p)'
  BY VerifiedFirst, OtherPeer DEF Known

(* What has the right nonce is understood. *)
LEMMA HandledRight ==
    ASSUME TypeOK, Spoken, NEW p \in Peer, HandleMessage(p)
    PROVE  /\ inbox[p] \in Seq(Msg) /\ inbox[p] # <<>> /\ inbox'[p] = Tail(inbox[p])
           /\ Head(inbox[p]) \in From(Other(p)) /\ sock[p] = "authed"
           /\ checking' = [checking EXCEPT ![p] = Append(@, Head(inbox[p]))]
           /\ UNCHANGED <<sock, sent, refused, lost>>
  <1>1. Head(inbox[p]) \in From(Other(p)) /\ inbox[p] \in Seq(Msg) /\ inbox[p] # <<>>
    BY HeadsSpoken, SpokenTypes DEF HandleMessage
  <1>2. Head(inbox[p]).nonce = p
    BY <1>1, SpokenTypes, OtherPeer
  <1> QED
    BY <1>1, <1>2 DEF HandleMessage, Incoming, TypeOK

LEMMA ReceivedKept ==
    ASSUME IInv, Next, orderly, NEW p \in Peer, Received(p)
    PROVE  Received(p)'
  <1> DEFINE q == Other(p)
  <1>0. q \in Peer /\ TypeOK /\ Spoken /\ checking[q] \in Seq(Msg)
    BY OtherPeer DEF IInv, TypeOK
  <1>1. CASE Known(p)
    BY <1>0, <1>1, KnownKept DEF Received
  <1>2. CASE sock[q] \in {"closing", "closed"}
    BY <1>0, <1>2, SockMoves DEF Received
  <1>3. CASE Has(checking[q], Description)
    <2>1. CASE HandleMessage(q)
      <3>1. checking'[q] = Append(checking[q], Head(inbox[q])) /\ Head(inbox[q]) \in Msg
        BY <1>0, <2>1, HandledRight, HeadTail DEF TypeOK
      <3>2. Has(checking'[q], Description)
        BY <1>0, <1>3, <3>1, HasAppend
      <3> QED
        BY <3>2 DEF Received
    <2>2. CASE Verified(q)
      <3>1. checking[q] # <<>> /\ checking'[q] = Tail(checking[q])
        BY <1>0, <2>2, VerifiedFirst
      <3>2. Head(checking[q]).type \in Description \/ Has(checking'[q], Description)
        BY <1>0, <1>3, <3>1, HasTail
      <3> QED
        BY <1>0, <2>2, <3>2, VerifiedKnown DEF Received
    <2>3. CASE checking'[q] = checking[q]
      BY <1>3, <2>3 DEF Received
    <2> QED
      BY <1>0, <2>1, <2>2, <2>3, CheckingMoves
  <1> QED
    BY <1>1, <1>2, <1>3 DEF Received

LEMMA HandledReceived ==
    ASSUME TypeOK, Spoken, NEW p \in Peer, HandleMessage(Other(p)),
           Head(inbox[Other(p)]).type \in Description
    PROVE  Received(p)'
  <1> DEFINE q == Other(p)
  <1>0. q \in Peer /\ checking[q] \in Seq(Msg)
    BY OtherPeer DEF TypeOK
  <1>1. Head(inbox[q]) \in Msg /\ checking'[q] = Append(checking[q], Head(inbox[q]))
    BY <1>0, HandledRight, HeadTail DEF TypeOK
  <1>2. Has(checking'[q], Description)
    BY <1>0, <1>1, HasAppend
  <1> QED
    BY <1>2 DEF Received

LEMMA RelayAppends ==
    ASSUME TypeOK, Spoken, NEW p \in Peer, Relay(p)
    PROVE  /\ sent[p] \in Seq(Msg) /\ sent[p] # <<>> /\ sent'[p] = Tail(sent[p])
           /\ Head(sent[p]) \in From(p) /\ Head(sent[p]) \in Msg
           /\ server' = server /\ sock' = sock
           /\ inbox'[Other(p)] = IF Relaying THEN Append(inbox[Other(p)], Head(sent[p]))
                                 ELSE inbox[Other(p)]
  <1>1. sent[p] \in Seq(Msg) /\ sent[p] # <<>> /\ Head(sent[p]) \in From(p)
    BY HeadsSpoken, SpokenTypes DEF Relay
  <1>2. Head(sent[p]) \in Msg
    BY <1>1, HeadTail
  <1> QED
    BY <1>1, <1>2, OtherPeer DEF Relay, Outgoing, TypeOK

LEMMA RelayedKept ==
    ASSUME IInv, Next, orderly, NEW p \in Peer, Relayed(p)
    PROVE  Relayed(p)'
  <1> DEFINE q == Other(p)
  <1>0. q \in Peer /\ Other(q) = p /\ TypeOK /\ Spoken /\ inbox[q] \in Seq(Msg)
    BY OtherPeer DEF IInv, TypeOK
  <1>1. CASE Received(p)
    BY <1>1, ReceivedKept DEF Relayed
  <1>2. CASE \E r \in Peer : server[r] = "gone"
    BY <1>0, <1>2, GoneKept DEF Relayed
  <1>3. CASE Has(inbox[q], Description)
    <2>1. CASE PeerConnect(q)
      <3>1. Incoming(q, {"peerConnect"})
        BY <2>1 DEF PeerConnect
      <3>2. Head(inbox[q]).type \notin Description
        BY <1>0, <3>1, HeadsSpoken, DescriptionTypes
      <3>3. inbox[q] # <<>> /\ inbox'[q] = Tail(inbox[q])
        BY <1>0, <3>1 DEF Incoming, TypeOK
      <3>4. Has(inbox'[q], Description)
        BY <1>0, <1>3, <3>2, <3>3, HasTail
      <3> QED
        BY <3>4 DEF Relayed
    <2>2. CASE HandleMessage(q)
      <3>1. inbox[q] # <<>> /\ inbox'[q] = Tail(inbox[q])
        BY <1>0, <2>2, HandledRight
      <3>2. Head(inbox[q]).type \in Description \/ Has(inbox'[q], Description)
        BY <1>0, <1>3, <3>1, HasTail
      <3> QED
        BY <1>0, <2>2, <3>2, HandledReceived DEF Relayed
    <2>3. CASE SocketEnds(q)
      BY <1>0, <2>3 DEF SocketEnds, TypeOK, Relayed, Received
    <2>4. CASE Relay(p)
      <3>1. inbox'[q] \in {inbox[q], Append(inbox[q], Head(sent[p]))} /\ Head(sent[p]) \in Msg
        BY <1>0, <2>4, RelayAppends
      <3>2. Has(inbox'[q], Description)
        BY <1>0, <1>3, <3>1, HasAppend
      <3> QED
        BY <3>2 DEF Relayed
    <2>5. CASE inbox'[q] \in {Append(inbox[q], Introduction(q)), Append(inbox[q], Plain("close"))}
      <3>1. Introduction(q) \in Msg /\ Plain("close") \in Msg
        BY <1>0, MsgTypes
      <3>2. /\ Has(Append(inbox[q], Introduction(q)), Description)
            /\ Has(Append(inbox[q], Plain("close")), Description)
        BY <1>0, <1>3, <3>1, HasAppend
      <3> QED
        BY <2>5, <3>2 DEF Relayed
    <2>6. CASE inbox'[q] = inbox[q]
      BY <1>3, <2>6 DEF Relayed
    <2> QED
      BY <1>0, <2>1, <2>2, <2>3, <2>4, <2>5, <2>6, InboxMoves
  <1> QED
    BY <1>1, <1>2, <1>3 DEF Relayed

(* What the server reads of a peer that has been introduced is relayed, or *)
(* the session is over.                                                    *)
LEMMA RelayRelayed ==
    ASSUME IInv, NEW p \in Peer, Relay(p), Head(sent[p]).type \in Description
    PROVE  Relayed(p)'
  <1> DEFINE q == Other(p)
  <1>0. q \in Peer /\ TypeOK /\ Spoken /\ IntroducedOnce /\ inbox[q] \in Seq(Msg)
    BY OtherPeer DEF IInv, TypeOK
  <1>1. CASE Relaying
    <2>1. inbox'[q] = Append(inbox[q], Head(sent[p])) /\ Head(sent[p]) \in Msg
      BY <1>0, <1>1, RelayAppends
    <2>2. Has(inbox'[q], Description)
      BY <1>0, <2>1, HasAppend
    <2> QED
      BY <2>2 DEF Relayed
  <1>2. CASE ~Relaying
    <2>1. Has(sent[p], Type)
      BY <1>0, RelayAppends, HasTail, DescriptionTypes
    <2>2. Matched
      BY <1>0, <2>1 DEF IntroducedOnce
    <2>3. \E r \in Peer : server[r] = "gone"
      BY <1>0, <1>2, <2>2 DEF Matched, Relaying, TypeOK
    <2> QED
      BY <1>0, <2>3, RelayAppends DEF Relayed
  <1> QED
    BY <1>1, <1>2

(* A peer that has been introduced has had its token accepted: if its      *)
(* socket is not 'authed', it has ended.                                   *)
LEMMA NotAuthedEnded ==
    ASSUME TypeOK, NEW p \in Peer, IntroducedOnce, remoteNonce[p] # NONE,
           sock[p] # "authed"
    PROVE  sock[p] \in {"closing", "closed"}
  BY DEF TypeOK, IntroducedOnce

LEMMA SignedSent ==
    ASSUME IInv, orderly, NEW p \in Peer, Signed(p),
           Head(signing[p]).type \in Description
    PROVE  Sent(p)'
  <1>0. TypeOK /\ Spoken /\ IntroducedOnce /\ sent[p] \in Seq(Msg) /\ sock' = sock
    BY DEF IInv, TypeOK, Signed
  <1>1. CASE sock[p] = "authed"
    <2>1. sent'[p] = Append(sent[p], Head(signing[p])) /\ Head(signing[p]) \in Msg
      BY <1>0, <1>1, SignedFirst, MsgTypes
    <2>2. Has(sent'[p], Description)
      BY <1>0, <2>1, HasAppend
    <2> QED
      BY <2>2 DEF Sent
  <1>2. CASE sock[p] # "authed"
    <2>1. remoteNonce[p] # NONE
      BY <1>0, SignedFirst DEF IntroducedOnce
    <2> QED
      BY <1>0, <1>2, <2>1, NotAuthedEnded DEF Sent
  <1> QED
    BY <1>1, <1>2

LEMMA SentKept ==
    ASSUME IInv, Next, orderly, NEW p \in Peer, Sent(p)
    PROVE  Sent(p)'
  <1>0. TypeOK /\ Spoken /\ sent[p] \in Seq(Msg)
    BY DEF IInv, TypeOK
  <1>1. CASE Relayed(p)
    BY <1>1, RelayedKept DEF Sent
  <1>2. CASE sock[p] \in {"closing", "closed"}
    BY <1>0, <1>2, SockMoves DEF Sent
  <1>3. CASE Has(sent[p], Description)
    <2>1. CASE Signed(p)
      <3>1. sent'[p] \in {sent[p], Append(sent[p], Head(signing[p]))}
            /\ Head(signing[p]) \in Msg
        BY <1>0, <2>1, SignedFirst, MsgTypes
      <3>2. Has(Append(sent[p], Head(signing[p])), Description)
        BY <1>0, <1>3, <3>1, HasAppend
      <3> QED
        BY <1>3, <3>1, <3>2 DEF Sent
    <2>2. CASE Relay(p)
      <3>1. Head(sent[p]).type \in Description \/ Has(sent'[p], Description)
        BY <1>0, <1>3, <2>2, RelayAppends, HasTail
      <3> QED
        BY <2>2, <3>1, RelayRelayed DEF Sent
    <2>3. CASE sent'[p] \in {Append(sent[p], Plain("auth")), Append(sent[p], Plain("close"))}
      <3>1. /\ Has(Append(sent[p], Plain("auth")), Description)
            /\ Has(Append(sent[p], Plain("close")), Description)
        BY <1>0, <1>3, HasAppend, MsgTypes
      <3> QED
        BY <2>3, <3>1 DEF Sent
    <2>4. ASSUME NEW U, U \in {{"auth"}, {"close"}}, Outgoing(p, U) PROVE Sent(p)'
      <3>1. sent[p] # <<>> /\ sent'[p] = Tail(sent[p]) /\ Head(sent[p]).type \notin Description
        BY <1>0, <2>4, DescriptionTypes DEF Outgoing, TypeOK
      <3>2. Has(sent'[p], Description)
        BY <1>0, <1>3, <3>1, HasTail
      <3> QED
        BY <3>2 DEF Sent
    <2>5. CASE sent'[p] = sent[p]
      BY <1>3, <2>5 DEF Sent
    <2> QED
      BY <1>0, <2>1, <2>2, <2>3, <2>4, <2>5, SentMoves
  <1> QED
    BY <1>1, <1>2, <1>3 DEF Sent

(* What a peer says that has something to say. *)
LEMMA SaysNext ==
    ASSUME IInv, NEW p \in Peer, NEW t, t \in Type, SendMessage(p, t), local[p] # "none"
    PROVE  \/ sock[p] \in {"closing", "closed"} /\ signing'[p] = signing[p]
           \/ \E m \in Msg : m.type = t /\ signing'[p] = Append(signing[p], m)
  <1>0. TypeOK /\ IntroducedOnce /\ remoteNonce[p] # NONE
    BY DEF IInv, IntroducedOnce
  <1>1. CASE sock[p] = "authed"
    <2>1. [type |-> t, nonce |-> remoteNonce[p]] \in Msg
      BY <1>0, MsgTypes DEF TypeOK
    <2> QED
      BY <1>0, <1>1, <2>1 DEF SendMessage, TypeOK
  <1>2. CASE sock[p] # "authed"
    BY <1>0, <1>2, NotAuthedEnded DEF SendMessage
  <1> QED
    BY <1>1, <1>2

LEMMA SignedKept ==
    ASSUME IInv, Next, orderly, NEW p \in Peer,
           Sent(p) \/ Has(signing[p], Description)
    PROVE  Sent(p)' \/ Has(signing'[p], Description)
  <1>0. TypeOK /\ Spoken /\ signing[p] \in Seq(Msg)
    BY DEF IInv, TypeOK
  <1>1. CASE Sent(p)
    BY <1>1, SentKept
  <1>2. CASE Has(signing[p], Description)
    <2>1. CASE Signed(p)
      <3>1. Head(signing[p]).type \in Description \/ Has(signing'[p], Description)
        BY <1>0, <1>2, <2>1, SignedFirst, HasTail
      <3> QED
        BY <2>1, <3>1, SignedSent
    <2>2. CASE SendOffer(p) \/ SendAnswer(p) \/ SendIceCandidate(p)
      <3>1. PICK t \in Type : SendMessage(p, t) /\ local[p] # "none"
        BY <2>2 DEF SendOffer, SendAnswer, SendIceCandidate, Type
      <3>2. signing'[p] = signing[p]
               \/ \E m \in Msg : signing'[p] = Append(signing[p], m)
        BY <3>1, SaysNext
      <3> QED
        BY <1>0, <1>2, <3>2, HasAppend
    <2> QED
      BY <1>0, <1>2, <2>1, <2>2, SigningMoves
  <1> QED
    BY <1>1, <1>2

LEMMA LeadsSigning ==
    ASSUME IInv, Next, orderly, NEW p \in Peer
    PROVE  /\ Sent(p)' \/ Led(signing'[p])
           /\ local'[p] \in {"setting", "set"} => Sent(p)' \/ Has(signing'[p], Description)
  <1>0. TypeOK /\ Spoken /\ DescriptionLeads /\ signing[p] \in Seq(Msg)
    BY DEF IInv, TypeOK
  <1>1. CASE Sent(p)
    BY <1>1, SentKept
  <1> SUFFICES ASSUME ~Sent(p)
               PROVE  /\ Sent(p)' \/ Led(signing'[p])
                      /\ local'[p] \in {"setting", "set"} =>
                            Sent(p)' \/ Has(signing'[p], Description)
    BY <1>1
  <1>2. /\ Led(signing[p])
        /\ local[p] \in {"setting", "set"} => Has(signing[p], Description)
    BY <1>0 DEF DescriptionLeads
  <1>3. ASSUME NEW t \in Type, SendMessage(p, t), local[p] # "none",
               t = "iceCandidate" => local[p] \in {"setting", "set"}
        PROVE  Led(signing'[p]) /\ (t \in Description => Sent(p)' \/ Has(signing'[p], Description))
    <2>1. PICK m \in Msg : m.type = t /\ signing'[p] = Append(signing[p], m)
      BY <1>3, SaysNext DEF Sent
    <2>2. t = "iceCandidate" => Has(signing[p], Description)
      BY <1>2, <1>3
    <2>3. Led(signing'[p])
      BY <1>0, <1>2, <2>1, <2>2, PrecededAppend DEF Led
    <2>4. t \in Description => Has(signing'[p], Description)
      BY <1>0, <2>1, HasAppend
    <2> QED
      BY <2>3, <2>4
  <1>4. Sent(p)' \/ Led(signing'[p])
    <2>1. CASE Signed(p)
      <3>1. CASE Head(signing[p]).type \in Description
        BY <2>1, <3>1, SignedSent
      <3>2. CASE Head(signing[p]).type \notin Description
        BY <1>0, <1>2, <2>1, <3>2, SignedFirst, PrecededTail DEF Led
      <3> QED
        BY <3>1, <3>2
    <2>2. CASE SendOffer(p) \/ SendAnswer(p)
      BY <1>3, <2>2 DEF SendOffer, SendAnswer, Type
    <2>3. CASE SendIceCandidate(p)
      BY <1>3, <2>3 DEF SendIceCandidate, Type
    <2> QED
      BY <1>0, <1>2, <2>1, <2>2, <2>3, SigningMoves
  <1>5. ASSUME local'[p] \in {"setting", "set"}
        PROVE  Sent(p)' \/ Has(signing'[p], Description)
    <2>1. CASE local[p] \in {"setting", "set"}
      BY <1>2, <2>1, SignedKept
    <2>2. CASE SendOffer(p) \/ SendAnswer(p)
      BY <1>3, <2>2 DEF SendOffer, SendAnswer, Type, Description
    <2>3. CASE LocalSet(p)
      BY <2>1, <2>3 DEF LocalSet
    <2> QED
      BY <1>0, <1>5, <2>1, <2>2, <2>3, LocalMoves
  <1> QED
    BY <1>4, <1>5

LEMMA LeadsSent ==
    ASSUME IInv, Next, orderly, NEW p \in Peer
    PROVE  Relayed(p)' \/ Led(sent'[p])
  <1>0. TypeOK /\ Spoken /\ DescriptionLeads /\ sent[p] \in Seq(Msg)
    BY DEF IInv, TypeOK
  <1>1. CASE Relayed(p)
    BY <1>1, RelayedKept
  <1>2. CASE Led(sent[p]) /\ ~Relayed(p)
    <2>1. CASE Signed(p)
      <3>1. Head(signing[p]) \in Msg
        BY <1>0, <2>1, SignedFirst, MsgTypes
      <3>2. sent'[p] # sent[p] /\ Head(signing[p]).type = "iceCandidate"
               => Has(sent[p], Description)
        <4>1. ASSUME Head(signing[p]).type = "iceCandidate" PROVE ~Led(signing[p])
          BY <1>0, <2>1, <4>1, SignedFirst, PrecededHead DEF Led, TypeOK
        <4>2. sent'[p] # sent[p] => sock[p] = "authed"
          BY <1>0, <2>1, SignedFirst
        <4> QED
          BY <1>0, <1>2, <4>1, <4>2 DEF DescriptionLeads, Sent
      <3>3. sent'[p] \in {sent[p], Append(sent[p], Head(signing[p]))}
        BY <1>0, <2>1, SignedFirst
      <3> QED
        BY <1>0, <1>2, <3>1, <3>2, <3>3, PrecededAppend DEF Led
    <2>2. CASE Relay(p)
      <3>1. CASE Head(sent[p]).type \in Description
        BY <2>2, <3>1, RelayRelayed
      <3>2. CASE Head(sent[p]).type \notin Description
        BY <1>0, <1>2, <2>2, <3>2, RelayAppends, PrecededTail DEF Led
      <3> QED
        BY <3>1, <3>2
    <2>3. ASSUME NEW m \in {Plain("auth"), Plain("close")}, sent'[p] = Append(sent[p], m)
          PROVE  Led(sent'[p])
      <3>1. m \in Msg /\ m.type # "iceCandidate"
        BY <2>3, MsgTypes DEF Plain
      <3> QED
        BY <1>0, <1>2, <2>3, <3>1, PrecededAppend DEF Led
    <2>4. ASSUME NEW U, U \in {{"auth"}, {"close"}}, Outgoing(p, U) PROVE Led(sent'[p])
      <3>1. sent[p] # <<>> /\ sent'[p] = Tail(sent[p]) /\ Head(sent[p]).type \notin Description
        BY <1>0, <2>4, DescriptionTypes DEF Outgoing, TypeOK
      <3> QED
        BY <1>0, <1>2, <3>1, PrecededTail DEF Led
    <2> QED
      BY <1>0, <1>2, <2>1, <2>2, <2>3, <2>4, SentMoves
  <1> QED
    BY <1>0, <1>1, <1>2 DEF DescriptionLeads

LEMMA LeadsInbox ==
    ASSUME IInv, Next, orderly, NEW p \in Peer
    PROVE  Received(p)' \/ Led(inbox'[Other(p)])
  <1> DEFINE q == Other(p)
  <1>0. q \in Peer /\ Other(q) = p /\ TypeOK /\ Spoken /\ DescriptionLeads
        /\ inbox[q] \in Seq(Msg)
    BY OtherPeer DEF IInv, TypeOK
  <1>1. CASE Received(p)
    BY <1>1, ReceivedKept
  <1>2. CASE Led(inbox[q]) /\ ~Received(p)
    <2>1. CASE PeerConnect(q)
      <3>1. inbox[q] # <<>> /\ inbox'[q] = Tail(inbox[q]) /\ Head(inbox[q]).type \notin Description
        BY <1>0, <2>1, DescriptionTypes DEF PeerConnect, Incoming, TypeOK
      <3> QED
        BY <1>0, <1>2, <3>1, PrecededTail DEF Led
    <2>2. CASE HandleMessage(q)
      <3>1. CASE Head(inbox[q]).type \in Description
        BY <1>0, <2>2, <3>1, HandledReceived
      <3>2. CASE Head(inbox[q]).type \notin Description
        BY <1>0, <1>2, <2>2, <3>2, HandledRight, PrecededTail DEF Led
      <3> QED
        BY <3>1, <3>2
    <2>3. CASE SocketEnds(q)
      BY <1>0, <2>3 DEF SocketEnds, TypeOK, Received
    <2>4. CASE Relay(p)
      <3>1. CASE Relaying
        <4>1. inbox'[q] = Append(inbox[q], Head(sent[p])) /\ Head(sent[p]) \in Msg
          BY <1>0, <2>4, <3>1, RelayAppends
        <4>2. ASSUME Head(sent[p]).type = "iceCandidate" PROVE Has(inbox[q], Description)
          <5>1. ~Led(sent[p])
            BY <1>0, <2>4, <4>2, RelayAppends, PrecededHead DEF Led
          <5>2. Relayed(p)
            BY <1>0, <5>1 DEF DescriptionLeads
          <5>3. \A r \in Peer : server[r] # "gone"
            BY <3>1 DEF Relaying
          <5> QED
            BY <1>2, <5>2, <5>3 DEF Relayed
        <4> QED
          BY <1>0, <1>2, <4>1, <4>2, PrecededAppend DEF Led
      <3>2. CASE ~Relaying
        BY <1>0, <1>2, <2>4, <3>2, RelayAppends
      <3> QED
        BY <3>1, <3>2
    <2>5. ASSUME NEW m \in {Introduction(q), Plain("close")}, inbox'[q] = Append(inbox[q], m)
          PROVE  Led(inbox'[q])
      <3>1. m \in Msg /\ m.type # "iceCandidate"
        BY <1>0, <2>5, MsgTypes DEF Plain, Introduction
      <3> QED
        BY <1>0, <1>2, <2>5, <3>1, PrecededAppend DEF Led
    <2> QED
      BY <1>0, <1>2, <2>1, <2>2, <2>3, <2>4, <2>5, InboxMoves
  <1> QED
    BY <1>0, <1>1, <1>2 DEF DescriptionLeads

LEMMA LeadsChecking ==
    ASSUME IInv, Next, orderly, NEW p \in Peer
    PROVE  Known(p)' \/ Led(checking'[Other(p)])
  <1> DEFINE q == Other(p)
  <1>0. q \in Peer /\ Other(q) = p /\ TypeOK /\ Spoken /\ DescriptionLeads
        /\ checking[q] \in Seq(Msg)
    BY OtherPeer DEF IInv, TypeOK
  <1>1. CASE Known(p)
    BY <1>0, <1>1, KnownKept
  <1>2. CASE Led(checking[q]) /\ ~Known(p)
    <2>1. CASE HandleMessage(q)
      <3>1. inbox[q] \in Seq(Msg) /\ inbox[q] # <<>> /\ sock[q] = "authed"
        BY <1>0, <2>1, HandledRight
      <3>2. checking'[q] = Append(checking[q], Head(inbox[q])) /\ Head(inbox[q]) \in Msg
        BY <1>0, <2>1, <3>1, HandledRight, HeadTail DEF TypeOK
      <3>3. ASSUME Head(inbox[q]).type = "iceCandidate" PROVE Has(checking[q], Description)
        <4>1. ~Led(inbox[q])
          BY <3>1, <3>3, PrecededHead DEF Led
        <4>2. Received(p)
          BY <1>0, <4>1 DEF DescriptionLeads
        <4> QED
          BY <1>2, <3>1, <4>2 DEF Received
      <3> QED
        BY <1>0, <1>2, <3>2, <3>3, PrecededAppend DEF Led
    <2>2. CASE Verified(q)
      <3>1. CASE Head(checking[q]).type \in Description
        BY <1>0, <2>2, <3>1, VerifiedKnown
      <3>2. CASE Head(checking[q]).type \notin Description
        BY <1>0, <1>2, <2>2, <3>2, VerifiedFirst, PrecededTail DEF Led
      <3> QED
        BY <3>1, <3>2
    <2> QED
      BY <1>0, <1>2, <2>1, <2>2, CheckingMoves
  <1> QED
    BY <1>0, <1>1, <1>2 DEF DescriptionLeads

LEMMA DescriptionLeadsStep == IInv /\ Next => DescriptionLeads'
  BY OrderlyKept, LeadsSigning, LeadsSent, LeadsInbox, LeadsChecking
  DEF DescriptionLeads

LEMMA MessagesUsedStep == IInv /\ Next => MessagesUsed'
  <1> SUFFICES ASSUME IInv, Next PROVE MessagesUsed'
    OBVIOUS
  <1>0. TypeOK /\ Spoken /\ DescriptionLeads /\ MessagesUsed /\ orderly' = orderly
    BY OrderlyKept DEF IInv
  <1>1. ASSUME NEW p \in Peer, HandleMessage(p) PROVE UNCHANGED <<refused, lost>>
    BY <1>0, <1>1, HandledRight
  <1>2. ASSUME NEW p \in Peer, Verified(p) PROVE refused' = refused /\ (orderly => lost' = lost)
    <2>1. refused' = refused
      BY <1>2 DEF Verified
    <2>2. ASSUME orderly PROVE lost' = lost
      <3>1. Known(Other(p)) \/ Led(checking[p])
        BY <1>0, <2>2, OtherPeer DEF DescriptionLeads
      <3>2. Led(checking[p]) => Head(checking[p]).type # "iceCandidate"
        BY <1>0, <1>2, <2>2, VerifiedFirst, PrecededHead DEF Led, TypeOK
      <3>3. Known(Other(p)) => p \in remote \/ rtc[p] = "closed"
        BY OtherPeer DEF Known
      <3> QED
        BY <1>0, <1>2, <2>2, <3>1, <3>2, <3>3, VerifiedFirst
    <2> QED
      BY <2>1, <2>2
  <1>3. CASE UNCHANGED <<refused, lost>>
    BY <1>0, <1>3 DEF MessagesUsed
  <1> QED
    BY <1>0, <1>1, <1>2, <1>3 DEF MessagesUsed, Next, ClientStep, ServerStep,
       SocketOpens, SendAuth, Signed, PeerConnect, SendOffer, SendAnswer, LocalSet,
       SocketEnds, SendIceCandidate, RtcConnects, RtcFails, Leave, Join, Relay,
       CloseEvent, Drop, Timeout, Outgoing, history

-----------------------------------------------------------------------------
(* A description is made and used once. *)

(* How many descriptions there are in a queue is changed by the steps that *)
(* make one, pass it on or use it, and by no other.                        *)
LEMMA SigningDescribes ==
    ASSUME TypeOK, DescribedOnce, Next, NEW p \in Peer, ~SendOffer(p), ~SendAnswer(p)
    PROVE  /\ Once(signing'[p], Description)
           /\ Has(signing'[p], Description) => Has(signing[p], Description)
  <1>0. signing[p] \in Seq(Msg) /\ Once(signing[p], Description)
    BY DEF TypeOK, DescribedOnce
  <1>1. CASE Signed(p)
    <2>1. PICK k \in DOMAIN signing[p] : signing'[p] = RemoveAt(signing[p], k)
      BY <1>1 DEF Signed, Done, TypeOK
    <2> QED
      BY <1>0, <2>1, RemoveAtElements, OnceRemoveAt
  <1>2. CASE SendIceCandidate(p)
    <2>1. [type |-> "iceCandidate", nonce |-> remoteNonce[p]] \in Msg
      BY MsgTypes DEF TypeOK, Type
    <2>2. signing'[p] \in {signing[p],
             Append(signing[p], [type |-> "iceCandidate", nonce |-> remoteNonce[p]])}
      BY <1>2 DEF SendIceCandidate, SendMessage, TypeOK
    <2>3. LET s == Append(signing[p], [type |-> "iceCandidate", nonce |-> remoteNonce[p]])
          IN  /\ Once(s, Description)
              /\ Has(s, Description) <=> Has(signing[p], Description)
      BY <1>0, <2>1, OnceAppend, HasAppend, DescriptionTypes
    <2> QED
      BY <1>0, <2>2, <2>3
  <1>3. CASE signing'[p] = signing[p]
    BY <1>0, <1>3
  <1> QED
    BY <1>1, <1>2, <1>3, SigningMoves

LEMMA SentDescribes ==
    ASSUME TypeOK, Spoken, DescribedOnce, Next, NEW p \in Peer, ~Signed(p)
    PROVE  /\ Once(sent'[p], Description)
           /\ Has(sent'[p], Description) => Has(sent[p], Description)
  <1>0. sent[p] \in Seq(Msg) /\ Once(sent[p], Description)
    BY DEF TypeOK, DescribedOnce
  <1>1. ASSUME NEW m \in {Plain("auth"), Plain("close")}
        PROVE  /\ Once(Append(sent[p], m), Description)
               /\ Has(Append(sent[p], m), Description) <=> Has(sent[p], Description)
    <2>1. m \in Msg /\ m.type \notin Description
      BY <1>1, MsgTypes, DescriptionTypes DEF Plain
    <2> QED
      BY <1>0, <2>1, OnceAppend, HasAppend
  <1>2. CASE sent[p] # <<>> /\ sent'[p] = Tail(sent[p])
    BY <1>0, <1>2, OnceTail, HasTail
  <1>3. ASSUME NEW U, Outgoing(p, U) PROVE sent[p] # <<>> /\ sent'[p] = Tail(sent[p])
    BY <1>3 DEF Outgoing, TypeOK
  <1> QED
    BY <1>0, <1>1, <1>2, <1>3, SentMoves, RelayAppends

LEMMA InboxDescribes ==
    ASSUME TypeOK, Spoken, DescribedOnce, Next, NEW q \in Peer, ~Relay(Other(q))
    PROVE  /\ Once(inbox'[q], Description)
           /\ Has(inbox'[q], Description) => Has(inbox[q], Description)
  <1>0. inbox[q] \in Seq(Msg) /\ Once(inbox[q], Description)
    BY OtherPeer DEF TypeOK, DescribedOnce
  <1>1. ASSUME NEW m \in {Introduction(q), Plain("close")}
        PROVE  /\ Once(Append(inbox[q], m), Description)
               /\ Has(Append(inbox[q], m), Description) <=> Has(inbox[q], Description)
    <2>1. m \in Msg /\ m.type \notin Description
      BY <1>1, MsgTypes, DescriptionTypes DEF Plain, Introduction
    <2> QED
      BY <1>0, <2>1, OnceAppend, HasAppend
  <1>2. CASE inbox[q] # <<>> /\ inbox'[q] = Tail(inbox[q])
    BY <1>0, <1>2, OnceTail, HasTail
  <1>3. ASSUME NEW U, Incoming(q, U) PROVE inbox[q] # <<>> /\ inbox'[q] = Tail(inbox[q])
    BY <1>3 DEF Incoming, TypeOK
  <1>4. CASE SocketEnds(q)
    BY <1>4, Empty DEF SocketEnds, TypeOK
  <1> QED
    BY <1>0, <1>1, <1>2, <1>3, <1>4, InboxMoves DEF PeerConnect, HandleMessage

LEMMA VerifiedTakes ==
    ASSUME TypeOK, DescribedOnce, NEW q \in Peer, Verified(q)
    PROVE  /\ Once(checking'[q], Description)
           /\ Has(checking'[q], Description) => Has(checking[q], Description)
  <1>1. checking[q] \in Seq(Msg) /\ Once(checking[q], Description)
    BY OtherPeer DEF TypeOK, DescribedOnce
  <1>2. PICK k \in DOMAIN checking[q] : checking'[q] = RemoveAt(checking[q], k)
    BY DEF Verified, Done, TypeOK
  <1> QED
    BY <1>1, <1>2, RemoveAtElements, OnceRemoveAt

LEMMA CheckingDescribes ==
    ASSUME TypeOK, DescribedOnce, Next, NEW q \in Peer, ~HandleMessage(q)
    PROVE  /\ Once(checking'[q], Description)
           /\ Has(checking'[q], Description) => Has(checking[q], Description)
  <1>1. Once(checking[q], Description)
    BY OtherPeer DEF DescribedOnce
  <1> QED
    BY <1>1, CheckingMoves, VerifiedTakes

LEMMA RemoteMoves ==
    ASSUME TypeOK, Next, NEW q \in Peer
    PROVE  /\ q \in remote => q \in remote'
           /\ q \in remote' => q \in remote \/ Verified(q)
  <1>1. ASSUME NEW r \in Peer, Verified(r) PROVE remote' \in {remote, remote \union {r}}
    BY <1>1 DEF Verified
  <1> QED
    BY <1>1 DEF Next, ClientStep, ServerStep, SocketOpens, SendAuth, Signed,
       PeerConnect, HandleMessage, SendOffer, SendAnswer, LocalSet,
       SocketEnds, SendIceCandidate, RtcConnects, RtcFails, Leave, Join, Relay,
       CloseEvent, Drop, Timeout, Outgoing, peerVars

(* The verification of a description is that of the only one. *)
LEMMA VerifiedOnce ==
    ASSUME IInv, NEW q \in Peer, Verified(q)
    PROVE  /\ q \in remote' /\ q \notin remote =>
                 /\ Has(checking[q], Description)
                 /\ ~Has(checking'[q], Description)
           /\ local'[q] # local[q] =>
                 /\ q = "responder" /\ q \in remote' /\ q \notin remote
                 /\ local'[q] = "creating"
           /\ UNCHANGED <<local[Other(q)], signing, sent, inbox>>
  <1>0. TypeOK /\ Spoken /\ DescribedOnce /\ checking[q] \in Seq(Msg)
        /\ checking[q] \in Seq(From(Other(q)))
    BY DEF IInv, TypeOK, Spoken
  <1>1. PICK k \in DOMAIN checking[q] :
           LET type == IF rtc[q] = "closed" THEN "ignored" ELSE checking[q][k].type
           IN  /\ checking'[q] = RemoveAt(checking[q], k)
               /\ remote' = IF type \in Description THEN remote \union {q} ELSE remote
               /\ local' = IF type # "offer" THEN local
                           ELSE [local EXCEPT ![q] = "creating"]
    BY <1>0 DEF Verified, Done, TypeOK, Description
  <1>2. /\ "ignored" \notin Description
        /\ "offer" \in Description
        /\ checking[q][k].type \in Description => Has(checking[q], Description)
    BY <1>1 DEF Description, Has
  <1>3. Once(checking[q], Description)
    BY <1>0, OtherPeer DEF DescribedOnce
  <1>4. q \in remote' /\ q \notin remote =>
           Has(checking[q], Description) /\ ~Has(checking'[q], Description)
    BY <1>0, <1>1, <1>2, <1>3, OnceRemoveAt
  <1>5. checking[q][k].type = "offer" => q = "responder"
    <2>1. checking[q][k] \in From(Other(q))
      BY <1>0, <1>1
    <2> QED
      BY <2>1, OtherPeer DEF From, Peer
  <1>6. Has(checking[q], Description) => q \notin remote
    BY <1>0, OtherPeer DEF DescribedOnce
  <1>7. local'[q] # local[q] => /\ q = "responder" /\ q \in remote' /\ q \notin remote
                                /\ local'[q] = "creating"
    BY <1>0, <1>1, <1>2, <1>5, <1>6 DEF TypeOK
  <1>8. UNCHANGED <<local[Other(q)], signing, sent, inbox>>
    BY <1>0, <1>1, OtherPeer DEF Verified, wireVars, TypeOK
  <1> QED
    BY <1>4, <1>7, <1>8

LEMMA MadeKept ==
    ASSUME IInv, Next, NEW p \in Peer, Made(p)
    PROVE  Made(p)'
  <1>0. TypeOK /\ Spoken /\ DescribedOnce /\ IntroducedOnce
    BY DEF IInv
  <1>1. ASSUME NEW q \in Peer, Verified(q) PROVE Made(p)'
    <2>1. CASE q = p
      <3>1. p = "responder" => p \in remote
        BY <1>0 DEF DescribedOnce, Made
      <3> QED
        BY <1>1, <2>1, <3>1, VerifiedOnce DEF Made
    <2>2. CASE q # p
      BY <1>1, <2>2, VerifiedOnce, OtherPeer DEF Made, Peer
    <2> QED
      BY <2>1, <2>2
  <1>2. ASSUME NEW q \in Peer, PeerConnect(q) PROVE Made(p)'
    <2>1. Has(inbox[q], {"peerConnect"})
      BY <1>0, <1>2, HeadsSpoken, HasTail DEF PeerConnect
    <2>2. q # p
      BY <1>0, <2>1 DEF IntroducedOnce, Made
    <2> QED
      BY <1>0, <1>2, <2>2 DEF PeerConnect, Made, TypeOK
  <1>3. ASSUME NEW q \in Peer, SendOffer(q) \/ SendAnswer(q) \/ LocalSet(q) PROVE Made(p)'
    BY <1>0, <1>3 DEF SendOffer, SendAnswer, LocalSet, Made, TypeOK
  <1>4. CASE UNCHANGED local
    BY <1>4 DEF Made
  <1> QED
    BY <1>1, <1>2, <1>3, <1>4 DEF Next, ClientStep, ServerStep, SocketOpens,
       SendAuth, Signed, HandleMessage, SocketEnds, SendIceCandidate,
       RtcConnects, RtcFails, Leave, Join, Relay, CloseEvent, Drop, Timeout,
       Outgoing, peerVars

(* What DescribedOnce says of the description of one peer. *)
WayOnce(p) ==
    /\ Other(p) \in remote => Made(p)
    /\ Has(checking[Other(p)], Description) => Made(p) /\ Other(p) \notin remote
    /\ Has(inbox[Other(p)], Description) =>
          /\ Made(p) /\ Other(p) \notin remote
          /\ ~Has(checking[Other(p)], Description)
    /\ Has(sent[p], Description) =>
          /\ Made(p) /\ Other(p) \notin remote
          /\ ~Has(checking[Other(p)], Description)
          /\ ~Has(inbox[Other(p)], Description)
    /\ Has(signing[p], Description) =>
          /\ Made(p) /\ Other(p) \notin remote /\ ~Has(sent[p], Description)
          /\ ~Has(checking[Other(p)], Description)
          /\ ~Has(inbox[Other(p)], Description)
    /\ Once(checking[Other(p)], Description) /\ Once(inbox[Other(p)], Description)
    /\ Once(sent[p], Description) /\ Once(signing[p], Description)

LEMMA DescribedOnceWay ==
    DescribedOnce <=> /\ local["responder"] # "none" => "responder" \in remote
                      /\ \A p \in Peer : WayOnce(p)
  BY DEF DescribedOnce, WayOnce

LEMMA WayOnceStep ==
    ASSUME IInv, Next, NEW p \in Peer
    PROVE  WayOnce(p)'
  <1> DEFINE q == Other(p)
  <1>0. /\ q \in Peer /\ Other(q) = p /\ p # q /\ TypeOK /\ Spoken /\ DescribedOnce
        /\ signing[p] \in Seq(Msg) /\ sent[p] \in Seq(Msg)
        /\ inbox[q] \in Seq(Msg) /\ checking[q] \in Seq(Msg)
        /\ WayOnce(p) /\ (Made(p) => Made(p)')
    BY OtherPeer, MadeKept, DescribedOnceWay DEF IInv, TypeOK
  <1>1. CASE SendOffer(p) \/ SendAnswer(p)
    <2>1. ~Made(p) /\ Made(p)' /\ UNCHANGED <<sent, inbox, checking, remote>>
      BY <1>0, <1>1 DEF SendOffer, SendAnswer, Made, wireVars, TypeOK
    <2>2. PICK t \in Type : SendMessage(p, t) /\ local[p] # "none"
      BY <1>1 DEF SendOffer, SendAnswer, Type
    <2>3. signing'[p] = signing[p] \/ \E m \in Msg : signing'[p] = Append(signing[p], m)
      BY <2>2, SaysNext
    <2>4. ~Has(signing[p], Description) /\ Once(signing[p], Description)
      BY <1>0, <2>1 DEF WayOnce
    <2>5. Once(signing'[p], Description)
      BY <1>0, <2>3, <2>4, OnceAppend
    <2> QED
      BY <1>0, <2>1, <2>5 DEF WayOnce
  <1>2. CASE Signed(p)
    <2>1. UNCHANGED <<inbox, checking, remote, local>>
      BY <1>2 DEF Signed, peerVars
    <2>2. PICK k \in DOMAIN signing[p] :
             /\ signing'[p] = RemoveAt(signing[p], k)
             /\ sent'[p] \in {sent[p], Append(sent[p], signing[p][k])}
      BY <1>0, <1>2 DEF Signed, Done, TypeOK
    <2>3. /\ Once(signing'[p], Description)
          /\ Has(signing'[p], Description) => Has(signing[p], Description)
          /\ signing[p][k].type \in Description => /\ Has(signing[p], Description)
                                                   /\ ~Has(signing'[p], Description)
      <3>1. Once(signing[p], Description)
        BY <1>0 DEF WayOnce
      <3>2. signing[p][k].type \in Description => Has(signing[p], Description)
        BY <2>2 DEF Has
      <3> QED
        BY <1>0, <2>2, <3>1, <3>2, RemoveAtElements, OnceRemoveAt
    <2>4. CASE sent'[p] = sent[p]
      BY <1>0, <2>1, <2>3, <2>4 DEF WayOnce, Made
    <2>5. CASE sent'[p] = Append(sent[p], signing[p][k])
      <3>1. signing[p][k] \in Msg
        BY <1>0, <2>2
      <3>2. Has(sent'[p], Description) <=>
               Has(sent[p], Description) \/ signing[p][k].type \in Description
        BY <1>0, <2>5, <3>1, HasAppend
      <3>3. Once(sent'[p], Description)
        BY <1>0, <2>3, <2>5, <3>1, OnceAppend DEF WayOnce
      <3> QED
        BY <1>0, <2>1, <2>3, <3>2, <3>3 DEF WayOnce, Made
    <2> QED
      BY <2>2, <2>4, <2>5
  <1>3. CASE Relay(p)
    <2>1. UNCHANGED <<signing, checking, remote, local>>
      BY <1>3 DEF Relay, Outgoing, clientVars, peerVars
    <2>2. /\ Once(sent'[p], Description)
          /\ Has(sent'[p], Description) => Has(sent[p], Description)
          /\ Head(sent[p]).type \in Description => /\ Has(sent[p], Description)
                                                   /\ ~Has(sent'[p], Description)
      BY <1>0, <1>3, RelayAppends, OnceTail, HasTail DEF WayOnce
    <2>3. inbox'[q] \in {inbox[q], Append(inbox[q], Head(sent[p]))} /\ Head(sent[p]) \in Msg
      BY <1>0, <1>3, RelayAppends
    <2>4. CASE inbox'[q] = inbox[q]
      BY <1>0, <2>1, <2>2, <2>4 DEF WayOnce, Made
    <2>5. CASE inbox'[q] = Append(inbox[q], Head(sent[p]))
      <3>1. Has(inbox'[q], Description) <=>
               Has(inbox[q], Description) \/ Head(sent[p]).type \in Description
        BY <1>0, <2>3, <2>5, HasAppend
      <3>2. Once(inbox'[q], Description)
        BY <1>0, <2>2, <2>3, <2>5, OnceAppend DEF WayOnce
      <3> QED
        BY <1>0, <2>1, <2>2, <3>1, <3>2 DEF WayOnce, Made
    <2> QED
      BY <2>3, <2>4, <2>5
  <1>4. CASE HandleMessage(q)
    <2>1. UNCHANGED <<signing, sent, remote, local>>
      BY <1>0, <1>4, HandledRight DEF HandleMessage, peerVars
    <2>2. /\ inbox[q] # <<>> /\ inbox'[q] = Tail(inbox[q]) /\ Head(inbox[q]) \in Msg
          /\ checking'[q] = Append(checking[q], Head(inbox[q]))
      BY <1>0, <1>4, HandledRight, HeadTail DEF TypeOK
    <2>3. /\ Once(inbox'[q], Description)
          /\ Has(inbox'[q], Description) => Has(inbox[q], Description)
          /\ Head(inbox[q]).type \in Description => /\ Has(inbox[q], Description)
                                                    /\ ~Has(inbox'[q], Description)
      BY <1>0, <2>2, OnceTail, HasTail DEF WayOnce
    <2>4. Has(checking'[q], Description) <=>
             Has(checking[q], Description) \/ Head(inbox[q]).type \in Description
      BY <1>0, <2>2, HasAppend
    <2>5. Once(checking'[q], Description)
      BY <1>0, <2>2, <2>3, OnceAppend DEF WayOnce
    <2> QED
      BY <1>0, <2>1, <2>3, <2>4, <2>5 DEF WayOnce, Made
  <1>5. CASE Verified(q)
    <2>1. UNCHANGED <<signing, sent, inbox>>
      BY <1>0, <1>5, VerifiedOnce
    <2>2. /\ Once(checking'[q], Description)
          /\ Has(checking'[q], Description) => Has(checking[q], Description)
      BY <1>0, <1>5, VerifiedTakes
    <2>3. /\ q \in remote => q \in remote'
          /\ q \in remote' /\ q \notin remote => /\ Has(checking[q], Description)
                                                 /\ ~Has(checking'[q], Description)
      BY <1>0, <1>5, RemoteMoves, VerifiedOnce
    <2> QED
      BY <1>0, <2>1, <2>2, <2>3 DEF WayOnce
  <1>6. CASE /\ ~SendOffer(p) /\ ~SendAnswer(p) /\ ~Signed(p) /\ ~Relay(p)
             /\ ~HandleMessage(q) /\ ~Verified(q)
    BY <1>0, <1>6, SigningDescribes, SentDescribes, InboxDescribes, CheckingDescribes,
       RemoteMoves DEF WayOnce
  <1> QED
    BY <1>1, <1>2, <1>3, <1>4, <1>5, <1>6

LEMMA DescribedOnceStep == IInv /\ Next => DescribedOnce'
  <1> SUFFICES ASSUME IInv, Next PROVE DescribedOnce'
    OBVIOUS
  <1>0. TypeOK /\ DescribedOnce
    BY DEF IInv
  <1>1. \A p \in Peer : WayOnce(p)'
    BY WayOnceStep
  <1>2. local'["responder"] # "none" => "responder" \in remote'
    <2>1. ASSUME NEW q \in Peer, Verified(q), local'["responder"] # local["responder"]
          PROVE  "responder" \in remote'
      <3>1. q = "responder" \/ Other(q) = "responder"
        BY OtherPeer DEF Peer
      <3> QED
        BY <2>1, <3>1, VerifiedOnce
    <2>2. ASSUME NEW q \in Peer, PeerConnect(q) PROVE local'["responder"] = local["responder"]
      BY <1>0, <2>2 DEF PeerConnect, TypeOK, Peer
    <2>3. ASSUME NEW q \in Peer, SendOffer(q) \/ SendAnswer(q) \/ LocalSet(q)
          PROVE  local["responder"] = "none" => local'["responder"] = "none"
      BY <1>0, <2>3 DEF SendOffer, SendAnswer, LocalSet, TypeOK, Peer
    <2>4. "responder" \in remote => "responder" \in remote'
      BY <1>0, RemoteMoves DEF Peer
    <2>5. local["responder"] # "none" => "responder" \in remote
      BY <1>0 DEF DescribedOnce
    <2>6. \/ UNCHANGED local
          \/ \E q \in Peer : \/ Verified(q) \/ PeerConnect(q) \/ SendOffer(q)
                             \/ SendAnswer(q) \/ LocalSet(q)
      BY DEF Next, ClientStep, ServerStep, SocketOpens, SendAuth, Signed,
         HandleMessage, SocketEnds, SendIceCandidate, RtcConnects, RtcFails, Leave,
         Join, Relay, CloseEvent, Drop, Timeout, Outgoing, peerVars
    <2> QED
      BY <2>1, <2>2, <2>3, <2>4, <2>5, <2>6
  <1> QED
    BY <1>1, <1>2, DescribedOnceWay DEF DescribedOnce, WayOnce

-----------------------------------------------------------------------------
(* Theorems. *)

LEMMA Stutters == IInv /\ UNCHANGED vars => IInv'
  BY DEF vars, clientVars, wireVars, peerVars, history, IInv, TypeOK, Spoken,
     IntroducedOnce, IntroducedFirst, OfferFirst, DescriptionLeads, DescribedOnce,
     MessagesUsed, Matched, Relaying, Known, Received, Relayed, Sent, Made

(* What every step keeps of the messages on their way and of who has been  *)
(* introduced when, for any number of candidates.                          *)
THEOREM Inductive == Spec => []IInv
  <1>1. Init => IInv
    BY InitHolds
  <1>2. IInv /\ [Next]_vars => IInv'
    <2>1. IInv /\ Next => IInv'
      BY TypeStep, SpokenStep, IntroducedOnceStep, IntroducedFirstStep,
         OfferFirstStep, DescriptionLeadsStep, DescribedOnceStep, MessagesUsedStep
      DEF IInv
    <2> QED
      BY <2>1, Stutters
  <1> QED
    BY <1>1, <1>2, PTL DEF Spec

(* Every variable keeps its type. *)
THEOREM TypeCorrect == Spec => []TypeOK
  BY Inductive, PTL DEF IInv

(* No message is refused for its nonce, and no candidate comes before the  *)
(* description it belongs to, provided signatures are computed and         *)
(* verified in order.                                                      *)
THEOREM MessagesUsedHolds == Spec => []MessagesUsed
  BY Inductive, PTL DEF IInv

(* The initiator has an answer only when its offer is in place, in         *)
(* whatever order signatures are ready.                                    *)
THEOREM AnswerFindsOfferHolds == Spec => []AnswerFindsOffer
  <1>1. IInv => AnswerFindsOffer
    BY DEF IInv, OfferFirst, AnswerFindsOffer
  <1> QED
    BY <1>1, Inductive, PTL

(* A peer makes one description in an attempt, and uses one of the other's. *)
THEOREM DescriptionsFinalHolds == Spec => DescriptionsFinal
  <1>1. IInv /\ [Next]_vars =>
           [\A p \in Peer : /\ Made(p) => Made(p)'
                            /\ p \in remote =>
                                  /\ p \in remote'
                                  /\ ~Has(checking[p], Description)]_vars
    <2> SUFFICES ASSUME IInv, Next, NEW p \in Peer
                 PROVE  /\ Made(p) => Made(p)'
                        /\ p \in remote =>
                              p \in remote' /\ ~Has(checking[p], Description)
      OBVIOUS
    <2>1. Made(p) => Made(p)'
      BY MadeKept
    <2>2. p \in remote => p \in remote'
      BY RemoteMoves DEF IInv
    <2>3. p \in remote => ~Has(checking[p], Description)
      <3>1. Other(p) \in Peer /\ Other(Other(p)) = p
        BY OtherPeer
      <3>2. WayOnce(Other(p))
        BY <3>1, DescribedOnceWay DEF IInv
      <3> QED
        BY <3>1, <3>2 DEF WayOnce
    <2> QED
      BY <2>1, <2>2, <2>3
  <1> QED
    BY <1>1, Inductive, PTL DEF Spec, DescriptionsFinal

=============================================================================
