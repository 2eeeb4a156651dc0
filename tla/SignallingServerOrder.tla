------------------------- MODULE SignallingServerOrder -------------------------
(***************************************************************************)
(* The theorem that clients of SignallingServer receive what their peers   *)
(* send in the order in which it was sent.  OrderInv, the inductive        *)
(* invariant, stands on IInv, the one of SignallingServerProofs.           *)
(***************************************************************************)
EXTENDS SignallingServerProofs

-----------------------------------------------------------------------------
(* What can be pending and heard. *)

LEMMA PendingHeardType ==
    ASSUME TypeOK
    PROVE  /\ \A h \in Handler : Pending(h) \subseteq PeerMessage
           /\ \A s \in Socket : Heard(s) \subseteq PeerMessage \union {ErrorMsg}
  BY DEF TypeOK, Pending, Heard, Message

LEMMA PeerMessageFields ==
    ASSUME NEW m \in PeerMessage
    PROVE  m.from \in Handler /\ m.n \in Nat /\ m # ErrorMsg
  <1>1. m.from \in Handler /\ m.n \in Nat
    BY DEF PeerMessage
  <1>2. ErrorMsg.from = NONE
    BY DEF ErrorMsg, Msg
  <1> QED
    BY <1>1, <1>2, NoneAssumption

(* A handler has at most one partner. *)
LEMMA OnePartner ==
    ASSUME ClaimExclusive, NEW x, NEW a, NEW b, Partner(a, x), Partner(b, x)
    PROVE  a = b
  BY RolesAssumption DEF ClaimExclusive, Partner, Claimed

(* A responder that has not joined has nothing pending and nobody has      *)
(* heard of it; of an initiator that nobody has claimed likewise.          *)
LEMMA UnclaimedUnheard ==
    ASSUME IInv, NEW x \in Handler, \A h : ~Partner(h, x)
    PROVE  /\ bus[x] = <<>>
           /\ \A h \in Handler : \A m \in Pending(h) : m.from # x
           /\ \A s \in Socket : \A m \in Heard(s) : m.from # x
  <1> USE DEF IInv
  <1>1. \A h : ~Partner(x, h)
    BY DEF Partner
  <1>2. bus[x] = <<>>
    <2>1. bus[x] \in Seq(PeerMessage)
      BY DEF TypeOK
    <2>2. bus[x] # <<>> => 1 \in DOMAIN bus[x]
      BY <2>1
    <2> QED
      BY <1>1, <2>2 DEF Routed
  <1>3. \A h \in Handler : \A m \in Pending(h) : m.from # x
    BY DEF Routed, Pending
  <1>4. ErrorMsg.from # x
    BY NoneAssumption DEF ErrorMsg, Msg
  <1>5. \A s \in Socket : \A m \in Heard(s) : m.from # x
    BY <1>4 DEF PairIsolation, Heard
  <1> QED
    BY <1>2, <1>3, <1>5

(* Nothing of a handler is heard or pending but with its partner. *)
LEMMA PendingPartner ==
    ASSUME IInv, NEW h \in Handler, NEW m \in Pending(h)
    PROVE  Partner(h, m.from)
  BY DEF IInv, Routed, Pending

-----------------------------------------------------------------------------
(* Sequences that grow at the end. *)

LEMMA AppendElements ==
    ASSUME NEW S, NEW q \in Seq(S), NEW m \in S
    PROVE  /\ DOMAIN Append(q, m) = DOMAIN q \union {Len(q) + 1}
           /\ Append(q, m)[Len(q) + 1] = m
           /\ \A k \in DOMAIN q : /\ Append(q, m)[k] = q[k]
                                  /\ k \in Nat
                                  /\ k < Len(q) + 1
  OBVIOUS

LEMMA TailElements ==
    ASSUME NEW S, NEW q \in Seq(S), q # <<>>
    PROVE  /\ Head(q) = q[1]
           /\ 1 \in DOMAIN q
           /\ \A k \in DOMAIN Tail(q) : /\ k \in Nat
                                        /\ k + 1 \in DOMAIN q
                                        /\ k + 1 > 1
                                        /\ Tail(q)[k] = q[k + 1]
  OBVIOUS

-----------------------------------------------------------------------------
(* Steps that post nothing and deliver nothing. *)

(* Pending events are only dropped, clients are only sent errors, and no   *)
(* claim is made.                                                          *)
Quieter ==
    /\ \A h \in Handler : bus'[h] \in {bus[h], <<>>}
    /\ \A s \in Socket : got'[s] \in {got[s], Append(got[s], ErrorMsg)}
    /\ posted' = posted
    /\ \A s \in Socket : sock[s] = "closed" => sock'[s] = "closed"
    /\ \A r \in Responder : pc'[r] = "claimed" => pc[r] = "claimed" /\ entry'[r] = entry[r]

(* The number of a message stays explained. *)
LEMMA NumberedKept ==
    ASSUME Kept, NEW m, Numbered(m), m.from \in Handler,
           posted'[m.from] = posted[m.from],
           \A s \in Socket : sock[s] = "closed" => sock'[s] = "closed"
    PROVE  Numbered(m)'
  BY NoneAssumption DEF Kept, Numbered

LEMMA HeardGrows ==
    ASSUME TypeOK, NEW s \in Socket, NEW m \in Message,
           got'[s] = Append(got[s], m)
    PROVE  Heard(s)' = Heard(s) \union {m}
  <1>1. got[s] \in Seq(Message)
    BY DEF TypeOK
  <1> QED
    BY <1>1, AppendElements DEF Heard

LEMMA QuieterOrder ==
    ASSUME IInv, OrderInv, Kept, Quieter
    PROVE  OrderInv'
  <1> USE DEF OrderInv
  <1>1. TypeOK /\ ErrorMsg \in Message
    BY DEF IInv, Message
  <1>2. \A h \in Handler : Pending(h)' \subseteq Pending(h)
    BY DEF Quieter, Pending
  <1>3. \A s \in Socket : Heard(s)' \subseteq Heard(s) \union {ErrorMsg}
    BY <1>1, HeardGrows DEF Quieter, Heard
  <1>4. ErrorMsg.from = NONE
    BY DEF ErrorMsg, Msg
  <1>5. \A h \in Handler : \A w \in Pending(h)' : w.from \in Handler /\ w.from # NONE
    BY <1>1, <1>2, PendingHeardType, PeerMessageFields, NoneAssumption
  <1>6. Ascending'
    BY DEF Quieter, Ascending
  <1>7. Fresh'
    BY <1>2, <1>3, <1>4, <1>5 DEF Fresh
  <1>8. Bounded'
    <2>1. \A h \in Handler : \A m \in Pending(h)' : Numbered(m)'
      BY <1>2, <1>5, NumberedKept DEF Bounded, Quieter
    <2>2. \A s \in Socket : \A m \in Heard(s)' \ {ErrorMsg} : Numbered(m)'
      BY <1>1, <1>3, PendingHeardType, PeerMessageFields, NumberedKept
         DEF Bounded, Quieter
    <2> QED
      BY <2>1, <2>2 DEF Bounded
  <1>9. Unheard'
    <2> SUFFICES ASSUME NEW r \in Responder, pc'[r] = "claimed"
                 PROVE  /\ bus'[r] = <<>>
                        /\ \A h \in Handler : \A m \in Pending(h)' : m.from # r
                        /\ \A s \in Socket : \A m \in Heard(s)' : m.from \notin {r, entry'[r]}
      BY DEF Unheard
    <2>1. pc[r] = "claimed" /\ entry'[r] = entry[r]
      BY DEF Quieter
    <2>2. r # NONE /\ entry[r] # NONE /\ r \in Handler
      BY <2>1, NoneAssumption DEF IInv, Found, Handler
    <2> QED
      BY <1>2, <1>3, <1>4, <2>1, <2>2 DEF Unheard, Quieter
  <1>10. RelayOrder'
    <2> SUFFICES ASSUME NEW s \in Socket,
                        NEW j \in DOMAIN got'[s], NEW k \in DOMAIN got'[s],
                        j < k, got'[s][j] # ErrorMsg,
                        got'[s][j].from = got'[s][k].from
                 PROVE  got'[s][j].n < got'[s][k].n
      BY DEF RelayOrder
    <2>1. CASE got'[s] = got[s]
      BY <2>1 DEF RelayOrder
    <2>2. CASE got'[s] = Append(got[s], ErrorMsg)
      <3>1. got[s] \in Seq(Message)
        BY <1>1 DEF TypeOK
      <3>2. j \in DOMAIN got[s] /\ got'[s][j] = got[s][j]
        BY <1>1, <2>2, <3>1, AppendElements
      <3>3. got[s][j].from # NONE
        BY <3>1, <3>2, PeerMessageFields, NoneAssumption DEF Message
      <3>4. k \in DOMAIN got[s] /\ got'[s][k] = got[s][k]
        BY <1>1, <1>4, <2>2, <3>1, <3>2, <3>3, AppendElements
      <3> QED
        BY <3>2, <3>4 DEF RelayOrder
    <2> QED
      BY <2>1, <2>2 DEF Quieter
  <1> QED
    BY <1>6, <1>7, <1>8, <1>9, <1>10

-----------------------------------------------------------------------------
(* Steps that post or deliver. *)

LEMMA PostedPending ==
    ASSUME TypeOK, NEW h \in Handler, NEW m \in PeerMessage, bus' = Posted(h, m),
           NEW g \in Handler
    PROVE  /\ \/ bus'[g] = bus[g]
              \/ bus'[g] = Append(bus[g], m) /\ Subscribed(g)
           /\ Pending(g)' \subseteq Pending(g) \union {m}
  <1>1. bus[g] \in Seq(PeerMessage)
    BY DEF TypeOK
  <1>2. \/ bus'[g] = bus[g]
        \/ bus'[g] = Append(bus[g], m) /\ Subscribed(g)
    BY DEF Posted
  <1> QED
    BY <1>1, <1>2, AppendElements DEF Pending

LEMMA PostedAscending ==
    ASSUME TypeOK, Ascending,
           NEW h \in Handler, NEW m \in PeerMessage, bus' = Posted(h, m),
           \A g \in Handler : \A w \in Pending(g) : w.from = m.from => w.n < m.n
    PROVE  Ascending'
  <1> SUFFICES ASSUME NEW g \in Handler,
                      NEW j \in DOMAIN bus'[g], NEW k \in DOMAIN bus'[g],
                      j < k, bus'[g][j].from = bus'[g][k].from
               PROVE  bus'[g][j].n < bus'[g][k].n
    BY DEF Ascending
  <1>1. CASE bus'[g] = bus[g]
    BY <1>1 DEF Ascending
  <1>2. CASE bus'[g] = Append(bus[g], m)
    <2>1. bus[g] \in Seq(PeerMessage)
      BY DEF TypeOK
    <2>2. j \in DOMAIN bus[g] /\ bus'[g][j] = bus[g][j]
      BY <1>2, <2>1, AppendElements
    <2>3. CASE k \in DOMAIN bus[g]
      BY <1>2, <2>1, <2>2, <2>3, AppendElements DEF Ascending
    <2>4. CASE k = Len(bus[g]) + 1
      <3>1. bus'[g][k] = m
        BY <1>2, <2>1, <2>4, AppendElements
      <3> QED
        BY <2>2, <3>1 DEF Pending
    <2> QED
      BY <1>2, <2>1, <2>3, <2>4, AppendElements
  <1> QED
    BY <1>1, <1>2, PostedPending

(* A client that is sent something later than what it has heard of the     *)
(* same sender hears in order.                                             *)
LEMMA HeardInOrder ==
    ASSUME TypeOK, RelayOrder, NEW s \in Socket, NEW m \in Message, Send(s, m),
           \A w \in Heard(s) : w.from = m.from => w.n < m.n
    PROVE  RelayOrder'
  <1> SUFFICES ASSUME NEW c \in Socket,
                      NEW j \in DOMAIN got'[c], NEW k \in DOMAIN got'[c],
                      j < k, got'[c][j] # ErrorMsg,
                      got'[c][j].from = got'[c][k].from
               PROVE  got'[c][j].n < got'[c][k].n
    BY DEF RelayOrder
  <1>1. CASE c # s
    BY <1>1 DEF Send, TypeOK, RelayOrder
  <1>2. CASE c = s
    <2>1. got[s] \in Seq(Message) /\ got'[c] = Append(got[s], m)
      BY <1>2 DEF TypeOK, Send
    <2>2. j \in DOMAIN got[s] /\ got'[c][j] = got[s][j]
      BY <2>1, AppendElements
    <2>3. CASE k \in DOMAIN got[s]
      BY <2>1, <2>2, <2>3, AppendElements DEF RelayOrder
    <2>4. CASE k = Len(got[s]) + 1
      <3>1. got'[c][k] = m
        BY <2>1, <2>4, AppendElements
      <3> QED
        BY <2>2, <3>1 DEF Heard
    <2> QED
      BY <2>1, <2>3, <2>4, AppendElements
  <1> QED
    BY <1>1, <1>2

(* The handler a socket listens with, until the socket has closed, has     *)
(* used no number but those it has counted.                                *)
LEMMA ListenerCounted ==
    ASSUME IInv, OrderInv, NEW s \in Socket, listener[s] # NONE, sock[s] # "closed"
    PROVE  /\ \A g \in Handler : \A w \in Pending(g) :
                 w.from = listener[s] => w.n <= posted[listener[s]]
           /\ \A c \in Socket : \A w \in Heard(c) :
                 w.from = listener[s] => w.n <= posted[listener[s]]
  <1>1. owner[listener[s]] = s
    BY DEF IInv, Installed
  <1>2. ErrorMsg.from = NONE
    BY DEF ErrorMsg, Msg
  <1> QED
    BY <1>1, <1>2 DEF OrderInv, Bounded, Numbered

(* What that handler posts, for its client or when its socket closes. *)
LEMMA ListenerPosts ==
    ASSUME IInv, OrderInv, Kept,
           NEW s \in Socket, listener[s] # NONE, sock[s] # "closed",
           NEW m \in PeerMessage, m.from = listener[s],
           m.n = posted[listener[s]] + 1,
           bus' = Posted(listener[s], m), got' = got,
           \A w \in PeerMessage : Numbered(w) => Numbered(w)',
           Numbered(m)',
           \A r \in Responder : pc'[r] = "claimed" =>
               pc[r] = "claimed" /\ entry'[r] = entry[r]
    PROVE  OrderInv'
  <1> USE DEF OrderInv
  <1>1. TypeOK /\ listener[s] \in Handler /\ pc[listener[s]] = "ready"
    BY DEF IInv, TypeOK, Installed
  <1>2. \A g \in Handler : Pending(g)' \subseteq Pending(g) \union {m}
    BY <1>1, PostedPending
  <1>3. \A c \in Socket : Heard(c)' = Heard(c)
    BY DEF Heard
  <1>4. posted[listener[s]] \in Nat
    BY <1>1 DEF TypeOK
  <1>5. \A g \in Handler : \A w \in Pending(g) : w.from = m.from => w.n < m.n
    BY <1>1, <1>4, ListenerCounted, PendingHeardType, PeerMessageFields
  <1>6. \A c \in Socket : \A w \in Heard(c) : w.from = m.from => w.n < m.n
    <2> SUFFICES ASSUME NEW c \in Socket, NEW w \in Heard(c), w.from = m.from
                 PROVE  w.n < m.n
      OBVIOUS
    <2>1. w.n <= posted[listener[s]]
      BY ListenerCounted
    <2>2. w.n \in Nat
      BY <1>1, PendingHeardType, PeerMessageFields DEF ErrorMsg, Msg
    <2> QED
      BY <1>4, <2>1, <2>2
  <1>7. Ascending'
    BY <1>1, <1>5, PostedAscending
  <1>8. Fresh'
    BY <1>2, <1>3, <1>6 DEF Fresh
  <1>9. Bounded'
    <2>1. \A g \in Handler : \A w \in Pending(g)' : Numbered(w)'
      BY <1>1, <1>2, PendingHeardType DEF Bounded
    <2>2. \A c \in Socket : \A w \in Heard(c)' \ {ErrorMsg} : Numbered(w)'
      BY <1>1, <1>3, PendingHeardType DEF Bounded
    <2> QED
      BY <2>1, <2>2 DEF Bounded
  <1>10. Unheard'
    <2> SUFFICES ASSUME NEW r \in Responder, pc'[r] = "claimed"
                 PROVE  /\ bus'[r] = <<>>
                        /\ \A h \in Handler : \A w \in Pending(h)' : w.from # r
                        /\ \A c \in Socket : \A w \in Heard(c)' : w.from \notin {r, entry'[r]}
      BY DEF Unheard
    <2>1. pc[r] = "claimed" /\ entry'[r] = entry[r] /\ r \in Handler
      BY DEF Handler
    <2>2. bus'[r] = bus[r]
      BY <1>1, <2>1, PostedPending DEF Subscribed
    <2>3. m.from # r
      BY <1>1, <2>1
    <2> QED
      BY <1>2, <1>3, <2>1, <2>2, <2>3 DEF Unheard
  <1>11. RelayOrder'
    BY DEF RelayOrder
  <1> QED
    BY <1>7, <1>8, <1>9, <1>10, <1>11

LEMMA RelayStep ==
    ASSUME IInv, OrderInv, Kept, NEW s \in Socket, NEW t \in ClientType, Relay(s, t)
    PROVE  OrderInv'
  <1>0. PICK h : h = listener[s]
    OBVIOUS
  <1>1. h \in Handler /\ h # NONE /\ sock[s] = "open" /\ posted[h] \in Nat
    BY <1>0 DEF Relay, IInv, TypeOK
  <1>2. PICK m : m = Msg(t, h, posted[h] + 1)
    OBVIOUS
  <1>3. /\ m \in PeerMessage /\ m.from = h /\ m.n = posted[h] + 1
        /\ bus' = Posted(h, m)
        /\ UNCHANGED <<got, pc, entry, owner, sock>>
    <2>1. t \in ClientType \union {"peerConnect", "peerDisconnect"}
             /\ posted[h] + 1 \in Nat
      BY <1>1
    <2>2. m \in PeerMessage
      BY <1>1, <1>2, <2>1, MsgType
    <2> QED
      BY <1>0, <1>2, <2>2 DEF Msg, Relay
  <1>4. posted' = [posted EXCEPT ![h] = posted[h] + 1] /\ posted \in [Handler -> Nat]
    BY <1>0 DEF Relay, IInv, TypeOK
  <1>5. Numbered(m)'
    BY <1>1, <1>3, <1>4 DEF Numbered
  <1>6. \A w \in PeerMessage : Numbered(w) => Numbered(w)'
    <2> SUFFICES ASSUME NEW w \in PeerMessage, Numbered(w) PROVE Numbered(w)'
      OBVIOUS
    <2>1. w.from \in Handler /\ w.n \in Nat
      BY PeerMessageFields
    <2>2. CASE w.from = h
      BY <1>1, <1>4, <2>1, <2>2 DEF Numbered
    <2>3. CASE w.from # h
      BY <1>3, <1>4, <2>1, <2>3 DEF Numbered
    <2> QED
      BY <2>2, <2>3
  <1> QED
    BY <1>0, <1>1, <1>3, <1>5, <1>6, ListenerPosts

LEMMA CloseEventStep ==
    ASSUME IInv, OrderInv, Kept, NEW s \in Socket, CloseEvent(s), listener[s] # NONE
    PROVE  OrderInv'
  <1>0. PICK h : h = listener[s]
    OBVIOUS
  <1>1. /\ h \in Handler /\ posted[h] \in Nat /\ owner[h] = s
        /\ sock[s] = "closing" /\ sock \in [Socket -> {"open", "closing", "closed"}]
    BY <1>0 DEF CloseEvent, IInv, TypeOK, Installed
  <1>2. PICK m : m = Msg("peerDisconnect", h, posted[h] + 1)
    OBVIOUS
  <1>3. /\ m \in PeerMessage /\ m.from = h /\ m.n = posted[h] + 1
        /\ bus' = Posted(h, m)
    <2>1. posted[h] + 1 \in Nat
      BY <1>1
    <2>2. m \in PeerMessage
      BY <1>1, <1>2, <2>1, MsgType
    <2> QED
      BY <1>0, <1>2, <2>2 DEF Msg, CloseEvent
  <1>4. /\ sock' = [sock EXCEPT ![s] = "closed"]
        /\ pc' = [pc EXCEPT ![h] = "clearing"]
        /\ UNCHANGED <<got, entry, owner, posted>>
    BY <1>0 DEF CloseEvent
  <1>5. Numbered(m)'
    BY <1>1, <1>3, <1>4 DEF Numbered
  <1>6. \A w \in PeerMessage : Numbered(w) => Numbered(w)'
    BY <1>1, <1>4 DEF Numbered
  <1>7. \A r \in Responder : pc'[r] = "claimed" => pc[r] = "claimed"
    BY <1>1, <1>4 DEF IInv, TypeOK, Handler
  <1> QED
    BY <1>0, <1>1, <1>3, <1>4, <1>5, <1>6, <1>7, ListenerPosts

(* A claim: nobody has heard of either side yet. *)
LEMMA ClaimWonStep ==
    ASSUME IInv, OrderInv, Kept, NEW r \in Responder, ClaimWon(r)
    PROVE  OrderInv'
  <1> USE DEF OrderInv
  <1>1. /\ UNCHANGED <<bus, got, posted, sock, owner, entry>>
        /\ pc' = [pc EXCEPT ![r] = "claimed"]
        /\ pc[r] = "listed" /\ entry[r] \in kv
    BY DEF ClaimWon
  <1>2. /\ r \in Handler /\ entry[r] \in Initiator /\ entry[r] \in Handler
        /\ pc \in [Handler -> PC]
    BY <1>1 DEF IInv, TypeOK, Handler
  <1>3. \A h : ~Partner(h, r)
    BY <1>1, <1>2, RolesAssumption DEF Partner, Claimed
  <1>4. \A h : ~Partner(h, entry[r])
    BY <1>1, <1>2, RolesAssumption DEF IInv, Unclaimed, Partner, Claimed
  <1>5. Ascending' /\ Fresh' /\ Bounded' /\ RelayOrder'
    BY <1>1 DEF Ascending, Fresh, Bounded, RelayOrder, Pending, Heard, Numbered
  <1>6. Unheard'
    BY <1>1, <1>2, <1>3, <1>4, UnclaimedUnheard DEF Unheard, Pending, Heard
  <1> QED
    BY <1>5, <1>6

(* peerConnect, the first that either side is sent. *)
LEMMA JoinStep ==
    ASSUME IInv, OrderInv, Kept, NEW r \in Responder, Join(r)
    PROVE  OrderInv'
  <1> USE DEF OrderInv
  <1>0. /\ TypeOK
        /\ r \in Handler /\ pc[r] = "claimed" /\ owner[r] \in Socket
        /\ Claimed(r, entry[r])
        /\ entry[r] \in Initiator /\ entry[r] \in Handler /\ entry[r] # r
    BY OwnerType, RolesAssumption DEF Join, IInv, TypeOK, Found, Claimed, Handler
  <1>1. PICK m, w : m = Msg("peerConnect", r, 0) /\ w = Msg("peerConnect", entry[r], 0)
    OBVIOUS
  <1>2. /\ m \in PeerMessage /\ m.from = r /\ m.n = 0
        /\ w \in PeerMessage /\ w.from = entry[r] /\ w.n = 0
    BY <1>0, <1>1, MsgType DEF Msg
  <1>3. /\ bus' = Posted(r, m)
        /\ Send(owner[r], w) \/ UNCHANGED got
        /\ UNCHANGED <<sock, owner, entry, posted>>
    BY <1>1 DEF Join
  <1>4. \A q \in Responder : pc'[q] = "claimed" => pc[q] = "claimed" /\ q # r
    BY <1>0 DEF Join, Install, TypeOK, Handler
  <1>5. \A g \in Handler : \A b \in Pending(g) : b.from # r
    BY <1>0 DEF Unheard
  <1>6. \A g \in Handler : \A b \in Pending(g) : b.from # entry[r]
    <2> SUFFICES ASSUME NEW g \in Handler, NEW b \in Pending(g), b.from = entry[r]
                 PROVE  FALSE
      OBVIOUS
    <2>1. Partner(g, entry[r]) /\ Partner(r, entry[r])
      BY <1>0, PendingPartner DEF Partner
    <2>2. g = r
      BY <2>1, OnePartner DEF IInv
    <2>3. Pending(r) = {}
      BY <1>0 DEF Unheard, Pending
    <2> QED
      BY <2>2, <2>3
  <1>7. \A c \in Socket : \A a \in Heard(c) : a.from \notin {r, entry[r]}
    BY <1>0 DEF Unheard
  <1>8. \A g \in Handler : Pending(g)' \subseteq Pending(g) \union {m}
    BY <1>0, <1>2, <1>3, PostedPending
  <1>9. \A c \in Socket : Heard(c)' \subseteq Heard(c) \union {w}
    <2>1. w \in Message
      BY <1>2 DEF Message
    <2>2. \A c \in Socket : got'[c] = got[c] \/ got'[c] = Append(got[c], w)
      BY <1>0, <1>3 DEF Send, TypeOK
    <2> QED
      BY <1>0, <2>1, <2>2, HeardGrows DEF Heard
  <1>10. Ascending'
    BY <1>0, <1>2, <1>3, <1>5, PostedAscending
  <1>11. Fresh'
    BY <1>0, <1>2, <1>5, <1>6, <1>7, <1>8, <1>9 DEF Fresh
  <1>12. Bounded'
    <2>1. \A x \in PeerMessage : Numbered(x) => Numbered(x)'
      BY <1>3 DEF Numbered
    <2>2. Numbered(m)' /\ Numbered(w)'
      BY <1>0, <1>2, <1>3 DEF Numbered, TypeOK
    <2>3. \A g \in Handler : \A b \in Pending(g)' : Numbered(b)'
      BY <1>0, <1>8, <2>1, <2>2, PendingHeardType DEF Bounded
    <2>4. \A c \in Socket : \A a \in Heard(c)' \ {ErrorMsg} : Numbered(a)'
      BY <1>0, <1>9, <2>1, <2>2, PendingHeardType DEF Bounded
    <2> QED
      BY <2>3, <2>4 DEF Bounded
  <1>13. Unheard'
    <2> SUFFICES ASSUME NEW q \in Responder, pc'[q] = "claimed"
                 PROVE  /\ bus'[q] = <<>>
                        /\ \A g \in Handler : \A b \in Pending(g)' : b.from # q
                        /\ \A c \in Socket : \A a \in Heard(c)' : a.from \notin {q, entry'[q]}
      BY DEF Unheard
    <2>1. pc[q] = "claimed" /\ q # r /\ q \in Handler /\ entry'[q] = entry[q]
      BY <1>3, <1>4 DEF Handler
    <2>2. bus'[q] = bus[q]
      BY <1>0, <1>2, <1>3, <2>1, PostedPending DEF Subscribed
    <2>3. entry[r] # q
      BY <1>0, RolesAssumption
    <2>4. entry[r] # entry[q]
      <3>1. Claimed(q, entry[q])
        BY <2>1, NoneAssumption DEF IInv, TypeOK, Found, Claimed
      <3> QED
        BY <1>0, <2>1, <3>1 DEF IInv, ClaimExclusive
    <2> QED
      BY <1>2, <1>8, <1>9, <2>1, <2>2, <2>3, <2>4 DEF Unheard
  <1>14. RelayOrder'
    <2>1. w \in Message
      BY <1>2 DEF Message
    <2>2. CASE Send(owner[r], w)
      BY <1>0, <1>2, <1>7, <2>1, <2>2, HeardInOrder
    <2>3. CASE UNCHANGED got
      BY <2>3 DEF RelayOrder
    <2> QED
      BY <1>3, <2>2, <2>3
  <1> QED
    BY <1>10, <1>11, <1>12, <1>13, <1>14

(* A delivery moves the first pending event, which its sender's peer has   *)
(* not heard yet, to that peer or drops it.                                *)
LEMMA DispatchStep ==
    ASSUME IInv, OrderInv, Kept, NEW h \in Handler, Dispatch(h)
    PROVE  OrderInv'
  <1> USE DEF OrderInv
  <1>0. TypeOK /\ bus[h] # <<>> /\ bus[h] \in Seq(PeerMessage)
    BY DEF IInv, TypeOK, Dispatch
  <1>1. PICK m : m = Head(bus[h])
    OBVIOUS
  <1>2. m \in Pending(h) /\ m \in PeerMessage /\ m \in Message /\ m.from \in Handler
    BY <1>0, <1>1, TailElements, PeerMessageFields DEF Pending, Message
  <1>3. /\ bus' = [bus EXCEPT ![h] = Tail(@)]
        /\ UNCHANGED got \/ (Send(owner[h], m) /\ owner[h] \in Socket)
        /\ UNCHANGED <<pc, owner, entry, posted>>
    BY <1>0, <1>1, OwnerType DEF Dispatch, Listening, IInv
  <1>4. \A s \in Socket : sock[s] = "closed" => sock'[s] = "closed"
    BY <1>0 DEF Dispatch, Close, TypeOK
  <1>5. \A k \in DOMAIN bus'[h] : /\ k \in Nat /\ k + 1 \in DOMAIN bus[h] /\ k + 1 > 1
                                  /\ bus'[h][k] = bus[h][k + 1]
    BY <1>0, <1>3, TailElements DEF TypeOK
  <1>6. \A g \in Handler : Pending(g)' \subseteq Pending(g)
    BY <1>0, <1>3, <1>5 DEF Pending, TypeOK
  <1>7. \A c \in Socket : Heard(c)' \subseteq Heard(c) \union {m}
    <2>1. \A c \in Socket : got'[c] = got[c] \/ got'[c] = Append(got[c], m)
      BY <1>0, <1>3 DEF Send, TypeOK
    <2> QED
      BY <1>0, <1>2, <2>1, HeardGrows DEF Heard
  <1>8. Ascending'
    <2> SUFFICES ASSUME NEW g \in Handler,
                        NEW j \in DOMAIN bus'[g], NEW k \in DOMAIN bus'[g],
                        j < k, bus'[g][j].from = bus'[g][k].from
                 PROVE  bus'[g][j].n < bus'[g][k].n
      BY DEF Ascending
    <2>1. CASE g = h
      BY <1>5, <2>1 DEF Ascending
    <2>2. CASE g # h
      BY <1>0, <1>3, <2>2 DEF Ascending, TypeOK
    <2> QED
      BY <2>1, <2>2
  <1>9. \A g \in Handler : \A b \in Pending(g)' : b.from = m.from => m.n < b.n
    <2> SUFFICES ASSUME NEW g \in Handler, NEW b \in Pending(g)', b.from = m.from
                 PROVE  m.n < b.n
      OBVIOUS
    <2>1. g = h
      BY <1>2, <1>6, PendingPartner, OnePartner DEF IInv
    <2>2. PICK k \in DOMAIN bus'[h] : b = bus'[h][k]
      BY <2>1 DEF Pending
    <2>3. b = bus[h][k + 1] /\ k + 1 \in DOMAIN bus[h] /\ 1 < k + 1
      BY <1>5, <2>2
    <2>4. m = bus[h][1] /\ 1 \in DOMAIN bus[h]
      BY <1>0, <1>1, TailElements
    <2> QED
      BY <2>3, <2>4 DEF Ascending
  <1>10. Fresh'
    BY <1>6, <1>7, <1>9 DEF Fresh
  <1>11. Bounded'
    <2>1. \A x \in PeerMessage : Numbered(x) => Numbered(x)'
      BY <1>3, <1>4, PeerMessageFields, NumberedKept
    <2>2. \A g \in Handler : \A b \in Pending(g)' : Numbered(b)'
      BY <1>0, <1>6, <2>1, PendingHeardType DEF Bounded
    <2>3. \A c \in Socket : \A a \in Heard(c)' \ {ErrorMsg} : Numbered(a)'
      BY <1>0, <1>2, <1>7, <2>1, PendingHeardType DEF Bounded
    <2> QED
      BY <2>2, <2>3 DEF Bounded
  <1>12. Unheard'
    <2> SUFFICES ASSUME NEW r \in Responder, pc'[r] = "claimed"
                 PROVE  /\ bus'[r] = <<>>
                        /\ \A g \in Handler : \A b \in Pending(g)' : b.from # r
                        /\ \A c \in Socket : \A a \in Heard(c)' : a.from \notin {r, entry'[r]}
      BY DEF Unheard
    <2>1. /\ pc[r] = "claimed" /\ entry'[r] = entry[r] /\ r \in Handler
          /\ bus[r] = <<>>
      BY <1>3 DEF Handler, Unheard
    <2>2. h # r
      BY <1>0, <2>1
    <2>3. bus'[r] = <<>>
      BY <1>0, <1>3, <2>1, <2>2 DEF TypeOK
    <2>4. m.from # r
      BY <1>2, <2>1 DEF Unheard
    <2>5. m.from # entry[r]
      <3>1. Partner(r, entry[r])
        BY <2>1, NoneAssumption DEF IInv, TypeOK, Found, Claimed, Partner
      <3>2. Partner(h, m.from)
        BY <1>2, PendingPartner
      <3> QED
        BY <2>2, <3>1, <3>2, OnePartner DEF IInv
    <2> QED
      BY <1>6, <1>7, <2>1, <2>3, <2>4, <2>5 DEF Unheard
  <1>13. RelayOrder'
    <2>1. CASE UNCHANGED got
      BY <2>1 DEF RelayOrder
    <2>2. CASE Send(owner[h], m) /\ owner[h] \in Socket
      <3>1. \A a \in Heard(owner[h]) : a.from = m.from => a.n < m.n
        BY <1>2, <2>2 DEF Fresh
      <3> QED
        BY <1>0, <1>2, <2>2, <3>1, HeardInOrder
    <2> QED
      BY <1>3, <2>1, <2>2
  <1> QED
    BY <1>8, <1>10, <1>11, <1>12, <1>13

-----------------------------------------------------------------------------
(* The invariant and the theorem. *)

LEMMA CloseKeepsClosed ==
    ASSUME TypeOK, NEW s, Close(s)
    PROVE  \A c \in Socket : sock[c] = "closed" => sock'[c] = "closed"
  BY DEF TypeOK, Close

LEMMA FailQuiet ==
    ASSUME TypeOK, NEW s, Fail(s)
    PROVE  /\ \A c \in Socket : sock[c] = "closed" => sock'[c] = "closed"
           /\ \A c \in Socket : got'[c] \in {got[c], Append(got[c], ErrorMsg)}
  BY CloseKeepsClosed DEF TypeOK, Fail, Send

(* Every step keeps what is pending and heard in order. *)
LEMMA OrderStep == IInv /\ OrderInv /\ Next => OrderInv'
  <1> SUFFICES ASSUME IInv, OrderInv, Next, Kept PROVE OrderInv'
    BY KeptStep
  <1>0. TypeOK
    BY DEF IInv
  <1> USE DEF TypeOK, Handler
  <1>1. ASSUME NEW s \in Socket, ClientCloses(s) PROVE Quieter
    BY <1>0, <1>1, CloseKeepsClosed DEF ClientCloses, Quieter
  <1>2. ASSUME NEW s \in Socket, TimerFires(s) PROVE Quieter
    BY <1>0, <1>2, CloseKeepsClosed DEF TimerFires, Quieter
  <1>3. ASSUME NEW s \in Socket, CloseEvent(s), listener[s] = NONE PROVE Quieter
    BY <1>0, <1>3, NoneAssumption DEF CloseEvent, Quieter
  <1>4. ASSUME NEW s \in Socket, Reject(s) PROVE Quieter
    BY <1>0, <1>4, FailQuiet DEF Reject, Quieter
  <1>5. ASSUME NEW s \in Socket, Crash(s) PROVE Quieter
    BY <1>0, <1>5 DEF Crash, Quieter
  <1>6. ASSUME NEW s \in Socket, NEW h \in Handler, Authenticate(s, h) PROVE Quieter
    BY <1>0, <1>6 DEF Authenticate, Quieter
  <1>7. ASSUME NEW i \in Initiator, CommitEntry(i) \/ Expire(i) PROVE Quieter
    BY <1>0, <1>7 DEF CommitEntry, Expire, Quieter
  <1>8. ASSUME NEW i \in Initiator, EntryCreated(i) PROVE Quieter
    BY <1>0, <1>8 DEF EntryCreated, Install, Quieter
  <1>9. ASSUME NEW r \in Responder, List(r) \/ ClaimLost(r) PROVE Quieter
    BY <1>0, <1>9 DEF List, ClaimLost, Quieter
  <1>10. ASSUME NEW r \in Responder, ClaimTimeout(r) PROVE Quieter
    BY <1>0, <1>10, FailQuiet DEF ClaimTimeout, Quieter
  <1>11. ASSUME NEW h \in Handler, ClearEntry(h) PROVE Quieter
    BY <1>0, <1>11 DEF ClearEntry, Quieter
  <1>12. ASSUME NEW h \in Handler, KvRejects(h) PROVE Quieter
    BY <1>0, <1>12, FailQuiet DEF KvRejects, Quieter
  <1>13. ASSUME Finished PROVE Quieter
    BY <1>13 DEF Finished, vars, Quieter
  <1>14. CASE Quieter
    BY <1>14, QuieterOrder
  <1> QED
    BY <1>1, <1>2, <1>3, <1>4, <1>5, <1>6, <1>7, <1>8, <1>9, <1>10, <1>11, <1>12,
       <1>13, <1>14, RelayStep, CloseEventStep, ClaimWonStep, JoinStep, DispatchStep
       DEF Next, SocketStep, InitiatorStep, ResponderStep, HandlerStep

LEMMA OrderInit == Init => OrderInv
  BY DEF Init, OrderInv, Ascending, Fresh, Bounded, Unheard, RelayOrder, Pending,
         Heard, Handler

LEMMA OrderStutter == OrderInv /\ UNCHANGED vars => OrderInv'
  BY DEF vars, OrderInv, Ascending, Fresh, Bounded, Numbered, Unheard, RelayOrder,
         Pending, Heard

(* The inductive invariant: what is heard and what is pending of each      *)
(* sender are, one after the other, in the order in which it was sent.     *)
THEOREM Ordered == Spec => []OrderInv
  <1>1. IInv /\ OrderInv /\ [Next]_vars => OrderInv'
    BY OrderStep, OrderStutter
  <1> QED
    BY <1>1, OrderInit, Invariance, PTL DEF Spec

(* Clients see what their peers send in order and at most once, whatever   *)
(* fails, closes or authenticates again.                                   *)
THEOREM RelayOrdered == Spec => []RelayOrder
  <1>1. OrderInv => RelayOrder
    BY DEF OrderInv
  <1> QED
    BY <1>1, Ordered, PTL

=============================================================================
