------------------------- MODULE SignallingServerProofs -------------------------
(***************************************************************************)
(* Theorems about SignallingServer, for any number of sockets, handlers    *)
(* and pairings, with or without crashes and database failures.  IInv, the *)
(* inductive invariant, is defined and model-checked with the properties.  *)
(*                                                                         *)
(* The proof that a step keeps IInv has three parts: the types; what no    *)
(* step takes back (a claim, the socket of a handler); and the remaining   *)
(* conjuncts, first those about handlers and database, then those about    *)
(* messages.  The refinement of Rendezvous comes last.                     *)
(***************************************************************************)
EXTENDS SignallingServer, TLAPS

-----------------------------------------------------------------------------
(* Types. *)

LEMMA MsgType ==
    ASSUME NEW h \in Handler, NEW n \in Nat,
           NEW t \in ClientType \union {"peerConnect", "peerDisconnect"}
    PROVE  Msg(t, h, n) \in PeerMessage
  BY DEF Msg, PeerMessage

LEMMA PostedType ==
    ASSUME TypeOK, NEW h \in Handler, NEW m \in PeerMessage
    PROVE  Posted(h, m) \in [Handler -> Seq(PeerMessage)]
  BY DEF Posted, TypeOK

LEMMA CloseType ==
    ASSUME TypeOK, NEW s \in Socket, Close(s)
    PROVE  sock' \in [Socket -> {"open", "closing", "closed"}]
  BY DEF TypeOK, Close

LEMMA SendType ==
    ASSUME TypeOK, NEW s \in Socket, NEW m \in Message, Send(s, m)
    PROVE  got' \in [Socket -> Seq(Message)]
  <1>1. Append(got[s], m) \in Seq(Message)
    BY DEF TypeOK
  <1> QED
    BY <1>1 DEF TypeOK, Send

LEMMA FailType ==
    ASSUME TypeOK, NEW s \in Socket, Fail(s)
    PROVE  /\ sock' \in [Socket -> {"open", "closing", "closed"}]
           /\ got' \in [Socket -> Seq(Message)]
  <1>1. ErrorMsg \in Message
    BY DEF Message
  <1> QED
    BY <1>1, CloseType, SendType DEF TypeOK, Fail

(* A handler that is past "idle" was started by some socket. *)
LEMMA OwnerType ==
    ASSUME TypeOK, Owned, NEW h \in Handler, pc[h] # "idle"
    PROVE  owner[h] \in Socket
  BY DEF TypeOK, Owned

(* Every step keeps the types. *)
LEMMA TypeStep == IInv /\ Next => TypeOK'
  <1> SUFFICES ASSUME TypeOK, Owned, Found, Next PROVE TypeOK'
    BY DEF IInv
  <1> USE DEF TypeOK, PC
  <1>1. ASSUME NEW s \in Socket, ClientCloses(s) PROVE TypeOK'
    BY <1>1, CloseType DEF ClientCloses
  <1>2. ASSUME NEW s \in Socket, TimerFires(s) PROVE TypeOK'
    BY <1>2, CloseType DEF TimerFires
  <1>3. ASSUME NEW s \in Socket, CloseEvent(s) PROVE TypeOK'
    <2>1. CASE listener[s] = NONE
      BY <1>3, <2>1, NoneAssumption DEF CloseEvent
    <2>2. CASE listener[s] # NONE
      <3> DEFINE m == Msg("peerDisconnect", listener[s], posted[listener[s]] + 1)
      <3>1. listener[s] \in Handler
        BY <2>2
      <3>2. Posted(listener[s], m) \in [Handler -> Seq(PeerMessage)]
        BY <3>1, MsgType, PostedType
      <3> HIDE DEF m
      <3> QED
        BY <1>3, <2>2, <3>1, <3>2 DEF CloseEvent, m
    <2> QED
      BY <2>1, <2>2
  <1>4. ASSUME NEW s \in Socket, Reject(s) PROVE TypeOK'
    BY <1>4, FailType DEF Reject
  <1>5. ASSUME NEW s \in Socket, Crash(s) PROVE TypeOK'
    BY <1>5 DEF Crash
  <1>6. ASSUME NEW s \in Socket, NEW t \in ClientType, Relay(s, t) PROVE TypeOK'
    <2> DEFINE m == Msg(t, listener[s], posted[listener[s]] + 1)
    <2>1. listener[s] \in Handler
      BY <1>6 DEF Relay
    <2>2. posted[listener[s]] + 1 \in Nat
      BY <2>1
    <2>3. m \in PeerMessage
      BY <2>1, <2>2, MsgType
    <2>4. Posted(listener[s], m) \in [Handler -> Seq(PeerMessage)]
      BY <2>1, <2>3, PostedType
    <2> HIDE DEF m
    <2> QED
      BY <1>6, <2>1, <2>4 DEF Relay, m
  <1>7. ASSUME NEW s \in Socket, NEW h \in Handler, Authenticate(s, h) PROVE TypeOK'
    BY <1>7 DEF Authenticate
  <1>8. ASSUME NEW i \in Initiator, CommitEntry(i) PROVE TypeOK'
    BY <1>8 DEF CommitEntry, Handler
  <1>9. ASSUME NEW i \in Initiator, EntryCreated(i) PROVE TypeOK'
    BY <1>9 DEF EntryCreated, Install, Handler
  <1>10. ASSUME NEW i \in Initiator, Expire(i) PROVE TypeOK'
    BY <1>10 DEF Expire
  <1>11. ASSUME NEW r \in Responder, List(r) PROVE TypeOK'
    BY <1>11 DEF List, Available, Handler
  <1>12. ASSUME NEW r \in Responder, ClaimWon(r) PROVE TypeOK'
    BY <1>12 DEF ClaimWon, Handler
  <1>13. ASSUME NEW r \in Responder, ClaimLost(r) PROVE TypeOK'
    BY <1>13 DEF ClaimLost, Handler
  <1>14. ASSUME NEW r \in Responder, Join(r) PROVE TypeOK'
    <2> DEFINE m == Msg("peerConnect", r, 0)
               w == Msg("peerConnect", entry[r], 0)
    <2>1. r \in Handler /\ entry[r] \in Handler
      BY <1>14, NoneAssumption DEF Join, Found, Handler
    <2>2. owner[r] \in Socket
      BY <1>14, <2>1, OwnerType DEF Join
    <2>3. Posted(r, m) \in [Handler -> Seq(PeerMessage)]
      BY <2>1, MsgType, PostedType
    <2>4. w \in Message
      BY <2>1, MsgType DEF Message
    <2>5. got' \in [Socket -> Seq(Message)]
      BY <1>14, <2>2, <2>4, SendType DEF Join
    <2>6. /\ pc' \in [Handler -> PC]
          /\ listener' \in [Socket -> Handler \union {NONE}]
      BY <1>14, <2>1, <2>2 DEF Join, Install
    <2> HIDE DEF m, w
    <2> QED
      BY <1>14, <2>3, <2>5, <2>6 DEF Join, m
  <1>15. ASSUME NEW r \in Responder, ClaimTimeout(r) PROVE TypeOK'
    <2>1. owner[r] \in Socket
      BY <1>15, OwnerType DEF ClaimTimeout, Handler
    <2> QED
      BY <1>15, <2>1, FailType DEF ClaimTimeout, Handler
  <1>16. ASSUME NEW h \in Handler, Dispatch(h) PROVE TypeOK'
    <2>1. Head(bus[h]) \in Message /\ Tail(bus[h]) \in Seq(PeerMessage)
      BY <1>16 DEF Dispatch, Message
    <2>2. Listening(h) => owner[h] \in Socket
      BY OwnerType DEF Listening
    <2>3. /\ got' \in [Socket -> Seq(Message)]
          /\ sock' \in [Socket -> {"open", "closing", "closed"}]
      BY <1>16, <2>1, <2>2, SendType, CloseType DEF Dispatch
    <2> QED
      BY <1>16, <2>1, <2>3 DEF Dispatch
  <1>17. ASSUME NEW h \in Handler, ClearEntry(h) PROVE TypeOK'
    BY <1>17 DEF ClearEntry
  <1>18. ASSUME NEW h \in Handler, KvRejects(h) PROVE TypeOK'
    <2>1. owner[h] \in Socket
      BY <1>18, OwnerType DEF KvRejects
    <2>2. bus' \in [Handler -> Seq(PeerMessage)]
      BY <1>18 DEF KvRejects
    <2> QED
      BY <1>18, <2>1, <2>2, NoneAssumption, FailType DEF KvRejects
  <1>19. ASSUME Finished PROVE TypeOK'
    BY <1>19 DEF Finished, vars
  <1> QED
    BY <1>1, <1>2, <1>3, <1>4, <1>5, <1>6, <1>7, <1>8, <1>9, <1>10, <1>11,
         <1>12, <1>13, <1>14, <1>15, <1>16, <1>17, <1>18, <1>19 DEF Next,
         SocketStep, InitiatorStep, ResponderStep, HandlerStep

-----------------------------------------------------------------------------
(* What no step takes back. *)

(* A claim stays, and so does the socket of a handler that has one. *)
Kept ==
    /\ \A r \in Responder, i \in Initiator : Claimed(r, i) => Claimed(r, i)'
    /\ \A h \in Handler : owner[h] # NONE => owner'[h] = owner[h]

LEMMA KeptStep == IInv /\ Next => Kept
  <1> SUFFICES ASSUME TypeOK, Owned, Roles, Found, Next PROVE Kept
    BY DEF IInv
  <1> USE DEF TypeOK, Kept, Claimed, Handler
  <1>1. ASSUME NEW s \in Socket, ClientCloses(s) PROVE Kept
    BY <1>1 DEF ClientCloses
  <1>2. ASSUME NEW s \in Socket, TimerFires(s) PROVE Kept
    BY <1>2 DEF TimerFires
  <1>3. ASSUME NEW s \in Socket, CloseEvent(s) PROVE Kept
    BY <1>3 DEF CloseEvent
  <1>4. ASSUME NEW s \in Socket, Reject(s) PROVE Kept
    BY <1>4 DEF Reject
  <1>5. ASSUME NEW s \in Socket, Crash(s) PROVE Kept
    BY <1>5 DEF Crash
  <1>6. ASSUME NEW s \in Socket, NEW t \in ClientType, Relay(s, t) PROVE Kept
    BY <1>6 DEF Relay
  <1>7. ASSUME NEW s \in Socket, NEW h \in Handler, Authenticate(s, h) PROVE Kept
    BY <1>7, NoneAssumption DEF Authenticate, Owned
  <1>8. ASSUME NEW i \in Initiator, CommitEntry(i) PROVE Kept
    BY <1>8, RolesAssumption DEF CommitEntry
  <1>9. ASSUME NEW i \in Initiator, EntryCreated(i) PROVE Kept
    BY <1>9, RolesAssumption DEF EntryCreated, Install
  <1>10. ASSUME NEW i \in Initiator, Expire(i) PROVE Kept
    BY <1>10 DEF Expire
  <1>11. ASSUME NEW r \in Responder, List(r) PROVE Kept
    BY <1>11, NoneAssumption DEF List, Found
  <1>12. ASSUME NEW r \in Responder, ClaimWon(r) PROVE Kept
    BY <1>12 DEF ClaimWon
  <1>13. ASSUME NEW r \in Responder, ClaimLost(r) PROVE Kept
    BY <1>13 DEF ClaimLost
  <1>14. ASSUME NEW r \in Responder, Join(r) PROVE Kept
    BY <1>14 DEF Join, Install
  <1>15. ASSUME NEW r \in Responder, ClaimTimeout(r) PROVE Kept
    BY <1>15 DEF ClaimTimeout
  <1>16. ASSUME NEW h \in Handler, Dispatch(h) PROVE Kept
    BY <1>16 DEF Dispatch
  <1>17. ASSUME NEW h \in Handler, ClearEntry(h) PROVE Kept
    BY <1>17 DEF ClearEntry
  <1>18. ASSUME NEW h \in Handler, KvRejects(h) PROVE Kept
    BY <1>18 DEF KvRejects
  <1>19. ASSUME Finished PROVE Kept
    BY <1>19 DEF Finished, vars
  <1> QED
    BY <1>1, <1>2, <1>3, <1>4, <1>5, <1>6, <1>7, <1>8, <1>9, <1>10, <1>11,
         <1>12, <1>13, <1>14, <1>15, <1>16, <1>17, <1>18, <1>19 DEF Next,
         SocketStep, InitiatorStep, ResponderStep, HandlerStep

-----------------------------------------------------------------------------
(* Handlers and database. *)

(* The part of IInv about handlers and database that no socket matters to. *)
Matched == Owned /\ Roles /\ Found /\ Unclaimed /\ ClaimExclusive

LEMMA MatchedSame ==
    ASSUME Matched, UNCHANGED <<pc, owner, entry, kv>>
    PROVE  Matched'
  BY DEF Matched, Owned, Roles, Found, Unclaimed, ClaimExclusive, Claimed

(* Every step keeps the matching. *)
LEMMA MatchedStep == IInv /\ Next => Matched'
  <1> SUFFICES ASSUME TypeOK, Matched, Installed, Next PROVE Matched'
    BY DEF IInv, Matched
  <1>0. Owned /\ Roles /\ Found /\ Unclaimed /\ ClaimExclusive
    BY DEF Matched
  <1> USE RolesAssumption, NoneAssumption DEF TypeOK, Handler
  <1>1. ASSUME NEW s \in Socket, ClientCloses(s) PROVE Matched'
    BY <1>1, MatchedSame DEF ClientCloses
  <1>2. ASSUME NEW s \in Socket, TimerFires(s) PROVE Matched'
    BY <1>2, MatchedSame DEF TimerFires
  <1>3. ASSUME NEW s \in Socket, CloseEvent(s) PROVE Matched'
    <2> DEFINE h == listener[s]
    <2>a. CASE h = NONE
      BY <1>3, <2>a, MatchedSame DEF CloseEvent
    <2>b. CASE h # NONE
      <3>0. /\ h \in Handler
            /\ pc[h] = "ready"
            /\ pc' = [pc EXCEPT ![h] = "clearing"]
            /\ UNCHANGED <<owner, entry, kv>>
        BY <1>3, <2>b DEF CloseEvent, Installed
      <3> HIDE DEF h
      <3>1. Owned'
        BY <3>0, <1>0 DEF Owned
      <3>2. Roles'
        BY <3>0, <1>0 DEF Roles
      <3>3. Found'
        BY <3>0, <1>0 DEF Found
      <3>4. Unclaimed'
        BY <3>0, <1>0 DEF Unclaimed, Claimed
      <3>5. ClaimExclusive'
        BY <3>0, <1>0 DEF ClaimExclusive, Claimed
      <3> QED
        BY <3>1, <3>2, <3>3, <3>4, <3>5 DEF Matched
    <2> QED
      BY <2>a, <2>b
  <1>4. ASSUME NEW s \in Socket, Reject(s) PROVE Matched'
    BY <1>4, MatchedSame DEF Reject
  <1>5. ASSUME NEW s \in Socket, Crash(s) PROVE Matched'
    <2>1. Owned'
      BY <1>5, <1>0 DEF Crash, Owned
    <2>2. Roles'
      BY <1>5, <1>0 DEF Crash, Roles
    <2>3. Found'
      BY <1>5, <1>0 DEF Crash, Found
    <2>4. Unclaimed'
      BY <1>5, <1>0 DEF Crash, Unclaimed, Claimed
    <2>5. ClaimExclusive'
      BY <1>5, <1>0 DEF Crash, ClaimExclusive, Claimed
    <2> QED
      BY <2>1, <2>2, <2>3, <2>4, <2>5 DEF Matched
  <1>6. ASSUME NEW s \in Socket, NEW t \in ClientType, Relay(s, t) PROVE Matched'
    BY <1>6, MatchedSame DEF Relay
  <1>7. ASSUME NEW s \in Socket, NEW h \in Handler, Authenticate(s, h) PROVE Matched'
    <2>1. Owned'
      BY <1>7, <1>0 DEF Authenticate, Owned
    <2>2. Roles'
      BY <1>7, <1>0 DEF Authenticate, Roles
    <2>3. Found'
      BY <1>7, <1>0 DEF Authenticate, Found
    <2>4. Unclaimed'
      BY <1>7, <1>0 DEF Authenticate, Unclaimed, Claimed
    <2>5. ClaimExclusive'
      BY <1>7, <1>0 DEF Authenticate, ClaimExclusive, Claimed
    <2> QED
      BY <2>1, <2>2, <2>3, <2>4, <2>5 DEF Matched
  <1>8. ASSUME NEW i \in Initiator, CommitEntry(i) PROVE Matched'
    <2>1. Owned'
      BY <1>8, <1>0 DEF CommitEntry, Found, Owned
    <2>2. Roles'
      BY <1>8, <1>0 DEF CommitEntry, Found, Roles
    <2>3. Found'
      BY <1>8, <1>0 DEF CommitEntry, Found
    <2>4. Unclaimed'
      BY <1>8, <1>0 DEF CommitEntry, Found, Unclaimed, Claimed
    <2>5. ClaimExclusive'
      BY <1>8, <1>0 DEF CommitEntry, Found, ClaimExclusive, Claimed
    <2> QED
      BY <2>1, <2>2, <2>3, <2>4, <2>5 DEF Matched
  <1>9. ASSUME NEW i \in Initiator, EntryCreated(i) PROVE Matched'
    <2>1. Owned'
      BY <1>9, <1>0 DEF EntryCreated, Install, Owned
    <2>2. Roles'
      BY <1>9, <1>0 DEF EntryCreated, Install, Roles
    <2>3. Found'
      BY <1>9, <1>0 DEF EntryCreated, Install, Found
    <2>4. Unclaimed'
      BY <1>9, <1>0 DEF EntryCreated, Install, Unclaimed, Claimed
    <2>5. ClaimExclusive'
      BY <1>9, <1>0 DEF EntryCreated, Install, ClaimExclusive, Claimed
    <2> QED
      BY <2>1, <2>2, <2>3, <2>4, <2>5 DEF Matched
  <1>10. ASSUME NEW i \in Initiator, Expire(i) PROVE Matched'
    <2>1. Owned'
      BY <1>10, <1>0 DEF Expire, Owned
    <2>2. Roles'
      BY <1>10, <1>0 DEF Expire, Roles
    <2>3. Found'
      BY <1>10, <1>0 DEF Expire, Found
    <2>4. Unclaimed'
      BY <1>10, <1>0 DEF Expire, Unclaimed, Claimed
    <2>5. ClaimExclusive'
      BY <1>10, <1>0 DEF Expire, ClaimExclusive, Claimed
    <2> QED
      BY <2>1, <2>2, <2>3, <2>4, <2>5 DEF Matched
  <1>11. ASSUME NEW r \in Responder, List(r) PROVE Matched'
    <2>1. Owned'
      BY <1>11, <1>0 DEF List, Available, Owned
    <2>2. Roles'
      BY <1>11, <1>0 DEF List, Available, Roles
    <2>3. Found'
      BY <1>11, <1>0 DEF List, Available, Found, Unclaimed
    <2>4. Unclaimed'
      BY <1>11, <1>0 DEF List, Available, Unclaimed, Claimed
    <2>5. ClaimExclusive'
      BY <1>11, <1>0 DEF List, Available, ClaimExclusive, Claimed
    <2> QED
      BY <2>1, <2>2, <2>3, <2>4, <2>5 DEF Matched
  <1>12. ASSUME NEW r \in Responder, ClaimWon(r) PROVE Matched'
    <2>1. Owned'
      BY <1>12, <1>0 DEF ClaimWon, Owned
    <2>2. Roles'
      BY <1>12, <1>0 DEF ClaimWon, Roles
    <2>3. Found'
      BY <1>12, <1>0 DEF ClaimWon, Found
    <2>4. Unclaimed'
      BY <1>12, <1>0 DEF ClaimWon, Unclaimed, Claimed
    <2>5. ClaimExclusive'
      BY <1>12, <1>0 DEF ClaimWon, ClaimExclusive, Unclaimed, Claimed
    <2> QED
      BY <2>1, <2>2, <2>3, <2>4, <2>5 DEF Matched
  <1>13. ASSUME NEW r \in Responder, ClaimLost(r) PROVE Matched'
    <2>1. Owned'
      BY <1>13, <1>0 DEF ClaimLost, Owned
    <2>2. Roles'
      BY <1>13, <1>0 DEF ClaimLost, Roles
    <2>3. Found'
      BY <1>13, <1>0 DEF ClaimLost, Found
    <2>4. Unclaimed'
      BY <1>13, <1>0 DEF ClaimLost, Unclaimed, Claimed
    <2>5. ClaimExclusive'
      BY <1>13, <1>0 DEF ClaimLost, ClaimExclusive, Claimed
    <2> QED
      BY <2>1, <2>2, <2>3, <2>4, <2>5 DEF Matched
  <1>14. ASSUME NEW r \in Responder, Join(r) PROVE Matched'
    <2>1. Owned'
      BY <1>14, <1>0 DEF Join, Install, Owned
    <2>2. Roles'
      BY <1>14, <1>0 DEF Join, Install, Roles
    <2>3. Found'
      BY <1>14, <1>0 DEF Join, Install, Found
    <2>4. Unclaimed'
      BY <1>14, <1>0 DEF Join, Install, Unclaimed, Claimed
    <2>5. ClaimExclusive'
      BY <1>14, <1>0 DEF Join, Install, ClaimExclusive, Claimed
    <2> QED
      BY <2>1, <2>2, <2>3, <2>4, <2>5 DEF Matched
  <1>15. ASSUME NEW r \in Responder, ClaimTimeout(r) PROVE Matched'
    <2>1. Owned'
      BY <1>15, <1>0 DEF ClaimTimeout, Owned
    <2>2. Roles'
      BY <1>15, <1>0 DEF ClaimTimeout, Roles
    <2>3. Found'
      BY <1>15, <1>0 DEF ClaimTimeout, Found
    <2>4. Unclaimed'
      BY <1>15, <1>0 DEF ClaimTimeout, Unclaimed, Claimed
    <2>5. ClaimExclusive'
      BY <1>15, <1>0 DEF ClaimTimeout, ClaimExclusive, Claimed
    <2> QED
      BY <2>1, <2>2, <2>3, <2>4, <2>5 DEF Matched
  <1>16. ASSUME NEW h \in Handler, Dispatch(h) PROVE Matched'
    BY <1>16, MatchedSame DEF Dispatch
  <1>17. ASSUME NEW h \in Handler, ClearEntry(h) PROVE Matched'
    <2>1. Owned'
      BY <1>17, <1>0 DEF ClearEntry, Owned
    <2>2. Roles'
      BY <1>17, <1>0 DEF ClearEntry, Roles
    <2>3. Found'
      BY <1>17, <1>0 DEF ClearEntry, Found
    <2>4. Unclaimed'
      BY <1>17, <1>0 DEF ClearEntry, Unclaimed, Claimed
    <2>5. ClaimExclusive'
      BY <1>17, <1>0 DEF ClearEntry, ClaimExclusive, Claimed
    <2> QED
      BY <2>1, <2>2, <2>3, <2>4, <2>5 DEF Matched
  <1>18. ASSUME NEW h \in Handler, KvRejects(h) PROVE Matched'
    <2>1. Owned'
      BY <1>18, <1>0 DEF KvRejects, Owned
    <2>2. Roles'
      BY <1>18, <1>0 DEF KvRejects, Roles
    <2>3. Found'
      BY <1>18, <1>0 DEF KvRejects, Found
    <2>4. Unclaimed'
      BY <1>18, <1>0 DEF KvRejects, Unclaimed, Claimed
    <2>5. ClaimExclusive'
      BY <1>18, <1>0 DEF KvRejects, ClaimExclusive, Claimed
    <2> QED
      BY <2>1, <2>2, <2>3, <2>4, <2>5 DEF Matched
  <1>19. ASSUME Finished PROVE Matched'
    BY <1>19, MatchedSame DEF Finished, vars
  <1> QED
    BY <1>1, <1>2, <1>3, <1>4, <1>5, <1>6, <1>7, <1>8, <1>9, <1>10, <1>11,
         <1>12, <1>13, <1>14, <1>15, <1>16, <1>17, <1>18, <1>19 DEF Next,
         SocketStep, InitiatorStep, ResponderStep, HandlerStep

(* Every step keeps the installed handlers in step with their sockets. *)
LEMMA InstalledStep == IInv /\ Next => Installed'
  <1> SUFFICES ASSUME TypeOK, Owned, Roles, Installed, Next PROVE Installed'
    BY DEF IInv
  <1> USE RolesAssumption, NoneAssumption DEF TypeOK, Handler, Installed
  <1>1. ASSUME NEW s \in Socket, ClientCloses(s) PROVE Installed'
    BY <1>1 DEF ClientCloses, Close
  <1>2. ASSUME NEW s \in Socket, TimerFires(s) PROVE Installed'
    BY <1>2 DEF TimerFires, Close
  <1>3. ASSUME NEW s \in Socket, CloseEvent(s) PROVE Installed'
    BY <1>3 DEF CloseEvent
  <1>4. ASSUME NEW s \in Socket, Reject(s) PROVE Installed'
    BY <1>4 DEF Reject, Fail, Close
  <1>5. ASSUME NEW s \in Socket, Crash(s) PROVE Installed'
    BY <1>5 DEF Crash
  <1>6. ASSUME NEW s \in Socket, NEW t \in ClientType, Relay(s, t) PROVE Installed'
    BY <1>6 DEF Relay
  <1>7. ASSUME NEW s \in Socket, NEW h \in Handler, Authenticate(s, h) PROVE Installed'
    BY <1>7 DEF Authenticate, Owned
  <1>8. ASSUME NEW i \in Initiator, CommitEntry(i) PROVE Installed'
    BY <1>8 DEF CommitEntry
  <1>9. ASSUME NEW i \in Initiator, EntryCreated(i) PROVE Installed'
    BY <1>9, OwnerType DEF EntryCreated, Install
  <1>10. ASSUME NEW i \in Initiator, Expire(i) PROVE Installed'
    BY <1>10 DEF Expire
  <1>11. ASSUME NEW r \in Responder, List(r) PROVE Installed'
    BY <1>11 DEF List
  <1>12. ASSUME NEW r \in Responder, ClaimWon(r) PROVE Installed'
    BY <1>12 DEF ClaimWon
  <1>13. ASSUME NEW r \in Responder, ClaimLost(r) PROVE Installed'
    BY <1>13 DEF ClaimLost
  <1>14. ASSUME NEW r \in Responder, Join(r) PROVE Installed'
    <2>1. r \in Handler /\ owner[r] \in Socket /\ pc[r] = "claimed"
      BY <1>14, OwnerType DEF Join
    <2>2. \/ /\ pc' = [pc EXCEPT ![r] = "ready"]
             /\ listener' = [listener EXCEPT ![owner[r]] = r]
          \/ /\ pc' = [pc EXCEPT ![r] = "failed"]
             /\ UNCHANGED listener
      BY <1>14 DEF Join, Install
    <2>3. UNCHANGED <<sock, owner>>
      BY <1>14 DEF Join
    <2> QED
      BY <2>1, <2>2, <2>3
  <1>15. ASSUME NEW r \in Responder, ClaimTimeout(r) PROVE Installed'
    BY <1>15 DEF ClaimTimeout, Fail, Close
  <1>16. ASSUME NEW h \in Handler, Dispatch(h) PROVE Installed'
    BY <1>16 DEF Dispatch, Close
  <1>17. ASSUME NEW h \in Handler, ClearEntry(h) PROVE Installed'
    BY <1>17 DEF ClearEntry
  <1>18. ASSUME NEW h \in Handler, KvRejects(h) PROVE Installed'
    BY <1>18 DEF KvRejects, Fail, Close
  <1>19. ASSUME Finished PROVE Installed'
    BY <1>19 DEF Finished, vars
  <1> QED
    BY <1>1, <1>2, <1>3, <1>4, <1>5, <1>6, <1>7, <1>8, <1>9, <1>10, <1>11,
         <1>12, <1>13, <1>14, <1>15, <1>16, <1>17, <1>18, <1>19 DEF Next,
         SocketStep, InitiatorStep, ResponderStep, HandlerStep

-----------------------------------------------------------------------------
(* Messages. *)

(* The two ends of a channel are of one pairing. *)
LEMMA PartnerPairing ==
    ASSUME Found, NEW a, NEW b, Partner(a, b)
    PROVE  a \in Handler /\ b \in Handler /\ Pairing[a] = Pairing[b]
  BY NoneAssumption DEF Found, Partner, Claimed, Handler

(* A handler that may post: if a responder, it has claimed its channel. *)
Linked(h) == h \in Responder => entry[h] # NONE /\ pc[h] # "listed"

(* Two handlers that share a channel are its two ends: channels are as     *)
(* exclusive as claims.                                                    *)
LEMMA ChannelPartner ==
    ASSUME TypeOK, Roles, Found, ClaimExclusive,
           NEW h \in Handler, Linked(h),
           NEW g \in Handler, g # h, Subscribed(g), Chan(g) = Chan(h)
    PROVE  Partner(g, h)
  <1> USE DEF Handler, Chan
  <1>1. CASE g \in Responder
    <2>1. entry[g] \in Initiator /\ Claimed(g, entry[g])
      BY <1>1 DEF TypeOK, Roles, Found, Subscribed, Claimed
    <2>2. CASE h \in Initiator
      BY <1>1, <2>1, <2>2, RolesAssumption DEF Partner
    <2>3. CASE h \in Responder
      <3>1. entry[h] = entry[g] /\ Claimed(h, entry[g])
        BY <1>1, <2>1, <2>3, RolesAssumption DEF Linked, Claimed
      <3> QED
        BY <1>1, <2>1, <2>3, <3>1 DEF ClaimExclusive
    <2> QED
      BY <2>2, <2>3
  <1>2. CASE g \in Initiator
    <2>1. h \in Responder /\ entry[h] = g
      BY <1>2, RolesAssumption
    <2> QED
      BY <1>2, <2>1 DEF Linked, Claimed, Partner
  <1> QED
    BY <1>1, <1>2

LEMMA PostedRouted ==
    ASSUME TypeOK, Roles, Found, ClaimExclusive, Routed,
           NEW h \in Handler, Linked(h), NEW m \in PeerMessage, m.from = h
    PROVE  \A g \in Handler : \A k \in DOMAIN Posted(h, m)[g] :
               Partner(g, Posted(h, m)[g][k].from)
  <1> SUFFICES ASSUME NEW g \in Handler, NEW k \in DOMAIN Posted(h, m)[g]
               PROVE  Partner(g, Posted(h, m)[g][k].from)
    OBVIOUS
  <1>0. bus[g] \in Seq(PeerMessage)
    BY DEF TypeOK
  <1>1. CASE g # h /\ Subscribed(g) /\ Chan(g) = Chan(h)
    <2>1. Posted(h, m)[g] = Append(bus[g], m)
      BY <1>1 DEF Posted
    <2>2. CASE k = Len(bus[g]) + 1
      BY <1>0, <1>1, <2>1, <2>2, ChannelPartner
    <2>3. CASE k \in DOMAIN bus[g]
      BY <1>0, <2>1, <2>3 DEF Routed
    <2> QED
      BY <1>0, <2>1, <2>2, <2>3
  <1>2. CASE ~(g # h /\ Subscribed(g) /\ Chan(g) = Chan(h))
    BY <1>2 DEF Posted, Routed
  <1> QED
    BY <1>1, <1>2

(* Pending events that are only taken away stay routed. *)
LEMMA RoutedFewer ==
    ASSUME TypeOK, Routed, Kept,
           \A h \in Handler : bus'[h] \in {bus[h], <<>>}
    PROVE  Routed'
  <1> SUFFICES ASSUME NEW h \in Handler, NEW k \in DOMAIN bus'[h]
               PROVE  Partner(h, bus[h][k].from)'
    BY DEF Routed
  <1>1. k \in DOMAIN bus[h] /\ bus'[h][k] = bus[h][k]
    OBVIOUS
  <1>2. Partner(h, bus[h][k].from)
    BY <1>1 DEF Routed
  <1> QED
    BY <1>1, <1>2 DEF Kept, Partner, Claimed

LEMMA RoutedPosted ==
    ASSUME TypeOK, Roles, Found, ClaimExclusive, Routed, Kept,
           NEW h \in Handler, Linked(h), NEW m \in PeerMessage, m.from = h,
           bus' = Posted(h, m)
    PROVE  Routed'
  <1> SUFFICES ASSUME NEW g \in Handler, NEW k \in DOMAIN bus'[g]
               PROVE  Partner(g, bus[g][k].from)'
    BY DEF Routed
  <1>1. Partner(g, bus'[g][k].from)
    BY PostedRouted
  <1> QED
    BY <1>1 DEF Kept, Partner, Claimed

(* The handler installed on a socket that has not closed may post. *)
LEMMA InstalledLinked ==
    ASSUME TypeOK, Installed, Found, NEW s \in Socket,
           listener[s] # NONE, sock[s] # "closed"
    PROVE  listener[s] \in Handler /\ Linked(listener[s])
  BY DEF TypeOK, Installed, Found, Linked

(* Every step keeps the pending events routed. *)
LEMMA RoutedStep == IInv /\ Next => Routed'
  <1> SUFFICES ASSUME IInv, Next, Kept PROVE Routed'
    BY KeptStep
  <1> USE DEF IInv
  <1>1. ASSUME NEW s \in Socket, ClientCloses(s) PROVE Routed'
    BY <1>1, RoutedFewer DEF ClientCloses
  <1>2. ASSUME NEW s \in Socket, TimerFires(s) PROVE Routed'
    BY <1>2, RoutedFewer DEF TimerFires
  <1>3. ASSUME NEW s \in Socket, CloseEvent(s) PROVE Routed'
    <2>1. CASE listener[s] = NONE
      BY <1>3, <2>1, RoutedFewer DEF CloseEvent
    <2>2. CASE listener[s] # NONE
      <3> DEFINE h == listener[s]
                 m == Msg("peerDisconnect", h, posted[h] + 1)
      <3>1. h \in Handler /\ Linked(h)
        BY <1>3, <2>2, InstalledLinked DEF CloseEvent
      <3>2. m \in PeerMessage /\ m.from = h
        BY <3>1, MsgType DEF Msg, TypeOK
      <3>3. bus' = Posted(h, m)
        BY <1>3, <2>2 DEF CloseEvent
      <3> HIDE DEF h, m
      <3> QED
        BY <3>1, <3>2, <3>3, RoutedPosted
    <2> QED
      BY <2>1, <2>2
  <1>4. ASSUME NEW s \in Socket, Reject(s) PROVE Routed'
    BY <1>4, RoutedFewer DEF Reject
  <1>5. ASSUME NEW s \in Socket, Crash(s) PROVE Routed'
    BY <1>5, RoutedFewer DEF Crash
  <1>6. ASSUME NEW s \in Socket, NEW t \in ClientType, Relay(s, t) PROVE Routed'
    <2> DEFINE h == listener[s]
               m == Msg(t, h, posted[h] + 1)
    <2>1. h \in Handler /\ Linked(h)
      BY <1>6, InstalledLinked DEF Relay
    <2>2. posted[h] + 1 \in Nat
      BY <2>1 DEF TypeOK
    <2>3. m \in PeerMessage /\ m.from = h
      BY <2>1, <2>2, MsgType DEF Msg
    <2>4. bus' = Posted(h, m)
      BY <1>6 DEF Relay
    <2> HIDE DEF h, m
    <2> QED
      BY <2>1, <2>3, <2>4, RoutedPosted
  <1>7. ASSUME NEW s \in Socket, NEW h \in Handler, Authenticate(s, h) PROVE Routed'
    BY <1>7, RoutedFewer DEF Authenticate
  <1>8. ASSUME NEW i \in Initiator, CommitEntry(i) PROVE Routed'
    BY <1>8, RoutedFewer DEF CommitEntry
  <1>9. ASSUME NEW i \in Initiator, EntryCreated(i) PROVE Routed'
    BY <1>9, RoutedFewer DEF EntryCreated
  <1>10. ASSUME NEW i \in Initiator, Expire(i) PROVE Routed'
    BY <1>10, RoutedFewer DEF Expire
  <1>11. ASSUME NEW r \in Responder, List(r) PROVE Routed'
    BY <1>11, RoutedFewer DEF List
  <1>12. ASSUME NEW r \in Responder, ClaimWon(r) PROVE Routed'
    BY <1>12, RoutedFewer DEF ClaimWon
  <1>13. ASSUME NEW r \in Responder, ClaimLost(r) PROVE Routed'
    BY <1>13, RoutedFewer DEF ClaimLost
  <1>14. ASSUME NEW r \in Responder, Join(r) PROVE Routed'
    <2> DEFINE m == Msg("peerConnect", r, 0)
    <2>1. r \in Handler /\ Linked(r)
      BY <1>14 DEF Join, Linked, Found, Handler
    <2>2. m \in PeerMessage /\ m.from = r
      BY <2>1, MsgType DEF Msg
    <2>3. bus' = Posted(r, m)
      BY <1>14 DEF Join
    <2> HIDE DEF m
    <2> QED
      BY <2>1, <2>2, <2>3, RoutedPosted
  <1>15. ASSUME NEW r \in Responder, ClaimTimeout(r) PROVE Routed'
    BY <1>15, RoutedFewer DEF ClaimTimeout
  <1>16. ASSUME NEW h \in Handler, Dispatch(h) PROVE Routed'
    <2> SUFFICES ASSUME NEW g \in Handler, NEW k \in DOMAIN bus'[g]
                 PROVE  Partner(g, bus[g][k].from)'
      BY DEF Routed
    <2>0. bus' = [bus EXCEPT ![h] = Tail(bus[h])] /\ bus[h] # <<>>
      BY <1>16 DEF Dispatch
    <2>1. CASE g = h
      <3>1. bus[h] \in Seq(PeerMessage)
        BY DEF TypeOK
      <3>2. k + 1 \in DOMAIN bus[h] /\ bus'[h][k] = bus[h][k + 1]
        BY <2>0, <2>1, <3>1 DEF TypeOK
      <3>3. Partner(h, bus[h][k + 1].from)
        BY <3>2 DEF Routed
      <3> QED
        BY <2>1, <3>2, <3>3 DEF Kept, Partner, Claimed
    <2>2. CASE g # h
      <3>1. bus'[g] = bus[g]
        BY <2>0, <2>2 DEF TypeOK
      <3>2. Partner(g, bus[g][k].from)
        BY <3>1 DEF Routed
      <3> QED
        BY <3>1, <3>2 DEF Kept, Partner, Claimed
    <2> QED
      BY <2>1, <2>2
  <1>17. ASSUME NEW h \in Handler, ClearEntry(h) PROVE Routed'
    BY <1>17, RoutedFewer DEF ClearEntry, TypeOK
  <1>18. ASSUME NEW h \in Handler, KvRejects(h) PROVE Routed'
    BY <1>18, RoutedFewer DEF KvRejects, TypeOK
  <1>19. ASSUME Finished PROVE Routed'
    BY <1>19, RoutedFewer DEF Finished, vars
  <1> QED
    BY <1>1, <1>2, <1>3, <1>4, <1>5, <1>6, <1>7, <1>8, <1>9, <1>10, <1>11,
         <1>12, <1>13, <1>14, <1>15, <1>16, <1>17, <1>18, <1>19 DEF Next,
         SocketStep, InitiatorStep, ResponderStep, HandlerStep

(* What has been sent stays explained. *)
LEMMA GotSame ==
    ASSUME TypeOK, PairIsolation, Kept, UNCHANGED got
    PROVE  PairIsolation'
  <1> SUFFICES ASSUME NEW s \in Socket, NEW k \in DOMAIN got[s], got[s][k] # ErrorMsg
               PROVE  (\E h \in Handler : /\ owner[h] = s
                                          /\ Partner(h, got[s][k].from)
                                          /\ Pairing[h] = Pairing[got[s][k].from])'
    BY DEF PairIsolation
  <1>1. PICK h \in Handler : /\ owner[h] = s
                             /\ Partner(h, got[s][k].from)
                             /\ Pairing[h] = Pairing[got[s][k].from]
    BY DEF PairIsolation
  <1>2. owner'[h] = s
    BY <1>1, NoneAssumption DEF Kept
  <1>3. Partner(h, got[s][k].from)'
    BY <1>1 DEF Kept, Partner, Claimed
  <1> QED
    BY <1>1, <1>2, <1>3

(* Sending 'error', or a message whose sender is the partner of a handler  *)
(* of the socket, keeps the isolation.                                     *)
LEMMA GotSent ==
    ASSUME TypeOK, Found, PairIsolation, Kept,
           NEW s \in Socket, NEW m \in Message, Send(s, m),
           m # ErrorMsg => \E h \in Handler : owner[h] = s /\ Partner(h, m.from)
    PROVE  PairIsolation'
  <1> DEFINE Explained(c, x) ==
               \E h \in Handler : /\ owner[h] = c
                                  /\ Partner(h, x)
                                  /\ Pairing[h] = Pairing[x]
  <1>1. m # ErrorMsg => Explained(s, m.from)
    BY PartnerPairing
  <1>2. \A c \in Socket : \A k \in DOMAIN got'[c] :
           got'[c][k] # ErrorMsg => Explained(c, got'[c][k].from)
    <2> SUFFICES ASSUME NEW c \in Socket, NEW k \in DOMAIN got'[c],
                        got'[c][k] # ErrorMsg
                 PROVE  Explained(c, got'[c][k].from)
      OBVIOUS
    <2>0. got[c] \in Seq(Message)
      BY DEF TypeOK
    <2>1. CASE c = s /\ k = Len(got[s]) + 1
      <3>1. got'[c][k] = m
        BY <2>0, <2>1 DEF Send, TypeOK
      <3> HIDE DEF Explained
      <3> QED
        BY <1>1, <2>1, <3>1
    <2>2. CASE ~(c = s /\ k = Len(got[s]) + 1)
      <3>1. k \in DOMAIN got[c] /\ got'[c][k] = got[c][k]
        BY <2>0, <2>2 DEF Send, TypeOK
      <3> QED
        BY <3>1 DEF PairIsolation
    <2> QED
      BY <2>1, <2>2
  <1>3. \A c \in Socket : \A x : Explained(c, x) =>
           \E h \in Handler : /\ owner'[h] = c
                              /\ Partner(h, x)'
                              /\ Pairing[h] = Pairing[x]
    BY NoneAssumption DEF Kept, Partner, Claimed
  <1> HIDE DEF Explained
  <1> QED
    BY <1>2, <1>3 DEF PairIsolation, Partner, Claimed

LEMMA GotFail ==
    ASSUME TypeOK, Found, PairIsolation, Kept, NEW s \in Socket, Fail(s)
    PROVE  PairIsolation'
  <1>1. ErrorMsg \in Message
    BY DEF Message
  <1> QED
    BY <1>1, GotSame, GotSent DEF Fail

(* Every step keeps what clients are sent within their pairs. *)
LEMMA GotStep == IInv /\ Next => PairIsolation'
  <1> SUFFICES ASSUME IInv, Next, Kept PROVE PairIsolation'
    BY KeptStep
  <1> USE DEF IInv
  <1>1. ASSUME NEW s \in Socket, ClientCloses(s) PROVE PairIsolation'
    BY <1>1, GotSame DEF ClientCloses
  <1>2. ASSUME NEW s \in Socket, TimerFires(s) PROVE PairIsolation'
    BY <1>2, GotSame DEF TimerFires
  <1>3. ASSUME NEW s \in Socket, CloseEvent(s) PROVE PairIsolation'
    BY <1>3, GotSame DEF CloseEvent
  <1>4. ASSUME NEW s \in Socket, Reject(s) PROVE PairIsolation'
    BY <1>4, GotFail DEF Reject
  <1>5. ASSUME NEW s \in Socket, Crash(s) PROVE PairIsolation'
    BY <1>5, GotSame DEF Crash
  <1>6. ASSUME NEW s \in Socket, NEW t \in ClientType, Relay(s, t) PROVE PairIsolation'
    BY <1>6, GotSame DEF Relay
  <1>7. ASSUME NEW s \in Socket, NEW h \in Handler, Authenticate(s, h) PROVE PairIsolation'
    BY <1>7, GotSame DEF Authenticate
  <1>8. ASSUME NEW i \in Initiator, CommitEntry(i) PROVE PairIsolation'
    BY <1>8, GotSame DEF CommitEntry
  <1>9. ASSUME NEW i \in Initiator, EntryCreated(i) PROVE PairIsolation'
    BY <1>9, GotSame DEF EntryCreated
  <1>10. ASSUME NEW i \in Initiator, Expire(i) PROVE PairIsolation'
    BY <1>10, GotSame DEF Expire
  <1>11. ASSUME NEW r \in Responder, List(r) PROVE PairIsolation'
    BY <1>11, GotSame DEF List
  <1>12. ASSUME NEW r \in Responder, ClaimWon(r) PROVE PairIsolation'
    BY <1>12, GotSame DEF ClaimWon
  <1>13. ASSUME NEW r \in Responder, ClaimLost(r) PROVE PairIsolation'
    BY <1>13, GotSame DEF ClaimLost
  <1>14. ASSUME NEW r \in Responder, Join(r) PROVE PairIsolation'
    <2> DEFINE w == Msg("peerConnect", entry[r], 0)
    <2>1. /\ r \in Handler
          /\ owner[r] \in Socket
          /\ entry[r] \in Initiator
          /\ Claimed(r, entry[r])
      BY <1>14, OwnerType DEF Join, Found, Claimed, TypeOK, Handler
    <2>2. w \in Message /\ w.from = entry[r]
      BY <2>1, MsgType DEF Msg, Message, Handler
    <2>3. Partner(r, w.from)
      BY <2>1, <2>2 DEF Partner
    <2>4. Send(owner[r], w) \/ UNCHANGED got
      BY <1>14 DEF Join
    <2> HIDE DEF w
    <2> QED
      BY <2>1, <2>2, <2>3, <2>4, GotSame, GotSent
  <1>15. ASSUME NEW r \in Responder, ClaimTimeout(r) PROVE PairIsolation'
    BY <1>15, GotFail, OwnerType DEF ClaimTimeout, Handler
  <1>16. ASSUME NEW h \in Handler, Dispatch(h) PROVE PairIsolation'
    <2> DEFINE m == Head(bus[h])
    <2>1. m \in Message /\ Partner(h, m.from)
      BY <1>16 DEF Dispatch, TypeOK, Message, Routed
    <2>2. \/ UNCHANGED got
          \/ Send(owner[h], m) /\ owner[h] \in Socket
      BY <1>16, OwnerType DEF Dispatch, Listening
    <2> HIDE DEF m
    <2> QED
      BY <2>1, <2>2, GotSame, GotSent
  <1>17. ASSUME NEW h \in Handler, ClearEntry(h) PROVE PairIsolation'
    BY <1>17, GotSame DEF ClearEntry
  <1>18. ASSUME NEW h \in Handler, KvRejects(h) PROVE PairIsolation'
    BY <1>18, GotFail, OwnerType DEF KvRejects
  <1>19. ASSUME Finished PROVE PairIsolation'
    BY <1>19, GotSame DEF Finished, vars
  <1> QED
    BY <1>1, <1>2, <1>3, <1>4, <1>5, <1>6, <1>7, <1>8, <1>9, <1>10, <1>11,
         <1>12, <1>13, <1>14, <1>15, <1>16, <1>17, <1>18, <1>19 DEF Next,
         SocketStep, InitiatorStep, ResponderStep, HandlerStep
-----------------------------------------------------------------------------
(* The invariant and what follows from it. *)

LEMMA IInvInit == Init => IInv
  <1> SUFFICES ASSUME Init PROVE IInv
    OBVIOUS
  <1> USE NoneAssumption DEF Init
  <1>1. TypeOK
    BY RelayAssumption DEF TypeOK, PC
  <1>2. Owned /\ Roles /\ Installed /\ Found
    BY DEF Owned, Roles, Installed, Found, Handler
  <1>3. Unclaimed /\ ClaimExclusive
    BY DEF Unclaimed, ClaimExclusive, Claimed, Handler
  <1>4. Routed /\ PairIsolation
    BY DEF Routed, PairIsolation
  <1> QED
    BY <1>1, <1>2, <1>3, <1>4 DEF IInv

LEMMA IInvStep == IInv /\ [Next]_vars => IInv'
  <1>1. ASSUME IInv, Next PROVE IInv'
    BY <1>1, TypeStep, MatchedStep, InstalledStep, RoutedStep, GotStep
       DEF IInv, Matched
  <1>2. ASSUME IInv, UNCHANGED vars PROVE IInv'
    BY <1>2 DEF vars, IInv, TypeOK, Owned, Roles, Installed, Found, Unclaimed,
                ClaimExclusive, Routed, PairIsolation, Claimed, Partner
  <1> QED
    BY <1>1, <1>2

(* The inductive invariant holds in every reachable state of the server:   *)
(* handlers, database, channels and clients always agree.                  *)
THEOREM Invariance == Spec => []IInv
  BY IInvInit, IInvStep, PTL DEF Spec

(* Every variable keeps its type, whatever the order of the callbacks.     *)
THEOREM TypeCorrect == Spec => []TypeOK
  <1>1. IInv => TypeOK
    BY DEF IInv
  <1> QED
    BY <1>1, Invariance, PTL

(* No two responders ever hold the same initiator's channel, however many  *)
(* race for it in attemptClaim and whatever fails.                         *)
THEOREM ClaimsExclusive == Spec => []ClaimExclusive
  <1>1. IInv => ClaimExclusive
    BY DEF IInv
  <1> QED
    BY <1>1, Invariance, PTL

(* Nothing but 'error' reaches a client of the server except from the one  *)
(* peer it was matched with, which has the same pairing.                   *)
THEOREM PairsIsolated == Spec => []PairIsolation
  <1>1. IInv => PairIsolation
    BY DEF IInv
  <1> QED
    BY <1>1, Invariance, PTL

(* A handler that was matched or given its socket stays so for good: no    *)
(* failure, expiry or later auth makes a claim or an owner change.         *)
THEOREM MatchesKept == Spec => [][Kept]_vars
  <1>1. IInv /\ [Next]_vars => [Kept]_vars
    BY KeptStep
  <1> QED
    BY <1>1, Invariance, PTL DEF Spec

-----------------------------------------------------------------------------
(* SignallingServer implements Rendezvous: each of its steps offers,       *)
(* takes or withdraws an entry, or changes nothing that Rendezvous sees.   *)

(* What the mapping looks at, besides the entries in the database. *)
SameClaims ==
    \A r \in Responder, i \in Initiator : Claimed(r, i)' <=> Claimed(r, i)

Early(i) == pc[i] \in {"idle", "creating"}

LEMMA ClaimMatchValue ==
    ASSUME TypeOK, NEW r \in Responder, NEW i \in Initiator
    PROVE  /\ Claimed(r, i) <=> claimMatch[r] = i
           /\ claimMatch[r] \in Initiator \union {NONE}
  BY NoneAssumption DEF TypeOK, Claimed, claimMatch, Handler

LEMMA MatchSame ==
    ASSUME TypeOK, TypeOK', SameClaims
    PROVE  UNCHANGED claimMatch
  <1>1. ASSUME NEW r \in Responder PROVE claimMatch'[r] = claimMatch[r]
    BY NoneAssumption DEF TypeOK, SameClaims, Claimed, claimMatch, Handler
  <1> QED
    BY <1>1 DEF claimMatch

LEMMA StatusSame ==
    ASSUME SameClaims, UNCHANGED kv, \A i \in Initiator : Early(i)' <=> Early(i)
    PROVE  UNCHANGED offerStatus
  <1>1. ASSUME NEW i \in Initiator PROVE offerStatus'[i] = offerStatus[i]
    BY DEF SameClaims, Early, offerStatus
  <1> QED
    BY <1>1 DEF offerStatus

(* A step that keeps database, claims and early initiators is a stutter. *)
LEMMA Stutter ==
    ASSUME TypeOK, TypeOK', SameClaims, UNCHANGED kv,
           \A i \in Initiator : Early(i)' <=> Early(i)
    PROVE  UNCHANGED R!vars
  BY MatchSame, StatusSame DEF R!vars

(* Ending some entries, or some attempts to make one, withdraws them. *)
LEMMA Withdrawn ==
    ASSUME TypeOK, TypeOK', Unclaimed, Found, SameClaims,
           NEW I \in SUBSET Initiator,
           \A i \in I : i \in kv \/ Early(i),
           \A i \in I : i \notin kv' /\ ~Early(i)',
           \A i \in Initiator \ I : /\ i \in kv' <=> i \in kv
                                    /\ Early(i)' <=> Early(i)
    PROVE  R!Withdraw(I)
  <1>1. \A i \in I, r \in Responder : ~Claimed(r, i)
    BY NoneAssumption DEF Unclaimed, Found, Early, Claimed, Handler
  <1>2. \A i \in I : offerStatus[i] \in {"absent", "offered"}
    BY <1>1 DEF Early, offerStatus
  <1>3. ASSUME NEW i \in Initiator
        PROVE  offerStatus'[i] = IF i \in I THEN "withdrawn" ELSE offerStatus[i]
    <2>1. CASE i \in I
      BY <1>1, <2>1 DEF SameClaims, Early, offerStatus
    <2>2. CASE i \notin I
      BY <2>2 DEF SameClaims, Early, offerStatus
    <2> QED
      BY <2>1, <2>2
  <1>4. offerStatus' =
          [i \in Initiator |-> IF i \in I THEN "withdrawn" ELSE offerStatus[i]]
    BY <1>3 DEF offerStatus
  <1> QED
    BY <1>2, <1>4, MatchSame DEF R!Withdraw

LEMMA InitMaps == Init => R!Init
  BY NoneAssumption DEF Init, R!Init, offerStatus, claimMatch, Claimed, Handler

(* Every step maps to a step of Rendezvous or to none. *)
LEMMA StepMaps == IInv /\ IInv' /\ [Next]_vars => [R!Next]_R!vars
  <1> SUFFICES ASSUME IInv, IInv', [Next]_vars PROVE R!Next \/ UNCHANGED R!vars
    OBVIOUS
  <1>0. /\ TypeOK /\ Owned /\ Roles /\ Installed /\ Found /\ Unclaimed
        /\ TypeOK'
    BY DEF IInv
  <1> USE <1>0
  <1>1. ASSUME NEW s \in Socket, ClientCloses(s) PROVE R!Next \/ UNCHANGED R!vars
    BY <1>1, Stutter DEF ClientCloses, SameClaims, Claimed, Early, TypeOK
  <1>2. ASSUME NEW s \in Socket, TimerFires(s) PROVE R!Next \/ UNCHANGED R!vars
    BY <1>2, Stutter DEF TimerFires, SameClaims, Claimed, Early, TypeOK
  <1>3. ASSUME NEW s \in Socket, CloseEvent(s) PROVE R!Next \/ UNCHANGED R!vars
    <2>1. CASE listener[s] = NONE
      BY <1>3, <2>1, Stutter DEF CloseEvent, SameClaims, Claimed, Early
    <2>2. CASE listener[s] # NONE
      <3> DEFINE h == listener[s]
      <3>1. h \in Handler /\ pc[h] = "ready" /\ UNCHANGED <<entry, kv>>
        BY <1>3, <2>2 DEF CloseEvent, Installed, TypeOK
      <3>2. pc' = [pc EXCEPT ![h] = "clearing"]
        BY <1>3, <2>2 DEF CloseEvent
      <3> HIDE DEF h
      <3>3. SameClaims /\ \A i \in Initiator : Early(i)' <=> Early(i)
        BY <3>1, <3>2 DEF SameClaims, Claimed, Early, TypeOK, Handler
      <3> QED
        BY <3>1, <3>3, Stutter
    <2> QED
      BY <2>1, <2>2
  <1>4. ASSUME NEW s \in Socket, Reject(s) PROVE R!Next \/ UNCHANGED R!vars
    BY <1>4, Stutter DEF Reject, SameClaims, Claimed, Early, TypeOK
  <1>5. ASSUME NEW s \in Socket, Crash(s) PROVE R!Next \/ UNCHANGED R!vars
    <2> DEFINE lost == {h \in Handler : owner[h] = s}
               I == {i \in Initiator : i \in lost /\ Early(i)}
    <2>1. SameClaims
      BY <1>5, NoneAssumption DEF Crash, SameClaims, Claimed, TypeOK, Handler, Found
    <2>2. UNCHANGED kv
      BY <1>5 DEF Crash
    <2>3. \A i \in Initiator : Early(i)' <=> (Early(i) /\ i \notin I)
      BY <1>5 DEF Crash, Early, TypeOK, Handler
    <2>4. \A i \in I : i \notin kv
      BY DEF Unclaimed, Early
    <2>5. R!Withdraw(I)
      BY <2>1, <2>2, <2>3, <2>4, Withdrawn
    <2> QED
      BY <2>5 DEF R!Next
  <1>6. ASSUME NEW s \in Socket, NEW t \in ClientType, Relay(s, t) PROVE R!Next \/ UNCHANGED R!vars
    BY <1>6, Stutter DEF Relay, SameClaims, Claimed, Early, TypeOK
  <1>7. ASSUME NEW s \in Socket, NEW h \in Handler, Authenticate(s, h) PROVE R!Next \/ UNCHANGED R!vars
    BY <1>7, Stutter DEF Authenticate, SameClaims, Claimed, Early, TypeOK, Handler, Found
  <1>8. ASSUME NEW i \in Initiator, CommitEntry(i) PROVE R!Next \/ UNCHANGED R!vars
    <2> SUFFICES R!Offer(i)
      BY DEF R!Next
    <2>1. SameClaims
      BY <1>8, RolesAssumption DEF CommitEntry, SameClaims, Claimed, TypeOK, Handler
    <2>2. i \notin kv /\ \A r \in Responder : ~Claimed(r, i)
      BY <1>8, NoneAssumption DEF CommitEntry, Unclaimed, Found, Claimed, Handler
    <2>3. offerStatus[i] = "absent"
      BY <1>8, <2>2 DEF CommitEntry, offerStatus
    <2>4. ASSUME NEW j \in Initiator
          PROVE  offerStatus'[j] = IF j = i THEN "offered" ELSE offerStatus[j]
      BY <1>8, <2>1 DEF CommitEntry, SameClaims, offerStatus, TypeOK, Handler
    <2>5. offerStatus' = [offerStatus EXCEPT ![i] = "offered"]
      BY <2>4 DEF offerStatus
    <2> QED
      BY <2>1, <2>3, <2>5, MatchSame DEF R!Offer
  <1>9. ASSUME NEW i \in Initiator, EntryCreated(i) PROVE R!Next \/ UNCHANGED R!vars
    BY <1>9, RolesAssumption, Stutter DEF EntryCreated, Install, SameClaims, Claimed, Early, TypeOK, Handler
  <1>10. ASSUME NEW i \in Initiator, Expire(i) PROVE R!Next \/ UNCHANGED R!vars
    <2>1. SameClaims
      BY <1>10 DEF Expire, SameClaims, Claimed
    <2>2. ~Early(i) /\ \A j \in Initiator : Early(j)' <=> Early(j)
      BY <1>10 DEF Expire, Early, Unclaimed
    <2>3. R!Withdraw({i})
      BY <1>10, <2>1, <2>2, Withdrawn DEF Expire
    <2> QED
      BY <2>3 DEF R!Next
  <1>11. ASSUME NEW r \in Responder, List(r) PROVE R!Next \/ UNCHANGED R!vars
    BY <1>11, RolesAssumption, NoneAssumption, Stutter
       DEF List, SameClaims, Claimed, Early, TypeOK, Handler, Found
  <1>12. ASSUME NEW r \in Responder, ClaimWon(r) PROVE R!Next \/ UNCHANGED R!vars
    <2> DEFINE i == entry[r]
    <2>1. i \in Initiator /\ i \in kv /\ Pairing[r] = Pairing[i]
      BY <1>12, NoneAssumption DEF ClaimWon, Found, TypeOK, Handler
    <2>2. \A q \in Responder, j \in Initiator :
             Claimed(q, j)' <=> (Claimed(q, j) \/ (q = r /\ j = i))
      BY <1>12 DEF ClaimWon, Claimed, TypeOK, Handler
    <2>3. offerStatus[i] = "offered" /\ claimMatch[r] = NONE
      BY <1>12, <2>1 DEF ClaimWon, offerStatus, claimMatch
    <2>4. ASSUME NEW j \in Initiator
          PROVE  offerStatus'[j] = IF j = i THEN "taken" ELSE offerStatus[j]
      BY <1>12, <2>1, <2>2, RolesAssumption DEF ClaimWon, offerStatus, TypeOK, Handler
    <2>5. offerStatus' = [offerStatus EXCEPT ![i] = "taken"]
      BY <2>4 DEF offerStatus
    <2>6. claimMatch' = [claimMatch EXCEPT ![r] = i]
      BY <1>12 DEF ClaimWon, claimMatch, TypeOK, Handler
    <2> HIDE DEF i
    <2> QED
      BY <2>1, <2>3, <2>5, <2>6 DEF R!Take, R!Next
  <1>13. ASSUME NEW r \in Responder, ClaimLost(r) PROVE R!Next \/ UNCHANGED R!vars
    BY <1>13, RolesAssumption, NoneAssumption, Stutter
       DEF ClaimLost, SameClaims, Claimed, Early, TypeOK, Handler
  <1>14. ASSUME NEW r \in Responder, Join(r) PROVE R!Next \/ UNCHANGED R!vars
    BY <1>14, RolesAssumption, Stutter
       DEF Join, Install, SameClaims, Claimed, Early, TypeOK, Handler
  <1>15. ASSUME NEW r \in Responder, ClaimTimeout(r) PROVE R!Next \/ UNCHANGED R!vars
    BY <1>15, RolesAssumption, Stutter
       DEF ClaimTimeout, SameClaims, Claimed, Early, TypeOK, Handler, Found
  <1>16. ASSUME NEW h \in Handler, Dispatch(h) PROVE R!Next \/ UNCHANGED R!vars
    BY <1>16, Stutter DEF Dispatch, SameClaims, Claimed, Early, TypeOK
  <1>17. ASSUME NEW h \in Handler, ClearEntry(h) PROVE R!Next \/ UNCHANGED R!vars
    <2>1. SameClaims
      BY <1>17 DEF ClearEntry, SameClaims, Claimed, TypeOK, Handler
    <2>2. \A i \in Initiator : Early(i)' <=> Early(i)
      BY <1>17 DEF ClearEntry, Early, TypeOK, Handler
    <2>3. kv' = kv \ {Chan(h)}
      BY <1>17 DEF ClearEntry
    <2>4. CASE Chan(h) \in kv
      <3>1. Chan(h) \in Initiator /\ ~Early(Chan(h))
        BY <2>4 DEF TypeOK, Unclaimed, Early
      <3>2. R!Withdraw({Chan(h)})
        BY <2>1, <2>2, <2>3, <2>4, <3>1, Withdrawn
      <3> QED
        BY <3>1, <3>2 DEF R!Next
    <2>5. CASE Chan(h) \notin kv
      BY <2>1, <2>2, <2>3, <2>5, Stutter
    <2> QED
      BY <2>4, <2>5
  <1>18. ASSUME NEW h \in Handler, KvRejects(h) PROVE R!Next \/ UNCHANGED R!vars
    <2> DEFINE I == {i \in Initiator : i = h /\ Early(i)}
    <2>1. SameClaims
      BY <1>18, RolesAssumption, NoneAssumption
         DEF KvRejects, SameClaims, Claimed, TypeOK, Handler, Found
    <2>2. UNCHANGED kv
      BY <1>18 DEF KvRejects
    <2>3. \A i \in Initiator : Early(i)' <=> (Early(i) /\ i \notin I)
      BY <1>18 DEF KvRejects, Early, TypeOK, Handler
    <2>4. \A i \in I : i \notin kv
      BY DEF Unclaimed, Early
    <2>5. R!Withdraw(I)
      BY <2>1, <2>2, <2>3, <2>4, Withdrawn
    <2> QED
      BY <2>5 DEF R!Next
  <1>19. ASSUME UNCHANGED vars PROVE UNCHANGED R!vars
    BY <1>19, Stutter DEF vars, SameClaims, Claimed, Early
  <1> QED
    BY <1>1, <1>2, <1>3, <1>4, <1>5, <1>6, <1>7, <1>8, <1>9, <1>10, <1>11,
         <1>12, <1>13, <1>14, <1>15, <1>16, <1>17, <1>18, <1>19 DEF Next,
         SocketStep, InitiatorStep, ResponderStep, HandlerStep, Finished
(* The matching the clients see is the abstract one: an entry is offered   *)
(* once, taken by at most one responder of its pairing or withdrawn, and   *)
(* never seen again, under any interleaving, failure or crash.             *)
THEOREM ImplementsRendezvous == Spec => Matching
  <1>1. Spec => []IInv
    BY Invariance
  <1> QED
    BY <1>1, InitMaps, StepMaps, PTL DEF Spec, Matching, R!Spec
=============================================================================
