--------------------------- MODULE SignallingServer ---------------------------
(***************************************************************************)
(* The Deno signalling server: SignallingServer.handleSignalling, the      *)
(* KvClaimer and the BroadcastChannel each pair of peers shares.           *)
(*                                                                         *)
(* A "handler" is one run of the authentication branch of the message      *)
(* listener (signalling-server.ts:23-92).  An initiator's handler stands   *)
(* also for the random channel ID it makes up and for its KV key, since    *)
(* each handler makes exactly one.  JavaScript is single threaded, and an  *)
(* await of an already settled promise is a microtask, so handlers only    *)
(* interleave where they wait for the database, a timer or an event: those *)
(* points are the values of pc.                                            *)
(***************************************************************************)
EXTENDS Naturals, Sequences

CONSTANTS
    Socket,      \* websockets
    Initiator,   \* handlers whose token has the role 'initiator'
    Responder,   \* handlers with any other role
    Pairing,     \* the pairingId in each handler's token
    ClientType,  \* the types of message clients relay to each other
    MaxRelay,    \* bound: messages each handler relays for its client
    Home,        \* bound: the sockets on which each handler may be started
    Resend,      \* whether a client may send a second auth before the first is done
    Faults,      \* subset of {"crash", "kv"}: isolates die, KV operations reject
    NONE

Handler == Initiator \union Responder

ASSUME RolesAssumption   == Initiator \intersect Responder = {}
ASSUME NoneAssumption    == NONE \notin Handler \union Socket
ASSUME RelayAssumption   == MaxRelay \in [Handler -> Nat]

VARIABLES
    sock,      \* readyState of each websocket, from handleSignalling on
    elapsed,   \* whether the socket's ten minutes are over
    listener,  \* handler whose relay and close listeners the socket has, or NONE
    got,       \* messages sent to the client of each socket, in order
    pc,        \* where each handler is waiting
    owner,     \* socket each handler was started by, or NONE
    entry,     \* attemptClaim's `entry`: the initiator a responder found, or NONE
    bus,       \* undelivered events of each handler's channel endpoint
    posted,    \* number of messages each handler has relayed for its client
    kv         \* the initiators that have an entry in the database

vars == <<sock, elapsed, listener, got, pc, owner, entry, bus, posted, kv>>
socketVars == <<sock, elapsed, listener, got>>

PC == {"idle", "creating", "created",          \* initiator: createEntry
       "claiming", "listed", "claimed",        \* responder: attemptClaim
       "ready", "clearing", "done", "failed", "dead"}

(* A message to a client or on a channel.  from is the handler whose nonce *)
(* or whose client's data it carries, n counts what that handler relayed.  *)
Msg(type, h, n) == [type |-> type, from |-> h, n |-> n]
ErrorMsg == Msg("error", NONE, 0)

PeerMessage == [type : ClientType \union {"peerConnect", "peerDisconnect"},
                from : Handler,
                n    : Nat]
Message == PeerMessage \union {ErrorMsg}

Claimed(r, i) == /\ r \in Responder
                 /\ i \in Initiator
                 /\ entry[r] = i
                 /\ pc[r] # "listed"

(* a and b are the two ends of one channel. *)
Partner(a, b) == Claimed(a, b) \/ Claimed(b, a)

Chan(h) == IF h \in Initiator THEN h ELSE entry[h]

(* Handlers whose BroadcastChannel is open, and those with a listener on it. *)
Subscribed(h) == pc[h] \in {"creating", "created", "ready", "clearing"}
Listening(h) == pc[h] \in {"ready", "clearing"}

Init ==
    /\ sock = [s \in Socket |-> "open"]
    /\ elapsed = [s \in Socket |-> FALSE]
    /\ listener = [s \in Socket |-> NONE]
    /\ got = [s \in Socket |-> <<>>]
    /\ pc = [h \in Handler |-> "idle"]
    /\ owner = [h \in Handler |-> NONE]
    /\ entry = [r \in Responder |-> NONE]
    /\ bus = [h \in Handler |-> <<>>]
    /\ posted = [h \in Handler |-> 0]
    /\ kv = {}

-----------------------------------------------------------------------------
(* Operations of the runtime the handlers call. *)

(* Mutant: an event overtakes those before it. *)
PostedInFront(h, m) ==
    [g \in Handler |->
        IF g # h /\ Subscribed(g) /\ Chan(g) = Chan(h)
        THEN <<m>> \o bus[g] ELSE bus[g]]

(* BroadcastChannel.postMessage: an event for every other open channel of  *)
(* the same name, whether or not anything listens on it yet.               *)
Posted(h, m) ==
    [g \in Handler |->
        IF g # h /\ Subscribed(g) /\ Chan(g) = Chan(h)
        THEN Append(bus[g], m) ELSE bus[g]]

(* socket.sendMessage on an open websocket. *)
Send(s, m) == got' = [got EXCEPT ![s] = Append(@, m)]

(* socket.close: the close event follows later. *)
Close(s) == sock' = [sock EXCEPT ![s] = IF @ = "open" THEN "closing" ELSE @]

(* The catch block: 'error' to the client and close.  On a socket that is  *)
(* not open neither does anything that lasts.                              *)
Fail(s) ==
    /\ IF sock[s] = "open" THEN Send(s, ErrorMsg) ELSE UNCHANGED got
    /\ Close(s)

-----------------------------------------------------------------------------
(* The socket: client, session timer, close event. *)

ClientCloses(s) ==
    /\ sock[s] = "open"
    /\ Close(s)
    /\ UNCHANGED <<elapsed, listener, got, pc, owner, entry, bus, posted, kv>>

(* Mutant: the timer only closes sockets that have authenticated. *)
TimerFiresIfAuthed(s) ==
    /\ ~elapsed[s]
    /\ elapsed' = [elapsed EXCEPT ![s] = TRUE]
    /\ IF listener[s] # NONE THEN Close(s) ELSE UNCHANGED sock
    /\ UNCHANGED <<listener, got, pc, owner, entry, bus, posted, kv>>

(* The SESSION_TIMEOUT timer: closes the socket whatever state it is in. *)
TimerFires(s) ==
    /\ ~elapsed[s]
    /\ elapsed' = [elapsed EXCEPT ![s] = TRUE]
    /\ Close(s)
    /\ UNCHANGED <<listener, got, pc, owner, entry, bus, posted, kv>>

(* Mutant: the other end is not told. *)
CloseEventSilent(s) ==
    /\ sock[s] = "closing"
    /\ sock' = [sock EXCEPT ![s] = "closed"]
    /\ pc' = [h \in Handler |-> IF h = listener[s] THEN "clearing" ELSE pc[h]]
    /\ UNCHANGED <<elapsed, listener, got, owner, entry, bus, posted, kv>>

(* The close event.  Only a handler that has finished its set-up has a     *)
(* listener for it; that listener tells the other end and starts to clear  *)
(* the entry.                                                              *)
CloseEvent(s) ==
    /\ sock[s] = "closing"
    /\ sock' = [sock EXCEPT ![s] = "closed"]
    /\ LET h == listener[s] IN
       \/ /\ h = NONE
          /\ UNCHANGED <<pc, bus>>
       \/ /\ h # NONE
          /\ bus' = Posted(h, Msg("peerDisconnect", h, posted[h] + 1))
          /\ pc' = [pc EXCEPT ![h] = "clearing"]
    /\ UNCHANGED <<elapsed, listener, got, owner, entry, posted, kv>>

(* clearEntry has returned, and the handler closes its channel endpoint. *)
ClearEntry(h) ==
    /\ pc[h] = "clearing"
    /\ kv' = kv \ {Chan(h)}
    /\ pc' = [pc EXCEPT ![h] = "done"]
    /\ bus' = [bus EXCEPT ![h] = <<>>]
    /\ UNCHANGED <<sock, elapsed, listener, got, owner, entry, posted>>

-----------------------------------------------------------------------------
(* The first message: authentication. *)

(* A valid auth message.  `authed` is still false until the handler has    *)
(* finished, so a second one starts a second handler.  An initiator opens  *)
(* its channel and calls createEntry, a responder enters attemptClaim.     *)
Authenticate(s, h) ==
    /\ sock[s] = "open"
    /\ listener[s] = NONE
    /\ pc[h] = "idle"
    /\ s \in Home[h]
    /\ Resend \/ \A g \in Handler : owner[g] # s
    /\ owner' = [owner EXCEPT ![h] = s]
    /\ pc' = [pc EXCEPT ![h] = IF h \in Initiator THEN "creating" ELSE "claiming"]
    /\ UNCHANGED <<sock, elapsed, listener, got, entry, bus, posted, kv>>

(* A first message that is not valid, or any other before set-up is done. *)
Reject(s) ==
    /\ sock[s] = "open"
    /\ listener[s] = NONE
    /\ Fail(s)
    /\ UNCHANGED <<elapsed, listener, pc, owner, entry, bus, posted, kv>>

(* Lines 66-92: replaces the socket's listeners, even of a socket that has *)
(* closed in the meantime.                                                 *)
Install(h) ==
    /\ listener' = [listener EXCEPT ![owner[h]] = h]
    /\ pc' = [pc EXCEPT ![h] = "ready"]

(* The KV write commits: responders can find the entry from here on. *)
CommitEntry(h) ==
    /\ h \in Initiator
    /\ pc[h] = "creating"
    /\ kv' = kv \union {h}
    /\ pc' = [pc EXCEPT ![h] = "created"]
    /\ UNCHANGED <<sock, elapsed, listener, got, owner, entry, bus, posted>>

(* createEntry returns. *)
EntryCreated(h) ==
    /\ pc[h] = "created"
    /\ Install(h)
    /\ UNCHANGED <<sock, elapsed, got, owner, entry, bus, posted, kv>>

(* Mutant: kv.list without the pairingId in its prefix. *)
AvailableToAll(h) == kv

Available(h) == {i \in kv : Pairing[i] = Pairing[h]}

(* attemptClaim: kv.list(limit 1) finds some entry of the pairing.  When   *)
(* there is none it waits a second and looks again, which changes nothing. *)
List(h) ==
    /\ pc[h] = "claiming"
    /\ \E i \in Available(h) : entry' = [entry EXCEPT ![h] = i]
    /\ pc' = [pc EXCEPT ![h] = "listed"]
    /\ UNCHANGED <<sock, elapsed, listener, got, owner, bus, posted, kv>>

(* Mutant: delete without the check. *)
ClaimWonUnchecked(h) ==
    /\ pc[h] = "listed"
    /\ kv' = kv \ {entry[h]}
    /\ pc' = [pc EXCEPT ![h] = "claimed"]
    /\ UNCHANGED <<sock, elapsed, listener, got, owner, entry, bus, posted>>

(* Mutant: check without the delete. *)
ClaimWonUndeleted(h) ==
    /\ pc[h] = "listed"
    /\ entry[h] \in kv
    /\ pc' = [pc EXCEPT ![h] = "claimed"]
    /\ UNCHANGED <<sock, elapsed, listener, got, owner, entry, bus, posted, kv>>

(* The atomic check-and-delete: wins if the entry it listed is still there. *)
ClaimWon(h) ==
    /\ pc[h] = "listed"
    /\ entry[h] \in kv
    /\ kv' = kv \ {entry[h]}
    /\ pc' = [pc EXCEPT ![h] = "claimed"]
    /\ UNCHANGED <<sock, elapsed, listener, got, owner, entry, bus, posted>>

ClaimLost(h) ==
    /\ pc[h] = "listed"
    /\ entry[h] \notin kv
    /\ entry' = [entry EXCEPT ![h] = NONE]
    /\ pc' = [pc EXCEPT ![h] = "claiming"]
    /\ UNCHANGED <<sock, elapsed, listener, got, owner, bus, posted, kv>>

(* The claim is known: open the channel, peerConnect to the initiator and  *)
(* to the own client.  A websocket that is no longer open either throws on *)
(* send, which ends in the catch block, or drops the message.              *)
Join(h) ==
    /\ pc[h] = "claimed"
    /\ bus' = Posted(h, Msg("peerConnect", h, 0))
    /\ LET s == owner[h] IN
       \/ /\ sock[s] = "open"
          /\ Send(s, Msg("peerConnect", entry[h], 0))
          /\ Install(h)
       \/ /\ sock[s] # "open"
          /\ Install(h)
          /\ UNCHANGED got
       \/ /\ sock[s] # "open"
          /\ pc' = [pc EXCEPT ![h] = "failed"]
          /\ UNCHANGED <<listener, got>>
    /\ UNCHANGED <<sock, elapsed, owner, entry, posted, kv>>

(* attemptClaim gives up ten minutes after it was called, which is after   *)
(* the session timer, started when the socket was opened, has fired.       *)
ClaimTimeout(h) ==
    /\ pc[h] = "claiming"
    /\ elapsed[owner[h]]
    /\ pc' = [pc EXCEPT ![h] = "failed"]
    /\ Fail(owner[h])
    /\ UNCHANGED <<elapsed, listener, owner, entry, bus, posted, kv>>

-----------------------------------------------------------------------------
(* Relaying. *)

(* A message from the client goes on the channel as it is. *)
Relay(s, t) ==
    /\ sock[s] = "open"
    /\ LET h == listener[s] IN
       /\ h # NONE
       /\ posted[h] < MaxRelay[h]
       /\ posted' = [posted EXCEPT ![h] = @ + 1]
       /\ bus' = Posted(h, Msg(t, h, posted[h] + 1))
    /\ UNCHANGED <<sock, elapsed, listener, got, pc, owner, entry, kv>>

(* A channel event: peerDisconnect closes the socket, anything else goes   *)
(* to the client.  Without a listener the event is lost, and a socket that *)
(* is not open takes no message.                                           *)
Dispatch(h) ==
    /\ bus[h] # <<>>
    /\ bus' = [bus EXCEPT ![h] = Tail(@)]
    /\ LET m == Head(bus[h])
           s == owner[h]
           live == Listening(h) /\ sock[s] = "open" IN
       \/ /\ live /\ m.type = "peerDisconnect"
          /\ Close(s)
          /\ UNCHANGED got
       \/ /\ live /\ m.type # "peerDisconnect"
          /\ Send(s, m)
          /\ UNCHANGED sock
       \/ /\ ~live
          /\ UNCHANGED <<sock, got>>
    /\ UNCHANGED <<elapsed, listener, pc, owner, entry, posted, kv>>

-----------------------------------------------------------------------------
(* Failures and the clock. *)

(* The entry's expireIn has passed.  It was set after the socket's timer   *)
(* and for as long, so the timer has fired before.                         *)
Expire(i) ==
    /\ i \in kv
    /\ elapsed[owner[i]]
    /\ kv' = kv \ {i}
    /\ UNCHANGED <<sock, elapsed, listener, got, pc, owner, entry, bus, posted>>

(* A KV call rejects: the catch block runs (of clearEntry nothing does, and *)
(* by then the socket is closed), the channel endpoint stays behind without *)
(* a client.  The write may have been committed all the same: then the      *)
(* handler had already gone on to "created" or "claimed".                   *)
KvRejects(h) ==
    /\ "kv" \in Faults
    /\ \/ /\ pc[h] \in {"creating", "created", "claiming", "claimed", "clearing"}
          /\ UNCHANGED entry
       \/ /\ pc[h] = "listed"
          /\ entry' = [entry EXCEPT ![h] = NONE]
    /\ pc' = [pc EXCEPT ![h] = "failed"]
    /\ bus' = [bus EXCEPT ![h] = <<>>]
    /\ Fail(owner[h])
    /\ UNCHANGED <<elapsed, listener, owner, posted, kv>>

(* The isolate serving a socket dies: no close listener runs, and nothing  *)
(* but the database survives.                                              *)
Crash(s) ==
    /\ "crash" \in Faults
    /\ LET lost == {h \in Handler : owner[h] = s} IN
       /\ \/ sock[s] \in {"open", "closing"}
          \/ \E h \in lost : pc[h] \notin {"ready", "done", "failed", "dead"}
       /\ entry' = [r \in Responder |->
                        IF r \in lost /\ pc[r] = "listed" THEN NONE ELSE entry[r]]
       /\ pc' = [h \in Handler |-> IF h \in lost THEN "dead" ELSE pc[h]]
       /\ bus' = [h \in Handler |-> IF h \in lost THEN <<>> ELSE bus[h]]
    /\ sock' = [sock EXCEPT ![s] = "closed"]
    /\ UNCHANGED <<elapsed, listener, got, owner, posted, kv>>

(* Every socket has closed, its time is over and its handlers have settled. *)
Finished ==
    /\ \A s \in Socket : sock[s] = "closed" /\ elapsed[s]
    /\ \A h \in Handler : pc[h] \in {"idle", "ready", "done", "failed", "dead"}
    /\ UNCHANGED vars

-----------------------------------------------------------------------------

SocketStep(s) ==
    \/ ClientCloses(s) \/ TimerFires(s) \/ CloseEvent(s)
    \/ Reject(s) \/ Crash(s)
    \/ \E t \in ClientType : Relay(s, t)
    \/ \E h \in Handler : Authenticate(s, h)

InitiatorStep(i) == CommitEntry(i) \/ EntryCreated(i) \/ Expire(i)

ResponderStep(r) ==
    List(r) \/ ClaimWon(r) \/ ClaimLost(r) \/ Join(r) \/ ClaimTimeout(r)

HandlerStep(h) == Dispatch(h) \/ ClearEntry(h) \/ KvRejects(h)

Next ==
    \/ \E s \in Socket : SocketStep(s)
    \/ \E i \in Initiator : InitiatorStep(i)
    \/ \E r \in Responder : ResponderStep(r)
    \/ \E h \in Handler : HandlerStep(h)
    \/ Finished

Spec == Init /\ [][Next]_vars

(* The event loop: a KV call returns, an event is delivered, a closing     *)
(* websocket reports its close, a claim whose time is over ends.  Nothing  *)
(* is assumed of the clients, nor that the session timer fires.            *)
EventLoop ==
    /\ \A s \in Socket : WF_vars(CloseEvent(s))
    /\ \A i \in Initiator : WF_vars(CommitEntry(i)) /\ WF_vars(EntryCreated(i))
    /\ \A r \in Responder : /\ WF_vars(List(r))
                             /\ WF_vars(ClaimWon(r) \/ ClaimLost(r))
                             /\ WF_vars(Join(r)) /\ WF_vars(ClaimTimeout(r))
    /\ \A h \in Handler : WF_vars(Dispatch(h)) /\ WF_vars(ClearEntry(h))

LiveSpec == Spec /\ EventLoop

-----------------------------------------------------------------------------
(* Properties. *)

(* The type of every variable. *)
TypeOK ==
    /\ sock \in [Socket -> {"open", "closing", "closed"}]
    /\ elapsed \in [Socket -> BOOLEAN]
    /\ listener \in [Socket -> Handler \union {NONE}]
    /\ got \in [Socket -> Seq(Message)]
    /\ pc \in [Handler -> PC]
    /\ owner \in [Handler -> Socket \union {NONE}]
    /\ entry \in [Responder -> Initiator \union {NONE}]
    /\ bus \in [Handler -> Seq(PeerMessage)]
    /\ posted \in [Handler -> Nat]
    /\ kv \in SUBSET Initiator

(* However many responders race for it, an initiator's channel is claimed  *)
(* by at most one of them: the check-and-delete of attemptClaim decides.   *)
ClaimExclusive ==
    \A i \in Initiator, q, r \in Responder :
        Claimed(q, i) /\ Claimed(r, i) => q = r

(* Whatever a client is sent besides 'error' comes from the other end of a *)
(* channel that one of its own requests is on, and that other end is of    *)
(* the same pairing: never from a third client, nor an echo of its own.    *)
PairIsolation ==
    \A s \in Socket : \A k \in DOMAIN got[s] :
        got[s][k] # ErrorMsg =>
            \E h \in Handler : /\ owner[h] = s
                               /\ Partner(h, got[s][k].from)
                               /\ Pairing[h] = Pairing[got[s][k].from]

(* A client sees what its peer sent in the order it was sent, each message *)
(* at most once and the peerConnect, if it sees it, first: the order       *)
(* survives the channel, the listeners installed late and the reconnects.  *)
RelayOrder ==
    \A s \in Socket : \A j, k \in DOMAIN got[s] :
        (j < k /\ got[s][j] # ErrorMsg /\ got[s][j].from = got[s][k].from) =>
            got[s][j].n < got[s][k].n

(* Named parts of an inductive invariant (SignallingServerProofs). *)

(* A handler has a socket from its authentication on. *)
Owned == \A h \in Handler : owner[h] = NONE <=> pc[h] = "idle"

Roles == /\ \A i \in Initiator : pc[i] \notin {"claiming", "listed", "claimed"}
         /\ \A r \in Responder : pc[r] \notin {"creating", "created"}

(* The installed handler belongs to the socket, and stays ready until the  *)
(* socket has closed.                                                      *)
Installed ==
    \A s \in Socket : listener[s] # NONE =>
        /\ owner[listener[s]] = s
        /\ pc[listener[s]] \in {"ready", "clearing", "done", "failed", "dead"}
        /\ sock[s] # "closed" => pc[listener[s]] = "ready"

(* What a responder holds while it waits, and that it was really offered. *)
Found ==
    \A r \in Responder :
        /\ pc[r] \in {"idle", "claiming"} => entry[r] = NONE
        /\ pc[r] \in {"listed", "claimed", "ready", "clearing", "done"} => entry[r] # NONE
        /\ entry[r] # NONE => /\ Pairing[entry[r]] = Pairing[r]
                             /\ pc[entry[r]] \notin {"idle", "creating"}

(* An entry in the database has been written, and nobody has claimed it. *)
Unclaimed ==
    \A i \in kv : /\ pc[i] \notin {"idle", "creating"}
                  /\ \A r \in Responder : ~Claimed(r, i)

(* Every pending event comes from the other end of the channel. *)
Routed == \A h \in Handler : \A k \in DOMAIN bus[h] : Partner(h, bus[h][k].from)

(* The parts together with the properties they carry: what is known of the *)
(* handlers and the database suffices to show that it stays known.         *)
IInv ==
    /\ TypeOK
    /\ Owned
    /\ Roles
    /\ Installed
    /\ Found
    /\ Unclaimed
    /\ ClaimExclusive
    /\ Routed
    /\ PairIsolation

(* The order of messages (SignallingServerOrder). *)

Pending(h) == {bus[h][k] : k \in DOMAIN bus[h]}
Heard(s) == {got[s][k] : k \in DOMAIN got[s]}

(* What waits on a channel is in the order in which it was posted, ... *)
Ascending ==
    \A h \in Handler : \A j, k \in DOMAIN bus[h] :
        (j < k /\ bus[h][j].from = bus[h][k].from) => bus[h][j].n < bus[h][k].n

(* ... and after what its sender's peer has been sent already. *)
Fresh ==
    \A s \in Socket, h \in Handler : \A m \in Heard(s), w \in Pending(h) :
        m.from = w.from => m.n < w.n

(* No number is ahead of those its sender has used, but for the farewell   *)
(* of a socket that has closed.                                            *)
Numbered(m) ==
    \/ m.n <= posted[m.from]
    \/ /\ m.n = posted[m.from] + 1
       /\ \E s \in Socket : owner[m.from] = s /\ sock[s] = "closed"

Bounded ==
    /\ \A h \in Handler : \A m \in Pending(h) : Numbered(m)
    /\ \A s \in Socket : \A m \in Heard(s) \ {ErrorMsg} : Numbered(m)

(* Between its claim and peerConnect a responder has sent and been sent    *)
(* nothing, nor has anyone heard of the initiator it claimed.              *)
Unheard ==
    \A r \in Responder : pc[r] = "claimed" =>
        /\ bus[r] = <<>>
        /\ \A h \in Handler : \A m \in Pending(h) : m.from # r
        /\ \A s \in Socket : \A m \in Heard(s) : m.from \notin {r, entry[r]}

OrderInv == Ascending /\ Fresh /\ Bounded /\ Unheard /\ RelayOrder

(* SignallingServer implements the abstract matching. *)
offerStatus ==
    [i \in Initiator |->
        IF i \in kv THEN "offered"
        ELSE IF \E r \in Responder : Claimed(r, i) THEN "taken"
        ELSE IF pc[i] \in {"idle", "creating"} THEN "absent"
        ELSE "withdrawn"]

claimMatch ==
    [r \in Responder |-> IF pc[r] # "listed" THEN entry[r] ELSE NONE]

R == INSTANCE Rendezvous WITH status <- offerStatus, match <- claimMatch

(* Each entry goes from absent to offered to taken or withdrawn, whichever *)
(* of claim, clear, expiry, failed write or crash comes first, and is      *)
(* never offered or taken again afterwards.                                *)
Matching == R!Spec

HasOpenSocket(h) == owner[h] # NONE /\ sock[owner[h]] = "open"

Opposite(a, b) == a \in Initiator <=> b \in Responder

(* Once both ends have installed their listeners, the closing of one       *)
(* socket closes the other, without the help of the session timer, unless  *)
(* a second authentication has taken over the closing socket's listeners   *)
(* or its isolate dies.                                                    *)
DisconnectPropagates ==
    \A a, b \in Handler :
        Opposite(a, b) =>
            ((/\ Partner(a, b) /\ pc[a] = "ready" /\ pc[b] = "ready"
              /\ listener[owner[b]] = b /\ sock[owner[b]] = "closing")
                ~> \/ ~HasOpenSocket(a)
                   \/ b \notin {listener[s] : s \in Socket}
                   \/ pc[b] = "dead")

(* When a socket's time is over it closes, and none of its handlers is     *)
(* left waiting for the database or for an entry that never comes.         *)
SessionEnds ==
    \A s \in Socket : elapsed[s] ~>
        /\ sock[s] = "closed"
        /\ \A h \in Handler :
              owner[h] = s => pc[h] \in {"ready", "done", "failed", "dead"}

-----------------------------------------------------------------------------
(* What the comments and tests of the repository say, and the code does    *)
(* not do (see README).                                                    *)

Received(s, type, h) ==
    \E k \in DOMAIN got[s] : got[s][k].type = type /\ got[s][k].from = h

(* signalling-server.test.ts:133, 'both peers receive peerConnect once     *)
(* claimed'.                                                               *)
BothReceivePeerConnect ==
    \A r \in Responder, i \in Initiator :
        (Claimed(r, i) /\ pc[r] = "ready") ~>
            (~HasOpenSocket(i) \/ Received(owner[i], "peerConnect", r))

(* signalling-server.ts:81-82: the peer is told that we have disconnected. *)
PeerToldOfDisconnect ==
    \A a, b \in Handler :
        (Partner(a, b) /\ sock[owner[b]] = "closed") ~> ~HasOpenSocket(a)

=============================================================================
