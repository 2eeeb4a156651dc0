------------------------------- MODULE Negotiation -------------------------------
(***************************************************************************)
(* What two web peers say to each other in one attempt to connect: each a  *)
(* PeerTask of peer.ts on top of the SignallingServer client, whose        *)
(* messages are signed and verified asynchronously.                        *)
(*                                                                         *)
(* The signalling server matches the two and relays in order what each     *)
(* sends, and closes the socket of one when the other's has closed, as     *)
(* module SignallingServer has it in detail.  The peer connections are     *)
(* modelled by what peer.ts sees of them.                                  *)
(***************************************************************************)
EXTENDS Naturals, SequencesExt

CONSTANTS
    Candidates,   \* bound on the ICE candidates of a peer
    MayFail,      \* whether connections fail, peers leave and sessions time out
    NONE

Peer == {"initiator", "responder"}

ASSUME CandidatesAssumption == Candidates \in Nat
ASSUME NoneAssumption == NONE \notin Peer

Other(p) == CHOOSE q \in Peer : q # p

VARIABLES
    orderly,     \* whether signing and verifying end in order: never changes
    sock,        \* the websocket as the client sees it
    remoteNonce, \* the nonce a peer signs with: whose it is, or NONE
    signing,     \* messages whose signature is being computed
    sent,        \* what each has sent that the server has not read
    server,      \* the server's side of each socket
    inbox,       \* what the server has sent that each has not read
    checking,    \* messages whose signature is being verified
    local,       \* progress of the local description
    remote,      \* the peers that have a remote description
    gathered,    \* number of candidates found
    added,       \* peers that have added a candidate of the other's
    rtc,         \* connectionState
    lost,        \* history: peers that could not add a candidate
    refused      \* history: peers that refused a message

clientVars == <<remoteNonce, signing, checking>>
wireVars == <<sent, server, inbox>>
peerVars == <<local, remote, gathered, added>>
history == <<lost, refused>>

vars == <<orderly, sock, clientVars, wireVars, peerVars, rtc, history>>

Type == {"offer", "answer", "iceCandidate"}
Msg == [type : Type \union {"auth", "peerConnect", "close"},
        nonce : Peer \union {NONE}]
Plain(type) == [type |-> type, nonce |-> NONE]

Init ==
    /\ orderly \in BOOLEAN
    /\ sock = [p \in Peer |-> "connecting"]
    /\ remoteNonce = [p \in Peer |-> NONE]
    /\ signing = [p \in Peer |-> <<>>]
    /\ sent = [p \in Peer |-> <<>>]
    /\ server = [p \in Peer |-> "new"]
    /\ inbox = [p \in Peer |-> <<>>]
    /\ checking = [p \in Peer |-> <<>>]
    /\ local = [p \in Peer |-> "none"]
    /\ remote = {}
    /\ gathered = [p \in Peer |-> 0]
    /\ added = {}
    /\ rtc = [p \in Peer |-> "new"]
    /\ lost = {}
    /\ refused = {}

(* The k for which the k-th of these signatures may be the next to be done. *)
Done(messages) == {k \in DOMAIN messages : orderly => k = 1}

-----------------------------------------------------------------------------
(* The signalling client. *)

SocketOpens(p) ==
    /\ sock[p] = "connecting"
    /\ sock' = [sock EXCEPT ![p] = "open"]
    /\ UNCHANGED <<orderly, clientVars, wireVars, peerVars, rtc, history>>

(* The token is there: sendAuthMessage. *)
SendAuth(p) ==
    /\ sock[p] = "open"
    /\ sock' = [sock EXCEPT ![p] = "authed"]
    /\ sent' = [sent EXCEPT ![p] = Append(@, Plain("auth"))]
    /\ UNCHANGED <<orderly, clientVars, server, inbox, peerVars, rtc, history>>

(* queueMessage and sendMessage: what is queued once the socket is not     *)
(* open stays there.                                                       *)
SendMessage(p, type) ==
    signing' = IF sock[p] # "authed" THEN signing
               ELSE [signing EXCEPT ![p] =
                        Append(@, [type |-> type, nonce |-> remoteNonce[p]])]

(* The signature is there; the socket may not be. *)
Signed(p) ==
    /\ \E k \in Done(signing[p]) :
          /\ signing' = [signing EXCEPT ![p] = RemoveAt(@, k)]
          /\ sent' = IF sock[p] # "authed" THEN sent
                     ELSE [sent EXCEPT ![p] = Append(@, signing[p][k])]
    /\ UNCHANGED <<orderly, sock, remoteNonce, checking, server, inbox,
                   peerVars, rtc, history>>

(* disconnect. *)
Disconnect(p) ==
    IF sock[p] \in {"connecting", "open", "authed"}
    THEN /\ sock' = [sock EXCEPT ![p] = "closing"]
         /\ sent' = [sent EXCEPT ![p] = Append(@, Plain("close"))]
    ELSE UNCHANGED <<sock, sent>>

(* The next message, when the socket has not been closed. *)
Incoming(p, types) ==
    /\ sock[p] = "authed"
    /\ inbox[p] # <<>>
    /\ Head(inbox[p]).type \in types
    /\ inbox' = [inbox EXCEPT ![p] = Tail(@)]

(* Mutant: the wrong field is kept. *)
PeerConnectWrong(p) ==
    /\ Incoming(p, {"peerConnect"})
    /\ remoteNonce' = [remoteNonce EXCEPT ![p] = Head(inbox[p]).type]
    /\ UNCHANGED <<orderly, sock, signing, checking, sent, server, peerVars,
                   rtc, history>>

(* peerConnect: the initiator creates an offer. *)
PeerConnect(p) ==
    /\ Incoming(p, {"peerConnect"})
    /\ remoteNonce' = [remoteNonce EXCEPT ![p] = Head(inbox[p]).nonce]
    /\ local' = IF p = "responder" \/ rtc[p] = "closed" THEN local
                ELSE [local EXCEPT ![p] = "creating"]
    /\ UNCHANGED <<orderly, sock, signing, checking, sent, server, remote,
                   gathered, added, rtc, history>>

(* A message with data: a wrong nonce disconnects, a right one is followed *)
(* by the verification of the signature.                                   *)
HandleMessage(p) ==
    /\ Incoming(p, Type)
    /\ IF Head(inbox[p]).nonce # p
       THEN /\ Disconnect(p)
            /\ refused' = refused \union {p}
            /\ UNCHANGED checking
       ELSE /\ checking' = [checking EXCEPT ![p] = Append(@, Head(inbox[p]))]
            /\ UNCHANGED <<sock, sent, refused>>
    /\ UNCHANGED <<orderly, remoteNonce, signing, server, peerVars, rtc, lost>>

-----------------------------------------------------------------------------
(* The peer task. *)

(* close. *)
Close(p) ==
    /\ rtc' = [rtc EXCEPT ![p] = "closed"]
    /\ Disconnect(p)

(* The signature is right: the listener of the message. *)
Verified(p) ==
    /\ \E k \in Done(checking[p]) :
          LET type == IF rtc[p] = "closed" THEN "ignored"
                      ELSE checking[p][k].type
          IN  /\ checking' = [checking EXCEPT ![p] = RemoveAt(@, k)]
              /\ remote' = IF type \in {"offer", "answer"}
                           THEN remote \union {p} ELSE remote
              /\ local' = IF type # "offer" THEN local
                          ELSE [local EXCEPT ![p] = "creating"]
              /\ added' = IF type = "iceCandidate" /\ p \in remote
                          THEN added \union {p} ELSE added
              /\ lost' = IF type = "iceCandidate" /\ p \notin remote
                         THEN lost \union {p} ELSE lost
    /\ UNCHANGED <<orderly, sock, remoteNonce, signing, wireVars, gathered,
                   rtc, refused>>

(* Mutant: the offer is sent before it is the local description. *)
SendOfferEarly(p) ==
    /\ p = "initiator"
    /\ local[p] = "creating"
    /\ rtc[p] = "new"
    /\ local' = [local EXCEPT ![p] = "setting"]
    /\ SendMessage(p, "offer")
    /\ UNCHANGED <<orderly, sock, remoteNonce, checking, wireVars, remote,
                   gathered, added, rtc, history>>

(* The offer is created and is the local description: it is sent. *)
SendOffer(p) ==
    /\ p = "initiator"
    /\ local[p] = "creating"
    /\ rtc[p] = "new"
    /\ local' = [local EXCEPT ![p] = "set"]
    /\ SendMessage(p, "offer")
    /\ UNCHANGED <<orderly, sock, remoteNonce, checking, wireVars, remote,
                   gathered, added, rtc, history>>

(* The answer is created: it is sent while it becomes the local one. *)
SendAnswer(p) ==
    /\ p = "responder"
    /\ local[p] = "creating"
    /\ rtc[p] = "new"
    /\ local' = [local EXCEPT ![p] = "setting"]
    /\ SendMessage(p, "answer")
    /\ UNCHANGED <<orderly, sock, remoteNonce, checking, wireVars, remote,
                   gathered, added, rtc, history>>

LocalSet(p) ==
    /\ local[p] = "setting"
    /\ rtc[p] = "new"
    /\ local' = [local EXCEPT ![p] = "set"]
    /\ UNCHANGED <<orderly, sock, clientVars, wireVars, remote, gathered,
                   added, rtc, history>>

(* Mutant: candidates are found before the description is sent. *)
SendIceCandidateEarly(p) ==
    /\ local[p] \in {"creating", "set"}
    /\ rtc[p] # "closed"
    /\ gathered[p] < Candidates
    /\ gathered' = [gathered EXCEPT ![p] = @ + 1]
    /\ SendMessage(p, "iceCandidate")
    /\ UNCHANGED <<orderly, sock, remoteNonce, checking, wireVars, local,
                   remote, added, rtc, history>>

(* icecandidate, which needs a local description. *)
SendIceCandidate(p) ==
    /\ local[p] = "set"
    /\ rtc[p] # "closed"
    /\ gathered[p] < Candidates
    /\ gathered' = [gathered EXCEPT ![p] = @ + 1]
    /\ SendMessage(p, "iceCandidate")
    /\ UNCHANGED <<orderly, sock, remoteNonce, checking, wireVars, local,
                   remote, added, rtc, history>>

Described(p) == local[p] = "set" /\ p \in remote

(* connectionstatechange to 'connected': one of the two has to know where  *)
(* to reach the other.                                                     *)
RtcConnects(p) ==
    /\ rtc[p] = "new"
    /\ rtc[Other(p)] # "closed"
    /\ Described(p) /\ Described(Other(p))
    /\ added # {}
    /\ rtc' = [rtc EXCEPT ![p] = "connected"]
    /\ Disconnect(p)
    /\ UNCHANGED <<orderly, clientVars, server, inbox, peerVars, history>>

(* Mutant: 'failed' is not looked at. *)
RtcFailsUnnoticed(p) ==
    /\ rtc[p] = "new" /\ Described(p)
    /\ MayFail
    /\ Close(p)
    /\ UNCHANGED <<orderly, clientVars, server, inbox, peerVars, history>>

(* connectionstatechange to 'disconnected' or 'failed', for certain once   *)
(* the other has gone.                                                     *)
RtcFails(p) ==
    /\ rtc[p] = "connected" \/ (rtc[p] = "new" /\ Described(p))
    /\ MayFail \/ rtc[Other(p)] = "closed"
    /\ Close(p)
    /\ UNCHANGED <<orderly, clientVars, server, inbox, peerVars, history>>

(* The application calls disconnect. *)
Leave(p) ==
    /\ MayFail
    /\ rtc[p] # "closed"
    /\ Close(p)
    /\ UNCHANGED <<orderly, clientVars, server, inbox, peerVars, history>>

(* The end of a socket that was closed here or by the server. *)
Ended(p) ==
    \/ sock[p] = "closing"
    \/ /\ sock[p] \in {"open", "authed"}
       /\ inbox[p] # <<>>
       /\ Head(inbox[p]).type = "close"

(* Mutant: every end of a socket is taken for intentional. *)
SocketEndsQuietly(p) ==
    /\ Ended(p)
    /\ sock' = [sock EXCEPT ![p] = "closed"]
    /\ inbox' = [inbox EXCEPT ![p] = <<>>]
    /\ UNCHANGED <<orderly, clientVars, sent, server, peerVars, rtc, history>>

SocketEnds(p) ==
    /\ Ended(p)
    /\ sock' = [sock EXCEPT ![p] = "closed"]
    /\ rtc' = IF rtc[p] = "connected" THEN rtc
              ELSE [rtc EXCEPT ![p] = "closed"]
    /\ inbox' = [inbox EXCEPT ![p] = <<>>]
    /\ UNCHANGED <<orderly, clientVars, sent, server, peerVars, history>>

-----------------------------------------------------------------------------
(* The signalling server, as its clients see it. *)

Relaying == \A p \in Peer : server[p] = "joined"

Outgoing(p, types) ==
    /\ sent[p] # <<>>
    /\ Head(sent[p]).type \in types
    /\ sent' = [sent EXCEPT ![p] = Tail(@)]
    /\ UNCHANGED <<orderly, sock, clientVars, peerVars, rtc, history>>

(* The second of the two to be authenticated makes the match.  The         *)
(* initiator is introduced only if it listens to its channel by then: its  *)
(* entry can be claimed as soon as it is there, and its handler listens    *)
(* after that.                                                             *)
Join(p) ==
    /\ Outgoing(p, {"auth"})
    /\ server[p] = "new"
    /\ server' = [server EXCEPT ![p] = "joined"]
    /\ IF server[Other(p)] # "joined" THEN UNCHANGED inbox
       ELSE \E told \in {Peer, {"responder"}} :
               inbox' = [q \in Peer |->
                            IF q \notin told THEN inbox[q]
                            ELSE Append(inbox[q], [type |-> "peerConnect",
                                                   nonce |-> Other(q)])]

Relay(p) ==
    /\ Outgoing(p, Type)
    /\ UNCHANGED server
    /\ inbox' = IF ~Relaying THEN inbox
                ELSE [inbox EXCEPT ![Other(p)] = Append(@, Head(sent[p]))]

(* The sockets of those in gone end, and then that of who was matched. *)
Release(gone) ==
    LET told == IF Relaying THEN Peer ELSE gone
    IN  /\ server' = [p \in Peer |-> IF p \in told THEN "gone" ELSE server[p]]
        /\ inbox' = [p \in Peer |->
                        IF p \in told /\ server[p] # "gone"
                        THEN Append(inbox[p], Plain("close")) ELSE inbox[p]]

CloseEvent(p) ==
    /\ Outgoing(p, {"close"})
    /\ Release({p})

(* What a client sends after its socket has ended here is not read. *)
Drop(p) ==
    /\ Outgoing(p, {"auth"})
    /\ server[p] = "gone"
    /\ UNCHANGED <<server, inbox>>

(* The session timeout. *)
Timeout(p) ==
    /\ MayFail
    /\ sock[p] \in {"open", "authed"}
    /\ server[p] # "gone"
    /\ Release({p})
    /\ UNCHANGED <<orderly, sock, sent, clientVars, peerVars, rtc, history>>

-----------------------------------------------------------------------------

ClientStep(p) ==
    \/ SocketOpens(p) \/ SendAuth(p) \/ Signed(p) \/ Verified(p)
    \/ PeerConnect(p) \/ HandleMessage(p)
    \/ SendOffer(p) \/ SendAnswer(p) \/ LocalSet(p)
    \/ SocketEnds(p)

ServerStep(p) == Join(p) \/ Relay(p) \/ CloseEvent(p) \/ Drop(p)

Next ==
    \E p \in Peer :
        \/ ClientStep(p) \/ SendIceCandidate(p)
        \/ RtcConnects(p) \/ RtcFails(p) \/ Leave(p)
        \/ ServerStep(p) \/ Timeout(p)

Spec == Init /\ [][Next]_vars

(* Events and promises of a client take their turn, the server handles     *)
(* what it receives and its timer fires, and a peer connection whose other *)
(* end is closed fails.                                                    *)
FairSpec ==
    /\ Spec
    /\ \A p \in Peer :
          /\ WF_vars(ClientStep(p))
          /\ WF_vars(ServerStep(p))
          /\ WF_vars(Timeout(p))
          /\ WF_vars(RtcFails(p) /\ rtc[Other(p)] = "closed")

-----------------------------------------------------------------------------
(* Properties. *)

(* The type of every variable. *)
TypeOK ==
    /\ orderly \in BOOLEAN
    /\ sock \in [Peer -> {"connecting", "open", "authed", "closing", "closed"}]
    /\ remoteNonce \in [Peer -> Peer \union {NONE}]
    /\ \A q \in {signing, sent, inbox, checking} : q \in [Peer -> Seq(Msg)]
    /\ server \in [Peer -> {"new", "joined", "gone"}]
    /\ local \in [Peer -> {"none", "creating", "setting", "set"}]
    /\ gathered \in [Peer -> 0..Candidates]
    /\ rtc \in [Peer -> {"new", "connected", "closed"}]
    /\ remote \union added \union lost \union refused \subseteq Peer

(* Every message can be used when its turn comes: none is refused, since   *)
(* matched peers sign with each other's nonce from the first; and no       *)
(* candidate precedes the description it belongs to, provided signatures   *)
(* are computed and verified in the order in which they are asked for.     *)
MessagesUsed == refused = {} /\ (orderly => lost = {})

(* An answer finds the offer it answers in place, whatever order           *)
(* signatures are ready in.                                                *)
AnswerFindsOffer == "initiator" \in remote => local["initiator"] = "set"

(* Each side connects or closes. *)
Settles == \A p \in Peer : <>(rtc[p] # "new")

(* When one side has closed so does the other, connected or not. *)
CloseTogether == \A p \in Peer : rtc[p] = "closed" ~> rtc[Other(p)] = "closed"

-----------------------------------------------------------------------------
(* The inductive invariant *)

Description == {"offer", "answer"}

Has(messages, types) == \E k \in DOMAIN messages : messages[k].type \in types

Once(messages, types) ==
    \A j, k \in DOMAIN messages :
        messages[j].type \in types /\ messages[k].type \in types => j = k

(* Each message of the one kind comes after one of the other. *)
Preceded(messages, types, by) ==
    \A k \in DOMAIN messages :
        messages[k].type \in types =>
            \E j \in 1..(k - 1) : messages[j].type \in by

(* What p says to the other, and how the server introduces the other. *)
From(p) ==
    [type : {"iceCandidate", IF p = "initiator" THEN "offer" ELSE "answer"},
     nonce : {Other(p)}]
Introduction(p) == [type |-> "peerConnect", nonce |-> Other(p)]
Upstream(p) == From(p) \union {Plain("auth"), Plain("close")}
Downstream(p) == From(Other(p)) \union {Introduction(p), Plain("close")}

(* Each says what its role is to say, signed with the other's nonce. *)
Spoken ==
    \A p \in Peer :
        /\ remoteNonce[p] \in {NONE, Other(p)}
        /\ signing[p] \in Seq(From(p))
        /\ sent[p] \in Seq(Upstream(p))
        /\ inbox[p] \in Seq(Downstream(p))
        /\ checking[p] \in Seq(From(Other(p)))

Matched == \A p \in Peer : server[p] # "new"

(* A peer is introduced once, after the match, and has nothing to say and  *)
(* has understood nothing before.                                          *)
IntroducedOnce ==
    \A p \in Peer :
        /\ remoteNonce[p] # NONE =>
              /\ sock[p] \notin {"connecting", "open"}
              /\ Matched
              /\ ~Has(inbox[p], {"peerConnect"})
        /\ remoteNonce[p] = NONE =>
              /\ local[p] = "none"
              /\ signing[p] = <<>> /\ checking[p] = <<>>
              /\ ~Has(sent[p], Type)
        /\ Has(inbox[p], {"peerConnect"}) => Matched
        /\ Once(inbox[p], {"peerConnect"})

(* The introduction precedes what the other says; only the initiator's can *)
(* be lost.                                                                *)
IntroducedFirst ==
    \A p \in Peer : remoteNonce[p] = NONE /\ sock[p] # "closed" =>
        /\ Relaying => p = "initiator" \/ Has(inbox[p], {"peerConnect"})
        /\ Preceded(inbox[p], Type, {"peerConnect"})

(* Before the offer is the local description of the initiator neither has  *)
(* said anything.                                                          *)
OfferFirst ==
    local["initiator"] # "set" =>
        /\ local["responder"] = "none" /\ remote = {}
        /\ \A p \in Peer : /\ signing[p] = <<>> /\ checking[p] = <<>>
                           /\ ~Has(sent[p], Type) /\ ~Has(inbox[p], Type)

(* How far the description of p has come, or will not be missed. *)
Known(p) == Other(p) \in remote \/ rtc[Other(p)] = "closed"
Received(p) ==
    \/ Known(p)
    \/ Has(checking[Other(p)], Description)
    \/ sock[Other(p)] \in {"closing", "closed"}
Relayed(p) ==
    \/ Received(p)
    \/ Has(inbox[Other(p)], Description)
    \/ \E q \in Peer : server[q] = "gone"
Sent(p) ==
    \/ Relayed(p)
    \/ Has(sent[p], Description)
    \/ sock[p] \in {"closing", "closed"}

Led(messages) == Preceded(messages, {"iceCandidate"}, Description)

(* With signatures in order, the description is ahead of the candidates at *)
(* every stage of their way.                                               *)
DescriptionLeads ==
    orderly => \A p \in Peer :
        /\ Known(p) \/ Led(checking[Other(p)])
        /\ Received(p) \/ Led(inbox[Other(p)])
        /\ Relayed(p) \/ Led(sent[p])
        /\ Sent(p) \/ Led(signing[p])
        /\ local[p] \in {"setting", "set"} =>
              Sent(p) \/ Has(signing[p], Description)

Made(p) == local[p] \in {"setting", "set"}

(* A peer makes one description; it is at one place of its way at a time,  *)
(* and after that at none.                                                 *)
DescribedOnce ==
    /\ local["responder"] # "none" => "responder" \in remote
    /\ \A p \in Peer : LET q == Other(p) IN
          /\ q \in remote => Made(p)
          /\ Has(checking[q], Description) => Made(p) /\ q \notin remote
          /\ Has(inbox[q], Description) =>
                Made(p) /\ q \notin remote /\ ~Has(checking[q], Description)
          /\ Has(sent[p], Description) =>
                /\ Made(p) /\ q \notin remote
                /\ ~Has(checking[q], Description) /\ ~Has(inbox[q], Description)
          /\ Has(signing[p], Description) =>
                /\ Made(p) /\ q \notin remote /\ ~Has(sent[p], Description)
                /\ ~Has(checking[q], Description) /\ ~Has(inbox[q], Description)
          /\ Once(checking[q], Description) /\ Once(inbox[q], Description)
          /\ Once(sent[p], Description) /\ Once(signing[p], Description)

(* Why MessagesUsed and AnswerFindsOffer hold: what every step keeps of    *)
(* the messages on their way, and of who has been introduced when.         *)
IInv ==
    /\ TypeOK /\ Spoken /\ IntroducedOnce /\ IntroducedFirst /\ OfferFirst
    /\ DescriptionLeads /\ DescribedOnce /\ MessagesUsed

(* Neither peer makes its description a second time, nor is given another  *)
(* one of the other: setLocalDescription and setRemoteDescription are      *)
(* called once each, in any order of the signatures.                       *)
DescriptionsFinal ==
    [][\A p \in Peer : /\ Made(p) => Made(p)'
                       /\ p \in remote =>
                             /\ p \in remote'
                             /\ ~Has(checking[p], Description)]_vars

-----------------------------------------------------------------------------
(* What a comment of the repository says, and the code does not do (see    *)
(* README).                                                                *)

(* peer.ts:165, "there may be a race condition between us and the other    *)
(* peer reaching a "connected" RTC state, after which they disconnect":    *)
(* the end of the signalling session does not close a peer whose other end *)
(* is connected.                                                           *)
LateConnectSurvives ==
    [][\A p \in Peer : rtc[p] = "new" /\ rtc[Other(p)] = "connected"
                            => rtc'[p] # "closed"]_vars

=============================================================================
