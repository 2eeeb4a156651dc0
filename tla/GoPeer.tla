--------------------------------- MODULE GoPeer ---------------------------------
(***************************************************************************)
(* The Go library's Peer, its peerTask and its SignallingServer client, as *)
(* goroutines that share them without locks:                               *)
(*                                                                         *)
(*   loop    the goroutine of Connect, which makes one attempt after the   *)
(*           other, with the body of AttemptConnect                        *)
(*   reader  the goroutine of the client's Connect: dial, then read        *)
(*   sender  the goroutine of startSendLoop                                *)
(*   ice     the callback for an ICE candidate                             *)
(*   user    a call of Disconnect                                          *)
(*                                                                         *)
(* and the goroutines of the peer connection's state callback (posts),     *)
(* which wait until AttemptConnect receives what they send.  The use of a  *)
(* nil pointer panics, which ends the process.                             *)
(*                                                                         *)
(* A new attempt has objects and channels of its own: what still waits on  *)
(* those of an earlier one then waits for ever and is left out.            *)
(***************************************************************************)
EXTENDS Naturals, FiniteSets

CONSTANT NONE

Goroutine == {"loop", "user", "reader", "sender", "ice"}

ASSUME NoneAssumption == NONE \notin Goroutine

VARIABLES
    connected,   \* peerImpl.connected
    loop,        \* where the loop is
    user,        \* where the call of Disconnect is
    reader, sender, ice,
    server,      \* whether peerTask.server is not nil
    peer,        \* whether peerTask.peerConnection is not nil
    up,          \* SignallingServer.connected
    socket,      \* whether SignallingServer.socket is not nil
    wire,        \* the websocket itself
    rtc,         \* the peer connection itself
    sending,     \* the goroutines that wait to send to sendChan
    posts,       \* what the state callbacks wait to send
    panicked,    \* the goroutine that panicked, or NONE
    calledAt,    \* history: where the loop was at the first Disconnect
    dialFailed   \* history: whether this attempt's dial failed

clientVars == <<up, socket, wire>>
taskVars == <<server, peer, rtc, posts>>
goVars == <<reader, sender, ice, sending>>
history == <<calledAt, dialFailed>>

vars == <<connected, loop, user, goVars, taskVars, clientVars, panicked, history>>

Init ==
    /\ connected = FALSE
    /\ loop = "idle" /\ user = "idle"
    /\ reader = "none" /\ sender = "none" /\ ice = "none"
    /\ server = FALSE /\ peer = FALSE
    /\ up = FALSE /\ socket = FALSE
    /\ wire = "none" /\ rtc = "none"
    /\ sending = {} /\ posts = {}
    /\ panicked = NONE
    /\ calledAt = "idle" /\ dialFailed = FALSE

Running == panicked = NONE

Panic(g) ==
    /\ panicked' = g
    /\ UNCHANGED <<clientVars, taskVars>>

-----------------------------------------------------------------------------
(* What the loop and the user both call; g is the goroutine. *)

(* SignallingServer.Disconnect up to the assignment of nil. *)
CloseSocket(g) ==
    /\ up' = FALSE
    /\ IF socket
       THEN wire' = "closed" /\ UNCHANGED panicked
       ELSE panicked' = g /\ UNCHANGED wire
    /\ UNCHANGED <<socket, taskVars>>

DropSocket ==
    /\ socket' = FALSE
    /\ UNCHANGED <<up, wire, taskVars, panicked>>

(* peerConnection.Close, whose callback is told if there is one yet. *)
CloseRtc ==
    /\ rtc' = "closed"
    /\ posts' = IF rtc = "closed" \/ loop \in {"assign", "register"} THEN posts
                ELSE posts \union {"failed"}
    /\ UNCHANGED <<clientVars, server, peer, panicked>>

(* Mutant: the peer connection is left as it is. *)
RtcLeftOpen(g, at, next) ==
    /\ at = "rtc"
    /\ next = "clear"
    /\ UNCHANGED <<clientVars, taskVars, panicked>>

(* peerTask.Disconnect: each pointer is tested and then used. *)
ServerTested(g, at, next) ==
    /\ at = "test"
    /\ next = IF server THEN "close" ELSE "rtcTest"
    /\ UNCHANGED <<clientVars, taskVars, panicked>>

ServerClosed(g, at, next) ==
    \/ /\ at = "close"
       /\ next = "drop"
       /\ IF server THEN CloseSocket(g) ELSE Panic(g)
    \/ /\ at = "drop"
       /\ next = "rtcTest"
       /\ DropSocket

RtcTested(g, at, next) ==
    /\ at = "rtcTest"
    /\ next = IF peer THEN "rtc" ELSE "clear"
    /\ UNCHANGED <<clientVars, taskVars, panicked>>

RtcClosed(g, at, next) ==
    /\ at = "rtc"
    /\ next = "clear"
    /\ IF peer THEN CloseRtc ELSE Panic(g)

Cleared(g, at, next) ==
    /\ at = "clear"
    /\ next = "done"
    /\ server' = FALSE /\ peer' = FALSE
    /\ UNCHANGED <<clientVars, rtc, posts, panicked>>

TaskDisconnect(g, at, next) ==
    \/ ServerTested(g, at, next) \/ ServerClosed(g, at, next)
    \/ RtcTested(g, at, next) \/ RtcClosed(g, at, next)
    \/ Cleared(g, at, next)

DisconnectSteps == {"test", "close", "drop", "rtcTest", "rtc", "clear", "done"}

-----------------------------------------------------------------------------
(* The user *)

(* The loop that this starts has to have ended before the next: a bound. *)
Connect ==
    /\ Running
    /\ loop = "idle" /\ user = "idle"
    /\ ~connected
    /\ connected' = TRUE
    /\ loop' = "check"
    /\ calledAt' = "idle"
    /\ UNCHANGED <<user, goVars, taskVars, clientVars, panicked, dialFailed>>

(* A call at any time, one after the other.  Without a task there is none  *)
(* of what it tests for.                                                   *)
Disconnect ==
    /\ Running
    /\ user = "idle"
    /\ connected' = FALSE
    /\ user' = "test"
    /\ calledAt' = IF connected THEN loop ELSE calledAt
    /\ UNCHANGED <<loop, goVars, taskVars, clientVars, panicked, dialFailed>>

UserStep ==
    /\ Running
    /\ user # "idle"
    /\ \E next \in DisconnectSteps :
          /\ TaskDisconnect("user", user, next)
          /\ user' = IF next = "done" THEN "idle" ELSE next
    /\ UNCHANGED <<connected, loop, goVars, history>>

-----------------------------------------------------------------------------
(* The loop *)

(* Nothing of the last attempt can take a step of its own. *)
Stalled ==
    /\ user = "idle"
    /\ reader \in {"none", "reporting", "sending", "done"}
    /\ sender \in {"none", "done"} \/ (sender = "receiving" /\ sending = {})
    /\ ice \in {"none", "sending"}

(* The next attempt, or the end of the loop. *)
NewTask ==
    /\ Running
    /\ loop = "check" /\ connected /\ Stalled
    /\ loop' = "task"
    /\ server' = FALSE /\ peer' = FALSE
    /\ up' = FALSE /\ socket' = FALSE
    /\ wire' = "none" /\ rtc' = "none"
    /\ sending' = {} /\ posts' = {}
    /\ reader' = "none" /\ sender' = "none" /\ ice' = "none"
    /\ dialFailed' = FALSE
    /\ UNCHANGED <<connected, user, panicked, calledAt>>

LoopEnds ==
    /\ Running
    /\ loop = "check" /\ ~connected
    /\ loop' = "idle"
    /\ UNCHANGED <<connected, user, goVars, taskVars, clientVars, panicked, history>>

(* AttemptConnect creates its objects, or returns at once, ... *)
Create ==
    /\ Running
    /\ loop = "task"
    /\ \/ /\ loop' = "assign"
          /\ server' = TRUE /\ rtc' = "new"
       \/ /\ loop' = "sleep"
          /\ UNCHANGED <<server, rtc>>
    /\ UNCHANGED <<connected, user, goVars, peer, posts, clientVars, panicked, history>>

(* ... makes them the task's one by one, ... *)
AssignPeer ==
    /\ Running
    /\ loop = "assign"
    /\ loop' = "register"
    /\ peer' = TRUE
    /\ UNCHANGED <<connected, user, goVars, server, rtc, posts, clientVars,
                   panicked, history>>

(* ... registers the state callback, ... *)
Register ==
    /\ Running
    /\ loop = "register"
    /\ loop' = "listen"
    /\ UNCHANGED <<connected, user, goVars, taskVars, clientVars, panicked, history>>

(* ... sets up the other callbacks by way of the task's pointers, which    *)
(* may fail, ...                                                           *)
SetupListeners ==
    /\ Running
    /\ loop = "listen"
    /\ IF server /\ peer
       THEN loop' \in {"connect", "sleep"} /\ UNCHANGED panicked
       ELSE panicked' = "loop" /\ UNCHANGED loop
    /\ UNCHANGED <<connected, user, goVars, taskVars, clientVars, history>>

(* ... and calls server.Connect on its own variable: the reader starts. *)
ConnectServer ==
    /\ Running
    /\ loop = "connect"
    /\ loop' = "select"
    /\ up' = TRUE /\ reader' = "dialing"
    /\ UNCHANGED <<connected, user, sender, ice, sending, taskVars, socket, wire,
                   panicked, history>>

(* The select. *)
Succeeds ==
    /\ Running
    /\ loop = "select" /\ "success" \in posts
    /\ posts' = posts \ {"success"}
    /\ loop' = "close, connected"
    /\ UNCHANGED <<connected, user, goVars, server, peer, rtc, clientVars,
                   panicked, history>>

PeerFails ==
    /\ Running
    /\ loop = "select" /\ "failed" \in posts
    /\ posts' = posts \ {"failed"}
    /\ loop' = "close, failed"
    /\ UNCHANGED <<connected, user, goVars, server, peer, rtc, clientVars,
                   panicked, history>>

ServerFails ==
    /\ Running
    /\ loop = "select" /\ reader = "reporting"
    /\ reader' = "done"
    /\ loop' = "test"
    /\ UNCHANGED <<connected, user, sender, ice, sending, taskVars, clientVars,
                   panicked, history>>

(* ... which disconnects the task. *)
ServerFailed ==
    /\ Running
    /\ \E next \in DisconnectSteps :
          /\ TaskDisconnect("loop", loop, next)
          /\ loop' = IF next = "done" THEN "sleep" ELSE next
    /\ UNCHANGED <<connected, user, goVars, history>>

(* Mutant: only the connection of a peer is followed by a Disconnect. *)
LoopClosesOnSuccess ==
    /\ Running
    /\ \/ /\ loop = "close, connected"
          /\ loop' = "drop, connected"
          /\ CloseSocket("loop")
       \/ /\ loop = "close, failed"
          /\ loop' = "drop, failed"
          /\ UNCHANGED <<taskVars, clientVars, panicked>>
    /\ UNCHANGED <<connected, user, goVars, history>>

(* server.Disconnect, on success or failure. *)
LoopCloses ==
    /\ Running
    /\ \/ /\ loop = "close, connected"
          /\ loop' = "drop, connected"
       \/ /\ loop = "close, failed"
          /\ loop' = "drop, failed"
    /\ CloseSocket("loop")
    /\ UNCHANGED <<connected, user, goVars, history>>

(* Mutant: the task keeps its client, and disconnects on failure. *)
LoopDropsSocket ==
    /\ Running
    /\ \/ /\ loop = "drop, connected"
          /\ loop' = "connected"
       \/ /\ loop = "drop, failed"
          /\ loop' = "test"
    /\ DropSocket
    /\ UNCHANGED <<connected, user, goVars, history>>

(* ... and p.server = nil. *)
LoopDrops ==
    /\ Running
    /\ \/ /\ loop = "drop, connected"
          /\ loop' = "connected"
       \/ /\ loop = "drop, failed"
          /\ loop' = "sleep"
    /\ socket' = FALSE
    /\ server' = FALSE
    /\ UNCHANGED <<connected, user, goVars, up, wire, peer, rtc, posts,
                   panicked, history>>

ConnectionFails ==
    /\ Running
    /\ loop = "connected" /\ "failed" \in posts
    /\ posts' = posts \ {"failed"}
    /\ loop' = "sleep"
    /\ UNCHANGED <<connected, user, goVars, server, peer, rtc, clientVars,
                   panicked, history>>

(* The second between two attempts. *)
Slept ==
    /\ Running
    /\ loop = "sleep"
    /\ loop' = "check"
    /\ UNCHANGED <<connected, user, goVars, taskVars, clientVars, panicked, history>>

-----------------------------------------------------------------------------
(* The signalling client's goroutines *)

Dial ==
    /\ Running
    /\ reader = "dialing"
    /\ \/ /\ reader' = "auth" /\ sender' = "test"
          /\ socket' = TRUE /\ wire' = "open"
          /\ UNCHANGED dialFailed
       \/ /\ reader' = "reporting"
          /\ dialFailed' = TRUE
          /\ UNCHANGED <<sender, socket, wire>>
    /\ UNCHANGED <<connected, loop, user, ice, sending, taskVars, up, panicked,
                   calledAt>>

ReaderStep(from, to) ==
    /\ Running
    /\ reader = from
    /\ reader' = to
    /\ UNCHANGED <<connected, loop, user, sender, ice, taskVars, clientVars, history>>

Sends(g) == sending' = sending \union {g}

(* sendAuthMessage. *)
Auth ==
    IF up THEN ReaderStep("auth", "sending") /\ Sends("reader") /\ UNCHANGED panicked
    ELSE ReaderStep("auth", "reporting") /\ UNCHANGED <<sending, panicked>>

(* The head of the loop. *)
ReadTest ==
    /\ ReaderStep("test", IF up THEN "read" ELSE "done")
    /\ UNCHANGED <<sending, panicked>>

Read ==
    /\ ReaderStep("read", "waiting")
    /\ panicked' = IF socket THEN panicked ELSE "reader"
    /\ UNCHANGED sending

(* Mutant: the loop just ends. *)
ReadFailsSilently ==
    /\ wire = "closed"
    /\ ReaderStep("waiting", "done")
    /\ UNCHANGED <<sending, panicked>>

ReadFails ==
    /\ wire = "closed"
    /\ ReaderStep("waiting", "reporting")
    /\ UNCHANGED <<sending, panicked>>

(* A message, which its listener may answer; or an error in handling it. *)
Receive ==
    /\ wire = "open"
    /\ \/ ReaderStep("waiting", "handling")
       \/ ReaderStep("waiting", "reporting")
    /\ UNCHANGED <<sending, panicked>>

Handle ==
    \/ /\ ReaderStep("handling", "test")
       /\ panicked' \in IF peer /\ server THEN {panicked}
                         ELSE {panicked, "reader"}
       /\ UNCHANGED sending
    \/ /\ peer /\ server /\ up
       /\ ReaderStep("handling", "sending")
       /\ Sends("reader")
       /\ UNCHANGED panicked

ReaderSteps == Auth \/ ReadTest \/ Read \/ ReadFails \/ Receive \/ Handle

(* The head of the loop of the sender. *)
SendTest ==
    /\ Running
    /\ sender = "test"
    /\ sender' = IF up THEN "receiving" ELSE "done"
    /\ UNCHANGED <<connected, loop, user, reader, ice, sending, taskVars,
                   clientVars, panicked, history>>

(* Mutant: the sending side does not go on. *)
ExchangeOneSided(g) ==
    /\ Running
    /\ sender = "receiving" /\ g \in sending
    /\ sender' = "writing"
    /\ sending' = sending \ {g}
    /\ UNCHANGED <<connected, loop, user, reader, ice, taskVars, clientVars,
                   panicked, history>>

(* sendChan: both sides go on. *)
Exchange(g) ==
    /\ Running
    /\ sender = "receiving" /\ g \in sending
    /\ sender' = "writing"
    /\ sending' = sending \ {g}
    /\ reader' = IF g = "reader" THEN "test" ELSE reader
    /\ ice' = IF g = "ice" THEN "none" ELSE ice
    /\ UNCHANGED <<connected, loop, user, taskVars, clientVars, panicked, history>>

(* WriteJSON, whose errors are only printed. *)
Write ==
    /\ Running
    /\ sender = "writing"
    /\ sender' = "test"
    /\ panicked' = IF socket THEN panicked ELSE "sender"
    /\ UNCHANGED <<connected, loop, user, reader, ice, sending, taskVars,
                   clientVars, history>>

(* A candidate is found while descriptions are exchanged. *)
Candidate ==
    /\ Running
    /\ ice = "none"
    /\ wire # "none" /\ rtc \in {"new", "connected"}
    /\ server
    /\ ice' = "found"
    /\ UNCHANGED <<connected, loop, user, reader, sender, sending, taskVars,
                   clientVars, panicked, history>>

(* SendIceCandidate, of what peerTask.server is by now. *)
SendCandidate ==
    /\ Running
    /\ ice = "found"
    /\ panicked' = IF server THEN panicked ELSE "ice"
    /\ IF server /\ up THEN ice' = "sending" /\ Sends("ice")
       ELSE ice' = "none" /\ UNCHANGED sending
    /\ UNCHANGED <<connected, loop, user, reader, sender, taskVars, clientVars, history>>

-----------------------------------------------------------------------------
(* The server and the other peer *)

WireEnds ==
    /\ Running
    /\ wire = "open"
    /\ wire' = "closed"
    /\ UNCHANGED <<connected, loop, user, goVars, taskVars, up, socket, panicked, history>>

RtcConnects ==
    /\ Running
    /\ rtc = "new" /\ wire # "none"
    /\ rtc' = "connected"
    /\ posts' = posts \union {"success"}
    /\ UNCHANGED <<connected, loop, user, goVars, server, peer, clientVars, panicked, history>>

RtcFails ==
    /\ Running
    /\ wire # "none" /\ rtc \in {"new", "connected"}
    /\ rtc' = "failed"
    /\ posts' = posts \union {"failed"}
    /\ UNCHANGED <<connected, loop, user, goVars, server, peer, clientVars, panicked, history>>

-----------------------------------------------------------------------------

AttemptStep == Succeeds \/ PeerFails \/ ServerFails \/ ServerFailed
                \/ LoopCloses \/ LoopDrops \/ ConnectionFails

SetUpStep == Create \/ AssignPeer \/ Register \/ SetupListeners \/ ConnectServer

LoopStep == NewTask \/ LoopEnds \/ SetUpStep \/ AttemptStep \/ Slept

SenderStep == SendTest \/ Write \/ \E g \in {"reader", "ice"} : Exchange(g)

Next ==
    \/ Connect \/ Disconnect \/ UserStep
    \/ LoopStep
    \/ Dial \/ ReaderSteps \/ SenderStep
    \/ Candidate \/ SendCandidate
    \/ WireEnds \/ RtcConnects \/ RtcFails

Spec == Init /\ [][Next]_vars

(* Every goroutine that can go on does, and those that wait to send to a   *)
(* channel are served in the order in which they came; a dial and a read   *)
(* come to an end only when the network or the server makes them.          *)
Fairness ==
    /\ WF_vars(UserStep) /\ WF_vars(LoopStep)
    /\ WF_vars(Auth \/ ReadTest \/ Read \/ ReadFails \/ Handle)
    /\ WF_vars(SenderStep) /\ SF_vars(Exchange("reader"))
    /\ WF_vars(SendCandidate)

FairSpec == Spec /\ Fairness

-----------------------------------------------------------------------------
(* Properties. *)

(* An attempt before it calls Connect of its client. *)
SetUp == {"task", "assign", "register", "listen", "connect"}

LoopState == {"idle", "check", "select", "connected", "sleep",
              "close, connected", "drop, connected",
              "close, failed", "drop, failed"} \union SetUp \union DisconnectSteps

(* The type of every variable. *)
TypeOK ==
    /\ connected \in BOOLEAN /\ dialFailed \in BOOLEAN
    /\ server \in BOOLEAN /\ peer \in BOOLEAN
    /\ up \in BOOLEAN /\ socket \in BOOLEAN
    /\ loop \in LoopState /\ calledAt \in LoopState
    /\ user \in DisconnectSteps \union {"idle"}
    /\ reader \in {"none", "dialing", "auth", "sending", "test", "read",
                   "waiting", "handling", "reporting", "done"}
    /\ sender \in {"none", "test", "receiving", "writing", "done"}
    /\ ice \in {"none", "found", "sending"}
    /\ wire \in {"none", "open", "closed"}
    /\ rtc \in {"none", "new", "connected", "failed", "closed"}
    /\ sending \subseteq {"reader", "ice"}
    /\ posts \subseteq {"success", "failed"}
    /\ panicked \in Goroutine \union {NONE}

(* An attempt that is over has left nothing with the signalling server:    *)
(* its websocket is closed and its client is not connected.  This needs    *)
(* that no Disconnect came while the attempt was set up.                   *)
SessionClosed ==
    loop = "sleep" /\ calledAt \notin SetUp =>
        ~up /\ wire # "open"

(* The loop from where a client is set up until it is let go of. *)
LoopHolds == {"select", "close, connected", "drop, connected",
              "close, failed", "drop, failed", "test", "close", "drop"}

(* No nil pointer is used where nothing interferes: AttemptConnect panics  *)
(* only where the dial failed, or where the user has called Disconnect in  *)
(* the course of the attempt; but for these two no goroutine of an attempt *)
(* panics before the loop lets go of the client; and a Disconnect after    *)
(* the peer connection is established does not, for then it has.           *)
PanicFree ==
    /\ panicked = "loop" =>
          dialFailed \/ calledAt \notin {"idle", "check", "sleep"}
    /\ calledAt = "idle" /\ ~dialFailed /\ loop \in LoopHolds =>
          panicked = NONE
    /\ calledAt = "connected" => panicked # "user"

-----------------------------------------------------------------------------
(* The inductive invariant. *)

(* The calls of Connect and Disconnect alternate, as far as they matter,   *)
(* and after the latter the loop goes only on to its end.                  *)
Calls ==
    /\ connected => loop # "idle" /\ user = "idle" /\ calledAt = "idle"
    /\ calledAt = "idle" /\ loop # "idle" => connected
    /\ loop \in SetUp => connected \/ calledAt \in SetUp
    /\ calledAt \in {"check", "sleep"} => loop \in {"sleep", "check", "idle"}
    /\ calledAt = "connected" =>
          loop \in {"connected", "sleep", "check", "idle"}

(* Those that wait to send, and no others, are on sendChan. *)
Waiting ==
    /\ "reader" \in sending <=> reader = "sending"
    /\ "ice" \in sending <=> ice = "sending"

(* The loop stays where it panicked. *)
LoopPanics ==
    panicked = "loop" =>
        loop \in {"listen", "drop", "drop, connected", "drop, failed", "clear"}

(* Until the client is told to connect nothing of it runs, and a task that *)
(* AttemptConnect has not touched has nothing to close.                    *)
Fresh ==
    loop \in SetUp =>
        /\ ~up /\ ~socket /\ wire = "none"
        /\ reader = "none" /\ sender = "none" /\ ice = "none"
        /\ loop = "task" =>
              /\ ~server /\ ~peer /\ posts = {}
              /\ user \in {"idle", "test", "rtcTest", "clear"}

Dialing == reader = "dialing" => ~socket

(* A connected task has let go of its client, and a Disconnect that finds  *)
(* it so has only the peer connection to close.                            *)
LetGo ==
    /\ loop = "connected" => ~server
    /\ calledAt = "connected" =>
          /\ ~server
          /\ user \notin {"close", "drop"}
          /\ user = "rtc" => peer

(* Nothing is left with the signalling server, nor will be. *)
Closed == ~up /\ wire # "open" /\ reader # "dialing"

LoopPastClose == {"drop", "rtcTest", "rtc", "clear", "drop, connected",
                  "drop, failed", "connected", "sleep"}

(* The client is given up only once it is closed, by whoever does so. *)
ClosedFirst ==
    loop \notin {"check", "idle"} /\ calledAt \notin SetUp =>
        /\ ~server => Closed
        /\ loop \in LoopPastClose /\ panicked # "loop" => Closed
        /\ user \in {"drop", "rtcTest", "rtc", "clear"} /\ panicked # "user" =>
              Closed

(* Neither the read loop nor the send loop runs. *)
Idling == reader \in {"dialing", "reporting", "done"} /\ sender = "none"

(* While the user leaves the attempt alone, what the loop is about to use  *)
(* is there; the socket, if it could be dialed.                            *)
Undisturbed ==
    calledAt = "idle" =>
        /\ loop = "assign" => server
        /\ loop \in {"register", "listen", "connect"} => server /\ peer
        /\ loop \in SetUp => posts = {}
        /\ loop \in LoopHolds => server /\ peer
        /\ loop \in {"rtcTest", "rtc"} => peer
        /\ loop \in LoopHolds \ {"select"} => socket \/ dialFailed
        /\ loop = "select" =>
              \/ socket \/ dialFailed
              \/ reader = "dialing" /\ wire = "none" /\ posts = {}
        /\ loop \in LoopHolds => socket \/ Idling

(* The inductive invariant: types, what the goroutines know of each other, *)
(* and the property above that is not among its consequences.              *)
IInv ==
    /\ TypeOK
    /\ Waiting
    /\ Calls
    /\ LoopPanics
    /\ Fresh
    /\ Dialing
    /\ LetGo
    /\ ClosedFirst
    /\ Undisturbed
    /\ PanicFree

-----------------------------------------------------------------------------

(* The end of the websocket while an attempt waits for the peer ends the   *)
(* attempt's wait, wherever the reader is then: unless a goroutine panics, *)
(* or a Disconnect came while the attempt was set up.                      *)
ServerEndNoticed ==
    loop = "select" /\ wire = "closed" /\ calledAt \notin SetUp ~>
        loop # "select" \/ panicked # NONE

(* A Disconnect ends the attempt, connected or not, and then the loop:     *)
(* unless a goroutine panics, or it came while the attempt was set up.     *)
DisconnectEnds ==
    ~connected /\ calledAt \notin SetUp ~>
        loop = "idle" \/ panicked # NONE

-----------------------------------------------------------------------------
(* What a comment of the repository says, and the code does not do (see    *)
(* README).                                                                *)

(* signalling_server.go:18, "If there are any failures in the connection   *)
(* ... it will report these and return to a disconnected state": an        *)
(* attempt whose dial fails, and that the user leaves alone, is over       *)
(* without a panic.                                                        *)
DialFailureReported ==
    dialFailed /\ calledAt = "idle" => panicked = NONE

=============================================================================
