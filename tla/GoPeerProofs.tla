------------------------------ MODULE GoPeerProofs ------------------------------
(***************************************************************************)
(* Theorems about GoPeer, for any mark NONE of a program in which no       *)
(* goroutine has panicked.  IInv, the inductive invariant, is defined and  *)
(* model-checked with the properties.                                      *)
(*                                                                         *)
(* The steps of the client's goroutines and of the network leave alone     *)
(* most of what the invariant is about; what they do is stated once, as    *)
(* ClientMoves and NetworkMoves.  The conjuncts follow one by one.         *)
(***************************************************************************)
EXTENDS GoPeer, TLAPS

-----------------------------------------------------------------------------
(* Types. *)

LEMMA States ==
    /\ {"idle", "check", "task", "assign", "register", "listen", "connect", "select", "connected", "sleep",
        "close, connected", "drop, connected", "close, failed", "drop, failed",
        "test", "close", "drop", "rtcTest", "rtc", "clear"} \subseteq LoopState
    /\ DisconnectSteps \subseteq LoopState
    /\ {"idle", "test"} \subseteq DisconnectSteps \union {"idle"}
  BY DEF LoopState, SetUp, DisconnectSteps

LEMMA TypeStep == TypeOK /\ Next => TypeOK'
  <1> SUFFICES ASSUME TypeOK, Next
               PROVE  TypeOK'
    OBVIOUS
  <1> USE DEF TypeOK, goVars, taskVars, clientVars, history, Running
  <1> USE DEF Connect, Disconnect, UserStep, ServerFailed, TaskDisconnect,
      ServerTested, ServerClosed, RtcTested, RtcClosed, Cleared, CloseSocket,
      DropSocket, CloseRtc, Panic
  <1> USE DEF LoopStep, AttemptStep, NewTask, LoopEnds, SetUpStep, Create,
      AssignPeer, Register, SetupListeners, ConnectServer, Succeeds, PeerFails,
      ServerFails, LoopCloses, LoopDrops, ConnectionFails, Slept
  <1> USE DEF Dial, ReaderSteps, ReaderStep, Sends, Auth, ReadTest, Read,
        ReadFails,
      Receive, Handle, SenderStep, SendTest, Write, Exchange, Candidate,
      SendCandidate, WireEnds, RtcConnects, RtcFails
  <1>1. loop' \in LoopState /\ calledAt' \in LoopState
    BY States DEF Next
  <1>2. user' \in DisconnectSteps \union {"idle"} /\ panicked' \in Goroutine \union {NONE}
    BY States DEF Next, Goroutine
  <1>3. /\ connected' \in BOOLEAN /\ dialFailed' \in BOOLEAN
        /\ server' \in BOOLEAN /\ peer' \in BOOLEAN
        /\ up' \in BOOLEAN /\ socket' \in BOOLEAN
    <2>1. CASE Connect \/ Disconnect \/ UserStep
      BY <2>1
    <2>2. CASE LoopStep
      BY <2>2
    <2>3. CASE Dial \/ ReaderSteps
      BY <2>3
    <2>4. CASE SenderStep \/ Candidate \/ SendCandidate
      BY <2>4
    <2>5. CASE WireEnds \/ RtcConnects \/ RtcFails
      BY <2>5
    <2> QED
      BY <2>1, <2>2, <2>3, <2>4, <2>5 DEF Next
  <1>4. /\ reader' \in {"none", "dialing", "auth", "sending", "test", "read",
                        "waiting", "handling", "reporting", "done"}
        /\ sender' \in {"none", "test", "receiving", "writing", "done"}
        /\ ice' \in {"none", "found", "sending"}
    <2>1. CASE Connect \/ Disconnect \/ UserStep
      BY <2>1
    <2>2. CASE LoopStep
      BY <2>2
    <2>3. CASE Dial \/ ReaderSteps
      BY <2>3
    <2>4. CASE SenderStep \/ Candidate \/ SendCandidate
      BY <2>4
    <2>5. CASE WireEnds \/ RtcConnects \/ RtcFails
      BY <2>5
    <2> QED
      BY <2>1, <2>2, <2>3, <2>4, <2>5 DEF Next
  <1>5. /\ wire' \in {"none", "open", "closed"}
        /\ rtc' \in {"none", "new", "connected", "failed", "closed"}
        /\ sending' \subseteq {"reader", "ice"}
        /\ posts' \subseteq {"success", "failed"}
    <2>1. CASE Connect \/ Disconnect \/ UserStep
      BY <2>1
    <2>2. CASE LoopStep
      BY <2>2
    <2>3. CASE Dial \/ ReaderSteps
      BY <2>3
    <2>4. CASE SenderStep \/ Candidate \/ SendCandidate
      BY <2>4
    <2>5. CASE WireEnds \/ RtcConnects \/ RtcFails
      BY <2>5
    <2> QED
      BY <2>1, <2>2, <2>3, <2>4, <2>5 DEF Next
  <1> QED
    BY <1>1, <1>2, <1>3, <1>4, <1>5

-----------------------------------------------------------------------------
(* What the client's goroutines and the network do. *)

LEMMA ClientMoves ==
    ASSUME TypeOK, Waiting, ReaderSteps \/ SenderStep \/ Candidate \/ SendCandidate
    PROVE  /\ panicked = NONE
           /\ UNCHANGED <<connected, loop, user, server, peer, rtc, posts,
                          up, socket, wire, calledAt, dialFailed>>
           /\ reader' = "dialing" <=> reader = "dialing"
           /\ panicked' \in {NONE, "reader", "sender", "ice"}
           /\ reader # "none" \/ sender # "none" \/ ice # "none" \/ wire # "none"
           /\ Idling => Idling'
           /\ panicked' # NONE => ~server \/ ~peer \/ ~(socket \/ Idling)
  <1> USE DEF Idling, goVars, taskVars, clientVars, history, Running
  <1>1. CASE ReaderSteps
    BY <1>1 DEF ReaderSteps, ReaderStep, Sends, Auth, ReadTest, Read,
        ReadFails,
        Receive, Handle
  <1>2. CASE SendTest \/ Write
    BY <1>2 DEF SendTest, Write
  <1>3. ASSUME NEW g \in {"reader", "ice"}, Exchange(g)
        PROVE  /\ reader' = "dialing" <=> reader = "dialing"
               /\ sender # "none" /\ ~Idling
               /\ panicked = NONE /\ panicked' = NONE
               /\ UNCHANGED <<connected, loop, user, server, peer, rtc, posts,
                              up, socket, wire, calledAt, dialFailed>>
    BY <1>3 DEF Waiting, Exchange
  <1>4. CASE Candidate \/ SendCandidate
    BY <1>4 DEF Candidate, SendCandidate
  <1> QED
    BY <1>1, <1>2, <1>3, <1>4 DEF SenderStep

LEMMA NetworkMoves ==
    ASSUME WireEnds \/ RtcConnects \/ RtcFails
    PROVE  /\ panicked = NONE
           /\ UNCHANGED <<connected, loop, user, reader, sender, ice, sending,
                          server, peer, up, socket, panicked, calledAt, dialFailed>>
           /\ wire # "none" /\ wire' \in {wire, "closed"}
  BY DEF WireEnds, RtcConnects, RtcFails, Running, goVars, taskVars,
      clientVars,
      history

LEMMA DialMoves ==
    ASSUME Dial
    PROVE  /\ panicked = NONE
           /\ UNCHANGED <<connected, loop, user, server, peer, rtc, posts, up,
                          panicked, calledAt>>
           /\ reader = "dialing" /\ reader' # "dialing"
           /\ socket' \/ dialFailed'
  BY DEF Dial, Running, taskVars

(* A step of peerTask.Disconnect, by g, from at to next; or to end, when   *)
(* it is the last.                                                         *)
Disconnecting(g, at, next, end) ==
    /\ at \in {"test", "close", "drop", "rtcTest", "rtc", "clear"}
    /\ at = "test" =>
          /\ next = IF server THEN "close" ELSE "rtcTest"
          /\ UNCHANGED <<server, peer, posts, up, socket, wire, panicked>>
    /\ at = "close" =>
          /\ next = "drop"
          /\ UNCHANGED <<server, peer, posts, socket>>
          /\ \/ /\ server /\ socket
                /\ ~up' /\ wire' = "closed"
                /\ UNCHANGED panicked
             \/ /\ ~(server /\ socket)
                /\ up' \in {up, FALSE} /\ UNCHANGED wire
                /\ panicked' = g
    /\ at = "drop" =>
          /\ next = "rtcTest"
          /\ socket' = FALSE
          /\ UNCHANGED <<server, peer, posts, up, wire, panicked>>
    /\ at = "rtcTest" =>
          /\ next = IF peer THEN "rtc" ELSE "clear"
          /\ UNCHANGED <<server, peer, posts, up, socket, wire, panicked>>
    /\ at = "rtc" =>
          /\ next = "clear"
          /\ UNCHANGED <<server, peer, up, socket, wire>>
          /\ IF peer THEN UNCHANGED panicked ELSE panicked' = g
    /\ at = "clear" =>
          /\ next = end
          /\ ~server' /\ ~peer'
          /\ UNCHANGED <<posts, up, socket, wire, panicked>>

LEMMA DisconnectMoves ==
    ASSUME TypeOK, NEW g, NEW at, NEW next, NEW end, TaskDisconnect(g, at, next)
    PROVE  Disconnecting(g, at, IF next = "done" THEN end ELSE next, end)
  <1> USE DEF Disconnecting, taskVars, clientVars
  <1>1. CASE ServerTested(g, at, next)
    BY <1>1 DEF ServerTested
  <1>2. CASE ServerClosed(g, at, next)
    BY <1>2 DEF ServerClosed, CloseSocket, DropSocket, Panic, TypeOK
  <1>3. CASE RtcTested(g, at, next)
    BY <1>3 DEF RtcTested
  <1>4. CASE RtcClosed(g, at, next)
    BY <1>4 DEF RtcClosed, CloseRtc, Panic, TypeOK
  <1>5. CASE Cleared(g, at, next)
    BY <1>5 DEF Cleared
  <1> QED
    BY <1>1, <1>2, <1>3, <1>4, <1>5 DEF TaskDisconnect

LEMMA UserMoves ==
    ASSUME TypeOK, UserStep
    PROVE  /\ Disconnecting("user", user, user', "idle")
           /\ panicked = NONE
           /\ UNCHANGED <<connected, loop, reader, sender, ice, sending,
                          calledAt, dialFailed>>
  <1>1. PICK next \in DisconnectSteps :
            /\ TaskDisconnect("user", user, next)
            /\ user' = IF next = "done" THEN "idle" ELSE next
    BY DEF UserStep
  <1>2. Disconnecting("user", user, user', "idle")
    BY <1>1, DisconnectMoves
  <1> QED
    BY <1>2 DEF UserStep, Running, goVars, history

LEMMA LoopDisconnects ==
    ASSUME TypeOK, ServerFailed
    PROVE  /\ Disconnecting("loop", loop, loop', "sleep")
           /\ panicked = NONE
           /\ UNCHANGED <<connected, user, reader, sender, ice, sending,
                          calledAt, dialFailed>>
  <1>1. PICK next \in DisconnectSteps :
            /\ TaskDisconnect("loop", loop, next)
            /\ loop' = IF next = "done" THEN "sleep" ELSE next
    BY DEF ServerFailed
  <1>2. Disconnecting("loop", loop, loop', "sleep")
    BY <1>1, DisconnectMoves
  <1> QED
    BY <1>2 DEF ServerFailed, Running, goVars, history

LEMMA NoneRuns == NONE # "loop" /\ NONE # "user"
  BY NoneAssumption DEF Goroutine

-----------------------------------------------------------------------------
(* The conjuncts. *)

(* Those that wait to send. *)
LEMMA WaitingStep == IInv /\ Next => Waiting'
  <1> SUFFICES ASSUME IInv, Next
               PROVE  Waiting'
    OBVIOUS
  <1> USE DEF IInv, TypeOK, Waiting, Fresh, SetUp, goVars, taskVars,
        clientVars, history, Running
  <1>1. CASE Connect \/ Disconnect
    BY <1>1 DEF Connect, Disconnect
  <1>2. CASE UserStep
    BY <1>2 DEF UserStep
  <1>3. CASE NewTask \/ LoopEnds \/ Slept
    BY <1>3 DEF NewTask, LoopEnds, Slept
  <1>4. CASE SetUpStep
    BY <1>4 DEF SetUpStep, Create, AssignPeer, Register, SetupListeners,
        ConnectServer
  <1>5. CASE Succeeds \/ PeerFails \/ ServerFails \/ ConnectionFails
    BY <1>5 DEF Succeeds, PeerFails, ServerFails, ConnectionFails
  <1>6. CASE ServerFailed
    BY <1>6 DEF ServerFailed
  <1>7. CASE LoopCloses \/ LoopDrops
    BY <1>7 DEF LoopCloses, LoopDrops
  <1>8. CASE Dial
    BY <1>8 DEF Dial
  <1>9. CASE ReaderSteps
    BY <1>9 DEF ReaderSteps, ReaderStep, Sends, Auth, ReadTest, Read,
        ReadFails, Receive, Handle
  <1>10. CASE SenderStep
    BY <1>10 DEF SenderStep, SendTest, Write, Exchange
  <1>11. CASE Candidate \/ SendCandidate
    BY <1>11 DEF Candidate, SendCandidate, Sends
  <1>12. CASE WireEnds \/ RtcConnects \/ RtcFails
    BY <1>12, NetworkMoves
  <1> QED
    BY <1>1, <1>2, <1>3, <1>4, <1>5, <1>6, <1>7, <1>8, <1>9, <1>10, <1>11,
        <1>12 DEF Next, LoopStep, AttemptStep

(* The calls and the loop. *)
LEMMA CallsStep == IInv /\ Next => Calls'
  <1> SUFFICES ASSUME IInv, Next
               PROVE  Calls'
    OBVIOUS
  <1> USE DEF IInv, TypeOK, Waiting, Calls, SetUp, goVars, taskVars,
        clientVars, history, Running
  <1>1. CASE Connect \/ Disconnect
    BY <1>1 DEF Connect, Disconnect
  <1>2. CASE UserStep
    <2>1. user # "idle" /\ UNCHANGED <<connected, loop, calledAt>>
      BY <1>2, UserMoves DEF Disconnecting
    <2> QED
      BY <2>1
  <1>3. CASE NewTask \/ LoopEnds \/ Slept
    BY <1>3 DEF NewTask, LoopEnds, Slept
  <1>4. CASE SetUpStep
    BY <1>4 DEF SetUpStep, Create, AssignPeer, Register, SetupListeners,
        ConnectServer
  <1>5. CASE Succeeds
    BY <1>5 DEF Succeeds
  <1>6. CASE PeerFails
    BY <1>6 DEF PeerFails
  <1>7. CASE ServerFails
    BY <1>7 DEF ServerFails
  <1>8. CASE ConnectionFails
    BY <1>8 DEF ConnectionFails
  <1>9. CASE ServerFailed
    <2>1. /\ loop \notin {"idle", "check", "sleep", "connected"}
          /\ loop' \notin {"idle"} \union SetUp
          /\ UNCHANGED <<connected, user, calledAt>>
      BY <1>9, LoopDisconnects DEF Disconnecting
    <2> QED
      BY <2>1
  <1>10. CASE LoopCloses
    BY <1>10 DEF LoopCloses, CloseSocket
  <1>11. CASE LoopDrops
    BY <1>11 DEF LoopDrops
  <1>12. CASE Dial
    BY <1>12, DialMoves DEF Dial
  <1>13. CASE ReaderSteps \/ SenderStep \/ Candidate \/ SendCandidate
    BY <1>13, ClientMoves
  <1>14. CASE WireEnds \/ RtcConnects \/ RtcFails
    BY <1>14, NetworkMoves
  <1> QED
    BY <1>1, <1>2, <1>3, <1>4, <1>5, <1>6, <1>7, <1>8, <1>9, <1>10, <1>11,
        <1>12, <1>13, <1>14 DEF Next, LoopStep, AttemptStep

(* The loop panics only in a Disconnect. *)
LEMMA LoopPanicsStep == IInv /\ Next => LoopPanics'
  <1> SUFFICES ASSUME IInv, Next
               PROVE  LoopPanics'
    OBVIOUS
  <1> USE NoneRuns DEF IInv, TypeOK, Waiting, LoopPanics, goVars, taskVars,
        clientVars, history, Running
  <1>1. CASE Connect \/ Disconnect
    BY <1>1 DEF Connect, Disconnect
  <1>2. CASE UserStep
    BY <1>2, UserMoves DEF Disconnecting
  <1>3. CASE NewTask \/ LoopEnds \/ Slept
    BY <1>3 DEF NewTask, LoopEnds, Slept
  <1>4. CASE SetUpStep
    BY <1>4 DEF SetUpStep, Create, AssignPeer, Register, SetupListeners,
        ConnectServer
  <1>5. CASE Succeeds \/ PeerFails
    BY <1>5 DEF Succeeds, PeerFails
  <1>6. CASE ServerFails
    BY <1>6 DEF ServerFails
  <1>7. CASE ConnectionFails
    BY <1>7 DEF ConnectionFails
  <1>8. CASE ServerFailed
    BY <1>8, LoopDisconnects DEF Disconnecting
  <1>9. CASE LoopCloses
    BY <1>9 DEF LoopCloses, CloseSocket
  <1>10. CASE LoopDrops
    BY <1>10 DEF LoopDrops
  <1>11. CASE Dial
    BY <1>11, DialMoves DEF Dial
  <1>12. CASE ReaderSteps \/ SenderStep \/ Candidate \/ SendCandidate
    BY <1>12, ClientMoves
  <1>13. CASE WireEnds \/ RtcConnects \/ RtcFails
    BY <1>13, NetworkMoves
  <1> QED
    BY <1>1, <1>2, <1>3, <1>4, <1>5, <1>6, <1>7, <1>8, <1>9, <1>10, <1>11,
        <1>12, <1>13 DEF Next, LoopStep, AttemptStep

(* A task that has not begun. *)
LEMMA FreshStep == IInv /\ Next => Fresh'
  <1> SUFFICES ASSUME IInv, Next
               PROVE  Fresh'
    OBVIOUS
  <1> USE DEF IInv, TypeOK, Waiting, Calls, Fresh, SetUp, Stalled, goVars, taskVars,
        clientVars, history, Running
  <1>1. CASE Connect \/ Disconnect
    BY <1>1 DEF Connect, Disconnect
  <1>2. CASE UserStep
    BY <1>2, UserMoves DEF Disconnecting
  <1>3. CASE NewTask \/ LoopEnds \/ Slept
    BY <1>3 DEF NewTask, LoopEnds, Slept
  <1>4. CASE SetUpStep
    BY <1>4 DEF SetUpStep, Create, AssignPeer, Register, SetupListeners,
        ConnectServer
  <1>5. CASE Succeeds \/ PeerFails
    BY <1>5 DEF Succeeds, PeerFails
  <1>6. CASE ServerFails
    BY <1>6 DEF ServerFails
  <1>7. CASE ConnectionFails
    BY <1>7 DEF ConnectionFails
  <1>8. CASE ServerFailed
    BY <1>8, LoopDisconnects DEF Disconnecting
  <1>9. CASE LoopCloses
    BY <1>9 DEF LoopCloses, CloseSocket
  <1>10. CASE LoopDrops
    BY <1>10 DEF LoopDrops
  <1>11. CASE Dial
    BY <1>11, DialMoves DEF Dial
  <1>12. CASE ReaderSteps \/ SenderStep \/ Candidate \/ SendCandidate
    BY <1>12, ClientMoves
  <1>13. CASE WireEnds \/ RtcConnects \/ RtcFails
    BY <1>13, NetworkMoves
  <1> QED
    BY <1>1, <1>2, <1>3, <1>4, <1>5, <1>6, <1>7, <1>8, <1>9, <1>10, <1>11,
        <1>12, <1>13 DEF Next, LoopStep, AttemptStep

(* A client that dials has no socket yet. *)
LEMMA DialingStep == IInv /\ Next => Dialing'
  <1> SUFFICES ASSUME IInv, Next
               PROVE  Dialing'
    OBVIOUS
  <1> USE DEF IInv, TypeOK, Waiting, Fresh, SetUp, Dialing, goVars, taskVars,
        clientVars, history, Running
  <1>1. CASE Connect \/ Disconnect
    BY <1>1 DEF Connect, Disconnect
  <1>2. CASE UserStep
    BY <1>2, UserMoves DEF Disconnecting
  <1>3. CASE NewTask \/ LoopEnds \/ Slept
    BY <1>3 DEF NewTask, LoopEnds, Slept
  <1>4. CASE SetUpStep
    BY <1>4 DEF SetUpStep, Create, AssignPeer, Register, SetupListeners,
        ConnectServer
  <1>5. CASE Succeeds \/ PeerFails
    BY <1>5 DEF Succeeds, PeerFails
  <1>6. CASE ServerFails
    BY <1>6 DEF ServerFails
  <1>7. CASE ConnectionFails
    BY <1>7 DEF ConnectionFails
  <1>8. CASE ServerFailed
    BY <1>8, LoopDisconnects DEF Disconnecting
  <1>9. CASE LoopCloses
    BY <1>9 DEF LoopCloses, CloseSocket
  <1>10. CASE LoopDrops
    BY <1>10 DEF LoopDrops
  <1>11. CASE Dial
    BY <1>11, DialMoves DEF Dial
  <1>12. CASE ReaderSteps \/ SenderStep \/ Candidate \/ SendCandidate
    BY <1>12, ClientMoves
  <1>13. CASE WireEnds \/ RtcConnects \/ RtcFails
    BY <1>13, NetworkMoves
  <1> QED
    BY <1>1, <1>2, <1>3, <1>4, <1>5, <1>6, <1>7, <1>8, <1>9, <1>10, <1>11,
        <1>12, <1>13 DEF Next, LoopStep, AttemptStep

(* A connected task has no client. *)
LEMMA LetGoStep == IInv /\ Next => LetGo'
  <1> SUFFICES ASSUME IInv, Next
               PROVE  LetGo'
    OBVIOUS
  <1> USE NoneRuns DEF IInv, TypeOK, Waiting, Calls, SetUp, LetGo, goVars, taskVars,
        clientVars, history, Running
  <1>1. CASE Connect \/ Disconnect
    BY <1>1 DEF Connect, Disconnect
  <1>2. CASE UserStep
    <2>1. UNCHANGED <<loop, calledAt>>
      BY <1>2, UserMoves
    <2>2. ~server => ~server'
      BY <1>2, UserMoves DEF Disconnecting
    <2>3. ~server /\ user # "close" => user' \notin {"close", "drop"}
      BY <1>2, UserMoves DEF Disconnecting
    <2>4. user' = "rtc" => peer'
      BY <1>2, UserMoves DEF Disconnecting
    <2> QED
      BY <2>1, <2>2, <2>3, <2>4
  <1>3. CASE NewTask \/ LoopEnds \/ Slept
    BY <1>3 DEF NewTask, LoopEnds, Slept
  <1>4. CASE SetUpStep
    BY <1>4 DEF SetUpStep, Create, AssignPeer, Register, SetupListeners,
        ConnectServer
  <1>5. CASE Succeeds \/ PeerFails
    BY <1>5 DEF Succeeds, PeerFails
  <1>6. CASE ServerFails
    BY <1>6 DEF ServerFails
  <1>7. CASE ConnectionFails
    BY <1>7 DEF ConnectionFails
  <1>8. CASE ServerFailed
    BY <1>8, LoopDisconnects DEF Disconnecting
  <1>9. CASE LoopCloses
    BY <1>9 DEF LoopCloses, CloseSocket
  <1>10. CASE LoopDrops
    BY <1>10 DEF LoopDrops
  <1>11. CASE Dial
    BY <1>11, DialMoves DEF Dial
  <1>12. CASE ReaderSteps \/ SenderStep \/ Candidate \/ SendCandidate
    BY <1>12, ClientMoves
  <1>13. CASE WireEnds \/ RtcConnects \/ RtcFails
    BY <1>13, NetworkMoves
  <1> QED
    BY <1>1, <1>2, <1>3, <1>4, <1>5, <1>6, <1>7, <1>8, <1>9, <1>10, <1>11,
        <1>12, <1>13 DEF Next, LoopStep, AttemptStep

(* Whoever gives up the client has closed it; the other finds it so. *)
LEMMA ClosedFirstStep == IInv /\ Next => ClosedFirst'
  <1> SUFFICES ASSUME IInv, Next
               PROVE  ClosedFirst'
    OBVIOUS
  <1> USE NoneRuns DEF IInv, TypeOK, Waiting, Calls, Fresh, Dialing,
        SetUp, Undisturbed, ClosedFirst, Closed, LoopPastClose, Stalled, goVars, taskVars,
        clientVars, history, Running
  <1>1. CASE Connect \/ Disconnect
    BY <1>1 DEF Connect, Disconnect
  <1>2. CASE UserStep
    BY <1>2, UserMoves DEF Disconnecting
  <1>3. CASE NewTask \/ LoopEnds \/ Slept
    BY <1>3 DEF NewTask, LoopEnds, Slept
  <1>4. CASE SetUpStep
    BY <1>4 DEF SetUpStep, Create, AssignPeer, Register, SetupListeners,
        ConnectServer
  <1>5. CASE Succeeds \/ PeerFails
    BY <1>5 DEF Succeeds, PeerFails
  <1>6. CASE ServerFails
    BY <1>6 DEF ServerFails
  <1>7. CASE ConnectionFails
    BY <1>7 DEF ConnectionFails
  <1>8. CASE ServerFailed
    BY <1>8, LoopDisconnects DEF Disconnecting
  <1>9. CASE LoopCloses
    BY <1>9 DEF LoopCloses, CloseSocket
  <1>10. CASE LoopDrops
    BY <1>10 DEF LoopDrops
  <1>11. CASE Dial
    BY <1>11, DialMoves DEF Dial
  <1>12. CASE ReaderSteps \/ SenderStep \/ Candidate \/ SendCandidate
    BY <1>12, ClientMoves
  <1>13. CASE WireEnds \/ RtcConnects \/ RtcFails
    BY <1>13, NetworkMoves
  <1> QED
    BY <1>1, <1>2, <1>3, <1>4, <1>5, <1>6, <1>7, <1>8, <1>9, <1>10, <1>11,
        <1>12, <1>13 DEF Next, LoopStep, AttemptStep

(* An attempt that the user leaves alone has what it uses. *)
LEMMA UndisturbedStep == IInv /\ Next => Undisturbed'
  <1> SUFFICES ASSUME IInv, Next
               PROVE  Undisturbed'
    OBVIOUS
  <1> USE DEF IInv, TypeOK, Waiting, Calls, Fresh, SetUp, Undisturbed, LoopHolds,
        Idling, goVars, taskVars, clientVars, history, Running
  <1>1. CASE Connect \/ Disconnect
    BY <1>1 DEF Connect, Disconnect
  <1>2. CASE UserStep
    BY <1>2, UserMoves DEF Disconnecting
  <1>3. CASE NewTask \/ LoopEnds \/ Slept
    BY <1>3 DEF NewTask, LoopEnds, Slept
  <1>4. CASE SetUpStep
    BY <1>4 DEF SetUpStep, Create, AssignPeer, Register, SetupListeners,
        ConnectServer
  <1>5. CASE Succeeds \/ PeerFails
    BY <1>5 DEF Succeeds, PeerFails
  <1>6. CASE ServerFails
    BY <1>6 DEF ServerFails
  <1>7. CASE ConnectionFails
    BY <1>7 DEF ConnectionFails
  <1>8. CASE ServerFailed
    BY <1>8, LoopDisconnects DEF Disconnecting
  <1>9. CASE LoopCloses
    BY <1>9 DEF LoopCloses, CloseSocket
  <1>10. CASE LoopDrops
    BY <1>10 DEF LoopDrops
  <1>11. CASE Dial
    BY <1>11, DialMoves DEF Dial
  <1>12. CASE ReaderSteps \/ SenderStep \/ Candidate \/ SendCandidate
    BY <1>12, ClientMoves
  <1>13. CASE WireEnds \/ RtcConnects \/ RtcFails
    BY <1>13, NetworkMoves
  <1> QED
    BY <1>1, <1>2, <1>3, <1>4, <1>5, <1>6, <1>7, <1>8, <1>9, <1>10, <1>11,
        <1>12, <1>13 DEF Next, LoopStep, AttemptStep

(* The panics of the loop and of the user. *)
LEMMA PanicFreeStep == IInv /\ Next => PanicFree'
  <1> SUFFICES ASSUME IInv, Next
               PROVE  PanicFree'
    OBVIOUS
  <1> USE NoneRuns DEF IInv, TypeOK, Waiting, Calls, SetUp, LetGo, Undisturbed,
        LoopHolds, Idling, PanicFree, goVars, taskVars, clientVars, history,
        Running
  <1>1. CASE Connect \/ Disconnect
    BY <1>1 DEF Connect, Disconnect
  <1>2. CASE UserStep
    BY <1>2, UserMoves DEF Disconnecting
  <1>3. CASE NewTask \/ LoopEnds \/ Slept
    BY <1>3 DEF NewTask, LoopEnds, Slept
  <1>4. CASE SetUpStep
    BY <1>4 DEF SetUpStep, Create, AssignPeer, Register, SetupListeners,
        ConnectServer
  <1>5. CASE Succeeds \/ PeerFails
    BY <1>5 DEF Succeeds, PeerFails
  <1>6. CASE ServerFails
    BY <1>6 DEF ServerFails
  <1>7. CASE ConnectionFails
    BY <1>7 DEF ConnectionFails
  <1>8. CASE ServerFailed
    BY <1>8, LoopDisconnects DEF Disconnecting
  <1>9. CASE LoopCloses
    BY <1>9 DEF LoopCloses, CloseSocket
  <1>10. CASE LoopDrops
    BY <1>10 DEF LoopDrops
  <1>11. CASE Dial
    BY <1>11, DialMoves DEF Dial
  <1>12. CASE ReaderSteps \/ SenderStep \/ Candidate \/ SendCandidate
    BY <1>12, ClientMoves
  <1>13. CASE WireEnds \/ RtcConnects \/ RtcFails
    BY <1>13, NetworkMoves
  <1> QED
    BY <1>1, <1>2, <1>3, <1>4, <1>5, <1>6, <1>7, <1>8, <1>9, <1>10, <1>11,
        <1>12, <1>13 DEF Next, LoopStep, AttemptStep

-----------------------------------------------------------------------------
(* The theorems. *)

LEMMA InitInv == Init => IInv
  <1> SUFFICES ASSUME Init
               PROVE  IInv
    OBVIOUS
  <1> USE NoneRuns DEF Init
  <1>1. TypeOK
    BY States DEF TypeOK
  <1>2. Waiting /\ Calls /\ LoopPanics /\ Fresh /\ Dialing /\ LetGo
    BY DEF Waiting, Calls, LoopPanics, Fresh, Dialing, LetGo
  <1>3. ClosedFirst /\ Undisturbed /\ PanicFree
    BY DEF ClosedFirst, Undisturbed, LoopHolds, Idling, PanicFree
  <1> QED
    BY <1>1, <1>2, <1>3 DEF IInv

LEMMA NextInv == IInv /\ Next => IInv'
  <1> SUFFICES ASSUME IInv, Next
               PROVE  IInv'
    OBVIOUS
  <1>1. TypeOK'
    BY TypeStep DEF IInv
  <1> QED
    BY <1>1, WaitingStep, CallsStep, LoopPanicsStep, FreshStep, DialingStep,
       LetGoStep, ClosedFirstStep, UndisturbedStep, PanicFreeStep DEF IInv

LEMMA StutterInv == IInv /\ UNCHANGED vars => IInv'
  <1> SUFFICES ASSUME IInv, UNCHANGED vars
               PROVE  IInv'
    OBVIOUS
  <1> USE DEF IInv, vars, goVars, taskVars, clientVars, history
  <1>1. TypeOK'
    BY DEF TypeOK
  <1>2. (Waiting /\ Calls /\ LoopPanics /\ Fresh /\ Dialing /\ LetGo)'
    BY DEF Waiting, Calls, LoopPanics, Fresh, Dialing, LetGo
  <1>3. (ClosedFirst /\ Undisturbed /\ PanicFree)'
    BY DEF ClosedFirst, Closed, LoopPastClose, Undisturbed, LoopHolds,
        Idling, PanicFree
  <1> QED
    BY <1>1, <1>2, <1>3

(* What the goroutines of the Go peer can rely on of each other holds in   *)
(* every reachable state, without a lock anywhere.                         *)
THEOREM Inductive == Spec => []IInv
  <1>1. IInv /\ [Next]_vars => IInv'
    BY NextInv, StutterInv
  <1> QED
    BY InitInv, <1>1, PTL DEF Spec

(* Every variable keeps its type. *)
THEOREM TypeCorrect == Spec => []TypeOK
  <1>1. IInv => TypeOK
    BY DEF IInv
  <1> QED
    BY Inductive, <1>1, PTL

(* An attempt that is over has left nothing with the signalling server,    *)
(* however the loop and a Disconnect closed its client: unless that came   *)
(* while the attempt was set up.                                           *)
THEOREM SessionClosedHolds == Spec => []SessionClosed
  <1>1. IInv => SessionClosed
    BY DEF IInv, SessionClosed, ClosedFirst, Closed, LoopPastClose, LoopPanics
  <1> QED
    BY Inductive, <1>1, PTL

(* AttemptConnect uses a nil pointer only after a dial that failed or      *)
(* under a Disconnect in the course of the attempt; a Disconnect of an     *)
(* established connection never does.                                      *)
THEOREM PanicFreeHolds == Spec => []PanicFree
  <1>1. IInv => PanicFree
    BY DEF IInv
  <1> QED
    BY Inductive, <1>1, PTL
=============================================================================
