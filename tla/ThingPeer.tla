------------------------------- MODULE ThingPeer -------------------------------
(***************************************************************************)
(* The web library's ThingPeer: its connect loops, and the PeerTasks each  *)
(* of them runs, one per attempt to connect, with the task's websocket to  *)
(* the signalling server and its RTCPeerConnection.                        *)
(*                                                                         *)
(* Each call of connect starts a loop.  Everything runs on one event loop: *)
(* an action is a call by the application, a timer, or an event of a       *)
(* socket or peer connection with all of its listeners.  Resume is the     *)
(* microtask in which a loop continues whose task has ended: timers and    *)
(* events wait until none is pending (Quiet), calls by the application may *)
(* come first.                                                             *)
(*                                                                         *)
(* What peers say to each other through the socket is in Negotiation.      *)
(***************************************************************************)
EXTENDS Naturals

CONSTANTS
    Loop,      \* loops of connect; bound on those that run at a time
    Task,      \* attempts, used again when nothing of them is left
    Channel,   \* data channels, other than the default one
    NONE

ASSUME NoneAssumption == NONE \notin Task

VARIABLES
    connected,   \* ThingPeer.connected
    auto,        \* ThingPeer.autoReconnect
    active,      \* ThingPeer.peerTasks, or NONE
    at,          \* where each loop is
    cur,         \* the task whose end each loop awaits, or NONE
    sock,        \* the websocket of each task
    rtc,         \* connectionState of each task's peer connection
    resolved,    \* tasks whose promise is resolved
    opening,     \* data channels of each task that are not open yet
    listed,      \* dataChannels of each task
    told,        \* the connection state the application was last told
    hasty        \* history: see Disconnect and Connect

loopVars == <<at, cur>>
socketVars == <<sock, rtc, resolved>>
channelVars == <<opening, listed>>

vars == <<connected, auto, active, loopVars, socketVars, channelVars,
          told, hasty>>

(* "failing" is a socket closed before it was open, "closing" one that was *)
(* open.  The peer connection is "new" until it connects or fails.         *)
SocketState == {"none", "connecting", "open", "closing", "failing", "closed"}
RtcState == {"none", "new", "connected", "closed"}

Alive(t) == rtc[t] \in {"new", "connected"}

Init ==
    /\ connected = FALSE
    /\ auto \in BOOLEAN
    /\ active = NONE
    /\ at = [l \in Loop |-> "idle"]
    /\ cur = [l \in Loop |-> NONE]
    /\ sock = [t \in Task |-> "none"]
    /\ rtc = [t \in Task |-> "none"]
    /\ resolved = {}
    /\ opening = [t \in Task |-> {}]
    /\ listed = [t \in Task |-> {}]
    /\ told = "disconnected"
    /\ hasty = FALSE

Resumable(l) == at[l] = "attempting" /\ cur[l] \in resolved
Quiet == \A l \in Loop : ~Resumable(l)

-----------------------------------------------------------------------------
(* PeerTasks *)

(* websocket.close: a handshake that is under way fails. *)
Hangup(s) ==
    CASE s = "connecting" -> "failing"
      [] s = "open"       -> "closing"
      [] OTHER            -> s

(* Both connections of a task are closed, which leaves its socket in state *)
(* s.  A channel that was opening never will.                              *)
Down(t, s) ==
    /\ sock' = [sock EXCEPT ![t] = s]
    /\ rtc' = [rtc EXCEPT ![t] = "closed"]
    /\ opening' = [opening EXCEPT ![t] = {}]

(* Mutant: the application is not told. *)
ShutSilently(t, s) ==
    /\ Down(t, s)
    /\ resolved' = resolved \union {t}
    /\ listed' = [listed EXCEPT ![t] = {}]
    /\ UNCHANGED told

(* Mutant: the list of data channels is kept. *)
ShutKeepingChannels(t, s) ==
    /\ Down(t, s)
    /\ resolved' = resolved \union {t}
    /\ told' = "disconnected"
    /\ UNCHANGED listed

(* Mutant: those who await connect are not told. *)
ShutUnresolved(t, s) ==
    /\ Down(t, s)
    /\ listed' = [listed EXCEPT ![t] = {}]
    /\ told' = "disconnected"
    /\ UNCHANGED resolved

(* close. *)
Shut(t, s) ==
    /\ Down(t, s)
    /\ resolved' = resolved \union {t}
    /\ listed' = [listed EXCEPT ![t] = {}]
    /\ told' = "disconnected"

Close(t) == Shut(t, Hangup(sock[t]))

SocketOpens(t) ==
    /\ Quiet
    /\ sock[t] = "connecting"
    /\ sock' = [sock EXCEPT ![t] = "open"]
    /\ UNCHANGED <<connected, auto, active, loopVars, rtc, resolved,
                   channelVars, told, hasty>>

(* handleMessage throws: the signalling server is disconnected. *)
BadMessage(t) ==
    /\ Quiet
    /\ sock[t] = "open"
    /\ sock' = [sock EXCEPT ![t] = Hangup(@)]
    /\ UNCHANGED <<connected, auto, active, loopVars, rtc, resolved,
                   channelVars, told, hasty>>

(* The socket is closed: by either side, or because it failed, which fires *)
(* 'error' before 'close'.  The listener of 'error' closes the task, that  *)
(* of 'close' does unless the peer connection is connected.                *)
SocketEnds(t) ==
    /\ Quiet
    /\ sock[t] \in {"connecting", "open", "closing", "failing"}
    /\ \E error \in BOOLEAN :
          /\ sock[t] \in {"connecting", "failing"} => error
          /\ sock[t] = "closing" => ~error
          /\ IF error \/ rtc[t] # "connected"
             THEN Shut(t, "closed")
             ELSE /\ sock' = [sock EXCEPT ![t] = "closed"]
                  /\ UNCHANGED <<rtc, resolved, channelVars, told>>
    /\ UNCHANGED <<connected, auto, active, loopVars, hasty>>

(* Messages may have been exchanged with the peer. *)
Signalled(t) == sock[t] \in {"open", "closing"}

(* connectionstatechange to 'connected', once messages were exchanged. *)
RtcConnects(t) ==
    /\ Quiet
    /\ rtc[t] = "new"
    /\ Signalled(t)
    /\ rtc' = [rtc EXCEPT ![t] = "connected"]
    /\ sock' = [sock EXCEPT ![t] = Hangup(@)]
    /\ told' = "connected"
    /\ UNCHANGED <<connected, auto, active, loopVars, resolved, channelVars, hasty>>

(* ... to 'disconnected' or 'failed'. *)
RtcFails(t) ==
    /\ Quiet
    /\ rtc[t] = "connected" \/ (rtc[t] = "new" /\ Signalled(t))
    /\ Close(t)
    /\ UNCHANGED <<connected, auto, active, loopVars, hasty>>

(* A channel of ours is open, or the peer has created one. *)
ChannelOpens(t, d) ==
    /\ Quiet
    /\ rtc[t] = "connected"
    /\ \/ d \in opening[t]
       \/ \A s \in Task : d \notin opening[s] \union listed[s]
    /\ opening' = [opening EXCEPT ![t] = @ \ {d}]
    /\ listed' = [listed EXCEPT ![t] = @ \union {d}]
    /\ UNCHANGED <<connected, auto, active, loopVars, socketVars, told, hasty>>

-----------------------------------------------------------------------------
(* ThingPeer *)

(* Mutant: it connects again whether or not it is connected. *)
ConnectAlways(l) ==
    /\ at[l] = "idle"
    /\ connected' = TRUE
    /\ at' = [at EXCEPT ![l] = "scheduled"]
    /\ hasty' = (hasty \/ (~connected /\ \E m \in Loop : at[m] # "idle"))
    /\ UNCHANGED <<auto, active, cur, socketVars, channelVars, told>>

(* connect, unless it is connected already: a loop will start.             *)
(* History: hasty if an earlier loop has not come to its end.              *)
Connect(l) ==
    /\ ~connected
    /\ at[l] = "idle"
    /\ connected' = TRUE
    /\ at' = [at EXCEPT ![l] = "scheduled"]
    /\ hasty' = (hasty \/ \E m \in Loop : at[m] # "idle")
    /\ UNCHANGED <<auto, active, cur, socketVars, channelVars, told>>

(* A task of which nothing is left. *)
Free(t) == /\ sock[t] \in {"none", "closed"}
           /\ ~Alive(t)
           /\ t # active

(* The next attempt: a new task, its socket and peer connection. *)
Attempt(l, t) ==
    /\ Quiet
    /\ at[l] = "scheduled" \/ (at[l] = "waiting" /\ connected /\ auto)
    /\ Free(t)
    /\ active' = t
    /\ at' = [at EXCEPT ![l] = "attempting"]
    /\ cur' = [cur EXCEPT ![l] = t]
    /\ sock' = [sock EXCEPT ![t] = "connecting"]
    /\ rtc' = [rtc EXCEPT ![t] = "new"]
    /\ resolved' = resolved \ {t}
    /\ told' = "connecting"
    /\ UNCHANGED <<connected, auto, channelVars, hasty>>

(* The task the loop awaits has ended, and the active one is closed. *)
Resume(l) ==
    /\ Resumable(l)
    /\ Close(active)
    /\ at' = [at EXCEPT ![l] = "waiting"]
    /\ cur' = [cur EXCEPT ![l] = NONE]
    /\ UNCHANGED <<connected, auto, active, hasty>>

(* Mutant: the loop goes on until it is not to reconnect. *)
StopIfOnce(l) ==
    /\ Quiet
    /\ at[l] = "waiting"
    /\ ~auto
    /\ at' = [at EXCEPT ![l] = "idle"]
    /\ UNCHANGED <<connected, auto, active, cur, socketVars, channelVars,
                   told, hasty>>

(* The second after an attempt is over, and so is the loop. *)
Stop(l) ==
    /\ Quiet
    /\ at[l] = "waiting"
    /\ ~(connected /\ auto)
    /\ at' = [at EXCEPT ![l] = "idle"]
    /\ UNCHANGED <<connected, auto, active, cur, socketVars, channelVars,
                   told, hasty>>

(* createDataChannel, of a task that is not closed. *)
CreateChannel(d) ==
    /\ active # NONE
    /\ Alive(active)
    /\ \A t \in Task : d \notin opening[t] \union listed[t]
    /\ opening' = [opening EXCEPT ![active] = @ \union {d}]
    /\ UNCHANGED <<connected, auto, active, loopVars, socketVars, listed,
                   told, hasty>>

(* Mutant: only the flag is reset. *)
DisconnectLater ==
    /\ connected' = FALSE
    /\ hasty' = (hasty \/ \E l \in Loop : at[l] = "scheduled")
    /\ UNCHANGED <<auto, active, loopVars, socketVars, channelVars, told>>

(* disconnect: the active task, if there is one, is closed.                *)
(* History: hasty if the timer of connect has yet to fire.                 *)
Disconnect ==
    /\ IF active = NONE THEN UNCHANGED <<socketVars, channelVars, told>>
       ELSE Close(active)
    /\ connected' = FALSE
    /\ hasty' = (hasty \/ \E l \in Loop : at[l] = "scheduled")
    /\ UNCHANGED <<auto, active, loopVars>>

-----------------------------------------------------------------------------

TaskStep(t) ==
    \/ SocketOpens(t) \/ BadMessage(t) \/ SocketEnds(t)
    \/ RtcConnects(t) \/ RtcFails(t)
    \/ \E d \in Channel : ChannelOpens(t, d)

LoopStep(l) ==
    \/ Connect(l) \/ Resume(l) \/ Stop(l)
    \/ \E t \in Task : Attempt(l, t)

Next ==
    \/ \E t \in Task : TaskStep(t)
    \/ \E l \in Loop : LoopStep(l)
    \/ \E d \in Channel : CreateChannel(d)
    \/ Disconnect

Spec == Init /\ [][Next]_vars

(* Microtasks run, and then the timers and events that are due: SF, since  *)
(* a microtask may run first.  Sockets that were closed end, those that    *)
(* are opened open or fail, and those that are open end when the server's  *)
(* session timeout has passed.                                             *)
Fairness ==
    /\ \A l \in Loop : /\ WF_vars(Resume(l))
                       /\ SF_vars(Stop(l) \/ \E t \in Task : Attempt(l, t))
    /\ \A t \in Task : SF_vars(SocketEnds(t))

FairSpec == Spec /\ Fairness

-----------------------------------------------------------------------------
(* Properties. *)

(* The type of every variable. *)
TypeOK ==
    /\ connected \in BOOLEAN
    /\ auto \in BOOLEAN
    /\ active \in Task \union {NONE}
    /\ at \in [Loop -> {"idle", "scheduled", "attempting", "waiting"}]
    /\ cur \in [Loop -> Task \union {NONE}]
    /\ \A l \in Loop : cur[l] # NONE <=> at[l] = "attempting"
    /\ sock \in [Task -> SocketState]
    /\ rtc \in [Task -> RtcState]
    /\ resolved \subseteq Task
    /\ opening \in [Task -> SUBSET Channel]
    /\ listed \in [Task -> SUBSET Channel]
    /\ told \in {"disconnected", "connecting", "connected"}
    /\ hasty \in BOOLEAN

(* An application that is told of a state other than 'disconnected' has    *)
(* a task in that state, however many loops and old sockets there are.     *)
ToldOfTask ==
    /\ told = "connected" => \E t \in Task : rtc[t] = "connected"
    /\ told = "connecting" => \E t \in Task : rtc[t] = "new"

(* Calls of connect and disconnect that leave each other time run one task *)
(* at a time, which is the one that a disconnect closes.                   *)
OneTask == ~hasty => \A t \in Task : Alive(t) => t = active

(* A disconnect is final: until the next connect nothing is left that      *)
(* connects or is connected.                                               *)
DisconnectFinal == ~hasty /\ ~connected => \A t \in Task : ~Alive(t)

(* A peer that reconnects never claims to be connected, so that connect    *)
(* does nothing, while no loop of it is running.                           *)
NeverIdle == connected /\ auto => \E l \in Loop : at[l] # "idle"

(* The data channels the application can list are those of a connection    *)
(* that stands, and each belongs to one task.                              *)
ListedOpen ==
    \A t \in Task :
        /\ listed[t] # {} => rtc[t] = "connected"
        /\ \A s \in Task \ {t} : listed[s] \intersect listed[t] = {}

(* The inductive invariant of the proofs.  Its conjuncts, besides the       *)
(* types: a loop that awaits a task has made it active or another one      *)
(* since; then what holds until the application is hasty: one loop runs,   *)
(* the task that is alive is the active one, which that loop awaits, and   *)
(* nothing is scheduled or alive unless connected.                         *)
AwaitedActive == \A l \in Loop : cur[l] # NONE => active # NONE

OneLoop == \A l, m \in Loop : at[l] # "idle" /\ at[m] # "idle" => l = m

AliveAwaited ==
    \A t \in Task : Alive(t) =>
        /\ t = active
        /\ connected
        /\ \E l \in Loop : cur[l] = t

ScheduledConnected == \A l \in Loop : at[l] = "scheduled" => connected

(* Channels belong to one task, whether they are open or opening. *)
ChannelsApart ==
    \A s, t \in Task :
        s # t => (opening[s] \union listed[s]) \intersect
                     (opening[t] \union listed[t]) = {}

IInv ==
    /\ TypeOK
    /\ AwaitedActive
    /\ ~hasty => OneLoop /\ AliveAwaited /\ ScheduledConnected
    /\ NeverIdle
    /\ ToldOfTask
    /\ ListedOpen
    /\ ChannelsApart

(* Every attempt ends or connects, whatever happens to its socket. *)
AttemptSettles ==
    \A l \in Loop :
        at[l] = "attempting" ~>
            at[l] = "waiting" \/ (cur[l] # NONE /\ rtc[cur[l]] = "connected")

(* After a disconnect all loops end, unless connect is called again. *)
LoopsEnd ==
    ~connected ~> connected \/ hasty \/ \A l \in Loop : at[l] = "idle"

=============================================================================
