---------------------------- MODULE ThingPeerProofs ----------------------------
(***************************************************************************)
(* Theorems about ThingPeer, for any numbers of loops, tasks and channels. *)
(***************************************************************************)
EXTENDS ThingPeer, TLAPS

(* What the application does to a task, and what it leaves of the others. *)
LEMMA ShutType ==
    ASSUME TypeOK, NEW t \in Task, NEW s \in SocketState, Shut(t, s)
    PROVE  /\ sock' \in [Task -> SocketState]
           /\ rtc' \in [Task -> RtcState]
           /\ resolved' \subseteq Task
           /\ opening' \in [Task -> SUBSET Channel]
           /\ listed' \in [Task -> SUBSET Channel]
           /\ told' = "disconnected"
  BY DEF TypeOK, Shut, Down, RtcState

LEMMA HangupType ==
    ASSUME NEW s \in SocketState
    PROVE  Hangup(s) \in SocketState
  BY DEF Hangup, SocketState

(* Every step keeps the types. *)
LEMMA TypeStep ==
    ASSUME TypeOK, AwaitedActive, Next
    PROVE  TypeOK' /\ AwaitedActive'
  <1> USE NoneAssumption DEF TypeOK, loopVars, socketVars, channelVars
  <1>1. ASSUME NEW t \in Task, TaskStep(t) PROVE TypeOK' /\ AwaitedActive'
    <2>0. \A s \in Task : sock[s] \in SocketState /\ Hangup(sock[s]) \in SocketState
      BY HangupType
    <2>1. CASE SocketOpens(t)
      BY <2>1 DEF SocketOpens, SocketState, AwaitedActive
    <2>2. CASE BadMessage(t)
      BY <2>2, <2>0 DEF BadMessage, AwaitedActive
    <2>3. CASE SocketEnds(t)
      <3>1. UNCHANGED <<connected, auto, active, at, cur, hasty>>
        BY <2>3 DEF SocketEnds
      <3>2. \/ Shut(t, "closed")
            \/ /\ sock' = [sock EXCEPT ![t] = "closed"]
               /\ UNCHANGED <<rtc, resolved, opening, listed, told>>
        BY <2>3 DEF SocketEnds
      <3>3. "closed" \in SocketState
        BY DEF SocketState
      <3>4. /\ sock' \in [Task -> SocketState]
            /\ rtc' \in [Task -> RtcState]
            /\ resolved' \subseteq Task
            /\ opening' \in [Task -> SUBSET Channel]
            /\ listed' \in [Task -> SUBSET Channel]
            /\ told' \in {"disconnected", "connecting", "connected"}
        BY <3>2, <3>3, ShutType
      <3> QED
        BY <3>1, <3>4 DEF AwaitedActive
    <2>4. CASE RtcConnects(t)
      BY <2>4, <2>0 DEF RtcConnects, RtcState, AwaitedActive
    <2>5. CASE RtcFails(t)
      <3>1. Shut(t, Hangup(sock[t]))
        BY <2>5 DEF RtcFails, Close
      <3>2. UNCHANGED <<connected, auto, active, at, cur, hasty>>
        BY <2>5 DEF RtcFails
      <3> QED
        BY <3>1, <3>2, <2>0, ShutType DEF AwaitedActive
    <2>6. ASSUME NEW d \in Channel, ChannelOpens(t, d)
          PROVE  TypeOK' /\ AwaitedActive'
      BY <2>6 DEF ChannelOpens, AwaitedActive
    <2> QED
      BY <1>1, <2>1, <2>2, <2>3, <2>4, <2>5, <2>6 DEF TaskStep
  <1>2. ASSUME NEW l \in Loop, LoopStep(l) PROVE TypeOK' /\ AwaitedActive'
    <2>1. CASE Connect(l)
      BY <2>1 DEF Connect, AwaitedActive
    <2>2. CASE Resume(l)
      <3>1. active \in Task /\ Hangup(sock[active]) \in SocketState
        BY <2>2, HangupType DEF Resume, Resumable, AwaitedActive
      <3>2. Shut(active, Hangup(sock[active]))
        BY <2>2 DEF Resume, Close
      <3>3. /\ UNCHANGED <<connected, auto, active, hasty>>
            /\ at' = [at EXCEPT ![l] = "waiting"]
            /\ cur' = [cur EXCEPT ![l] = NONE]
        BY <2>2 DEF Resume
      <3> QED
        BY <3>1, <3>2, <3>3, ShutType DEF AwaitedActive
    <2>3. CASE Stop(l)
      BY <2>3 DEF Stop, AwaitedActive
    <2>4. ASSUME NEW t \in Task, Attempt(l, t) PROVE TypeOK' /\ AwaitedActive'
      BY <2>4 DEF Attempt, SocketState, RtcState, AwaitedActive
    <2> QED
      BY <1>2, <2>1, <2>2, <2>3, <2>4 DEF LoopStep
  <1>3. ASSUME NEW d \in Channel, CreateChannel(d) PROVE TypeOK' /\ AwaitedActive'
    BY <1>3 DEF CreateChannel, AwaitedActive
  <1>4. CASE Disconnect
    <2>1. CASE active = NONE
      BY <1>4, <2>1 DEF Disconnect, AwaitedActive
    <2>2. CASE active # NONE
      <3>1. active \in Task /\ Hangup(sock[active]) \in SocketState
        BY <2>2, HangupType
      <3>2. Shut(active, Hangup(sock[active]))
        BY <1>4, <2>2 DEF Disconnect, Close
      <3>3. /\ UNCHANGED <<auto, active, at, cur>>
            /\ connected' = FALSE
            /\ hasty' \in BOOLEAN
        BY <1>4 DEF Disconnect
      <3> QED
        BY <3>1, <3>2, <3>3, ShutType DEF AwaitedActive
    <2> QED
      BY <2>1, <2>2
  <1> QED
    BY <1>1, <1>2, <1>3, <1>4 DEF Next

-----------------------------------------------------------------------------
(* How a step changes the connections of the tasks. *)

(* Shut closes one task. *)
ShutOnly(t) ==
    /\ rtc' = [rtc EXCEPT ![t] = "closed"]
    /\ opening' = [opening EXCEPT ![t] = {}]
    /\ listed' = [listed EXCEPT ![t] = {}]
    /\ told' = "disconnected"

LEMMA ShutCloses ==
    ASSUME NEW t, NEW s, Shut(t, s)
    PROVE  ShutOnly(t)
  BY DEF Shut, Down, ShutOnly

(* An event of a task closes it, connects it, or leaves its peer           *)
(* connection, its channels and the application as they are, or opens a    *)
(* channel.                                                                *)
LEMMA TaskEffect ==
    ASSUME NEW t \in Task, TaskStep(t)
    PROVE  /\ UNCHANGED <<connected, auto, active, at, cur, hasty>>
           /\ \/ ShutOnly(t)
              \/ UNCHANGED <<rtc, opening, listed, told>>
              \/ /\ rtc[t] = "new"
                 /\ rtc' = [rtc EXCEPT ![t] = "connected"]
                 /\ told' = "connected"
                 /\ UNCHANGED <<opening, listed>>
              \/ \E d \in Channel :
                   /\ rtc[t] = "connected"
                   /\ \/ d \in opening[t]
                      \/ \A s \in Task : d \notin opening[s] \union listed[s]
                   /\ opening' = [opening EXCEPT ![t] = @ \ {d}]
                   /\ listed' = [listed EXCEPT ![t] = @ \union {d}]
                   /\ UNCHANGED <<rtc, told>>
  <1> USE DEF loopVars, socketVars, channelVars
  <1>1. CASE SocketOpens(t)
    BY <1>1 DEF SocketOpens
  <1>2. CASE BadMessage(t)
    BY <1>2 DEF BadMessage
  <1>3. CASE SocketEnds(t)
    BY <1>3, ShutCloses DEF SocketEnds
  <1>4. CASE RtcConnects(t)
    BY <1>4 DEF RtcConnects
  <1>5. CASE RtcFails(t)
    BY <1>5, ShutCloses DEF RtcFails, Close
  <1>6. ASSUME NEW d \in Channel, ChannelOpens(t, d)
        PROVE  /\ UNCHANGED <<connected, auto, active, at, cur, hasty>>
               /\ rtc[t] = "connected"
               /\ \/ d \in opening[t]
                  \/ \A s \in Task : d \notin opening[s] \union listed[s]
               /\ opening' = [opening EXCEPT ![t] = @ \ {d}]
               /\ listed' = [listed EXCEPT ![t] = @ \union {d}]
               /\ UNCHANGED <<rtc, told>>
    BY <1>6 DEF ChannelOpens
  <1> QED
    BY <1>1, <1>2, <1>3, <1>4, <1>5, <1>6 DEF TaskStep

LEMMA ResumeEffect ==
    ASSUME NEW l, Resume(l)
    PROVE  /\ ShutOnly(active)
           /\ at[l] = "attempting"
           /\ at' = [at EXCEPT ![l] = "waiting"]
           /\ cur' = [cur EXCEPT ![l] = NONE]
           /\ UNCHANGED <<connected, auto, active, hasty>>
  BY ShutCloses DEF Resume, Resumable, Close

LEMMA DisconnectEffect ==
    ASSUME Disconnect
    PROVE  /\ \/ active = NONE /\ UNCHANGED <<rtc, opening, listed, told>>
              \/ active # NONE /\ ShutOnly(active)
           /\ connected' = FALSE
           /\ hasty' = (hasty \/ \E l \in Loop : at[l] = "scheduled")
           /\ UNCHANGED <<auto, active, at, cur>>
  BY ShutCloses DEF Disconnect, Close, loopVars, socketVars, channelVars

-----------------------------------------------------------------------------
(* The conjuncts of the invariant, one by one. *)

(* A peer that reconnects has a loop. *)
LEMMA NeverIdleStep ==
    ASSUME TypeOK, NeverIdle, Next
    PROVE  NeverIdle'
  <1> USE DEF NeverIdle
  <1>1. ASSUME NEW t \in Task, TaskStep(t) PROVE NeverIdle'
    BY <1>1, TaskEffect
  <1>2. ASSUME NEW l \in Loop, Connect(l) \/ Resume(l) \/ \E t \in Task : Attempt(l, t)
        PROVE  NeverIdle'
    <2>1. at'[l] # "idle"
      BY <1>2 DEF Connect, Resume, Attempt, TypeOK
    <2> QED
      BY <2>1
  <1>3. ASSUME NEW l \in Loop, Stop(l) PROVE NeverIdle'
    BY <1>3 DEF Stop
  <1>4. ASSUME NEW d \in Channel, CreateChannel(d) PROVE NeverIdle'
    BY <1>4 DEF CreateChannel, loopVars
  <1>5. CASE Disconnect
    BY <1>5 DEF Disconnect
  <1> QED
    BY <1>1, <1>2, <1>3, <1>4, <1>5 DEF Next, LoopStep

(* The application is told of the tasks that there are. *)
LEMMA ToldStep ==
    ASSUME TypeOK, ToldOfTask, Next
    PROVE  ToldOfTask'
  <1> USE DEF ToldOfTask, TypeOK
  <1>1. ASSUME NEW t \in Task, TaskStep(t) PROVE ToldOfTask'
    BY <1>1, TaskEffect DEF ShutOnly
  <1>2. ASSUME NEW l \in Loop, Connect(l) \/ Stop(l) PROVE ToldOfTask'
    BY <1>2 DEF Connect, Stop, socketVars
  <1>3. ASSUME NEW l \in Loop, Resume(l) PROVE ToldOfTask'
    BY <1>3, ResumeEffect DEF ShutOnly
  <1>4. ASSUME NEW l \in Loop, NEW t \in Task, Attempt(l, t) PROVE ToldOfTask'
    BY <1>4 DEF Attempt
  <1>5. ASSUME NEW d \in Channel, CreateChannel(d) PROVE ToldOfTask'
    BY <1>5 DEF CreateChannel, socketVars
  <1>6. CASE Disconnect
    BY <1>6, DisconnectEffect DEF ShutOnly
  <1> QED
    BY <1>1, <1>2, <1>3, <1>4, <1>5, <1>6 DEF Next, LoopStep

(* Closing one task takes nothing from the lists of the others. *)
LEMMA ShutKeepsChannels ==
    ASSUME TypeOK, ListedOpen, ChannelsApart, NEW t \in Task, ShutOnly(t)
    PROVE  ListedOpen' /\ ChannelsApart'
  BY DEF TypeOK, ListedOpen, ChannelsApart, ShutOnly

(* Channels stay with the task that opened them. *)
LEMMA ChannelsStep ==
    ASSUME TypeOK, AwaitedActive, ListedOpen, ChannelsApart, Next
    PROVE  ListedOpen' /\ ChannelsApart'
  <1> USE DEF TypeOK, ListedOpen, ChannelsApart
  <1>1. ASSUME NEW t \in Task, TaskStep(t) PROVE ListedOpen' /\ ChannelsApart'
    <2>1. CASE ShutOnly(t)
      BY <2>1, ShutKeepsChannels
    <2>2. CASE UNCHANGED <<rtc, opening, listed>>
      BY <2>2
    <2>3. CASE /\ rtc' = [rtc EXCEPT ![t] = "connected"]
               /\ UNCHANGED <<opening, listed>>
      BY <2>3
    <2>4. ASSUME NEW d \in Channel,
                 rtc[t] = "connected",
                 \/ d \in opening[t]
                 \/ \A s \in Task : d \notin opening[s] \union listed[s],
                 opening' = [opening EXCEPT ![t] = @ \ {d}],
                 listed' = [listed EXCEPT ![t] = @ \union {d}],
                 UNCHANGED rtc
          PROVE  ListedOpen' /\ ChannelsApart'
      <3>1. \A s \in Task \ {t} : d \notin opening[s] \union listed[s]
        BY <2>4
      <3>2. \A s \in Task :
               opening'[s] \union listed'[s] =
                   IF s = t THEN opening[s] \union listed[s] \union {d}
                            ELSE opening[s] \union listed[s]
        BY <2>4
      <3>3. ChannelsApart'
        BY <3>1, <3>2
      <3>4. \A s \in Task : listed'[s] \subseteq opening'[s] \union listed'[s]
        OBVIOUS
      <3>5. ListedOpen'
        BY <2>4, <3>3, <3>4
      <3> QED
        BY <3>3, <3>5
    <2> QED
      BY <1>1, <2>1, <2>2, <2>3, <2>4, TaskEffect
  <1>2. ASSUME NEW l \in Loop, Connect(l) \/ Stop(l)
        PROVE  ListedOpen' /\ ChannelsApart'
    BY <1>2 DEF Connect, Stop, socketVars, channelVars
  <1>3. ASSUME NEW l \in Loop, Resume(l) PROVE ListedOpen' /\ ChannelsApart'
    <2>1. active \in Task
      BY <1>3 DEF Resume, Resumable, AwaitedActive
    <2> QED
      BY <1>3, <2>1, ResumeEffect, ShutKeepsChannels
  <1>4. ASSUME NEW l \in Loop, NEW t \in Task, Attempt(l, t)
        PROVE  ListedOpen' /\ ChannelsApart'
    BY <1>4 DEF Attempt, Free, Alive, channelVars
  <1>5. ASSUME NEW d \in Channel, CreateChannel(d)
        PROVE  ListedOpen' /\ ChannelsApart'
    <2>1. /\ active \in Task
          /\ opening' = [opening EXCEPT ![active] = @ \union {d}]
          /\ UNCHANGED <<rtc, listed>>
          /\ \A s \in Task : d \notin opening[s] \union listed[s]
      BY <1>5 DEF CreateChannel, socketVars
    <2>2. \A s \in Task :
             opening'[s] \union listed'[s] =
                 IF s = active THEN opening[s] \union listed[s] \union {d}
                               ELSE opening[s] \union listed[s]
      BY <2>1
    <2> QED
      BY <2>1, <2>2
  <1>6. CASE Disconnect
    <2>1. CASE UNCHANGED <<rtc, opening, listed>>
      BY <2>1
    <2>2. CASE active # NONE /\ ShutOnly(active)
      BY <2>2, ShutKeepsChannels
    <2> QED
      BY <1>6, <2>1, <2>2, DisconnectEffect
  <1> QED
    BY <1>1, <1>2, <1>3, <1>4, <1>5, <1>6 DEF Next, LoopStep

(* While calls leave each other time, one loop runs and one task is alive. *)
Single == ~hasty => OneLoop /\ AliveAwaited /\ ScheduledConnected

LEMMA SingleStep ==
    ASSUME TypeOK, AwaitedActive, Single, Next
    PROVE  Single'
  <1> SUFFICES ASSUME ~hasty'
               PROVE  OneLoop' /\ AliveAwaited' /\ ScheduledConnected'
    BY DEF Single
  <1> USE DEF TypeOK, OneLoop, AliveAwaited, ScheduledConnected, Alive
  <1>1. ASSUME NEW t \in Task, TaskStep(t)
        PROVE  OneLoop' /\ AliveAwaited' /\ ScheduledConnected'
    <2>1. UNCHANGED <<connected, auto, active, at, cur, hasty>>
      BY <1>1, TaskEffect
    <2>2. \A s \in Task : Alive(s)' => Alive(s)
      BY <1>1, TaskEffect DEF ShutOnly
    <2> QED
      BY <2>1, <2>2 DEF Single
  <1>2. ASSUME NEW l \in Loop, Connect(l)
        PROVE  OneLoop' /\ AliveAwaited' /\ ScheduledConnected'
    BY <1>2 DEF Connect, Single, socketVars
  <1>3. ASSUME NEW l \in Loop, Resume(l)
        PROVE  OneLoop' /\ AliveAwaited' /\ ScheduledConnected'
    <2>1. OneLoop /\ AliveAwaited /\ ScheduledConnected
      BY <1>3 DEF Resume, Single
    <2>2. active \in Task
      BY <1>3 DEF Resume, Resumable, AwaitedActive
    <2>3. \A s \in Task : ~Alive(s)'
      BY <1>3, <2>1, <2>2, ResumeEffect DEF ShutOnly
    <2> QED
      BY <1>3, <2>1, <2>3, ResumeEffect
  <1>4. ASSUME NEW l \in Loop, Stop(l)
        PROVE  OneLoop' /\ AliveAwaited' /\ ScheduledConnected'
    BY <1>4 DEF Stop, Single, socketVars
  <1>5. ASSUME NEW l \in Loop, NEW t \in Task, Attempt(l, t)
        PROVE  OneLoop' /\ AliveAwaited' /\ ScheduledConnected'
    <2>1. OneLoop /\ AliveAwaited /\ ScheduledConnected
      BY <1>5 DEF Attempt, Single
    <2>2. at[l] \in {"scheduled", "waiting"} /\ connected
      BY <1>5, <2>1 DEF Attempt
    <2>3. \A m \in Loop : cur[m] = NONE
      BY <2>1, <2>2
    <2>4. \A s \in Task : ~Alive(s)
      BY <2>1, <2>3, NoneAssumption
    <2>5. /\ active' = t
          /\ at' = [at EXCEPT ![l] = "attempting"]
          /\ cur' = [cur EXCEPT ![l] = t]
          /\ rtc' = [rtc EXCEPT ![t] = "new"]
          /\ connected' = connected
      BY <1>5 DEF Attempt
    <2> QED
      BY <2>1, <2>2, <2>4, <2>5
  <1>6. ASSUME NEW d \in Channel, CreateChannel(d)
        PROVE  OneLoop' /\ AliveAwaited' /\ ScheduledConnected'
    BY <1>6 DEF CreateChannel, Single, loopVars, socketVars
  <1>7. CASE Disconnect
    <2>1. OneLoop /\ AliveAwaited /\ \A l \in Loop : at[l] # "scheduled"
      BY <1>7, DisconnectEffect DEF Single
    <2>2. \A s \in Task : ~Alive(s)'
      BY <1>7, <2>1, NoneAssumption, DisconnectEffect DEF ShutOnly
    <2> QED
      BY <1>7, <2>1, <2>2, DisconnectEffect
  <1> QED
    BY <1>1, <1>2, <1>3, <1>4, <1>5, <1>6, <1>7 DEF Next, LoopStep

-----------------------------------------------------------------------------
(* The theorems. *)

(* The inductive invariant holds initially, ... *)
LEMMA IInvInit == Init => IInv
  <1> SUFFICES ASSUME Init PROVE IInv
    OBVIOUS
  <1> USE DEF Init
  <1>1. TypeOK
    BY NoneAssumption DEF TypeOK, SocketState, RtcState
  <1>2. AwaitedActive /\ OneLoop /\ ScheduledConnected
    BY DEF AwaitedActive, OneLoop, ScheduledConnected
  <1>3. AliveAwaited
    BY DEF AliveAwaited, Alive
  <1>4. NeverIdle /\ ToldOfTask
    BY DEF NeverIdle, ToldOfTask
  <1>5. ListedOpen /\ ChannelsApart
    BY DEF ListedOpen, ChannelsApart
  <1> QED
    BY <1>1, <1>2, <1>3, <1>4, <1>5 DEF IInv

(* ... and every step preserves it. *)
LEMMA IInvStep == IInv /\ [Next]_vars => IInv'
  <1> SUFFICES ASSUME IInv, [Next]_vars PROVE IInv'
    OBVIOUS
  <1>1. CASE Next
    BY <1>1, TypeStep, SingleStep, NeverIdleStep, ToldStep, ChannelsStep
       DEF IInv, Single
  <1>2. CASE UNCHANGED vars
    BY <1>2 DEF vars, loopVars, socketVars, channelVars, IInv, TypeOK,
                AwaitedActive, OneLoop, AliveAwaited, Alive, ScheduledConnected,
                NeverIdle, ToldOfTask, ListedOpen, ChannelsApart
  <1> QED
    BY <1>1, <1>2

(* The peer's loops, tasks and channels always satisfy the inductive       *)
(* invariant, whatever the application calls and its sockets do.           *)
THEOREM Inductive == Spec => []IInv
  BY IInvInit, IInvStep, PTL DEF Spec

(* Every variable keeps its type. *)
THEOREM TypeCorrect == Spec => []TypeOK
  <1>1. IInv => TypeOK
    BY DEF IInv
  <1> QED
    BY <1>1, Inductive, PTL

(* An application that is told of a state other than 'disconnected' has a  *)
(* task in that state.                                                     *)
THEOREM ToldOfTaskHolds == Spec => []ToldOfTask
  <1>1. IInv => ToldOfTask
    BY DEF IInv
  <1> QED
    BY <1>1, Inductive, PTL

(* Calls that leave each other time run one task at a time, the active one. *)
THEOREM OneTaskHolds == Spec => []OneTask
  <1>1. IInv => OneTask
    BY DEF IInv, OneTask, AliveAwaited
  <1> QED
    BY <1>1, Inductive, PTL

(* Nothing connects or is connected after a disconnect. *)
THEOREM DisconnectFinalHolds == Spec => []DisconnectFinal
  <1>1. IInv => DisconnectFinal
    BY DEF IInv, DisconnectFinal, AliveAwaited
  <1> QED
    BY <1>1, Inductive, PTL

(* A peer that reconnects is never connected without a loop. *)
THEOREM NeverIdleHolds == Spec => []NeverIdle
  <1>1. IInv => NeverIdle
    BY DEF IInv
  <1> QED
    BY <1>1, Inductive, PTL

(* The channels that are listed are open, and each is of one task. *)
THEOREM ListedOpenHolds == Spec => []ListedOpen
  <1>1. IInv => ListedOpen
    BY DEF IInv
  <1> QED
    BY <1>1, Inductive, PTL

=============================================================================
