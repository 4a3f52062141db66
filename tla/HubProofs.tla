------------------------------ MODULE HubProofs ----------------------------
(***************************************************************************)
(* What holds of the connection registry and of the grace periods, and     *)
(* that the hub implements both of its halves: for every number of players *)
(* and connections and every capacity of a Send channel.  What is proved   *)
(* of Connections holds of the hub as it is, and what is proved of         *)
(* Presence holds of it with Link in the place of link.                    *)
(***************************************************************************)
EXTENDS Hub, Presence, TLAPS

----------------------------------------------------------------------------
(* The connection registry *)

\* The hub's variables have their types in every reachable state: above all a
\* Send channel never holds more than its capacity, because Run drops a
\* connection that is full instead of sending, and a pump waits.
THEOREM TypeCorrect == Spec => []TypeOK
<1>1. Init => TypeOK
  <2> SUFFICES ASSUME Init PROVE TypeOK
    OBVIOUS
  <2>1. queued \in [Clients -> 0..SendCap]
    <3>1. 0 \in 0..SendCap
      BY SendCapAssumption
    <3> QED BY <3>1 DEF Init
  <2>2. lobbyEntry \in BOOLEAN /\ staticCache \in BOOLEAN /\ lobbyRow \in BOOLEAN
    BY DEF Init
  <2> QED
    BY <2>1, <2>2 DEF Init, TypeOK, Stages, Faults
<1>2. TypeOK /\ [Next]_conVars => TypeOK'
  <2> SUFFICES ASSUME TypeOK, [Next]_conVars PROVE TypeOK'
    OBVIOUS
  <2> USE SendCapAssumption DEF TypeOK, Stages, Faults
  <2>1. ASSUME Broadcast
        PROVE  /\ registry' \in SUBSET Clients
               /\ lobbyEntry' \in BOOLEAN
               /\ closed' \in SUBSET Clients
               /\ queued' \in [Clients -> 0..SendCap]
               /\ fault' \in Faults
    <3>1. lobbyEntry' \in BOOLEAN
      BY <2>1 DEF Broadcast
    <3>2. CASE lobbyEntry
      <4>1. /\ closed' = closed \cup Full
            /\ fault' = IF Full \cap closed # {} THEN "close of closed channel" ELSE fault
            /\ registry' = registry \ Full
            /\ queued' = [c \in Clients |-> IF c \in registry \ Full
                                            THEN queued[c] + 1 ELSE queued[c]]
        BY <2>1, <3>2, Zenon DEF Broadcast, Close
      <4>2. ASSUME NEW c \in registry \ Full PROVE queued[c] + 1 \in 0..SendCap
        <5>1. queued[c] \in 0..SendCap /\ queued[c] # SendCap
          BY DEF Full
        <5> HIDE DEF TypeOK
        <5> QED BY <5>1
      <4>3. queued' \in [Clients -> 0..SendCap]
        BY <4>1, <4>2
      <4> QED
        BY <3>1, <4>1, <4>3 DEF Full
    <3>3. CASE ~lobbyEntry
      BY <2>1, <3>1, <3>3 DEF Broadcast
    <3> QED BY <3>2, <3>3
  <2>2. ASSUME NEW c \in Clients, Register(c) PROVE TypeOK'
    BY <2>2 DEF Register, Close, Replaced
  <2>3. ASSUME NEW c \in Clients, Unregister(c) PROVE TypeOK'
    BY <2>3 DEF Unregister, Close
  <2>4. CASE HubBroadcast
    BY <2>1, <2>4 DEF HubBroadcast
  <2>5. ASSUME NEW c \in Clients, NEW p \in Players \cup {NoPlayer}, Connect(c, p)
        PROVE  TypeOK'
    BY <2>5 DEF Connect
  <2>6. ASSUME NEW c \in Clients, Join(c) PROVE TypeOK'
    BY <2>1, <2>6 DEF Join
  <2>7. ASSUME NEW c \in Clients, Greet(c) PROVE TypeOK'
    <3>1. stage' \in [Clients -> Stages]
      BY <2>7 DEF Greet
    <3>2. staticCache' \in BOOLEAN /\ lobbyRow' \in BOOLEAN
      BY <2>7, Zenon DEF Greet
    <3>3. \/ Broadcast
          \/ UNCHANGED <<closed, fault, registry, queued, lobbyEntry>>
      BY <2>7, Zenon DEF Greet
    <3> QED
      BY <2>1, <2>7, <3>1, <3>2, <3>3 DEF Greet
  <2>8. ASSUME NEW c \in Clients, ReadMessage(c) PROVE TypeOK'
    BY <2>1, <2>8 DEF ReadMessage
  <2>9. ASSUME NEW c \in Clients, Reply(c) PROVE TypeOK'
    <3>1. queued[c] \in 0..SendCap
      OBVIOUS
    <3>2. CASE c \in closed
      BY <2>9, <3>2 DEF Reply, DirectSend
    <3>3. CASE c \notin closed
      <4>1. queued[c] + 1 \in 0..SendCap
        <5>1. queued[c] < SendCap
          BY <2>9, <3>3, Zenon DEF Reply, DirectSend
        <5> HIDE DEF TypeOK
        <5> QED BY <3>1, <5>1
      <4> QED
        BY <2>9, <3>3, <4>1 DEF Reply, DirectSend
    <3> QED BY <3>2, <3>3
  <2>10. ASSUME NEW c \in Clients, ReadFails(c) PROVE TypeOK'
    BY <2>10 DEF ReadFails
  <2>11. ASSUME NEW c \in Clients, WriteMessage(c) PROVE TypeOK'
    BY <2>11 DEF WriteMessage
  <2>12. ASSUME NEW c \in Clients, WriteEnds(c) PROVE TypeOK'
    BY <2>12 DEF WriteEnds
  <2>13. ASSUME NEW c \in Clients, Drop(c) PROVE TypeOK'
    BY <2>13 DEF Drop
  <2>14. CASE DeleteLobbyRow
    BY <2>14 DEF DeleteLobbyRow
  <2>15. CASE UNCHANGED conVars
    BY <2>15 DEF conVars
  <2> QED
    BY <2>2, <2>3, <2>4, <2>5, <2>6, <2>7, <2>8, <2>9, <2>10, <2>11, <2>12,
       <2>13, <2>14, <2>15 DEF Next, Run, Pumps, Network
<1> QED
  BY <1>1, <1>2, PTL DEF Spec

----------------------------------------------------------------------------
(* Who is registered, and whose channel is closed                          *)
(*                                                                         *)
(* Both promises about the registry rest on one fact: a channel is closed  *)
(* exactly when its connection leaves the map.  A step other than Connect, *)
(* Register and Unregister can only take connections out of the map, and   *)
(* keeps the others where they are; such a step is called a Shrink.        *)

Coarse(s) == IF s \in Open THEN "open" ELSE s

Shrink ==
  /\ registry' \subseteq registry
  /\ closed' = closed \cup (registry \ registry')
  /\ pid' = pid
  /\ \A c \in Clients : Coarse(stage'[c]) = Coarse(stage[c])
  /\ \A c \in Clients : stage'[c] \in Stages

\* A broadcast closes what it drops, and nothing that is closed already.
LEMMA BroadcastShrinks ==
  ASSUME TypeOK, ClosedIffOut, Broadcast
  PROVE  /\ registry' \subseteq registry
         /\ closed' = closed \cup (registry \ registry')
         /\ fault' = fault
<1>1. registry \cap closed = {}
  BY DEF ClosedIffOut, TypeOK, Stages, Open
<1>2. Full \subseteq registry
  BY DEF Full
<1>3. CASE lobbyEntry
  <2>1. /\ closed' = closed \cup Full
        /\ fault' = IF Full \cap closed # {} THEN "close of closed channel" ELSE fault
        /\ registry' = registry \ Full
    BY <1>3, Zenon DEF Broadcast, Close
  <2> QED BY <1>1, <1>2, <2>1
<1>4. CASE ~lobbyEntry
  BY <1>4 DEF Broadcast
<1> QED BY <1>3, <1>4

\* Broadcasts, pumps, the network and the cleanup shrink the registry at most.
LEMMA ShrinkCases ==
  ASSUME TypeOK, ClosedIffOut,
         \/ HubBroadcast \/ Pumps \/ DeleteLobbyRow \/ UNCHANGED conVars
         \/ \E c \in Clients : Drop(c)
  PROVE  Shrink
<1> USE DEF TypeOK, Stages, Open, Coarse
<1>1. CASE HubBroadcast
  BY <1>1, BroadcastShrinks DEF HubBroadcast, Shrink
<1>2. ASSUME NEW c \in Clients, Join(c) PROVE Shrink
  BY <1>2, BroadcastShrinks DEF Join, Shrink
<1>3. ASSUME NEW c \in Clients, Greet(c) PROVE Shrink
  <2>1. \/ Broadcast
        \/ UNCHANGED <<closed, fault, registry, queued, lobbyEntry>>
    BY <1>3, Zenon DEF Greet
  <2>2. registry' \subseteq registry /\ closed' = closed \cup (registry \ registry')
    BY <2>1, BroadcastShrinks
  <2> QED BY <1>3, <2>2 DEF Greet, Shrink
<1>4. ASSUME NEW c \in Clients, ReadMessage(c) PROVE Shrink
  <2>1. \/ Broadcast
        \/ UNCHANGED <<closed, registry>>
    BY <1>4, Zenon DEF ReadMessage
  <2>2. registry' \subseteq registry /\ closed' = closed \cup (registry \ registry')
    BY <2>1, BroadcastShrinks
  <2> QED BY <1>4, <2>2 DEF ReadMessage, Shrink
<1>5. ASSUME NEW c \in Clients, Reply(c) PROVE Shrink
  BY <1>5 DEF Reply, Shrink
<1>6. ASSUME NEW c \in Clients, ReadFails(c) PROVE Shrink
  BY <1>6 DEF ReadFails, Shrink
<1>7. ASSUME NEW c \in Clients, WriteMessage(c) \/ WriteEnds(c) \/ Drop(c) PROVE Shrink
  BY <1>7 DEF WriteMessage, WriteEnds, Drop, Shrink
<1>8. CASE DeleteLobbyRow
  BY <1>8 DEF DeleteLobbyRow, Shrink
<1>9. CASE UNCHANGED conVars
  BY <1>9 DEF conVars, Shrink
<1> QED
  BY <1>1, <1>2, <1>3, <1>4, <1>5, <1>6, <1>7, <1>8, <1>9
     DEF Pumps

\* Every step is a Shrink, a Connect, a Register or an Unregister.
LEMMA StepCases ==
  ASSUME TypeOK, ClosedIffOut, [Next]_conVars
  PROVE  \/ Shrink
         \/ \E c \in Clients, p \in Players \cup {NoPlayer} : Connect(c, p)
         \/ \E c \in Clients : Register(c) \/ Unregister(c)
BY ShrinkCases DEF Next, Run, Network

\* A Send channel is open exactly while its connection is registered, whatever
\* order replacements, drops and unregistrations come in.
THEOREM ClosedIffOutHolds == Spec => []ClosedIffOut
<1>1. Init => ClosedIffOut
  BY DEF Init, ClosedIffOut, Open
<1>2. TypeOK /\ ClosedIffOut /\ [Next]_conVars => ClosedIffOut'
  <2> SUFFICES ASSUME TypeOK, ClosedIffOut, [Next]_conVars PROVE ClosedIffOut'
    OBVIOUS
  <2> USE DEF TypeOK, Stages, Open, ClosedIffOut
  <2>1. CASE Shrink
    BY <2>1 DEF Shrink, Coarse
  <2>2. ASSUME NEW c \in Clients, NEW p \in Players \cup {NoPlayer}, Connect(c, p)
        PROVE  ClosedIffOut'
    BY <2>2 DEF Connect
  <2>3. ASSUME NEW c \in Clients, Register(c) PROVE ClosedIffOut'
    <3>1. \A d \in Replaced(c) : d \in registry /\ d # c /\ stage[d] \in Open
      BY DEF Replaced
    <3> QED BY <2>3, <3>1 DEF Register, Close
  <2>4. ASSUME NEW c \in Clients, Unregister(c) PROVE ClosedIffOut'
    <3>1. CASE c \in registry
      BY <2>4, <3>1 DEF Unregister, Close
    <3>2. CASE c \notin registry
      BY <2>4, <3>2 DEF Unregister
    <3> QED BY <3>1, <3>2
  <2> QED
    BY <2>1, <2>2, <2>3, <2>4, StepCases
<1> QED
  BY <1>1, <1>2, TypeCorrect, PTL DEF Spec

\* A player never has two registered connections, however many tabs register.
THEOREM OneConnectionHolds == Spec => []OneConnectionPerPlayer
<1>1. Init => OneConnectionPerPlayer
  BY DEF Init, OneConnectionPerPlayer
<1>2. TypeOK /\ ClosedIffOut /\ OneConnectionPerPlayer /\ [Next]_conVars
        => OneConnectionPerPlayer'
  <2> SUFFICES ASSUME TypeOK, ClosedIffOut, OneConnectionPerPlayer, [Next]_conVars
               PROVE  OneConnectionPerPlayer'
    OBVIOUS
  <2> USE DEF TypeOK, OneConnectionPerPlayer
  <2>1. CASE Shrink
    BY <2>1 DEF Shrink
  <2>2. ASSUME NEW c \in Clients, NEW p \in Players \cup {NoPlayer}, Connect(c, p)
        PROVE  OneConnectionPerPlayer'
    <3>1. c \notin registry
      BY <2>2 DEF Connect, ClosedIffOut
    <3> QED BY <2>2, <3>1 DEF Connect
  <2>3. ASSUME NEW c \in Clients, Register(c) PROVE OneConnectionPerPlayer'
    BY <2>3 DEF Register, Replaced
  <2>4. ASSUME NEW c \in Clients, Unregister(c) PROVE OneConnectionPerPlayer'
    BY <2>4 DEF Unregister
  <2> QED
    BY <2>1, <2>2, <2>3, <2>4, StepCases
<1> QED
  BY <1>1, <1>2, TypeCorrect, ClosedIffOutHolds, PTL DEF Spec

\* Run closes no channel twice: of all the steps of the program only two steps
\* of a ReadPump panic.
THEOREM OnlyPumpsPanicHolds == Spec => OnlyPumpsPanic
<1> DEFINE PumpPanics ==
      \E c \in Clients : \/ stage[c] = "replying" /\ c \in closed
                         \/ stage[c] = "reading" /\ ~lobbyRow
<1>1. TypeOK /\ ClosedIffOut /\ [Next]_conVars => [fault' # fault => PumpPanics]_conVars
  <2> SUFFICES ASSUME TypeOK, ClosedIffOut, [Next]_conVars, fault' # fault
               PROVE  PumpPanics
    OBVIOUS
  <2>1. registry \cap closed = {}
    BY DEF ClosedIffOut, TypeOK, Stages, Open
  <2>2. ~HubBroadcast
    BY BroadcastShrinks DEF HubBroadcast
  <2>3. ASSUME NEW c \in Clients, Register(c) PROVE FALSE
    <3>1. Replaced(c) \cap closed = {}
      BY <2>1 DEF Replaced
    <3> QED BY <2>3, <3>1 DEF Register, Close
  <2>4. ASSUME NEW c \in Clients, Unregister(c) PROVE FALSE
    <3>1. c \in registry
      BY <2>4 DEF Unregister
    <3> QED BY <2>1, <2>4, <3>1 DEF Unregister, Close
  <2>5. ASSUME NEW c \in Clients, Join(c) \/ Greet(c) PROVE FALSE
    <3>1. Broadcast \/ UNCHANGED fault
      BY <2>5, Zenon DEF Join, Greet
    <3> QED BY <3>1, BroadcastShrinks
  <2>6. ASSUME NEW c \in Clients, ReadMessage(c) PROVE PumpPanics
    <3>1. Broadcast \/ UNCHANGED fault \/ ~lobbyRow
      BY <2>6, Zenon DEF ReadMessage
    <3>2. ~lobbyRow
      BY <3>1, BroadcastShrinks
    <3> QED BY <2>6, <3>2 DEF ReadMessage
  <2>7. ASSUME NEW c \in Clients, Reply(c) PROVE PumpPanics
    BY <2>7 DEF Reply, DirectSend
  <2>8. ASSUME NEW c \in Clients,
               ReadFails(c) \/ WriteMessage(c) \/ WriteEnds(c) \/ Drop(c)
        PROVE  FALSE
    BY <2>8 DEF ReadFails, WriteMessage, WriteEnds, Drop
  <2>9. ASSUME NEW c \in Clients, NEW p \in Players \cup {NoPlayer}, Connect(c, p)
        PROVE  FALSE
    BY <2>9 DEF Connect
  <2>10. ~DeleteLobbyRow /\ ~UNCHANGED conVars
    BY DEF DeleteLobbyRow, conVars
  <2> QED
    BY <2>2, <2>3, <2>4, <2>5, <2>6, <2>7, <2>8, <2>9, <2>10
       DEF Next, Run, Pumps, Network
<1> QED
  BY <1>1, TypeCorrect, ClosedIffOutHolds, PTL DEF Spec, OnlyPumpsPanic

----------------------------------------------------------------------------
(* The hub and its halves *)


\* The presence half takes nothing from the registry half and adds nothing to
\* it: each step of the hub is a step of Connections or leaves it alone.
LEMMA ConnectionsStep == [HubNext]_hubVars => [Next]_conVars
<1> SUFFICES ASSUME [HubNext]_hubVars PROVE [Next]_conVars
  OBVIOUS
<1>1. ASSUME NEW c \in Clients,
             HubRegister(c) \/ HubUnregister(c) \/ (\E kind : HubSendNotice(c, kind))
      PROVE  Next
  BY <1>1 DEF HubRegister, HubUnregister, HubSendNotice, Next, Run
<1>2. ASSUME NEW c \in Clients, HubFire(c) \/ HubDeleteKey(c) \/ HubCallHandler(c)
      PROVE  UNCHANGED conVars
  BY <1>2 DEF HubFire, HubDeleteKey, HubCallHandler
<1>3. ASSUME NEW c \in Clients, NEW p \in Players \cup {NoPlayer}, HubConnect(c, p)
      PROVE  Next
  BY <1>3 DEF HubConnect, Next, Network
<1>4. CASE HubPumps
  BY <1>4 DEF HubPumps, Next, Run
<1>5. CASE HubNetwork
  BY <1>5 DEF HubNetwork, Next, Network
<1>6. CASE HubDeleteLobbyRow
  BY <1>6 DEF HubDeleteLobbyRow, Next
<1>7. CASE HubCalls
  BY <1>7 DEF HubCalls
<1>8. CASE UNCHANGED hubVars
  BY <1>8 DEF hubVars
<1> QED
  BY <1>1, <1>2, <1>3, <1>4, <1>5, <1>6, <1>7, <1>8 DEF HubNext

\* The hub of the composition is the hub of Connections: the grace periods and
\* the lobby's calls never touch the registry or a channel.
THEOREM HubImplementsConnections == HubSpec => Spec
<1>1. HubInit => Init
  BY DEF HubInit
<1> QED
  BY <1>1, ConnectionsStep, PTL DEF HubSpec, Spec

----------------------------------------------------------------------------
(* What Presence sees of the pumps *)

\* What shrinks the registry opens and ends no link.
LEMMA LinkKept ==
  ASSUME Shrink
  PROVE  Link' = Link /\ pid' = pid /\ registry' \subseteq registry
<1>1. \A c \in Clients : Coarse(stage'[c]) = Coarse(stage[c])
  BY DEF Shrink
<1>2. Link' = Link
  BY <1>1 DEF Link, Coarse, Open
<1> QED BY <1>2 DEF Shrink

\* A pump, or a broadcast from anywhere, is to Presence a full buffer at most.
LEMMA PumpsStep ==
  ASSUME TypeOK, ClosedIffOut, HubPumps
  PROVE  P!PresenceNext \/ UNCHANGED P!preVars
<1>1. Link' = Link /\ pid' = pid /\ registry' \subseteq registry
  BY ShrinkCases, LinkKept DEF HubPumps
<1>2. UNCHANGED presenceVars
  BY DEF HubPumps
<1>3. CASE registry' = registry
  BY <1>1, <1>2, <1>3 DEF presenceVars, P!preVars, P!linkVars, P!timerVars,
     P!leaveVars, P!gameVars
<1>4. CASE registry' # registry
  <2> DEFINE dropped == registry \ registry'
  <2>1. dropped # {} /\ dropped \in SUBSET registry /\ registry' = registry \ dropped
    BY <1>1, <1>4
  <2>2. P!DropFull(dropped)
    BY <1>1, <1>2, <2>1 DEF P!DropFull, presenceVars, P!timerVars, P!leaveVars,
       P!gameVars
  <2> QED BY <2>1, <2>2 DEF P!PresenceNext, P!RunPresence
<1> QED BY <1>3, <1>4

\* Every step of the hub is a step of Presence or one it does not see.
LEMMA PresenceStep ==
  ASSUME TypeOK, ClosedIffOut, [HubNext]_hubVars
  PROVE  [P!PresenceNext]_(P!preVars)
<1>1. ASSUME NEW c \in Clients,
             \/ HubRegister(c) \/ HubUnregister(c)
             \/ HubFire(c) \/ HubDeleteKey(c) \/ HubCallHandler(c)
      PROVE  P!PresenceNext
  BY <1>1 DEF HubRegister, HubUnregister, HubFire, HubDeleteKey, HubCallHandler,
     P!PresenceNext, P!RunPresence, P!Timers
<1>2. ASSUME NEW c \in Clients, NEW kind \in P!Kinds, HubSendNotice(c, kind)
      PROVE  P!PresenceNext
  <2>1. registry \ registry' \in SUBSET registry
    OBVIOUS
  <2> QED BY <1>2, <2>1 DEF HubSendNotice, P!PresenceNext, P!RunPresence
<1>3. ASSUME NEW c \in Clients, NEW p \in Players \cup {NoPlayer}, HubConnect(c, p)
      PROVE  P!PresenceNext
  BY <1>3 DEF HubConnect, P!PresenceNext, P!Outside
<1>4. CASE HubPumps
  BY <1>4, PumpsStep
<1>5. CASE HubNetwork
  BY <1>5 DEF HubNetwork, Drop, Link, presenceVars, P!preVars, P!linkVars,
     P!timerVars, P!leaveVars, P!gameVars
<1>6. CASE HubDeleteLobbyRow
  <2>1. CASE P!EndLobby
    BY <2>1 DEF P!PresenceNext, P!Outside
  <2>2. CASE UNCHANGED presenceVars
    BY <1>6, <2>2 DEF HubDeleteLobbyRow, DeleteLobbyRow, Link, presenceVars,
       P!preVars, P!linkVars, P!timerVars, P!leaveVars, P!gameVars
  <2> QED BY <1>6, <2>1, <2>2 DEF HubDeleteLobbyRow
<1>7. CASE HubCalls
  BY <1>7 DEF HubCalls, P!PresenceNext, P!Outside
<1>8. CASE UNCHANGED hubVars
  BY <1>8 DEF hubVars, conVars, Link, presenceVars, P!preVars, P!linkVars,
     P!timerVars, P!leaveVars, P!gameVars
<1> QED
  BY <1>1, <1>2, <1>3, <1>4, <1>5, <1>6, <1>7, <1>8 DEF HubNext

\* The hub keeps the promises of Presence although broadcasts drop connections
\* behind its back, pumps end in any order and the process may die.
THEOREM HubImplementsPresence == HubSpec => ImplementsPresence
<1>1. HubInit => P!PresenceInit
  BY DEF HubInit
<1>2. HubSpec => [](TypeOK /\ ClosedIffOut)
  BY HubImplementsConnections, TypeCorrect, ClosedIffOutHolds, PTL
<1>3. TypeOK /\ ClosedIffOut /\ [HubNext]_hubVars => [P!PresenceNext]_(P!preVars)
  BY PresenceStep
<1> QED
  BY <1>1, <1>2, <1>3, PTL DEF HubSpec, ImplementsPresence, P!PresenceSpec

----------------------------------------------------------------------------
(* The grace periods                                                        *)
(*                                                                          *)
(* Presence as it stands, of which the hub is one implementation: its link  *)
(* is a variable of its own here, and not the stage of a connection.  The   *)
(* theorems hold whether or not the sockets of a player overlap.            *)

\* A timer belongs to a connection that is gone and that had a player.
TimerOwned ==
  \A c \in Clients : timer[c] # "none" => link[c] = "gone" /\ pid[c] \in Players

\* The state stays well typed.  That needs TimerOwned: a callback writes the
\* player of its connection into the lobby.
LEMMA PresenceTypedInvariant == PresenceSpec => [](PresenceTypeOK /\ TimerOwned)
<1>1. PresenceInit => PresenceTypeOK /\ TimerOwned
  BY DEF PresenceInit, PresenceTypeOK, TimerOwned, Links, TimerStages, Kinds, Phases
<1>2. PresenceTypeOK /\ TimerOwned /\ [PresenceNext]_preVars
        => (PresenceTypeOK /\ TimerOwned)'
  <2> SUFFICES ASSUME PresenceTypeOK, TimerOwned, [PresenceNext]_preVars
               PROVE  (PresenceTypeOK /\ TimerOwned)'
    OBVIOUS
  <2> USE DEF PresenceTypeOK, TimerOwned, Links, TimerStages, Kinds, Phases,
              linkVars, timerVars, leaveVars, gameVars
  <2>1. ASSUME NEW c \in Clients, NEW p \in Players \cup {NoPlayer}, ConnectPlayer(c, p)
        PROVE  (PresenceTypeOK /\ TimerOwned)'
    BY <2>1 DEF ConnectPlayer
  <2>2. ASSUME NEW c \in Clients, RegisterPlayer(c) PROVE (PresenceTypeOK /\ TimerOwned)'
    <3>1. registry' \in SUBSET Clients
      BY <2>2 DEF RegisterPlayer, Replaced
    <3>2. CASE pid[c] \in Players /\ disconnectTimers[pid[c]] # NoTimer
      BY <2>2, <3>1, <3>2 DEF RegisterPlayer
    <3>3. CASE ~(pid[c] \in Players /\ disconnectTimers[pid[c]] # NoTimer)
      BY <2>2, <3>1, <3>3 DEF RegisterPlayer
    <3> QED BY <3>2, <3>3
  <2>3. ASSUME NEW c \in Clients, UnregisterPlayer(c) PROVE (PresenceTypeOK /\ TimerOwned)'
    <3>1. CASE pid[c] \in Players \ suppressDisconnect /\ disconnectTimers[pid[c]] = NoTimer
      <4>1. startedAt' \in SUBSET Clients
        BY <2>3, <3>1 DEF UnregisterPlayer, IsGameStarted
      <4> QED BY <2>3, <3>1, <4>1 DEF UnregisterPlayer
    <3>2. CASE pid[c] \in Players \ suppressDisconnect /\ disconnectTimers[pid[c]] # NoTimer
      BY <2>3, <3>2 DEF UnregisterPlayer
    <3>3. CASE pid[c] \notin Players \ suppressDisconnect
      BY <2>3, <3>3 DEF UnregisterPlayer
    <3> QED BY <3>1, <3>2, <3>3
  <2>4. ASSUME NEW cs \in SUBSET registry, DropFull(cs)
        PROVE  (PresenceTypeOK /\ TimerOwned)'
    BY <2>4 DEF DropFull
  <2>5. ASSUME NEW cs \in SUBSET registry, NEW c \in Clients, NEW kind \in Kinds,
               SendNotice(c, kind, cs)
        PROVE  (PresenceTypeOK /\ TimerOwned)'
    BY <2>5 DEF SendNotice
  <2>6. ASSUME NEW c \in Clients, Fire(c) PROVE (PresenceTypeOK /\ TimerOwned)'
    BY <2>6 DEF Fire
  <2>7. ASSUME NEW c \in Clients, DeleteKey(c) PROVE (PresenceTypeOK /\ TimerOwned)'
    BY <2>7 DEF DeleteKey
  <2>8. ASSUME NEW c \in Clients, CallHandler(c) PROVE (PresenceTypeOK /\ TimerOwned)'
    <3>1. pid[c] \in Players /\ link[c] = "gone"
      BY <2>8 DEF CallHandler
    <3>2. ForfeitByPlayerID(pid[c]) \/ PreGameForfeitByPlayerID(pid[c])
      BY <2>8, Zenon DEF CallHandler
    <3>3. phase' \in Phases /\ left' \in SUBSET Players /\ forfeited' \in SUBSET Players
      BY <3>1, <3>2 DEF ForfeitByPlayerID, PreGameForfeitByPlayerID
    <3> QED BY <2>8, <3>1, <3>3 DEF CallHandler
  <2>9. ASSUME NEW p \in Players, Leave(p) \/ Forfeit(p)
        PROVE  (PresenceTypeOK /\ TimerOwned)'
    BY <2>9 DEF Leave, Forfeit
  <2>10. CASE StartGame \/ EndLobby
    BY <2>10 DEF StartGame, EndLobby
  <2>11. CASE UNCHANGED preVars
    BY <2>11 DEF preVars
  <2> HIDE DEF PresenceTypeOK, TimerOwned
  <2> QED
    BY <2>1, <2>2, <2>3, <2>4, <2>5, <2>6, <2>7, <2>8, <2>9, <2>10, <2>11
       DEF PresenceNext, RunPresence, Timers, Outside
<1> QED
  BY <1>1, <1>2, PTL DEF PresenceSpec

\* The state of the hub's presence half is well typed in every reachable state.
THEOREM PresenceTypeCorrect == PresenceSpec => []PresenceTypeOK
  BY PresenceTypedInvariant, PTL

----------------------------------------------------------------------------
\* Steps that concern no timer: messages, buffers and the players' own calls.
TimersUntouched == UNCHANGED <<pid, link, timerVars>>

LEMMA PresenceStepCases ==
  ASSUME [PresenceNext]_preVars
  PROVE  \/ TimersUntouched
         \/ \E c \in Clients, p \in Players \cup {NoPlayer} : ConnectPlayer(c, p)
         \/ \E c \in Clients : \/ RegisterPlayer(c) \/ UnregisterPlayer(c)
                               \/ Fire(c) \/ DeleteKey(c) \/ CallHandler(c)
<1> USE DEF TimersUntouched, linkVars, timerVars
<1>1. ASSUME NEW cs \in SUBSET registry, DropFull(cs) PROVE TimersUntouched
  BY <1>1 DEF DropFull
<1>2. ASSUME NEW cs \in SUBSET registry, NEW c \in Clients, NEW kind \in Kinds,
             SendNotice(c, kind, cs)
      PROVE  TimersUntouched
  BY <1>2 DEF SendNotice
<1>3. ASSUME NEW p \in Players, Leave(p) \/ Forfeit(p) PROVE TimersUntouched
  BY <1>3 DEF Leave, Forfeit
<1>4. CASE StartGame \/ EndLobby
  BY <1>4 DEF StartGame, EndLobby
<1>5. CASE UNCHANGED preVars
  BY <1>5 DEF preVars
<1> QED
  BY <1>1, <1>2, <1>3, <1>4, <1>5 DEF PresenceNext, RunPresence, Timers, Outside

\* The timer map never keeps a dead entry: what a player's key maps to is a
\* timer of that player whose callback is still to come.
THEOREM MappedTimerHolds == PresenceSpec => []MappedTimerPending
<1>1. PresenceInit => MappedTimerPending
  BY NoTimerAssumption DEF PresenceInit, MappedTimerPending
<1>2. PresenceTypeOK /\ TimerOwned /\ MappedTimerPending /\ [PresenceNext]_preVars
        => MappedTimerPending'
  <2> SUFFICES ASSUME PresenceTypeOK, TimerOwned, MappedTimerPending, [PresenceNext]_preVars
               PROVE  MappedTimerPending'
    OBVIOUS
  <2> USE NoTimerAssumption DEF PresenceTypeOK, TimerOwned, TimerStages, MappedTimerPending,
          linkVars, timerVars
  <2>1. CASE TimersUntouched
    BY <2>1 DEF TimersUntouched
  <2>2. ASSUME NEW c \in Clients, NEW p \in Players \cup {NoPlayer}, ConnectPlayer(c, p)
        PROVE  MappedTimerPending'
    BY <2>2 DEF ConnectPlayer
  <2>3. ASSUME NEW c \in Clients, RegisterPlayer(c) PROVE MappedTimerPending'
    <3>1. CASE pid[c] \in Players /\ disconnectTimers[pid[c]] # NoTimer
      BY <2>3, <3>1 DEF RegisterPlayer
    <3>2. CASE ~(pid[c] \in Players /\ disconnectTimers[pid[c]] # NoTimer)
      BY <2>3, <3>2 DEF RegisterPlayer
    <3> QED BY <3>1, <3>2
  <2>4. ASSUME NEW c \in Clients, UnregisterPlayer(c) PROVE MappedTimerPending'
    <3>1. CASE pid[c] \in Players \ suppressDisconnect /\ disconnectTimers[pid[c]] = NoTimer
      BY <2>4, <3>1 DEF UnregisterPlayer
    <3>2. CASE ~(pid[c] \in Players \ suppressDisconnect /\ disconnectTimers[pid[c]] = NoTimer)
      BY <2>4, <3>2 DEF UnregisterPlayer
    <3> QED BY <3>1, <3>2
  <2>5. ASSUME NEW c \in Clients, Fire(c) PROVE MappedTimerPending'
    BY <2>5 DEF Fire
  <2>6. ASSUME NEW c \in Clients, DeleteKey(c) PROVE MappedTimerPending'
    BY <2>6 DEF DeleteKey
  <2>7. ASSUME NEW c \in Clients, CallHandler(c) PROVE MappedTimerPending'
    BY <2>7 DEF CallHandler
  <2> HIDE DEF PresenceTypeOK, TimerOwned, MappedTimerPending
  <2> QED
    BY <2>1, <2>2, <2>3, <2>4, <2>5, <2>6, <2>7, PresenceStepCases
<1> QED
  BY <1>1, <1>2, PresenceTypedInvariant, PTL DEF PresenceSpec

----------------------------------------------------------------------------
(* A missing player is on the clock.                                       *)
(*                                                                         *)
(* Two more facts make this inductive.  A suppress flag is only set for a  *)
(* player who leaves, so consuming it hides nobody who is missing.  And    *)
(* the phase does not go back, so the handler that a timer of a started    *)
(* game calls finds the game started, and can end it, or over.             *)

SuppressedQuit == suppressDisconnect \subseteq quit

FlagMeansStarted ==
  \A c \in startedAt : timer[c] # "none" /\ phase # "waiting"

LEMMA PresenceFlags == PresenceSpec => [](SuppressedQuit /\ FlagMeansStarted)
<1>1. PresenceInit => SuppressedQuit /\ FlagMeansStarted
  BY DEF PresenceInit, SuppressedQuit, FlagMeansStarted
<1>2. PresenceTypeOK /\ TimerOwned /\ SuppressedQuit /\ FlagMeansStarted /\ [PresenceNext]_preVars
        => (SuppressedQuit /\ FlagMeansStarted)'
  <2> SUFFICES ASSUME PresenceTypeOK, TimerOwned, SuppressedQuit, FlagMeansStarted,
                      [PresenceNext]_preVars
               PROVE  (SuppressedQuit /\ FlagMeansStarted)'
    OBVIOUS
  <2> USE DEF PresenceTypeOK, TimerStages, SuppressedQuit, FlagMeansStarted,
          linkVars, timerVars, leaveVars, gameVars
  <2>1. ASSUME NEW c \in Clients, NEW p \in Players \cup {NoPlayer}, ConnectPlayer(c, p)
        PROVE  (SuppressedQuit /\ FlagMeansStarted)'
    BY <2>1 DEF ConnectPlayer
  <2>2. ASSUME NEW c \in Clients, RegisterPlayer(c) PROVE (SuppressedQuit /\ FlagMeansStarted)'
    <3>1. CASE pid[c] \in Players /\ disconnectTimers[pid[c]] # NoTimer
      <4>1. timer[disconnectTimers[pid[c]]] # "none" <=> timer'[disconnectTimers[pid[c]]] # "none"
        BY <2>2, <3>1 DEF RegisterPlayer
      <4> QED BY <2>2, <3>1, <4>1 DEF RegisterPlayer
    <3>2. CASE ~(pid[c] \in Players /\ disconnectTimers[pid[c]] # NoTimer)
      BY <2>2, <3>2 DEF RegisterPlayer
    <3> QED BY <3>1, <3>2
  <2>3. ASSUME NEW c \in Clients, UnregisterPlayer(c) PROVE (SuppressedQuit /\ FlagMeansStarted)'
    <3>1. CASE pid[c] \in Players \ suppressDisconnect /\ disconnectTimers[pid[c]] = NoTimer
      <4>1. CASE IsGameStarted
        BY <2>3, <3>1, <4>1 DEF UnregisterPlayer, IsGameStarted
      <4>2. CASE ~IsGameStarted
        BY <2>3, <3>1, <4>2 DEF UnregisterPlayer
      <4> QED BY <4>1, <4>2
    <3>2. CASE ~(pid[c] \in Players \ suppressDisconnect /\ disconnectTimers[pid[c]] = NoTimer)
      BY <2>3, <3>2 DEF UnregisterPlayer
    <3> QED BY <3>1, <3>2
  <2>4. ASSUME NEW cs \in SUBSET registry, DropFull(cs)
        PROVE  (SuppressedQuit /\ FlagMeansStarted)'
    BY <2>4 DEF DropFull
  <2>5. ASSUME NEW cs \in SUBSET registry, NEW c \in Clients, NEW kind \in Kinds,
               SendNotice(c, kind, cs)
        PROVE  (SuppressedQuit /\ FlagMeansStarted)'
    BY <2>5 DEF SendNotice
  <2>6. ASSUME NEW c \in Clients, Fire(c) \/ DeleteKey(c)
        PROVE  (SuppressedQuit /\ FlagMeansStarted)'
    BY <2>6 DEF Fire, DeleteKey
  <2>7. ASSUME NEW c \in Clients, CallHandler(c) PROVE (SuppressedQuit /\ FlagMeansStarted)'
    <3>1. ForfeitByPlayerID(pid[c]) \/ PreGameForfeitByPlayerID(pid[c])
      BY <2>7, Zenon DEF CallHandler
    <3>2. phase' = phase \/ phase' = "over"
      BY <3>1 DEF ForfeitByPlayerID, PreGameForfeitByPlayerID
    <3> QED BY <2>7, <3>2 DEF CallHandler
  <2>8. ASSUME NEW p \in Players, Leave(p) \/ Forfeit(p)
        PROVE  (SuppressedQuit /\ FlagMeansStarted)'
    BY <2>8 DEF Leave, Forfeit
  <2>9. CASE StartGame \/ EndLobby
    BY <2>9 DEF StartGame, EndLobby
  <2>10. CASE UNCHANGED preVars
    BY <2>10 DEF preVars
  <2> HIDE DEF PresenceTypeOK, SuppressedQuit, FlagMeansStarted
  <2> QED
    BY <2>1, <2>2, <2>3, <2>4, <2>5, <2>6, <2>7, <2>8, <2>9, <2>10
       DEF PresenceNext, RunPresence, Timers, Outside
<1> QED
  BY <1>1, <1>2, PresenceTypedInvariant, PTL DEF PresenceSpec

\* Whatever the order in which a player's sockets open, are replaced, dropped
\* and unregistered, and wherever the callbacks fall in between: a player who
\* is missing has a grace period that is still to end.
THEOREM OnTheClockHolds == PresenceSpec => []MissingIsOnTheClock
<1>1. PresenceInit => MissingIsOnTheClock
  BY DEF PresenceInit, MissingIsOnTheClock, Missing
<1>2. PresenceTypeOK /\ TimerOwned /\ MappedTimerPending /\ SuppressedQuit /\ FlagMeansStarted
        /\ MissingIsOnTheClock /\ [PresenceNext]_preVars => MissingIsOnTheClock'
  <2> SUFFICES ASSUME PresenceTypeOK, TimerOwned, MappedTimerPending, SuppressedQuit,
                      FlagMeansStarted, MissingIsOnTheClock, [PresenceNext]_preVars
               PROVE  MissingIsOnTheClock'
    OBVIOUS
  <2> SUFFICES ASSUME NEW p \in Players, Missing(p)'
               PROVE  (\E c \in Clients : /\ pid[c] = p
                                          /\ timer[c] \in {"armed", "fired", "calling"})'
    BY DEF MissingIsOnTheClock
  <2> DEFINE OnTheClock == \E c \in Clients : /\ pid[c] = p
                                              /\ timer[c] \in {"armed", "fired", "calling"}
  <2>0. Missing(p) => OnTheClock
    BY DEF MissingIsOnTheClock
  <2> USE DEF PresenceTypeOK, TimerOwned, Missing, Alive, Links, Phases,
          linkVars, timerVars, leaveVars, gameVars
  <2>1. ASSUME NEW c \in Clients, NEW q \in Players \cup {NoPlayer}, ConnectPlayer(c, q)
        PROVE  OnTheClock'
    BY <2>0, <2>1 DEF ConnectPlayer
  <2>2. ASSUME NEW c \in Clients, RegisterPlayer(c) PROVE OnTheClock'
    <3>1. p # pid[c]
      BY <2>2 DEF RegisterPlayer
    <3>2. Missing(p)
      BY <2>2, <3>1 DEF RegisterPlayer
    <3>3. CASE pid[c] \in Players /\ disconnectTimers[pid[c]] # NoTimer
      <4>1. pid[disconnectTimers[pid[c]]] = pid[c]
        BY <3>3 DEF MappedTimerPending
      <4> QED BY <2>0, <2>2, <3>1, <3>2, <3>3, <4>1 DEF RegisterPlayer
    <3>4. CASE ~(pid[c] \in Players /\ disconnectTimers[pid[c]] # NoTimer)
      BY <2>0, <2>2, <3>2, <3>4 DEF RegisterPlayer
    <3> QED BY <3>3, <3>4
  <2>3. ASSUME NEW c \in Clients, UnregisterPlayer(c) PROVE OnTheClock'
    <3>1. CASE pid[c] # p
      BY <2>0, <2>3, <3>1 DEF UnregisterPlayer
    <3>2. CASE pid[c] = p
      <4>1. p \notin suppressDisconnect
        BY <2>3 DEF UnregisterPlayer, SuppressedQuit
      <4>2. CASE disconnectTimers[p] = NoTimer
        BY <2>3, <3>2, <4>1, <4>2 DEF UnregisterPlayer
      <4>3. CASE disconnectTimers[p] # NoTimer
        BY <2>3, <3>2, <4>1, <4>3 DEF UnregisterPlayer, MappedTimerPending
      <4> QED BY <4>2, <4>3
    <3> QED BY <3>1, <3>2
  <2>4. ASSUME NEW cs \in SUBSET registry, DropFull(cs) PROVE OnTheClock'
    BY <2>0, <2>4 DEF DropFull
  <2>5. ASSUME NEW cs \in SUBSET registry, NEW c \in Clients, NEW kind \in Kinds,
               SendNotice(c, kind, cs)
        PROVE  OnTheClock'
    BY <2>0, <2>5 DEF SendNotice
  <2>6. ASSUME NEW c \in Clients, Fire(c) \/ DeleteKey(c) PROVE OnTheClock'
    BY <2>0, <2>6 DEF Fire, DeleteKey
  <2>7. ASSUME NEW c \in Clients, CallHandler(c) PROVE OnTheClock'
    <3>1. pid[c] # p \/ ~Missing(p)
      <4> SUFFICES ASSUME pid[c] = p, Missing(p) PROVE FALSE
        OBVIOUS
      <4>1. CASE c \in startedAt
        BY <2>7, <4>1 DEF CallHandler, ForfeitByPlayerID, FlagMeansStarted
      <4>2. CASE c \notin startedAt
        BY <2>7, <4>2 DEF CallHandler, PreGameForfeitByPlayerID
      <4> QED BY <4>1, <4>2
    <3>2. Missing(p)
      <4>1. ForfeitByPlayerID(pid[c]) \/ PreGameForfeitByPlayerID(pid[c])
        BY <2>7, Zenon DEF CallHandler
      <4>2. (phase' = phase \/ phase' = "over") /\ left \subseteq left'
        BY <4>1 DEF ForfeitByPlayerID, PreGameForfeitByPlayerID
      <4> QED BY <2>7, <4>2 DEF CallHandler
    <3> QED BY <2>0, <2>7, <3>1, <3>2 DEF CallHandler
  <2>8. ASSUME NEW q \in Players, Leave(q) \/ Forfeit(q) PROVE OnTheClock'
    BY <2>0, <2>8 DEF Leave, Forfeit
  <2>9. CASE StartGame \/ EndLobby
    BY <2>0, <2>9 DEF StartGame, EndLobby
  <2>10. CASE UNCHANGED preVars
    BY <2>0, <2>10 DEF preVars
  <2> HIDE DEF PresenceTypeOK, TimerOwned, Missing, Alive
  <2> QED
    BY <2>1, <2>2, <2>3, <2>4, <2>5, <2>6, <2>7, <2>8, <2>9, <2>10
       DEF PresenceNext, RunPresence, Timers, Outside
<1> QED
  BY <1>1, <1>2, PresenceTypedInvariant, MappedTimerHolds, PresenceFlags, PTL DEF PresenceSpec

=============================================================================
