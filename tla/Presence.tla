------------------------------ MODULE Presence -----------------------------
(***************************************************************************)
(* Disconnects, reconnects and grace periods (services/hub_service.go).    *)
(* When a connection unregisters, Run announces it and starts a timer,     *)
(* unless the player left on purpose; when the player registers again, Run *)
(* stops the timer and announces that.  A timer that runs out forfeits the *)
(* game (after the start) or removes the player (before it).               *)
(*                                                                         *)
(* A connection is reduced to its link: idle, opening (HandleWebSocket     *)
(* waits for Run), open (registered; its ReadPump lives), gone.  Module    *)
(* Connections has the pumps and channels; module Hub joins the two.       *)
(*                                                                         *)
(* Grain of atomicity: a case of Run's select is one action.  Inside a     *)
(* case, everything another goroutine may touch (timer map, suppress set,  *)
(* lobby row) is touched once, so a concurrent step that falls inside the  *)
(* case can be moved before or after it.  A timer passes through all the   *)
(* points where it races: armed; fired, when the runtime has started the   *)
(* callback and Stop comes too late; calling, when the callback has        *)
(* deleted its key and has not yet called the handler.                     *)
(*                                                                         *)
(* The lobby row only moves forward here.  Lost updates of concurrent      *)
(* saves, which can also take it back, are the matter of module Game.      *)
(***************************************************************************)
EXTENDS Grace

VARIABLE link   \* how far a connection is

timerVars  == <<timer, startedAt, disconnectTimers>>
leaveVars  == <<suppressDisconnect, quit>>
gameVars   == <<phase, left, forfeited>>
linkVars   == <<pid, link, registry>>
preVars == <<linkVars, timerVars, leaveVars, notices, gameVars>>

----------------------------------------------------------------------------
Links == {"idle", "opening", "open", "gone"}
TimerStages == {"none", "armed", "stopped", "fired", "calling", "done"}
Kinds == {"opponent_disconnected", "player_reconnected"}
Phases == {"waiting", "started", "over"}

Connected(p) == \E c \in registry : pid[c] = p
Alive(p) == \E c \in Clients : pid[c] = p /\ link[c] \in {"opening", "open"}
IsGameStarted == phase = "started"

PresenceTypeOK ==
  /\ pid \in [Clients -> Players \cup {NoPlayer}]
  /\ link \in [Clients -> Links]
  /\ registry \in SUBSET Clients
  /\ timer \in [Clients -> TimerStages]
  /\ startedAt \in SUBSET Clients
  /\ disconnectTimers \in [Players -> Clients \cup {NoTimer}]
  /\ suppressDisconnect \in SUBSET Players
  /\ quit \in SUBSET Players
  /\ notices \in SUBSET (Clients \X Kinds)
  /\ phase \in Phases
  /\ left \in SUBSET Players
  /\ forfeited \in SUBSET Players

PresenceInit ==
  /\ pid = [c \in Clients |-> NoPlayer]
  /\ link = [c \in Clients |-> "idle"]
  /\ registry = {}
  /\ timer = [c \in Clients |-> "none"]
  /\ startedAt = {}
  /\ disconnectTimers = [p \in Players |-> NoTimer]
  /\ suppressDisconnect = {}
  /\ quit = {}
  /\ notices = {}
  /\ phase = "waiting"
  /\ left = {}
  /\ forfeited = {}

----------------------------------------------------------------------------
(* Connections come and go *)

\* HandleWebSocket, up to the send on h.register.
ConnectPlayer(c, p) ==
  /\ link[c] = "idle"
  /\ p \in Players => Overlap \/ ~Alive(p)
  /\ link' = [link EXCEPT ![c] = "opening"]
  /\ pid' = [pid EXCEPT ![c] = p]
  /\ UNCHANGED <<registry, timerVars, leaveVars, notices, gameVars>>

\* Mutant: the timer is stopped, its key stays in the map.
RegisterKeepsKey(c) ==
  LET p == pid[c]
  IN  /\ link[c] = "opening"
      /\ link' = [link EXCEPT ![c] = "open"]
      /\ registry' = (registry \ Replaced(c)) \cup {c}
      /\ IF p \in Players /\ disconnectTimers[p] # NoTimer
         THEN LET t == disconnectTimers[p]
              IN  /\ timer' = [timer EXCEPT
                                 ![t] = IF @ = "armed" THEN "stopped" ELSE @]
                  /\ notices' = notices \cup {<<c, "player_reconnected">>}
         ELSE UNCHANGED <<timer, notices>>
      /\ UNCHANGED <<pid, startedAt, disconnectTimers, leaveVars, gameVars>>

\* case client := <-h.register: older connections of the player are dropped
\* from the map and a running grace period of the player is cancelled.
RegisterPlayer(c) ==
  LET p == pid[c]
  IN  /\ link[c] = "opening"
      /\ link' = [link EXCEPT ![c] = "open"]
      /\ registry' = (registry \ Replaced(c)) \cup {c}
      /\ IF p \in Players /\ disconnectTimers[p] # NoTimer
         THEN LET t == disconnectTimers[p]
              IN  /\ timer' = [timer EXCEPT
                                 ![t] = IF @ = "armed" THEN "stopped" ELSE @]
                  /\ disconnectTimers' = [disconnectTimers EXCEPT ![p] = NoTimer]
                  /\ notices' = notices \cup {<<c, "player_reconnected">>}
         ELSE UNCHANGED <<timer, disconnectTimers, notices>>
      /\ UNCHANGED <<pid, startedAt, leaveVars, gameVars>>

\* Mutant: a second disconnect stacks a timer on a running one.
UnregisterStacks(c) ==
  LET p == pid[c]
  IN  /\ link[c] = "open"
      /\ link' = [link EXCEPT ![c] = "gone"]
      /\ registry' = registry \ {c}
      /\ IF p \in Players \ suppressDisconnect
         THEN /\ notices' = notices \cup {<<c, "opponent_disconnected">>}
              /\ timer' = [timer EXCEPT ![c] = "armed"]
              /\ startedAt' = IF IsGameStarted THEN startedAt \cup {c} ELSE startedAt
              /\ disconnectTimers' = [disconnectTimers EXCEPT ![p] = c]
         ELSE UNCHANGED <<notices, timerVars>>
      /\ suppressDisconnect' = suppressDisconnect \ {p}
      /\ UNCHANGED <<pid, quit, gameVars>>

\* Mutant: only a connection that is still in the map starts a grace period.
UnregisterMapped(c) ==
  /\ link[c] = "open"
  /\ IF c \in registry THEN UnregisterStacks(c)
     ELSE /\ link' = [link EXCEPT ![c] = "gone"]
          /\ UNCHANGED <<pid, registry, timerVars, leaveVars, notices, gameVars>>

\* case client := <-h.unregister: whether or not the connection was still in
\* the map, its player's disconnect is announced and a grace period starts if
\* none is running, unless the suppress flag is set, which is then consumed.
UnregisterPlayer(c) ==
  LET p == pid[c]
  IN  /\ link[c] = "open"
      /\ link' = [link EXCEPT ![c] = "gone"]
      /\ registry' = registry \ {c}
      /\ IF p \in Players \ suppressDisconnect
         THEN /\ notices' = notices \cup {<<c, "opponent_disconnected">>}
              /\ IF disconnectTimers[p] = NoTimer
                 THEN /\ timer' = [timer EXCEPT ![c] = "armed"]
                      /\ startedAt' = IF IsGameStarted THEN startedAt \cup {c} ELSE startedAt
                      /\ disconnectTimers' = [disconnectTimers EXCEPT ![p] = c]
                 ELSE UNCHANGED timerVars
         ELSE UNCHANGED <<notices, timerVars>>
      /\ suppressDisconnect' = suppressDisconnect \ {p}
      /\ UNCHANGED <<pid, quit, gameVars>>

\* Any broadcast drops the registered connections whose buffer is full.
DropFull(cs) ==
  /\ cs # {}
  /\ cs \subseteq registry
  /\ registry' = registry \ cs
  /\ UNCHANGED <<pid, link, timerVars, leaveVars, notices, gameVars>>

\* case message := <-h.broadcast, for a message of a goroutine that Run itself
\* spawned; the goroutines are received in any order.  Connections with a full
\* buffer (cs) are dropped, the others get the message.
SendNotice(c, kind, cs) ==
  /\ <<c, kind>> \in notices
  /\ cs \subseteq registry
  /\ notices' = notices \ {<<c, kind>>}
  /\ registry' = registry \ cs
  /\ UNCHANGED <<pid, link, timerVars, leaveVars, gameVars>>

----------------------------------------------------------------------------
(* Grace-period timers: time.AfterFunc and its callback *)

\* The grace period is over and the runtime starts the callback.
Fire(c) ==
  /\ timer[c] = "armed"
  /\ timer' = [timer EXCEPT ![c] = "fired"]
  /\ UNCHANGED <<linkVars, startedAt, disconnectTimers, leaveVars, notices, gameVars>>

\* Mutant: the callback leaves the player's key in the map.
DeleteNothing(c) ==
  /\ timer[c] = "fired"
  /\ timer' = [timer EXCEPT ![c] = "calling"]
  /\ UNCHANGED <<linkVars, startedAt, disconnectTimers, leaveVars, notices, gameVars>>

\* The callback locks disconnectMu and deletes the player's key, whichever
\* timer that key maps to by now.
DeleteKey(c) ==
  /\ timer[c] = "fired"
  /\ timer' = [timer EXCEPT ![c] = "calling"]
  /\ disconnectTimers' = [disconnectTimers EXCEPT ![pid[c]] = NoTimer]
  /\ UNCHANGED <<linkVars, startedAt, leaveVars, notices, gameVars>>

\* DisconnectHandler, ForfeitByPlayerID: only while the game runs.
ForfeitByPlayerID(p) ==
  IF phase = "started" /\ p \notin left
  THEN /\ phase' = "over"
       /\ forfeited' = forfeited \cup {p}
       /\ UNCHANGED left
  ELSE UNCHANGED gameVars

\* PreGameDisconnectHandler, PreGameForfeitByPlayerID: also after the start.
\* It ends the lobby of its creator and deletes the row of a joiner; which of
\* the two a player is taken for, see module Seats.
PreGameForfeitByPlayerID(p) ==
  IF phase # "over" /\ p \notin left
  THEN /\ \/ phase' = "over" /\ UNCHANGED left
          \/ left' = left \cup {p} /\ UNCHANGED phase
       /\ forfeited' = forfeited \cup {p}
  ELSE UNCHANGED gameVars

\* Mutant: the handler gets the connection for the player.
CallHandlerForClient(c) ==
  /\ timer[c] = "calling"
  /\ timer' = [timer EXCEPT ![c] = "done"]
  /\ IF c \in startedAt THEN ForfeitByPlayerID(c)
                     ELSE PreGameForfeitByPlayerID(c)
  /\ UNCHANGED <<linkVars, startedAt, disconnectTimers, leaveVars, notices>>

\* The callback calls the handler its captured flag selects.
CallHandler(c) ==
  /\ timer[c] = "calling"
  /\ timer' = [timer EXCEPT ![c] = "done"]
  /\ IF c \in startedAt THEN ForfeitByPlayerID(pid[c])
                     ELSE PreGameForfeitByPlayerID(pid[c])
  /\ UNCHANGED <<linkVars, startedAt, disconnectTimers, leaveVars, notices>>

----------------------------------------------------------------------------
(* Calls of the HTTP handlers of the lobby *)

\* The last player of the lobby gets ready (SetPlayerReady).
StartGame ==
  /\ phase = "waiting"
  /\ left # Players
  /\ phase' = "started"
  /\ UNCHANGED <<linkVars, timerVars, leaveVars, notices, left, forfeited>>

\* Something else ends the lobby: a guess or the turn timer sets game_over, or
\* the cleanup service deletes the row, and IsGameStarted and the two handlers
\* make no difference between a lobby that is over and one that is gone.
EndLobby ==
  /\ phase # "over"
  /\ phase' = "over"
  /\ UNCHANGED <<linkVars, timerVars, leaveVars, notices, left, forfeited>>

\* ForfeitLobby during the game, or by the lobby's creator before it: the lobby
\* is over.  Nothing is suppressed.
Forfeit(p) ==
  /\ phase # "over"
  /\ p \notin left
  /\ phase' = "over"
  /\ quit' = quit \cup {p}
  /\ UNCHANGED <<linkVars, timerVars, suppressDisconnect, notices, left, forfeited>>

\* ForfeitLobby by a joiner before the start: SuppressNextDisconnect, then the
\* row is deleted.  If the delete fails the flag stays set.
Leave(p) ==
  /\ phase = "waiting"
  /\ p \notin left
  /\ suppressDisconnect' = suppressDisconnect \cup {p}
  /\ quit' = quit \cup {p}
  /\ left' \in {left, left \cup {p}}
  /\ UNCHANGED <<linkVars, timerVars, notices, phase, forfeited>>

----------------------------------------------------------------------------
RunPresence ==
  \/ \E c \in Clients : RegisterPlayer(c) \/ UnregisterPlayer(c)
  \/ \E cs \in SUBSET registry :
       \/ DropFull(cs)
       \/ \E c \in Clients, kind \in Kinds : SendNotice(c, kind, cs)

Timers == \E c \in Clients : Fire(c) \/ DeleteKey(c) \/ CallHandler(c)

Outside ==
  \/ \E c \in Clients, p \in Players \cup {NoPlayer} : ConnectPlayer(c, p)
  \/ \E p \in Players : Leave(p) \/ Forfeit(p)
  \/ StartGame
  \/ EndLobby

PresenceNext == RunPresence \/ Timers \/ Outside

PresenceSpec == PresenceInit /\ [][PresenceNext]_preVars

\* The runtime fires timers and runs their callbacks, and Run serves a
\* connection that waits to register.
PresenceFairness ==
  \A c \in Clients : /\ WF_preVars(RegisterPlayer(c))
                     /\ WF_preVars(Fire(c))
                     /\ WF_preVars(DeleteKey(c))
                     /\ WF_preVars(CallHandler(c))

PresenceFairSpec == PresenceSpec /\ PresenceFairness

----------------------------------------------------------------------------
(* What the grace periods promise *)

\* A player who was here, is not here, and is still in a lobby that is not
\* over, without having left on purpose.
Missing(p) ==
  /\ \E c \in Clients : pid[c] = p /\ link[c] = "gone"
  /\ ~Alive(p)
  /\ phase # "over"
  /\ p \notin left \cup quit

\* The key of a player maps to a timer of that player whose callback is still
\* to come.  A dead entry would be taken for a running one by the next
\* unregister, and that disconnect would never run out.
MappedTimerPending ==
  \A p \in Players : \A c \in Clients :
    disconnectTimers[p] = c => pid[c] = p /\ timer[c] \in {"armed", "fired"}

\* Nobody is forgotten: whatever the order in which a player's sockets were
\* replaced, dropped and unregistered, and whichever callbacks raced with them,
\* a missing player has a grace period that is still to end.
MissingIsOnTheClock ==
  \A p \in Players : Missing(p) =>
    \E c \in Clients : pid[c] = p /\ timer[c] \in {"armed", "fired", "calling"}

\* And the period does end: a missing player comes back, or leaves the game.
MissingIsResolved == \A p \in Players : Missing(p) ~> ~Missing(p)

=============================================================================
