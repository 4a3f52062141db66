------------------------------- MODULE Statics -----------------------------
(***************************************************************************)
(* The roster of one lobby in the hub's cache of statics: filled by the    *)
(* pumps (getLobby, services/websocket_service.go), dropped by the         *)
(* handlers that change players and by the hub when a lobby empties        *)
(* (services/hub_service.go, services/lobby_service.go).                   *)
(*                                                                         *)
(* A database statement or a use of the cache is one step, and pumps run   *)
(* between any two steps of a handler.  Handlers of the lobby service run  *)
(* one at a time; what they do to each other is in modules Seats and Game, *)
(* and so are the columns other than the turn.                             *)
(***************************************************************************)
EXTENDS Naturals, FiniteSets

CONSTANTS
  Seats,       \* rows of the table players that may ever be made for the lobby
  Host,        \* the row of the player who made the lobby
  Creators,    \* the rows for which the test isCreator holds
  Pumps,       \* goroutines that may be in ReadPump's handling of a message at once
  None         \* nobody

ASSUME SeatsAssumption == Host \in Seats /\ Creators \subseteq Seats
ASSUME NoneAssumption == None \notin Seats

VARIABLES
  rows,        \* the rows of players that are there
  used,        \* the rows that have been inserted
  ready,       \* the players whose row says ready
  started,     \* game_started_at is set
  over,        \* game_over
  turn,        \* turn_id
  cache,       \* the lobby's entry of staticCache: a set of one roster, or empty
  handler,     \* the handler of the lobby service that runs
  pump,        \* what a ReadPump is doing
  panicked,    \* a pump has indexed beyond its roster, and the process is gone
  overtaken    \* ghost: a roster was stored, or acted on, after it was dropped

seatsVars == <<rows, used, ready>>
rowVars == <<started, over, turn>>
vars == <<rows, used, ready, started, over, turn, cache, handler, pump, panicked, overtaken>>

----------------------------------------------------------------------------
NoCall == [op |-> "none", at |-> "none", who |-> None]
Resting == [at |-> "idle", who |-> None, roster |-> {}, turn |-> None, late |-> FALSE]

Calls == {NoCall} \cup
  [op : {"JoinLobby", "SetPlayerReady", "SetPlayerUnready"},
   at : {"save", "invalidate", "count"}, who : Seats]
PumpStates ==
  [at : {"idle", "lookup", "first", "load", "store", "act"}, who : Seats \cup {None},
   roster : SUBSET Seats, turn : Seats \cup {None}, late : BOOLEAN]

TypeOK ==
  /\ rows \subseteq Seats /\ used \subseteq Seats /\ ready \subseteq Seats
  /\ started \in BOOLEAN /\ over \in BOOLEAN
  /\ turn \in Seats
  /\ \E R \in SUBSET Seats : cache \subseteq {R}
  /\ handler \in Calls
  /\ pump \in [Pumps -> PumpStates]
  /\ panicked \in BOOLEAN /\ overtaken \in BOOLEAN

\* CreateLobby has entered the host, whose turn it is.
Init ==
  /\ rows = {Host} /\ used = {Host} /\ ready = {}
  /\ started = FALSE /\ over = FALSE
  /\ turn = Host
  /\ cache = {}
  /\ handler = NoCall
  /\ pump = [p \in Pumps |-> Resting]
  /\ panicked = FALSE
  /\ overtaken = FALSE

Running == ~panicked

\* What the pumps P have read is no longer what there is.
Outdated(P) == [p \in Pumps |-> IF p \in P THEN [pump[p] EXCEPT !.late = TRUE] ELSE pump[p]]
Busy == {p \in Pumps : pump[p].at # "idle"}
Holding == {p \in Pumps : pump[p].at \in {"first", "store", "act"}}

----------------------------------------------------------------------------
(* The cache *)

\* Mutant: the entry stays.
InvalidateNothing == UNCHANGED <<cache, pump>>

\* InvalidateLobbyStatics.
Invalidate ==
  /\ cache' = {}
  /\ pump' = Outdated(Holding)

\* Run drops the entry when the last connection of the lobby unregisters.  The
\* connections are those of module Connections: here this may be at any time.
LobbyEmpties ==
  /\ Running
  /\ cache # {}
  /\ Invalidate
  /\ UNCHANGED <<seatsVars, rowVars, handler, panicked, overtaken>>

----------------------------------------------------------------------------
(* Handlers *)

Call(op, at, who) == handler' = [op |-> op, at |-> at, who |-> who]

\* A handler calls InvalidateLobbyStatics and goes on to next.
Drop(next) ==
  /\ handler.at = "invalidate"
  /\ Invalidate
  /\ handler' = next
  /\ UNCHANGED <<seatsVars, rowVars, panicked, overtaken>>

\* Mutant: the roster is not dropped.
JoinLobbySilent ==
  \/ /\ handler = NoCall
     /\ Cardinality(rows) < 2
     /\ \E r \in Seats \ used : Call("JoinLobby", "save", r)
     /\ UNCHANGED <<seatsVars, rowVars, cache, pump, panicked, overtaken>>
  \/ /\ handler.op = "JoinLobby" /\ handler.at = "save"
     /\ rows' = rows \cup {handler.who}
     /\ used' = used \cup {handler.who}
     /\ handler' = NoCall
     /\ UNCHANGED <<ready, rowVars, cache, pump, panicked, overtaken>>

\* Two players are counted before, the player is inserted, the roster dropped.
\* Whether the game has started or is over is not looked at.
JoinLobby ==
  \/ /\ handler = NoCall
     /\ Cardinality(rows) < 2
     /\ \E r \in Seats \ used : Call("JoinLobby", "save", r)
     /\ UNCHANGED <<seatsVars, rowVars, cache, pump, panicked, overtaken>>
  \/ /\ handler.op = "JoinLobby" /\ handler.at = "save"
     /\ rows' = rows \cup {handler.who}
     /\ used' = used \cup {handler.who}
     /\ Call("JoinLobby", "invalidate", handler.who)
     /\ UNCHANGED <<ready, rowVars, cache, pump, panicked, overtaken>>
  \/ handler.op = "JoinLobby" /\ Drop(NoCall)

\* The player's row is saved, the roster dropped, and the game starts if every
\* player is ready.  The button is there with two players.
SetPlayerReady ==
  \/ /\ handler = NoCall
     /\ ~started /\ ~over /\ Cardinality(rows) >= 2
     /\ \E r \in rows : Call("SetPlayerReady", "save", r)
     /\ UNCHANGED <<seatsVars, rowVars, cache, pump, panicked, overtaken>>
  \/ /\ handler.op = "SetPlayerReady" /\ handler.at = "save"
     /\ ready' = ready \cup {handler.who}
     /\ Call("SetPlayerReady", "invalidate", handler.who)
     /\ UNCHANGED <<rows, used, rowVars, cache, pump, panicked, overtaken>>
  \/ /\ handler.op = "SetPlayerReady"
     /\ Drop([handler EXCEPT !.at = "count"])
  \/ /\ handler.op = "SetPlayerReady" /\ handler.at = "count"
     /\ started' = (started \/ rows \subseteq ready)
     /\ handler' = NoCall
     /\ UNCHANGED <<seatsVars, over, turn, cache, pump, panicked, overtaken>>

\* Before the start only.
SetPlayerUnready ==
  \/ /\ handler = NoCall
     /\ ~started
     /\ \E r \in rows \cap ready : Call("SetPlayerUnready", "save", r)
     /\ UNCHANGED <<seatsVars, rowVars, cache, pump, panicked, overtaken>>
  \/ /\ handler.op = "SetPlayerUnready" /\ handler.at = "save"
     /\ ready' = ready \ {handler.who}
     /\ Call("SetPlayerUnready", "invalidate", handler.who)
     /\ UNCHANGED <<rows, used, rowVars, cache, pump, panicked, overtaken>>
  \/ handler.op = "SetPlayerUnready" /\ Drop(NoCall)

\* The creator ends the lobby, anybody else is deleted.  The roster is not dropped.
LeaveBeforeStart(r) ==
  /\ IF r \in Creators
     THEN over' = TRUE /\ UNCHANGED <<rows, pump>>
     ELSE rows' = rows \ {r} /\ pump' = Outdated(Busy) /\ UNCHANGED over
  /\ UNCHANGED <<used, ready, started, turn, cache, handler, panicked, overtaken>>

\* A player leaves: before the start as above, later the game is over.
ForfeitLobby(r) ==
  /\ Running
  /\ handler = NoCall
  /\ r \in rows /\ ~over
  /\ \/ ~started /\ LeaveBeforeStart(r)
     \/ /\ started
        /\ over' = TRUE
        /\ UNCHANGED <<seatsVars, started, turn, cache, handler, pump, panicked, overtaken>>

\* A grace period that began before the start is over, perhaps after the start.
PreGameForfeitByPlayerID(r) ==
  /\ Running
  /\ handler = NoCall
  /\ r \in rows /\ ~over
  /\ LeaveBeforeStart(r)

----------------------------------------------------------------------------
(* Pumps *)

\* getLobby returns; only a swap uses what it returns.
Got(p) ==
  pump' = [pump EXCEPT ![p] = IF @.who = None THEN Resting ELSE [@ EXCEPT !.at = "act"]]

\* A message for which getLobby is called; who is None unless it swaps the turn.
Begin(p, who) ==
  /\ pump[p] = Resting
  /\ pump' = [pump EXCEPT ![p].at = "lookup", ![p].who = who]
  /\ UNCHANGED <<seatsVars, rowVars, cache, handler, panicked, overtaken>>

\* A connection is greeted with the lobby, or a message changes no turn.
Show(p) == Begin(p, None)

\* The last answer of a turn arrives; pages offer it while a game is played, to a
\* player who is not just joining it.
Answer(p) ==
  /\ started /\ ~over
  /\ \E r \in rows :
       /\ handler.op = "JoinLobby" => handler.who # r
       /\ Begin(p, r)

\* getLobby, first half: the cached roster and then a fresh row, or a fresh row
\* and its players.
Lookup(p) ==
  \/ /\ pump[p].at = "lookup"
     /\ \/ cache = {} /\ pump' = [pump EXCEPT ![p].at = "load"]
        \/ \E R \in cache : pump' = [pump EXCEPT ![p].at = "first", ![p].roster = R]
  \/ /\ pump[p].at = "load"
     /\ pump' = [pump EXCEPT ![p].at = "store", ![p].roster = rows, ![p].turn = turn]
  \/ /\ pump[p].at = "first"
     /\ pump' = [pump EXCEPT ![p] = IF @.who = None THEN Resting
                                    ELSE [@ EXCEPT !.at = "act", !.turn = turn]]

\* getLobby, second half: the roster that was read is cached, whatever has
\* happened to the players and to the cache since.
Store(p) ==
  /\ pump[p].at = "store"
  /\ cache' = {pump[p].roster}
  /\ overtaken' = (overtaken \/ pump[p].late)
  /\ Got(p)

\* Players[0] and Players[1], in the order the database gave them: whoever of
\* the roster is not on turn.
NextTurns(roster, t) == roster \ {t}

\* lobbySwapTurn: saving the lobby inserts again those of its roster who are
\* gone.  A roster without a second player is indexed out of range.
Swap(p) ==
  /\ overtaken' = (overtaken \/ pump[p].late)
  /\ IF NextTurns(pump[p].roster, pump[p].turn) = {}
     THEN panicked' = TRUE /\ UNCHANGED <<rows, turn, pump>>
     ELSE /\ turn' \in NextTurns(pump[p].roster, pump[p].turn)
          /\ rows' = rows \cup pump[p].roster
          /\ pump' = [pump EXCEPT ![p] = [Resting EXCEPT !.at = "lookup"]]
          /\ UNCHANGED panicked

\* An answer is handled.  That of the player on turn is refused; after a swap
\* the lobby is told, which is another getLobby.
Act(p) ==
  /\ pump[p].at = "act"
  /\ UNCHANGED cache
  /\ \/ pump[p].who # pump[p].turn /\ Swap(p)
     \/ /\ pump[p].who = pump[p].turn
        /\ pump' = [pump EXCEPT ![p] = Resting]
        /\ UNCHANGED <<rows, turn, panicked, overtaken>>

----------------------------------------------------------------------------
Handle == Running /\ (JoinLobby \/ SetPlayerReady \/ SetPlayerUnready)

Pump(p) ==
  /\ Running
  /\ \/ Show(p) \/ Answer(p)
     \/ Lookup(p) /\ UNCHANGED <<seatsVars, rowVars, cache, handler, panicked, overtaken>>
     \/ Store(p) /\ UNCHANGED <<seatsVars, rowVars, handler, panicked>>
     \/ Act(p) /\ UNCHANGED <<used, ready, started, over, handler>>

Next ==
  \/ LobbyEmpties
  \/ Handle
  \/ \E r \in Seats : ForfeitLobby(r) \/ PreGameForfeitByPlayerID(r)
  \/ \E p \in Pumps : Pump(p)

Spec == Init /\ [][Next]_vars

----------------------------------------------------------------------------
(* What holds as long as no pump uses a roster that was dropped meanwhile *)

\* The player who has been inserted while the old roster is still to be dropped.
Joining == IF handler.op = "JoinLobby" /\ handler.at = "invalidate" THEN {handler.who} ELSE {}

\* Whoever plays is in the cached roster, but for one who is just joining: however
\* fills, joins, departures and the saves of other pumps interleave.
RosterHasThePlayers == ~overtaken => \A R \in cache : rows \ Joining \subseteq R

\* No pump looks for an opponent in a roster that has none, which would end the
\* process.
SwapFindsOpponent == panicked => overtaken

=============================================================================
