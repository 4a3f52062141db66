-------------------------------- MODULE Game -------------------------------
(***************************************************************************)
(* The game of one lobby with its two players: the lobby row in the        *)
(* database, the turn timer in the hub, and the handlers that change them  *)
(* (services/lobby_service.go, services/websocket_service.go, the timer    *)
(* half of services/hub_service.go).                                       *)
(*                                                                         *)
(* Handlers run concurrently and no transaction spans two statements, so   *)
(* the grain of atomicity is one database statement or one call of the     *)
(* hub.  A handler reads the row into a snapshot and writes it back in one *)
(* of two ways: DB.Save writes EVERY column from the snapshot,             *)
(* DB.Updates only the columns it names.                                   *)
(*                                                                         *)
(* Calls are what the page offers when they begin (frontend/src).  Columns *)
(* that only feed the countdown on the page are left out, and so is the    *)
(* coming and going of the second player.                                  *)
(***************************************************************************)
EXTENDS Naturals

CONSTANTS
  Players,     \* the two players
  Creator,     \* the one who made the lobby, and has the first turn
  Slots,       \* HTTP and ReadPump goroutines that may run a handler at once
  Timers,      \* turn timers that may exist at once
  NoTimer,     \* no entry in the turnTimers map
  Nobody,      \* NULL in a column that holds a player
  Chat,        \* Lobby.ChatFeature: questions are asked through the server
  Timed,       \* Lobby.TurnTimerSeconds > 0
  Serial,      \* whether a handler runs only while no other handler does
  Offers,      \* operations the players may call
  MaxCount     \* counters stop here: more than one is all that matters

ASSUME PlayersAssumption == \E p \in Players : p # Creator /\ Players = {Creator, p}
ASSUME NobodyAssumption == Nobody \notin Players
ASSUME TimersAssumption == NoTimer \notin Timers /\ Slots \cap Timers = {}
ASSUME MaxCountAssumption == MaxCount \in Nat \ {0}
ASSUME OptionsAssumption == {Chat, Timed, Serial} \subseteq BOOLEAN /\ (Timed => Chat)

VARIABLES
  row,         \* the lobby's row
  ready,       \* players whose row has ready = TRUE
  pending,     \* whether the last stored question has no stored response
  plays,       \* how often the game was counted in play_count, up to MaxCount
  results,     \* GameRecords written for a player, up to MaxCount
  call,        \* what the goroutine of a slot, or of a timer callback, is doing
  timer,       \* the turn timers
  turnTimers   \* h.turnTimers[lobby]

gameVars == <<row, ready, pending, plays, results, call, timer, turnTimers>>

----------------------------------------------------------------------------
Rows == [started : BOOLEAN, over : BOOLEAN, winner : Players \cup {Nobody},
         turn : Players, paused : BOOLEAN,
         pauseBy : Players \cup {Nobody}, resumeBy : Players \cup {Nobody}]

NewRow == [started |-> FALSE, over |-> FALSE, winner |-> Nobody, turn |-> Creator,
           paused |-> FALSE, pauseBy |-> Nobody, resumeBy |-> Nobody]

EndOps == {"MakeGuessLobby", "ForfeitLobby", "ForfeitByPlayerID"}
PumpOps == {"RequestPause", "AcceptPause", "RequestResume", "AcceptResume",
            "game", "response"}    \* a ReadPump runs one of these at a time
Ops == {"SetPlayerReady", "SetPlayerUnready"} \cup EndOps \cup PumpOps
ASSUME OffersAssumption == Offers \subseteq Ops

Points == {"load", "save", "count", "update", "timer", "store", "record"}

Idle == [op |-> "none", who |-> Nobody, at |-> "none", snap |-> NewRow]
Calls == [op : Ops, who : Players, at : Points, snap : Rows] \cup {Idle}

Off == [at |-> "off", who |-> Nobody]
TimerStates == [at : {"armed", "fired"}, who : Players] \cup {Off}

TypeOK ==
  /\ row \in Rows
  /\ ready \in SUBSET Players
  /\ pending \in BOOLEAN
  /\ plays \in 0..MaxCount
  /\ results \in [Players -> 0..MaxCount]
  /\ call \in [Slots \cup Timers -> Calls]
  /\ timer \in [Timers -> TimerStates]
  /\ turnTimers \in Timers \cup {NoTimer}

Init ==
  /\ row = NewRow
  /\ ready = {}
  /\ pending = FALSE
  /\ plays = 0
  /\ results = [p \in Players |-> 0]
  /\ call = [s \in Slots \cup Timers |-> Idle]
  /\ timer = [t \in Timers |-> Off]
  /\ turnTimers = NoTimer

Other(p) == CHOOSE q \in Players : q # p
Count(n) == IF n < MaxCount THEN n + 1 ELSE n

Quiet == \A s \in Slots \cup Timers : call[s] = Idle

At(s, op, point) == call[s].op = op /\ call[s].at = point
Snap(s) == call[s].snap
Who(s) == call[s].who

\* All that a handler still uses of a row once it has written it.
TurnOf(r) == [NewRow EXCEPT !.turn = r.turn]

Goto(s, point, snap) == call' = [call EXCEPT ![s].at = point, ![s].snap = snap]
Return(s) == call' = [call EXCEPT ![s] = Idle]

----------------------------------------------------------------------------
(* The hub's turn timer *)

\* Mutant: the callback's key is left behind.
CallbackKeepsKey(t) ==
  /\ timer[t].at = "fired"
  /\ Serial => Quiet
  /\ timer' = [timer EXCEPT ![t] = Off]
  /\ call' = [call EXCEPT ![t] = [op |-> "ForfeitByPlayerID", who |-> timer[t].who,
                                  at |-> "load", snap |-> NewRow]]
  /\ UNCHANGED <<row, ready, pending, plays, results, turnTimers>>

\* Mutant: the callback is handed the timer where the player is meant.
CallbackForTimer(t) ==
  /\ timer[t].at = "fired"
  /\ Serial => Quiet
  /\ turnTimers' = NoTimer
  /\ timer' = [timer EXCEPT ![t] = Off]
  /\ call' = [call EXCEPT ![t] = [op |-> "ForfeitByPlayerID", who |-> t,
                                  at |-> "load", snap |-> NewRow]]
  /\ UNCHANGED <<row, ready, pending, plays, results>>

\* The callback of time.AfterFunc, which deletes the lobby's key, whichever
\* timer it maps to by now, and calls TurnExpiredHandler.
Callback(t) ==
  /\ timer[t].at = "fired"
  /\ Serial => Quiet
  /\ turnTimers' = NoTimer
  /\ timer' = [timer EXCEPT ![t] = Off]
  /\ call' = [call EXCEPT ![t] = [op |-> "ForfeitByPlayerID", who |-> timer[t].who,
                                  at |-> "load", snap |-> NewRow]]
  /\ UNCHANGED <<row, ready, pending, plays, results>>

\* The time is up: the runtime starts the callback, and Stop comes too late.
Fire(t) ==
  /\ timer[t].at = "armed"
  /\ timer' = [timer EXCEPT ![t].at = "fired"]
  /\ UNCHANGED <<row, ready, pending, plays, results, call, turnTimers>>

\* Every timer, with the mapped one stopped if that is still possible.
Stopped == [t \in Timers |-> IF t = turnTimers /\ timer[t].at = "armed"
                             THEN Off ELSE timer[t]]

StartTurnTimer(p) ==
  \E t \in Timers :
    /\ Stopped[t] = Off /\ call[t] = Idle
    /\ timer' = [Stopped EXCEPT ![t] = [at |-> "armed", who |-> p]]
    /\ turnTimers' = t

CancelTurnTimer ==
  /\ timer' = Stopped
  /\ turnTimers' = NoTimer

----------------------------------------------------------------------------
(* Getting ready *)

\* The player's row is saved, the players who are not ready are counted; after
\* the last one the lobby is read, started if it was not, and the clock set.
SetPlayerReady(s) ==
  \/ /\ At(s, "SetPlayerReady", "save")
     /\ ready' = ready \cup {Who(s)}
     /\ Goto(s, "count", NewRow)
     /\ UNCHANGED <<row, pending, plays, results, timer, turnTimers>>
  \/ /\ At(s, "SetPlayerReady", "count")
     /\ IF ready = Players THEN Goto(s, "load", NewRow) ELSE Return(s)
     /\ UNCHANGED <<row, ready, pending, plays, results, timer, turnTimers>>
  \/ /\ At(s, "SetPlayerReady", "load")
     /\ \/ ~row.started /\ Goto(s, "update", TurnOf(row))
        \/ row.started /\ Timed /\ Goto(s, "timer", TurnOf(row))
        \/ row.started /\ ~Timed /\ Return(s)
     /\ UNCHANGED <<row, ready, pending, plays, results, timer, turnTimers>>
  \/ /\ At(s, "SetPlayerReady", "update")
     /\ row' = [row EXCEPT !.started = TRUE]
     /\ plays' = Count(plays)
     /\ IF Timed THEN Goto(s, "timer", Snap(s)) ELSE Return(s)
     /\ UNCHANGED <<ready, pending, results, timer, turnTimers>>
  \/ /\ At(s, "SetPlayerReady", "timer")
     /\ StartTurnTimer(Snap(s).turn)
     /\ Return(s)
     /\ UNCHANGED <<row, ready, pending, plays, results>>

SetPlayerUnready(s) ==
  \/ /\ At(s, "SetPlayerUnready", "load")
     /\ IF row.started THEN Return(s) ELSE Goto(s, "save", row)
     /\ UNCHANGED <<row, ready, pending, plays, results, timer, turnTimers>>
  \/ /\ At(s, "SetPlayerUnready", "save")
     /\ ready' = ready \ {Who(s)}
     /\ Return(s)
     /\ UNCHANGED <<row, pending, plays, results, timer, turnTimers>>

----------------------------------------------------------------------------
(* The end of the game *)

\* writeGameRecords: one record for each of the two players.
WriteGameRecords(s) ==
  /\ call[s].op \in EndOps /\ call[s].at = "record"
  /\ results' = [p \in Players |-> Count(results[p])]
  /\ Return(s)
  /\ UNCHANGED <<row, ready, pending, plays, timer, turnTimers>>

\* A right guess makes the guesser the winner, a wrong one the other player.
\* Neither the turn nor the end of the game is looked at.
MakeGuessLobby(s) ==
  \/ /\ At(s, "MakeGuessLobby", "load")
     /\ Goto(s, "save", row)
     /\ UNCHANGED <<row, ready, pending, plays, results, timer, turnTimers>>
  \/ /\ At(s, "MakeGuessLobby", "save")
     /\ \E w \in Players : row' = [Snap(s) EXCEPT !.over = TRUE, !.winner = w]
     /\ Goto(s, "record", NewRow)
     /\ UNCHANGED <<ready, pending, plays, results, timer, turnTimers>>

\* Mutant: a game that is over is forfeited again.
ForfeitByPlayerIDAgain(s) ==
  \/ /\ At(s, "ForfeitByPlayerID", "load")
     /\ IF ~row.started THEN Return(s) ELSE Goto(s, "save", row)
     /\ UNCHANGED <<row, ready, pending, plays, results, timer, turnTimers>>
  \/ /\ At(s, "ForfeitByPlayerID", "save")
     /\ row' = [Snap(s) EXCEPT !.over = TRUE, !.winner = Other(Who(s))]
     /\ Goto(s, "record", NewRow)
     /\ UNCHANGED <<ready, pending, plays, results, timer, turnTimers>>

\* ForfeitByPlayerID, called by a turn timer.
ForfeitByPlayerID(s) ==
  \/ /\ At(s, "ForfeitByPlayerID", "load")
     /\ IF row.over \/ ~row.started THEN Return(s) ELSE Goto(s, "save", row)
     /\ UNCHANGED <<row, ready, pending, plays, results, timer, turnTimers>>
  \/ /\ At(s, "ForfeitByPlayerID", "save")
     /\ row' = [Snap(s) EXCEPT !.over = TRUE, !.winner = Other(Who(s))]
     /\ Goto(s, "record", NewRow)
     /\ UNCHANGED <<ready, pending, plays, results, timer, turnTimers>>

\* ForfeitLobby, called by the page: before the start the creator ends the
\* lobby without a winner (and the other one leaves it, which this module does
\* not follow), after it the other player wins.
ForfeitLobby(s) ==
  \/ /\ At(s, "ForfeitLobby", "load")
     /\ Goto(s, "save", row)
     /\ UNCHANGED <<row, ready, pending, plays, results, timer, turnTimers>>
  \/ /\ At(s, "ForfeitLobby", "save")
     /\ \/ /\ ~Snap(s).started /\ Who(s) = Creator
           /\ row' = [Snap(s) EXCEPT !.over = TRUE]
           /\ Return(s)
        \/ ~Snap(s).started /\ Who(s) # Creator /\ UNCHANGED row /\ Return(s)
        \/ /\ Snap(s).started
           /\ row' = [Snap(s) EXCEPT !.over = TRUE, !.winner = Other(Who(s))]
           /\ Goto(s, "record", NewRow)
     /\ UNCHANGED <<ready, pending, plays, results, timer, turnTimers>>

----------------------------------------------------------------------------
(* Pausing and resuming *)

RequestPause(s) ==
  \/ /\ At(s, "RequestPause", "load")
     /\ IF row.over \/ ~Timed \/ row.paused \/ row.pauseBy # Nobody
        THEN Return(s) ELSE Goto(s, "save", row)
     /\ UNCHANGED <<row, ready, pending, plays, results, timer, turnTimers>>
  \/ /\ At(s, "RequestPause", "save")
     /\ row' = [Snap(s) EXCEPT !.pauseBy = Who(s)]
     /\ Return(s)
     /\ UNCHANGED <<ready, pending, plays, results, timer, turnTimers>>

\* Mutant: the game pauses and the clock goes on.
AcceptPauseNoCancel(s) ==
  \/ /\ At(s, "AcceptPause", "load")
     /\ Goto(s, "update", NewRow)
     /\ UNCHANGED <<row, ready, pending, plays, results, timer, turnTimers>>
  \/ /\ At(s, "AcceptPause", "update")
     /\ row' = [row EXCEPT !.paused = TRUE, !.pauseBy = Nobody]
     /\ Return(s)
     /\ UNCHANGED <<ready, pending, plays, results, timer, turnTimers>>

\* Mutant: the request stays in the row that is paused.
AcceptPauseKeepsRequest(s) ==
  \/ /\ At(s, "AcceptPause", "load")
     /\ IF row.over \/ ~Timed \/ row.paused \/ row.pauseBy \in {Nobody, Who(s)}
        THEN Return(s) ELSE Goto(s, "update", NewRow)
     /\ UNCHANGED <<row, ready, pending, plays, results, timer, turnTimers>>
  \/ /\ At(s, "AcceptPause", "update")
     /\ row' = [row EXCEPT !.paused = TRUE]
     /\ Goto(s, "timer", NewRow)
     /\ UNCHANGED <<ready, pending, plays, results, timer, turnTimers>>
  \/ /\ At(s, "AcceptPause", "timer")
     /\ CancelTurnTimer
     /\ Return(s)
     /\ UNCHANGED <<row, ready, pending, plays, results>>

\* Only the other player can accept; then the clock stops.
AcceptPause(s) ==
  \/ /\ At(s, "AcceptPause", "load")
     /\ IF row.over \/ ~Timed \/ row.paused \/ row.pauseBy \in {Nobody, Who(s)}
        THEN Return(s) ELSE Goto(s, "update", NewRow)
     /\ UNCHANGED <<row, ready, pending, plays, results, timer, turnTimers>>
  \/ /\ At(s, "AcceptPause", "update")
     /\ row' = [row EXCEPT !.paused = TRUE, !.pauseBy = Nobody]
     /\ Goto(s, "timer", NewRow)
     /\ UNCHANGED <<ready, pending, plays, results, timer, turnTimers>>
  \/ /\ At(s, "AcceptPause", "timer")
     /\ CancelTurnTimer
     /\ Return(s)
     /\ UNCHANGED <<row, ready, pending, plays, results>>

RequestResume(s) ==
  \/ /\ At(s, "RequestResume", "load")
     /\ IF row.over \/ ~row.paused \/ row.resumeBy # Nobody
        THEN Return(s) ELSE Goto(s, "save", row)
     /\ UNCHANGED <<row, ready, pending, plays, results, timer, turnTimers>>
  \/ /\ At(s, "RequestResume", "save")
     /\ row' = [Snap(s) EXCEPT !.resumeBy = Who(s)]
     /\ Return(s)
     /\ UNCHANGED <<ready, pending, plays, results, timer, turnTimers>>

\* Mutant: the game resumes and the clock stays stopped.
AcceptResumeNoTimer(s) ==
  \/ /\ At(s, "AcceptResume", "load")
     /\ Goto(s, "update", TurnOf(row))
     /\ UNCHANGED <<row, ready, pending, plays, results, timer, turnTimers>>
  \/ /\ At(s, "AcceptResume", "update")
     /\ row' = [row EXCEPT !.paused = FALSE, !.resumeBy = Nobody]
     /\ Return(s)
     /\ UNCHANGED <<ready, pending, plays, results, timer, turnTimers>>

\* Only the other player can accept; then the clock of the player whose turn it
\* is goes on.
AcceptResume(s) ==
  \/ /\ At(s, "AcceptResume", "load")
     /\ IF row.over \/ ~row.paused \/ row.resumeBy \in {Nobody, Who(s)}
        THEN Return(s) ELSE Goto(s, "update", TurnOf(row))
     /\ UNCHANGED <<row, ready, pending, plays, results, timer, turnTimers>>
  \/ /\ At(s, "AcceptResume", "update")
     /\ row' = [row EXCEPT !.paused = FALSE, !.resumeBy = Nobody]
     /\ Goto(s, "timer", Snap(s))
     /\ UNCHANGED <<ready, pending, plays, results, timer, turnTimers>>
  \/ /\ At(s, "AcceptResume", "timer")
     /\ StartTurnTimer(Snap(s).turn)
     /\ Return(s)
     /\ UNCHANGED <<row, ready, pending, plays, results>>

----------------------------------------------------------------------------
(* Questions and answers: the turn enforcement of ReadPump *)

\* A question out of turn is refused; one in turn puts the other player on the
\* clock and is stored.
Question(s) ==
  \/ /\ At(s, "game", "load")
     /\ \/ row.turn # Who(s) /\ Return(s)
        \/ row.turn = Who(s) /\ Timed /\ ~row.paused /\ Goto(s, "timer", TurnOf(row))
        \/ row.turn = Who(s) /\ (~Timed \/ row.paused) /\ Goto(s, "store", NewRow)
     /\ UNCHANGED <<row, ready, pending, plays, results, timer, turnTimers>>
  \/ /\ At(s, "game", "timer")
     /\ StartTurnTimer(Other(Snap(s).turn))
     /\ Goto(s, "store", NewRow)
     /\ UNCHANGED <<row, ready, pending, plays, results>>
  \/ /\ At(s, "game", "store")
     /\ pending' = TRUE
     /\ Return(s)
     /\ UNCHANGED <<row, ready, plays, results, timer, turnTimers>>

\* An answer in one's own turn is refused; any other swaps the turn with a
\* DB.Save of the snapshot (lobbySwapTurn), restarts the clock and is stored.
Answer(s) ==
  \/ /\ At(s, "response", "load")
     /\ IF row.turn = Who(s) THEN Return(s) ELSE Goto(s, "save", row)
     /\ UNCHANGED <<row, ready, pending, plays, results, timer, turnTimers>>
  \/ /\ At(s, "response", "save")
     /\ row' = [Snap(s) EXCEPT !.turn = Other(@)]
     /\ IF Timed /\ ~Snap(s).paused THEN Goto(s, "timer", TurnOf(row'))
                                   ELSE Goto(s, "store", NewRow)
     /\ UNCHANGED <<ready, pending, plays, results, timer, turnTimers>>
  \/ /\ At(s, "response", "timer")
     /\ StartTurnTimer(Snap(s).turn)
     /\ Goto(s, "store", NewRow)
     /\ UNCHANGED <<row, ready, pending, plays, results>>
  \/ /\ At(s, "response", "store")
     /\ pending' = FALSE
     /\ Return(s)
     /\ UNCHANGED <<row, ready, plays, results, timer, turnTimers>>

----------------------------------------------------------------------------
(* Calls begin *)

\* What the page of player p offers while the row is as it is.
Offered(op, p) ==
  /\ ~row.over
  /\ CASE op = "SetPlayerReady"   -> ~row.started /\ p \notin ready
       [] op = "SetPlayerUnready" -> ~row.started /\ p \in ready
       [] op = "MakeGuessLobby"   -> row.started /\ (Chat => row.turn = p /\ ~pending)
       [] op = "ForfeitLobby"     -> row.started \/ p = Creator
       [] op = "RequestPause"     -> Timed /\ row.started /\ ~row.paused /\ row.pauseBy = Nobody
       [] op = "AcceptPause"      -> row.pauseBy = Other(p)
       [] op = "RequestResume"    -> row.paused /\ row.resumeBy = Nobody
       [] op = "AcceptResume"     -> row.resumeBy = Other(p)
       [] op = "game"             -> Chat /\ row.started /\ row.turn = p /\ ~pending
       [] op = "response"         -> row.turn # p /\ pending
       [] OTHER                   -> FALSE

\* Where a handler begins: SetPlayerReady writes before it reads the lobby.
First(op) == IF op = "SetPlayerReady" THEN "save" ELSE "load"

Begin(s, op, p) ==
  /\ call[s] = Idle
  /\ Serial => Quiet
  /\ Offered(op, p)
  /\ op \in PumpOps => \A r \in Slots : ~(call[r].op \in PumpOps /\ call[r].who = p)
  /\ call' = [call EXCEPT ![s] = [op |-> op, who |-> p, at |-> First(op), snap |-> NewRow]]
  /\ UNCHANGED <<row, ready, pending, plays, results, timer, turnTimers>>

\* The next statement of a handler that is under way.
Proceed(s) ==
  \/ SetPlayerReady(s) \/ SetPlayerUnready(s)
  \/ MakeGuessLobby(s) \/ ForfeitLobby(s) \/ ForfeitByPlayerID(s) \/ WriteGameRecords(s)
  \/ RequestPause(s) \/ AcceptPause(s) \/ RequestResume(s) \/ AcceptResume(s)
  \/ Question(s) \/ Answer(s)

Next ==
  \/ \E s \in Slots, op \in Offers, p \in Players : Begin(s, op, p)
  \/ \E s \in Slots \cup Timers : Proceed(s)
  \/ \E t \in Timers : Fire(t) \/ Callback(t)

Spec == Init /\ [][Next]_gameVars

\* Handlers run to their end and timers run out; nobody has to call anything.
Fairness ==
  /\ \A s \in Slots \cup Timers : WF_gameVars(Proceed(s))
  /\ \A t \in Timers : WF_gameVars(Fire(t)) /\ WF_gameVars(Callback(t))

FairSpec == Spec /\ Fairness

----------------------------------------------------------------------------
(* What holds of the game, whatever runs at once *)

Coherent(r) ==
  /\ r.winner # Nobody => r.over
  /\ r.paused => r.pauseBy = Nobody
  /\ r.resumeBy # Nobody => r.paused

\* Whole-row saves of old snapshots and updates of single columns may alternate
\* in any way and still leave a row that makes sense: a winner means that the
\* game is over, a paused game has no open request to pause it, and a request to
\* resume is one of a paused game.
RowCoherent == Coherent(row)

\* The lobby's key maps to a timer that has not called back: what pause and
\* restart stop is always a running clock.
MappedTimerPending ==
  turnTimers # NoTimer => timer[turnTimers].at \in {"armed", "fired"}

----------------------------------------------------------------------------
(* What holds as long as handlers do not overlap *)

Going == row.started /\ ~row.over /\ ~row.paused

\* A game is counted once when it starts, and once for each player when it is
\* won, whether by a guess, a forfeit, or the clock.
CountedOnce ==
  Quiet => /\ plays = (IF row.started THEN 1 ELSE 0)
           /\ \A p \in Players : results[p] = (IF row.winner # Nobody THEN 1 ELSE 0)

\* A running timed game never stands without a clock: at every moment somebody
\* is running out of time, or a handler is about to set or stop the clock.
GoingIsTimed ==
  Timed /\ Going /\ Quiet => \E t \in Timers : timer[t] # Off

\* No handler that ends a game stops its clock, so timers outlive the game and call
\* ForfeitByPlayerID after it: the result stands, and the game stays over.
ResultIsFinal == [][row.over => row'.over /\ row'.winner = row.winner]_gameVars

\* Nobody runs out of time in a pause, however moves, requests and late callbacks
\* went before it: no timer is left armed, mapped or not.
PausedIsUntimed ==
  row.paused /\ ~row.over /\ Quiet => \A t \in Timers : timer[t].at # "armed"

\* A timed game does not hang: if it goes on for ever without a pause, then
\* because the players keep making moves that restart the clock.
NoGameHangs ==
  Timed /\ <>[]Going => []<>(\E s \in Slots : call[s].at = "timer")

----------------------------------------------------------------------------
(* What the code says of itself, and does not keep *)

\* "silently ignore if pausing doesn't make sense", said of a game that is over:
\* a request to pause it does not bring it back.
OverIsFinal ==
  [][\A s \in Slots : call[s].op = "RequestPause" /\ call'[s] # call[s] /\ row.over
       => row'.over]_gameVars

=============================================================================
