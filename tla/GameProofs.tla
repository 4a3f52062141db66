----------------------------- MODULE GameProofs ----------------------------
(***************************************************************************)
(* What holds of a game for any number of handlers that run at once and    *)
(* any number of turn timers.                                              *)
(***************************************************************************)
EXTENDS Game, TLAPS

Goroutines == Slots \cup Timers

\* There are two players: the other one is a player, and another one.
LEMMA OtherPlayer == \A p \in Players : Other(p) \in Players /\ Other(p) # p
BY PlayersAssumption DEF Other

LEMMA NewRowTyped == NewRow \in Rows /\ \A r \in Rows : TurnOf(r) \in Rows
BY PlayersAssumption DEF NewRow, Rows, TurnOf

\* What a goroutine remembers is well typed.
LEMMA CallTyped ==
  ASSUME TypeOK, NEW s \in Goroutines
  PROVE  /\ Snap(s) \in Rows
         /\ call[s].op # "none" => Who(s) \in Players
<1>1. CASE call[s] = Idle
  BY <1>1, NewRowTyped DEF Idle, Snap
<1>2. CASE call[s] # Idle
  BY <1>2 DEF TypeOK, Goroutines, Calls, Snap, Who
<1> QED BY <1>1, <1>2

\* Going on to the next statement, or returning, keeps the calls well typed.
LEMMA GotoTyped ==
  ASSUME TypeOK, NEW s \in Goroutines, call[s].op # "none",
         NEW point \in Points, NEW snap \in Rows, Goto(s, point, snap)
  PROVE  call' \in [Goroutines -> Calls]
<1>1. call[s] \in [op : Ops, who : Players, at : Points, snap : Rows]
  BY DEF TypeOK, Goroutines, Calls, Idle
<1>2. [call[s] EXCEPT !.at = point, !.snap = snap] \in Calls
  BY <1>1 DEF Calls
<1>3. call' = [call EXCEPT ![s] = [call[s] EXCEPT !.at = point, !.snap = snap]]
  BY DEF Goto, TypeOK, Goroutines
<1> QED BY <1>2, <1>3 DEF TypeOK, Goroutines

LEMMA ReturnTyped ==
  ASSUME TypeOK, NEW s \in Goroutines, Return(s)
  PROVE  call' \in [Goroutines -> Calls]
BY DEF TypeOK, Goroutines, Return, Calls

\* Starting and cancelling a turn timer keeps the timers well typed, and what
\* the map then holds, if anything, is a running timer.
MappedRuns == turnTimers # NoTimer => timer[turnTimers].at \in {"armed", "fired"}

LEMMA StoppedTyped == ASSUME TypeOK PROVE Stopped \in [Timers -> TimerStates]
BY DEF TypeOK, Stopped, TimerStates

LEMMA StartTyped ==
  ASSUME TypeOK, NEW p \in Players, StartTurnTimer(p)
  PROVE  /\ timer' \in [Timers -> TimerStates]
         /\ turnTimers' \in Timers \cup {NoTimer}
         /\ MappedRuns'
<1>1. PICK t \in Timers : /\ timer' = [Stopped EXCEPT ![t] = [at |-> "armed", who |-> p]]
                          /\ turnTimers' = t
  BY DEF StartTurnTimer
<1>2. [at |-> "armed", who |-> p] \in TimerStates
  BY DEF TimerStates
<1> QED BY <1>1, <1>2, StoppedTyped DEF MappedRuns

LEMMA CancelTyped ==
  ASSUME TypeOK, CancelTurnTimer
  PROVE  /\ timer' \in [Timers -> TimerStates]
         /\ turnTimers' \in Timers \cup {NoTimer}
         /\ MappedRuns'
BY StoppedTyped DEF CancelTurnTimer, MappedRuns

\* Counting stops at the bound.
LEMMA CountTyped == \A n \in 0..MaxCount : Count(n) \in 0..MaxCount
BY MaxCountAssumption DEF Count

----------------------------------------------------------------------------
(* Types, and the map of turn timers *)

Typed == TypeOK /\ MappedRuns

\* A step of a handler that goes on or returns, and leaves the timers alone, is
\* well typed if what it writes is.
LEMMA PlainStep ==
  ASSUME Typed, NEW s \in Goroutines, call[s].op # "none",
         \/ \E point \in Points, snap \in Rows : Goto(s, point, snap)
         \/ Return(s),
         UNCHANGED <<timer, turnTimers>>,
         row' \in Rows, ready' \in SUBSET Players, pending' \in BOOLEAN,
         plays' \in 0..MaxCount, results' \in [Players -> 0..MaxCount]
  PROVE  Typed'
<1>1. call' \in [Goroutines -> Calls]
  BY GotoTyped, ReturnTyped DEF Typed
<1> QED BY <1>1 DEF Typed, TypeOK, MappedRuns, Goroutines

\* The same for a step that starts or stops the clock and writes nothing else.
LEMMA ClockStep ==
  ASSUME Typed, NEW s \in Goroutines, call[s].op # "none",
         \/ \E point \in Points, snap \in Rows : Goto(s, point, snap)
         \/ Return(s),
         CancelTurnTimer \/ \E p \in Players : StartTurnTimer(p),
         UNCHANGED <<row, ready, pending, plays, results>>
  PROVE  Typed'
<1>1. call' \in [Goroutines -> Calls]
  BY GotoTyped, ReturnTyped DEF Typed
<1>2. timer' \in [Timers -> TimerStates] /\ turnTimers' \in Timers \cup {NoTimer} /\ MappedRuns'
  BY StartTyped, CancelTyped DEF Typed
<1> QED BY <1>1, <1>2 DEF Typed, TypeOK, Goroutines

LEMMA TypedStep == ASSUME Typed, NEW s \in Goroutines, Proceed(s) PROVE Typed'
<1> USE DEF At, Points
<1>a. /\ row \in Rows /\ ready \in SUBSET Players /\ pending \in BOOLEAN
      /\ plays \in 0..MaxCount /\ results \in [Players -> 0..MaxCount]
  BY DEF Typed, TypeOK
<1>b. Snap(s) \in Rows /\ (call[s].op # "none" => Who(s) \in Players /\ Other(Who(s)) \in Players)
  BY CallTyped, OtherPlayer DEF Typed
<1>c. NewRow \in Rows /\ TurnOf(row) \in Rows
  BY <1>a, NewRowTyped
<1>d. Snap(s).turn \in Players /\ Other(Snap(s).turn) \in Players
  BY <1>b, OtherPlayer DEF Rows
<1>1. CASE SetPlayerReady(s)
  <2>1. call[s].op # "none"
    BY <1>1 DEF SetPlayerReady
  <2>2. CASE call[s].at = "timer"
    BY <1>1, <1>d, <2>1, <2>2, ClockStep DEF SetPlayerReady
  <2>3. CASE call[s].at = "update"
    <3>1. row' \in Rows
      BY <1>1, <1>a, <2>3 DEF SetPlayerReady, Rows
    <3>2. plays' \in 0..MaxCount
      BY <1>1, <1>a, <2>3, CountTyped DEF SetPlayerReady
    <3>3. \/ \E point \in Points, snap \in Rows : Goto(s, point, snap)
          \/ Return(s)
      BY <1>1, <1>b, <2>3 DEF SetPlayerReady
    <3>4. UNCHANGED <<ready, pending, results, timer, turnTimers>>
      BY <1>1, <2>3 DEF SetPlayerReady
    <3> QED BY <1>a, <2>1, <3>1, <3>2, <3>3, <3>4, PlainStep
  <2>4. CASE call[s].at \in {"save", "count", "load"}
    BY <1>1, <1>a, <1>b, <1>c, <2>1, <2>4, PlainStep DEF SetPlayerReady
  <2> QED BY <1>1, <2>2, <2>3, <2>4 DEF SetPlayerReady
<1>2. CASE SetPlayerUnready(s)
  BY <1>2, <1>a, PlainStep DEF SetPlayerUnready
<1>3. CASE MakeGuessLobby(s)
  <2>1. call[s].op # "none"
    BY <1>3 DEF MakeGuessLobby
  <2>2. row' \in Rows
    BY <1>3, <1>a, <1>b DEF MakeGuessLobby, Rows
  <2>3. \/ \E point \in Points, snap \in Rows : Goto(s, point, snap)
        \/ Return(s)
    BY <1>3, <1>a, <1>c DEF MakeGuessLobby
  <2>4. UNCHANGED <<ready, pending, plays, results, timer, turnTimers>>
    BY <1>3 DEF MakeGuessLobby
  <2> QED BY <1>a, <2>1, <2>2, <2>3, <2>4, PlainStep
<1>4. CASE ForfeitLobby(s)
  <2>1. call[s].op # "none"
    BY <1>4 DEF ForfeitLobby
  <2>2. row' \in Rows
    BY <1>4, <1>a, <1>b, <2>1 DEF ForfeitLobby, Rows
  <2>3. \/ \E point \in Points, snap \in Rows : Goto(s, point, snap)
        \/ Return(s)
    BY <1>4, <1>a, <1>c DEF ForfeitLobby
  <2>4. UNCHANGED <<ready, pending, plays, results, timer, turnTimers>>
    BY <1>4 DEF ForfeitLobby
  <2> QED BY <1>a, <2>1, <2>2, <2>3, <2>4, PlainStep
<1>5. CASE ForfeitByPlayerID(s)
  <2>1. call[s].op # "none"
    BY <1>5 DEF ForfeitByPlayerID
  <2>2. row' \in Rows
    BY <1>5, <1>a, <1>b, <2>1 DEF ForfeitByPlayerID, Rows
  <2>3. \/ \E point \in Points, snap \in Rows : Goto(s, point, snap)
        \/ Return(s)
    BY <1>5, <1>a, <1>c DEF ForfeitByPlayerID
  <2>4. UNCHANGED <<ready, pending, plays, results, timer, turnTimers>>
    BY <1>5 DEF ForfeitByPlayerID
  <2> QED BY <1>a, <2>1, <2>2, <2>3, <2>4, PlainStep
<1>6. CASE WriteGameRecords(s)
  <2>1. call[s].op # "none"
    BY <1>6 DEF WriteGameRecords, EndOps
  <2>2. results' \in [Players -> 0..MaxCount]
    BY <1>6, <1>a, CountTyped DEF WriteGameRecords
  <2> QED BY <1>6, <1>a, <2>1, <2>2, PlainStep DEF WriteGameRecords
<1>7. CASE RequestPause(s)
  <2>1. call[s].op # "none"
    BY <1>7 DEF RequestPause
  <2>2. row' \in Rows
    BY <1>7, <1>a, <1>b, <2>1 DEF RequestPause, Rows
  <2>3. \/ \E point \in Points, snap \in Rows : Goto(s, point, snap)
        \/ Return(s)
    BY <1>7, <1>a, <1>c DEF RequestPause
  <2>4. UNCHANGED <<ready, pending, plays, results, timer, turnTimers>>
    BY <1>7 DEF RequestPause
  <2> QED BY <1>a, <2>1, <2>2, <2>3, <2>4, PlainStep
<1>8. CASE RequestResume(s)
  <2>1. call[s].op # "none"
    BY <1>8 DEF RequestResume
  <2>2. row' \in Rows
    BY <1>8, <1>a, <1>b, <2>1 DEF RequestResume, Rows
  <2>3. \/ \E point \in Points, snap \in Rows : Goto(s, point, snap)
        \/ Return(s)
    BY <1>8, <1>a, <1>c DEF RequestResume
  <2>4. UNCHANGED <<ready, pending, plays, results, timer, turnTimers>>
    BY <1>8 DEF RequestResume
  <2> QED BY <1>a, <2>1, <2>2, <2>3, <2>4, PlainStep
<1>9. CASE AcceptPause(s)
  <2>1. call[s].op # "none"
    BY <1>9 DEF AcceptPause
  <2>2. CASE call[s].at = "timer"
    BY <1>9, <1>c, <1>d, <2>1, <2>2, ClockStep DEF AcceptPause
  <2>3. CASE call[s].at # "timer"
    <3>1. row' \in Rows /\ TurnOf(row') \in Rows
      BY <1>9, <1>a, <1>b, <1>d, <2>3, NewRowTyped DEF AcceptPause, Rows
    <3>2. \/ \E point \in Points, snap \in Rows : Goto(s, point, snap)
          \/ Return(s)
      BY <1>9, <1>a, <1>b, <1>c, <2>3, <3>1 DEF AcceptPause
    <3>3. UNCHANGED <<ready, plays, results, timer, turnTimers>> /\ pending' \in BOOLEAN
      BY <1>9, <1>a, <2>3 DEF AcceptPause
    <3> QED BY <1>a, <2>1, <3>1, <3>2, <3>3, PlainStep
  <2> QED BY <2>2, <2>3
<1>10. CASE AcceptResume(s)
  <2>1. call[s].op # "none"
    BY <1>10 DEF AcceptResume
  <2>2. CASE call[s].at = "timer"
    BY <1>10, <1>c, <1>d, <2>1, <2>2, ClockStep DEF AcceptResume
  <2>3. CASE call[s].at # "timer"
    <3>1. row' \in Rows /\ TurnOf(row') \in Rows
      BY <1>10, <1>a, <1>b, <1>d, <2>3, NewRowTyped DEF AcceptResume, Rows
    <3>2. \/ \E point \in Points, snap \in Rows : Goto(s, point, snap)
          \/ Return(s)
      BY <1>10, <1>a, <1>b, <1>c, <2>3, <3>1 DEF AcceptResume
    <3>3. UNCHANGED <<ready, plays, results, timer, turnTimers>> /\ pending' \in BOOLEAN
      BY <1>10, <1>a, <2>3 DEF AcceptResume
    <3> QED BY <1>a, <2>1, <3>1, <3>2, <3>3, PlainStep
  <2> QED BY <2>2, <2>3
<1>11. CASE Question(s)
  <2>1. call[s].op # "none"
    BY <1>11 DEF Question
  <2>2. CASE call[s].at = "timer"
    BY <1>11, <1>c, <1>d, <2>1, <2>2, ClockStep DEF Question
  <2>3. CASE call[s].at # "timer"
    <3>1. row' \in Rows /\ TurnOf(row') \in Rows
      BY <1>11, <1>a, <1>b, <1>d, <2>3, NewRowTyped DEF Question, Rows
    <3>2. \/ \E point \in Points, snap \in Rows : Goto(s, point, snap)
          \/ Return(s)
      BY <1>11, <1>a, <1>b, <1>c, <2>3, <3>1 DEF Question
    <3>3. UNCHANGED <<ready, plays, results, timer, turnTimers>> /\ pending' \in BOOLEAN
      BY <1>11, <1>a, <2>3 DEF Question
    <3> QED BY <1>a, <2>1, <3>1, <3>2, <3>3, PlainStep
  <2> QED BY <2>2, <2>3
<1>12. CASE Answer(s)
  <2>1. call[s].op # "none"
    BY <1>12 DEF Answer
  <2>2. CASE call[s].at = "timer"
    BY <1>12, <1>c, <1>d, <2>1, <2>2, ClockStep DEF Answer
  <2>3. CASE call[s].at # "timer"
    <3>1. row' \in Rows /\ TurnOf(row') \in Rows
      BY <1>12, <1>a, <1>b, <1>d, <2>3, NewRowTyped DEF Answer, Rows
    <3>2. \/ \E point \in Points, snap \in Rows : Goto(s, point, snap)
          \/ Return(s)
      BY <1>12, <1>a, <1>b, <1>c, <2>3, <3>1 DEF Answer
    <3>3. UNCHANGED <<ready, plays, results, timer, turnTimers>> /\ pending' \in BOOLEAN
      BY <1>12, <1>a, <2>3 DEF Answer
    <3> QED BY <1>a, <2>1, <3>1, <3>2, <3>3, PlainStep
  <2> QED BY <2>2, <2>3
<1> QED
  BY <1>1, <1>2, <1>3, <1>4, <1>5, <1>6, <1>7, <1>8, <1>9, <1>10, <1>11, <1>12 DEF Proceed

LEMMA TypedNext == Typed /\ [Next]_gameVars => Typed'
<1> SUFFICES ASSUME Typed, [Next]_gameVars PROVE Typed'
  OBVIOUS
<1>1. ASSUME NEW s \in Slots, NEW op \in Offers, NEW p \in Players, Begin(s, op, p)
      PROVE  Typed'
  <2>1. First(op) \in Points
    BY DEF First, Points
  <2>2. [op |-> op, who |-> p, at |-> First(op), snap |-> NewRow] \in Calls
    BY <2>1, NewRowTyped, OffersAssumption DEF Calls
  <2> QED BY <1>1, <2>2 DEF Begin, Typed, TypeOK, MappedRuns
<1>2. ASSUME NEW s \in Slots \cup Timers, Proceed(s) PROVE Typed'
  BY <1>2, TypedStep DEF Goroutines
<1>3. ASSUME NEW t \in Timers, Fire(t) PROVE Typed'
  <2>1. [timer[t] EXCEPT !.at = "fired"] \in TimerStates
    BY <1>3 DEF Fire, Typed, TypeOK, TimerStates, Off
  <2>2. timer' = [timer EXCEPT ![t] = [timer[t] EXCEPT !.at = "fired"]]
    BY <1>3 DEF Fire, Typed, TypeOK
  <2>3. timer' \in [Timers -> TimerStates] /\ timer'[t].at = "fired"
    BY <2>1, <2>2, <1>3 DEF Fire, Typed, TypeOK, TimerStates, Off
  <2> QED BY <1>3, <2>2, <2>3 DEF Fire, Typed, TypeOK, MappedRuns
<1>4. ASSUME NEW t \in Timers, Callback(t) PROVE Typed'
  <2>1. timer[t].who \in Players
    BY <1>4 DEF Callback, Typed, TypeOK, TimerStates, Off
  <2>2. [op |-> "ForfeitByPlayerID", who |-> timer[t].who, at |-> "load", snap |-> NewRow] \in Calls
    BY <2>1, NewRowTyped DEF Calls, Ops, EndOps, Points
  <2>3. call' \in [Slots \cup Timers -> Calls]
    BY <1>4, <2>2 DEF Callback, Typed, TypeOK
  <2> QED BY <1>4, <2>3 DEF Callback, Typed, TypeOK, MappedRuns, TimerStates
<1>5. CASE UNCHANGED gameVars
  BY <1>5 DEF gameVars, Typed, TypeOK, MappedRuns
<1> QED
  BY <1>1, <1>2, <1>3, <1>4, <1>5 DEF Next

LEMMA TypedInvariant == Spec => []Typed
<1>1. Init => Typed
  <2> SUFFICES ASSUME Init PROVE Typed
    OBVIOUS
  <2>1. row \in Rows /\ ready \in SUBSET Players /\ pending \in BOOLEAN
    BY NewRowTyped DEF Init
  <2>2. plays \in 0..MaxCount /\ results \in [Players -> 0..MaxCount]
    BY MaxCountAssumption DEF Init
  <2>3. call \in [Slots \cup Timers -> Calls]
    BY DEF Init, Calls
  <2>4. timer \in [Timers -> TimerStates] /\ turnTimers = NoTimer
    BY DEF Init, TimerStates
  <2> QED BY <2>1, <2>2, <2>3, <2>4 DEF Typed, TypeOK, MappedRuns
<1> QED BY <1>1, TypedNext, PTL DEF Spec

\* Every reachable state is well typed: the row holds players where it should,
\* and every handler remembers a row.
THEOREM TypeCorrect == Spec => []TypeOK
<1>1. Typed => TypeOK
  BY DEF Typed
<1> QED BY <1>1, TypedInvariant, PTL

\* However many timers are replaced, run out or are stopped, the one a lobby's
\* key maps to has not called back yet.
THEOREM MappedTimerHolds == Spec => []MappedTimerPending
<1>1. Typed => MappedTimerPending
  BY DEF Typed, MappedRuns, MappedTimerPending
<1> QED BY <1>1, TypedInvariant, PTL

----------------------------------------------------------------------------
(* The row *)

\* Every snapshot is a row that makes sense, and the two requests are saved
\* with a snapshot their guard was true of.
SnapsCoherent ==
  \A s \in Goroutines :
    /\ Coherent(Snap(s))
    /\ At(s, "RequestPause", "save") => ~Snap(s).paused
    /\ At(s, "RequestResume", "save") => Snap(s).paused

Sound == RowCoherent /\ SnapsCoherent

LEMMA NewRowCoherent == Coherent(NewRow) /\ \A r : Coherent(TurnOf(r))
BY DEF Coherent, NewRow, TurnOf

\* A call that goes on with a coherent snapshot, not to save a request, and all
\* the other calls as they were.
LEMMA SnapStep ==
  ASSUME Typed, SnapsCoherent, NEW s \in Goroutines, call[s].op # "none",
         \/ \E point \in Points, snap \in Rows :
               /\ Goto(s, point, snap) /\ Coherent(snap)
               /\ point = "save" /\ call[s].op = "RequestPause" => ~snap.paused
               /\ point = "save" /\ call[s].op = "RequestResume" => snap.paused
         \/ Return(s)
  PROVE  SnapsCoherent'
<1>1. CASE Return(s)
  BY <1>1, NewRowCoherent
     DEF Return, SnapsCoherent, Idle, At, Snap, Typed, TypeOK, Goroutines
<1>2. ASSUME NEW point \in Points, NEW snap \in Rows, Goto(s, point, snap), Coherent(snap),
             (point = "save" /\ call[s].op = "RequestPause") => ~snap.paused,
             (point = "save" /\ call[s].op = "RequestResume") => snap.paused
      PROVE  SnapsCoherent'
  <2>1. call[s] \in [op : Ops, who : Players, at : Points, snap : Rows]
    BY DEF Typed, TypeOK, Goroutines, Calls, Idle
  <2>2. call' = [call EXCEPT ![s] = [call[s] EXCEPT !.at = point, !.snap = snap]]
    BY <1>2 DEF Goto, Typed, TypeOK, Goroutines
  <2>3. call'[s].op = call[s].op /\ call'[s].at = point /\ call'[s].snap = snap
    BY <2>1, <2>2 DEF Typed, TypeOK, Goroutines
  <2>4. \A r \in Goroutines : r # s => call'[r] = call[r]
    BY <2>2 DEF Typed, TypeOK, Goroutines
  <2> QED BY <1>2, <2>3, <2>4 DEF SnapsCoherent, At, Snap
<1> QED BY <1>1, <1>2

\* What a step of a handler leaves in the row is coherent, and so is what the
\* handler remembers.
LEMMA SoundStep ==
  ASSUME Typed, Sound, NEW s \in Goroutines, Proceed(s)
  PROVE  Sound'
<1> USE DEF At, Points
<1>a. row \in Rows /\ Coherent(row) /\ Coherent(NewRow) /\ Coherent(TurnOf(row)) /\ Coherent(TurnOf(row'))
  BY NewRowCoherent DEF Typed, TypeOK, Sound, RowCoherent
<1>b. /\ Snap(s) \in Rows /\ Coherent(Snap(s))
      /\ (call[s].op = "RequestPause" /\ call[s].at = "save" => ~Snap(s).paused)
      /\ (call[s].op = "RequestResume" /\ call[s].at = "save" => Snap(s).paused)
  BY CallTyped DEF Typed, Sound, SnapsCoherent
<1>c. NewRow \in Rows /\ TurnOf(row) \in Rows /\ (row' \in Rows => TurnOf(row') \in Rows)
  BY <1>a, NewRowTyped
<1>d. row' \in Rows
  BY TypedStep DEF Typed, TypeOK
<1>1. CASE SetPlayerReady(s)
  <2>1. call[s].op # "none"
    BY <1>1 DEF SetPlayerReady
  <2>2. Coherent(row')
    BY <1>1, <1>a, <1>b DEF SetPlayerReady, Coherent, Rows
  <2>3. \/ \E point \in Points, snap \in Rows :
             /\ Goto(s, point, snap) /\ Coherent(snap)
             /\ point = "save" /\ call[s].op = "RequestPause" => ~snap.paused
             /\ point = "save" /\ call[s].op = "RequestResume" => snap.paused
        \/ Return(s)
    BY <1>1, <1>a, <1>b, <1>c, <1>d DEF SetPlayerReady
  <2> QED BY <2>1, <2>2, <2>3, SnapStep DEF Sound, RowCoherent
<1>2. CASE SetPlayerUnready(s)
  <2>1. call[s].op # "none"
    BY <1>2 DEF SetPlayerUnready
  <2>2. Coherent(row')
    BY <1>2, <1>a, <1>b DEF SetPlayerUnready, Coherent, Rows
  <2>3. \/ \E point \in Points, snap \in Rows :
             /\ Goto(s, point, snap) /\ Coherent(snap)
             /\ point = "save" /\ call[s].op = "RequestPause" => ~snap.paused
             /\ point = "save" /\ call[s].op = "RequestResume" => snap.paused
        \/ Return(s)
    BY <1>2, <1>a, <1>b, <1>c, <1>d DEF SetPlayerUnready
  <2> QED BY <2>1, <2>2, <2>3, SnapStep DEF Sound, RowCoherent
<1>3. CASE MakeGuessLobby(s)
  <2>1. call[s].op # "none"
    BY <1>3 DEF MakeGuessLobby
  <2>2. Coherent(row')
    BY <1>3, <1>a, <1>b DEF MakeGuessLobby, Coherent, Rows
  <2>3. \/ \E point \in Points, snap \in Rows :
             /\ Goto(s, point, snap) /\ Coherent(snap)
             /\ point = "save" /\ call[s].op = "RequestPause" => ~snap.paused
             /\ point = "save" /\ call[s].op = "RequestResume" => snap.paused
        \/ Return(s)
    BY <1>3, <1>a, <1>b, <1>c, <1>d DEF MakeGuessLobby
  <2> QED BY <2>1, <2>2, <2>3, SnapStep DEF Sound, RowCoherent
<1>4. CASE ForfeitLobby(s)
  <2>1. call[s].op # "none"
    BY <1>4 DEF ForfeitLobby
  <2>2. Coherent(row')
    BY <1>4, <1>a, <1>b DEF ForfeitLobby, Coherent, Rows
  <2>3. \/ \E point \in Points, snap \in Rows :
             /\ Goto(s, point, snap) /\ Coherent(snap)
             /\ point = "save" /\ call[s].op = "RequestPause" => ~snap.paused
             /\ point = "save" /\ call[s].op = "RequestResume" => snap.paused
        \/ Return(s)
    BY <1>4, <1>a, <1>b, <1>c, <1>d DEF ForfeitLobby
  <2> QED BY <2>1, <2>2, <2>3, SnapStep DEF Sound, RowCoherent
<1>5. CASE ForfeitByPlayerID(s)
  <2>1. call[s].op # "none"
    BY <1>5 DEF ForfeitByPlayerID
  <2>2. Coherent(row')
    BY <1>5, <1>a, <1>b DEF ForfeitByPlayerID, Coherent, Rows
  <2>3. \/ \E point \in Points, snap \in Rows :
             /\ Goto(s, point, snap) /\ Coherent(snap)
             /\ point = "save" /\ call[s].op = "RequestPause" => ~snap.paused
             /\ point = "save" /\ call[s].op = "RequestResume" => snap.paused
        \/ Return(s)
    BY <1>5, <1>a, <1>b, <1>c, <1>d DEF ForfeitByPlayerID
  <2> QED BY <2>1, <2>2, <2>3, SnapStep DEF Sound, RowCoherent
<1>6. CASE WriteGameRecords(s)
  <2>1. call[s].op # "none"
    BY <1>6 DEF WriteGameRecords, EndOps
  <2>2. Coherent(row')
    BY <1>6, <1>a, <1>b DEF WriteGameRecords, Coherent, Rows, EndOps
  <2>3. \/ \E point \in Points, snap \in Rows :
             /\ Goto(s, point, snap) /\ Coherent(snap)
             /\ point = "save" /\ call[s].op = "RequestPause" => ~snap.paused
             /\ point = "save" /\ call[s].op = "RequestResume" => snap.paused
        \/ Return(s)
    BY <1>6, <1>a, <1>b, <1>c, <1>d DEF WriteGameRecords, EndOps
  <2> QED BY <2>1, <2>2, <2>3, SnapStep DEF Sound, RowCoherent
<1>7. CASE RequestPause(s)
  <2>1. call[s].op # "none"
    BY <1>7 DEF RequestPause
  <2>2. Coherent(row')
    BY <1>7, <1>a, <1>b DEF RequestPause, Coherent, Rows
  <2>3. \/ \E point \in Points, snap \in Rows :
             /\ Goto(s, point, snap) /\ Coherent(snap)
             /\ point = "save" /\ call[s].op = "RequestPause" => ~snap.paused
             /\ point = "save" /\ call[s].op = "RequestResume" => snap.paused
        \/ Return(s)
    BY <1>7, <1>a, <1>b, <1>c, <1>d DEF RequestPause
  <2> QED BY <2>1, <2>2, <2>3, SnapStep DEF Sound, RowCoherent
<1>8. CASE RequestResume(s)
  <2>1. call[s].op # "none"
    BY <1>8 DEF RequestResume
  <2>2. Coherent(row')
    BY <1>8, <1>a, <1>b DEF RequestResume, Coherent, Rows
  <2>3. \/ \E point \in Points, snap \in Rows :
             /\ Goto(s, point, snap) /\ Coherent(snap)
             /\ point = "save" /\ call[s].op = "RequestPause" => ~snap.paused
             /\ point = "save" /\ call[s].op = "RequestResume" => snap.paused
        \/ Return(s)
    BY <1>8, <1>a, <1>b, <1>c, <1>d DEF RequestResume
  <2> QED BY <2>1, <2>2, <2>3, SnapStep DEF Sound, RowCoherent
<1>9. CASE AcceptPause(s)
  <2>1. call[s].op # "none"
    BY <1>9 DEF AcceptPause
  <2>2. Coherent(row')
    BY <1>9, <1>a, <1>b DEF AcceptPause, Coherent, Rows
  <2>3. \/ \E point \in Points, snap \in Rows :
             /\ Goto(s, point, snap) /\ Coherent(snap)
             /\ point = "save" /\ call[s].op = "RequestPause" => ~snap.paused
             /\ point = "save" /\ call[s].op = "RequestResume" => snap.paused
        \/ Return(s)
    BY <1>9, <1>a, <1>b, <1>c, <1>d DEF AcceptPause
  <2> QED BY <2>1, <2>2, <2>3, SnapStep DEF Sound, RowCoherent
<1>10. CASE AcceptResume(s)
  <2>1. call[s].op # "none"
    BY <1>10 DEF AcceptResume
  <2>2. Coherent(row')
    BY <1>10, <1>a, <1>b DEF AcceptResume, Coherent, Rows
  <2>3. \/ \E point \in Points, snap \in Rows :
             /\ Goto(s, point, snap) /\ Coherent(snap)
             /\ point = "save" /\ call[s].op = "RequestPause" => ~snap.paused
             /\ point = "save" /\ call[s].op = "RequestResume" => snap.paused
        \/ Return(s)
    BY <1>10, <1>a, <1>b, <1>c, <1>d DEF AcceptResume
  <2> QED BY <2>1, <2>2, <2>3, SnapStep DEF Sound, RowCoherent
<1>11. CASE Question(s)
  <2>1. call[s].op # "none"
    BY <1>11 DEF Question
  <2>2. Coherent(row')
    BY <1>11, <1>a, <1>b DEF Question, Coherent, Rows
  <2>3. \/ \E point \in Points, snap \in Rows :
             /\ Goto(s, point, snap) /\ Coherent(snap)
             /\ point = "save" /\ call[s].op = "RequestPause" => ~snap.paused
             /\ point = "save" /\ call[s].op = "RequestResume" => snap.paused
        \/ Return(s)
    BY <1>11, <1>a, <1>b, <1>c, <1>d DEF Question
  <2> QED BY <2>1, <2>2, <2>3, SnapStep DEF Sound, RowCoherent
<1>12. CASE Answer(s)
  <2>1. call[s].op # "none"
    BY <1>12 DEF Answer
  <2>2. Coherent(row')
    BY <1>12, <1>a, <1>b DEF Answer, Coherent, Rows
  <2>3. \/ \E point \in Points, snap \in Rows :
             /\ Goto(s, point, snap) /\ Coherent(snap)
             /\ point = "save" /\ call[s].op = "RequestPause" => ~snap.paused
             /\ point = "save" /\ call[s].op = "RequestResume" => snap.paused
        \/ Return(s)
    BY <1>12, <1>a, <1>b, <1>c, <1>d DEF Answer
  <2> QED BY <2>1, <2>2, <2>3, SnapStep DEF Sound, RowCoherent
<1> QED
  BY <1>1, <1>2, <1>3, <1>4, <1>5, <1>6, <1>7, <1>8, <1>9, <1>10, <1>11, <1>12 DEF Proceed

LEMMA SoundNext == Typed /\ Sound /\ [Next]_gameVars => Sound'
<1> SUFFICES ASSUME Typed, Sound, [Next]_gameVars PROVE Sound'
  OBVIOUS
<1>1. ASSUME NEW s \in Slots, NEW op \in Offers, NEW p \in Players, Begin(s, op, p)
      PROVE  Sound'
  <2>1. First(op) = "save" => op = "SetPlayerReady"
    BY DEF First
  <2>2. \A r \in Goroutines : r # s => call'[r] = call[r]
    BY <1>1 DEF Begin, Typed, TypeOK, Goroutines
  <2>3. call'[s].op = op /\ call'[s].at = First(op) /\ call'[s].snap = NewRow
    BY <1>1 DEF Begin, Typed, TypeOK
  <2>4. SnapsCoherent'
    BY <2>1, <2>2, <2>3, NewRowCoherent DEF Sound, SnapsCoherent, At, Snap
  <2> QED BY <1>1, <2>4 DEF Begin, Sound, RowCoherent
<1>2. ASSUME NEW s \in Slots \cup Timers, Proceed(s) PROVE Sound'
  BY <1>2, SoundStep DEF Goroutines
<1>3. ASSUME NEW t \in Timers, Fire(t) PROVE Sound'
  BY <1>3 DEF Fire, Sound, RowCoherent, SnapsCoherent, At, Snap
<1>4. ASSUME NEW t \in Timers, Callback(t) PROVE Sound'
  <2>1. \A r \in Goroutines : r # t => call'[r] = call[r]
    BY <1>4 DEF Callback, Typed, TypeOK, Goroutines
  <2>2. call'[t].op = "ForfeitByPlayerID" /\ call'[t].snap = NewRow
    BY <1>4 DEF Callback, Typed, TypeOK
  <2>3. SnapsCoherent'
    BY <2>1, <2>2, NewRowCoherent DEF Sound, SnapsCoherent, At, Snap
  <2> QED BY <1>4, <2>3 DEF Callback, Sound, RowCoherent
<1>5. CASE UNCHANGED gameVars
  BY <1>5 DEF gameVars, Sound, RowCoherent, SnapsCoherent, At, Snap
<1> QED
  BY <1>1, <1>2, <1>3, <1>4, <1>5 DEF Next

\* However many handlers read the row, and write it back whole or by column,
\* the row makes sense.  RowCoherent alone is not inductive: a save brings back
\* a snapshot, so every snapshot has to make sense as well.
THEOREM RowCoherentHolds == Spec => []RowCoherent
<1>1. Init => Sound
  BY NewRowCoherent DEF Init, Sound, RowCoherent, SnapsCoherent, Goroutines, At, Snap, Idle
<1>2. Sound => RowCoherent
  BY DEF Sound
<1> QED BY <1>1, <1>2, TypedInvariant, SoundNext, PTL DEF Spec

----------------------------------------------------------------------------
(* One handler at a time                                                   *)
(*                                                                         *)
(* What holds for any number of turn timers as long as no two handlers run *)
(* at once.                                                                *)

\* Call c is the one that is under way, or there is none and c is Idle.
Running(c) ==
  \/ c = Idle /\ Quiet
  \/ \E s \in Goroutines : call[s] = c /\ \A t \in Goroutines : t # s => call[t] = Idle

Expiring(c) == c.op = "ForfeitByPlayerID"
Setting(c) == c.op \in {"SetPlayerReady", "AcceptResume"} /\ c.at = "timer"
Stopping(c) == c.op = "AcceptPause" /\ c.at = "timer"

\* What the handler has read, or been offered for, is still so.
Knows(c) ==
  /\ c.at = "save" /\ c.op # "SetPlayerReady" => c.snap = row
  /\ c.op = "SetPlayerReady" => ~row.paused /\ (c.at = "timer" <=> row.started)
  /\ c.op \in {"MakeGuessLobby", "ForfeitLobby"} /\ c.at # "record" => ~row.over
  /\ Expiring(c) /\ c.at = "save" => ~row.over
  /\ Expiring(c) \/ c.op \in PumpOps => row.started
  /\ c.at = "record" => row.over /\ row.winner # Nobody
  /\ Stopping(c) => row.paused
  /\ c.op \in {"AcceptResume", "game", "response"} /\ c.at = "timer" => ~row.paused

\* Pauses, questions and clocks are those of a game that was started.
Begun ==
  \/ row.started
  \/ /\ ~row.paused /\ row.pauseBy = Nobody /\ row.resumeBy = Nobody /\ ~pending
     /\ \A t \in Timers : timer[t] = Off

Counts(c) ==
  /\ plays = (IF row.started THEN 1 ELSE 0)
  /\ \A p \in Players :
       results[p] = (IF row.winner # Nobody /\ c.at # "record" THEN 1 ELSE 0)

\* Only the mapped timer is armed, and none in a pause, until a timer calls back: it
\* deletes the key of whichever timer is mapped, and then the game ends.
Clocks(c) ==
  /\ row.over \/ Expiring(c) \/ \A t \in Timers : timer[t].at = "armed" => turnTimers = t
  /\ row.paused => \/ row.over \/ Expiring(c) \/ Stopping(c)
                   \/ \A t \in Timers : timer[t].at # "armed"
  /\ Timed /\ Going => Expiring(c) \/ Setting(c) \/ \E t \in Timers : timer[t] # Off

State(c) == Knows(c) /\ Begun /\ Counts(c) /\ Clocks(c)

SerialInv == \E c \in {Idle} \cup {call[s] : s \in Goroutines} : Running(c) /\ State(c)

----------------------------------------------------------------------------
(* The one call that is under way *)

\* A step of the goroutine that is at work leaves all the others idle.
LEMMA RunsOn ==
  ASSUME NEW s \in Goroutines, NEW c, Running(c), call[s] = c, c # Idle,
         \A t \in Goroutines : t # s => call'[t] = call[t],
         NEW d, call'[s] = d
  PROVE  Running(d)'
<1>1. \A t \in Goroutines : t # s => call'[t] = Idle
  BY DEF Running, Quiet, Goroutines
<1> QED BY <1>1 DEF Running

LEMMA Working ==
  ASSUME NEW s \in Goroutines, NEW c, Running(c), call[s].op # "none"
  PROVE  call[s] = c /\ c # Idle
BY DEF Running, Quiet, Goroutines, Idle

LEMMA Resting == ASSUME Quiet, NEW c, Running(c) PROVE c = Idle
BY DEF Running, Quiet, Goroutines

LEMMA GotoNow ==
  ASSUME TypeOK, NEW s \in Goroutines, call[s].op # "none", NEW point, NEW snap,
         Goto(s, point, snap)
  PROVE  /\ call'[s].op = call[s].op /\ call'[s].at = point /\ call'[s].snap = snap
         /\ \A t \in Goroutines : t # s => call'[t] = call[t]
<1>1. call[s] \in [op : Ops, who : Players, at : Points, snap : Rows]
  BY DEF TypeOK, Goroutines, Calls, Idle
<1>2. call' = [call EXCEPT ![s] = [call[s] EXCEPT !.at = point, !.snap = snap]]
  BY DEF Goto, TypeOK, Goroutines
<1> QED BY <1>1, <1>2 DEF TypeOK, Goroutines

LEMMA ReturnNow ==
  ASSUME TypeOK, NEW s \in Goroutines, Return(s)
  PROVE  call'[s] = Idle /\ \A t \in Goroutines : t # s => call'[t] = call[t]
BY DEF TypeOK, Return, Goroutines

\* The handler goes on, or returns, and what it leaves is a sound state again.
LEMMA Onwards ==
  ASSUME TypeOK, NEW s \in Goroutines, call[s].op # "none", NEW c, Running(c),
         NEW point, NEW snap, Goto(s, point, snap),
         \A d : d.op = c.op /\ d.at = point /\ d.snap = snap => State(d)'
  PROVE  SerialInv'
<1>1. PICK d : d = call'[s]
  OBVIOUS
<1>2. /\ d.op = c.op /\ d.at = point /\ d.snap = snap
      /\ \A t \in Goroutines : t # s => call'[t] = call[t]
  BY <1>1, GotoNow, Working
<1>3. Running(d)'
  BY <1>1, <1>2, Working, RunsOn
<1>4. State(d)'
  BY <1>2
<1> QED BY <1>1, <1>3, <1>4 DEF SerialInv

LEMMA Done ==
  ASSUME TypeOK, NEW s \in Goroutines, call[s].op # "none", NEW c, Running(c),
         Return(s), State(Idle)'
  PROVE  SerialInv'
<1>1. Running(Idle)'
  BY ReturnNow, Working, RunsOn
<1> QED BY <1>1 DEF SerialInv

\* The clock is set: only the timer that is mapped now may be armed.
LEMMA ClockSet ==
  ASSUME TypeOK, NEW p, StartTurnTimer(p),
         \A t \in Timers : timer[t].at = "armed" => turnTimers = t
  PROVE  /\ \A t \in Timers : timer'[t].at = "armed" => turnTimers' = t
         /\ \E t \in Timers : timer'[t] # Off
<1>1. PICK t \in Timers : /\ timer' = [Stopped EXCEPT ![t] = [at |-> "armed", who |-> p]]
                          /\ turnTimers' = t
  BY DEF StartTurnTimer
<1>2. \A u \in Timers : Stopped[u].at # "armed"
  BY DEF Stopped, Off
<1>3. Stopped \in [Timers -> TimerStates]
  BY StoppedTyped
<1> QED BY <1>1, <1>2, <1>3 DEF Off

\* The clock is stopped: no timer is armed.
LEMMA ClockStopped ==
  ASSUME TypeOK, CancelTurnTimer,
         \A t \in Timers : timer[t].at = "armed" => turnTimers = t
  PROVE  \A t \in Timers : timer'[t].at # "armed"
BY DEF CancelTurnTimer, Stopped, Off

----------------------------------------------------------------------------
(* The handlers *)

\* A game that is over stays over, with its result.
Lasting == row.over => row'.over /\ row'.winner = row.winner

\* The handler has only read; what it now knows is so.
LEMMA Looked ==
  ASSUME NEW c, State(c), NEW d, Knows(d),
         UNCHANGED <<row, ready, pending, plays, results, timer, turnTimers>>,
         c.at # "record", d.at # "record", ~Setting(c), ~Stopping(c),
         Expiring(c) => Expiring(d) \/ row.over
  PROVE  State(d)' /\ Lasting
BY DEF State, Knows, Begun, Counts, Clocks, Going, Expiring, Setting, Stopping, Lasting

LEMMA ReadyStep ==
  ASSUME TypeOK, NEW s \in Goroutines, NEW c, Running(c), State(c), SetPlayerReady(s)
  PROVE  SerialInv' /\ Lasting
<1> USE DEF At, Snap, Points
<1>0. /\ c = call[s] /\ c.op = "SetPlayerReady" /\ call[s].op # "none" /\ row \in Rows
      /\ NewRow \in Rows /\ TurnOf(row) \in Rows
  BY Working, NewRowTyped DEF SetPlayerReady, TypeOK
<1>1. CASE c.at = "save"
  <2>1. Goto(s, "count", NewRow) /\ UNCHANGED <<row, pending, plays, results, timer, turnTimers>>
    BY <1>0, <1>1 DEF SetPlayerReady
  <2>2. ASSUME NEW d, d.op = c.op, d.at = "count" PROVE State(d)'
    BY <1>0, <1>1, <2>1, <2>2
       DEF State, Knows, Begun, Counts, Clocks, Going, Expiring, Setting, Stopping
  <2> QED BY <1>0, <2>1, <2>2, Onwards DEF Lasting
<1>2. CASE c.at \in {"count", "load"} /\ Return(s)
  <2>1. UNCHANGED <<row, ready, pending, plays, results, timer, turnTimers>>
    BY <1>0, <1>2 DEF SetPlayerReady
  <2>2. State(Idle)' /\ Lasting
    BY <1>0, <1>2, <2>1, Looked DEF State, Knows, Idle, Setting, Stopping, Expiring, PumpOps
  <2> QED BY <1>0, <1>2, <2>2, Done
<1>3. CASE c.at \in {"count", "load"} /\ ~Return(s)
  <2>1. UNCHANGED <<row, ready, pending, plays, results, timer, turnTimers>>
    BY <1>0, <1>3 DEF SetPlayerReady
  <2>2. PICK point, snap : point \in {"load", "update"} /\ Goto(s, point, snap)
    BY <1>0, <1>3 DEF SetPlayerReady, State, Knows
  <2>3. ASSUME NEW d, d.op = c.op, d.at = point PROVE State(d)' /\ Lasting
    BY <1>0, <1>3, <2>1, <2>2, <2>3, Looked DEF State, Knows, Setting, Stopping, Expiring, PumpOps
  <2>4. Lasting
    BY <2>1 DEF Lasting
  <2> QED BY <1>0, <2>2, <2>3, <2>4, Onwards
<1>4. CASE c.at = "update"
  <2>1. /\ row' = [row EXCEPT !.started = TRUE] /\ plays' = Count(plays)
        /\ IF Timed THEN Goto(s, "timer", Snap(s)) ELSE Return(s)
        /\ UNCHANGED <<pending, results, timer, turnTimers>>
    BY <1>0, <1>4 DEF SetPlayerReady
  <2>2. /\ row'.started /\ row'.over = row.over /\ row'.winner = row.winner
        /\ row'.paused = row.paused
    BY <1>0, <2>1 DEF Rows
  <2>3. ~row.started /\ ~row.paused
    BY <1>0, <1>4 DEF State, Knows
  <2>4. plays' = 1
    BY <2>1, <2>3, MaxCountAssumption DEF State, Counts, Count
  <2>5. Begun' /\ Lasting /\ \A t \in Timers : timer[t] = Off
    BY <2>2, <2>3 DEF Begun, Lasting, State
  <2>6. ASSUME NEW d, d.at # "record", d.at # "save", d.at = "timer" \/ ~Timed,
               (d.op = c.op /\ d.at = "timer") \/ d = Idle
        PROVE  State(d)'
    <3>1. Knows(d)'
      BY <1>0, <2>2, <2>3, <2>6 DEF Knows, Expiring, Stopping, Idle, PumpOps
    <3>2. Counts(d)'
      BY <1>0, <1>4, <2>1, <2>2, <2>4, <2>6 DEF State, Counts
    <3>3. Clocks(d)'
      BY <1>0, <2>1, <2>2, <2>3, <2>5, <2>6 DEF Clocks, Off, Setting, Going, Idle
    <3> QED BY <2>5, <3>1, <3>2, <3>3 DEF State
  <2>7. CASE Timed
    BY <1>0, <2>1, <2>5, <2>6, <2>7, Onwards
  <2>8. CASE ~Timed
    BY <1>0, <2>1, <2>5, <2>6, <2>8, Done DEF Idle
  <2> QED BY <2>7, <2>8
<1>5. CASE c.at = "timer"
  <2>1. /\ StartTurnTimer(Snap(s).turn) /\ Return(s)
        /\ UNCHANGED <<row, ready, pending, plays, results>>
    BY <1>0, <1>5 DEF SetPlayerReady
  <2>2. row.started /\ ~row.paused
    BY <1>0, <1>5 DEF State, Knows
  <2>3. row.over \/ /\ \A t \in Timers : timer'[t].at = "armed" => turnTimers' = t
                    /\ \E t \in Timers : timer'[t] # Off
    BY <1>0, <2>1, ClockSet DEF State, Clocks, Expiring
  <2>4. State(Idle)'
    BY <1>0, <1>5, <2>1, <2>2, <2>3
       DEF State, Knows, Begun, Counts, Clocks, Going, Expiring, Setting, Stopping, Idle, PumpOps
  <2> QED BY <1>0, <2>1, <2>4, Done DEF Lasting
<1> QED BY <1>0, <1>1, <1>2, <1>3, <1>4, <1>5 DEF SetPlayerReady

LEMMA UnreadyStep ==
  ASSUME TypeOK, NEW s \in Goroutines, NEW c, Running(c), State(c), SetPlayerUnready(s)
  PROVE  SerialInv' /\ Lasting
<1> USE DEF At, Snap, Points
<1>0. c = call[s] /\ c.op = "SetPlayerUnready" /\ call[s].op # "none" /\ row \in Rows
  BY Working DEF SetPlayerUnready, TypeOK
<1>1. UNCHANGED <<row, pending, plays, results, timer, turnTimers>>
  BY DEF SetPlayerUnready
<1>2. c.at \in {"load", "save"}
  BY <1>0 DEF SetPlayerUnready
<1>3. ASSUME NEW d, d.op = c.op, d.at = "save", d.snap = row PROVE State(d)'
  BY <1>0, <1>1, <1>2, <1>3
     DEF State, Knows, Begun, Counts, Clocks, Going, Expiring, Setting, Stopping, PumpOps
<1>4. State(Idle)'
  BY <1>0, <1>1, <1>2
     DEF State, Knows, Begun, Counts, Clocks, Going, Expiring, Setting, Stopping, Idle, PumpOps
<1>5. CASE Return(s)
  BY <1>0, <1>1, <1>4, <1>5, Done DEF Lasting
<1>6. CASE Goto(s, "save", row)
  BY <1>0, <1>1, <1>3, <1>6, Onwards DEF Lasting
<1> QED BY <1>5, <1>6 DEF SetPlayerUnready

\* Only the one handler that ended the game writes its records.
LEMMA RecordStep ==
  ASSUME TypeOK, NEW s \in Goroutines, NEW c, Running(c), State(c), WriteGameRecords(s)
  PROVE  SerialInv' /\ Lasting
<1>0. c = call[s] /\ c.at = "record" /\ c.op \in EndOps /\ call[s].op # "none"
  BY Working DEF WriteGameRecords, EndOps
<1>1. /\ results' = [p \in Players |-> Count(results[p])] /\ Return(s)
      /\ UNCHANGED <<row, ready, pending, plays, timer, turnTimers>>
  BY DEF WriteGameRecords
<1>2. row.over /\ row.winner # Nobody /\ \A p \in Players : results[p] = 0
  BY <1>0 DEF State, Knows, Counts
<1>3. \A p \in Players : results'[p] = 1
  BY <1>1, <1>2, MaxCountAssumption DEF Count
<1>4. Counts(Idle)'
  BY <1>0, <1>1, <1>2, <1>3 DEF State, Counts, Idle
<1>5. Knows(Idle)' /\ Begun' /\ Clocks(Idle)'
  BY <1>0, <1>1, <1>2
     DEF State, Knows, Begun, Clocks, Going, Expiring, Setting, Stopping, Idle, PumpOps
<1>6. State(Idle)' /\ Lasting
  BY <1>1, <1>4, <1>5 DEF State, Lasting
<1> QED BY <1>0, <1>1, <1>6, Done

\* A game that was not over is ended with a winner, whose result is still to be written.
LEMMA Ended ==
  ASSUME TypeOK, RowCoherent, NEW s \in Goroutines, NEW c, Running(c), State(c), c = call[s],
         call[s].op # "none", c.at = "save", c.op \in EndOps, ~row.over,
         NEW w \in Players, row' = [row EXCEPT !.over = TRUE, !.winner = w],
         Goto(s, "record", NewRow), UNCHANGED <<ready, pending, plays, results, timer, turnTimers>>
  PROVE  SerialInv' /\ Lasting
<1>1. /\ row \in Rows /\ row.winner = Nobody /\ w # Nobody
      /\ Expiring(c) => row.started
  BY NobodyAssumption DEF TypeOK, RowCoherent, Coherent, State, Knows
<1>2. /\ row'.over /\ row'.winner = w /\ row'.started = row.started
      /\ row'.paused = row.paused /\ row'.pauseBy = row.pauseBy /\ row'.resumeBy = row.resumeBy
  BY <1>1 DEF Rows
<1>3. ASSUME NEW d, d.op = c.op, d.at = "record" PROVE State(d)'
  <2>1. Knows(d)'
    BY <1>1, <1>2, <1>3 DEF Knows, Expiring, Setting, Stopping, PumpOps, EndOps
  <2>2. Counts(d)'
    BY <1>1, <1>2, <1>3 DEF State, Counts
  <2>3. Begun' /\ Clocks(d)'
    BY <1>2 DEF State, Begun, Clocks, Going
  <2> QED BY <2>1, <2>2, <2>3 DEF State
<1> QED BY <1>3, Onwards DEF Lasting

LEMMA GuessStep ==
  ASSUME TypeOK, RowCoherent, NEW s \in Goroutines, NEW c, Running(c), State(c), MakeGuessLobby(s)
  PROVE  SerialInv' /\ Lasting
<1> USE DEF At, Snap, Points
<1>0. /\ c = call[s] /\ c.op = "MakeGuessLobby" /\ call[s].op # "none" /\ row \in Rows
      /\ c.at \in {"load", "save"}
  BY Working DEF MakeGuessLobby, TypeOK
<1>1. CASE c.at = "load"
  <2>1. Goto(s, "save", row) /\ UNCHANGED <<row, ready, pending, plays, results, timer, turnTimers>>
    BY <1>0, <1>1 DEF MakeGuessLobby
  <2>2. ASSUME NEW d, d.op = c.op, d.at = "save", d.snap = row PROVE State(d)'
    BY <1>0, <1>1, <2>1, <2>2, Looked
       DEF State, Knows, Expiring, Setting, Stopping, PumpOps
  <2> QED BY <1>0, <2>1, <2>2, Onwards DEF Lasting
<1>2. CASE c.at = "save"
  <2>1. c.snap = row /\ ~row.over
    BY <1>0, <1>2 DEF State, Knows
  <2>2. PICK w \in Players : row' = [row EXCEPT !.over = TRUE, !.winner = w]
    BY <1>0, <1>2, <2>1 DEF MakeGuessLobby
  <2>3. Goto(s, "record", NewRow) /\ UNCHANGED <<ready, pending, plays, results, timer, turnTimers>>
    BY <1>0, <1>2 DEF MakeGuessLobby
  <2> QED BY <1>0, <1>2, <2>1, <2>2, <2>3, Ended DEF EndOps
<1> QED BY <1>0, <1>1, <1>2

LEMMA ExpiryStep ==
  ASSUME TypeOK, RowCoherent, NEW s \in Goroutines, NEW c, Running(c), State(c), ForfeitByPlayerID(s)
  PROVE  SerialInv' /\ Lasting
<1> USE DEF At, Snap, Points
<1>0. /\ c = call[s] /\ c.op = "ForfeitByPlayerID" /\ call[s].op # "none" /\ row \in Rows
      /\ c.at \in {"load", "save"} /\ row.started
  BY Working DEF ForfeitByPlayerID, TypeOK, State, Knows, Expiring
<1>1. CASE c.at = "load"
  <2>1. UNCHANGED <<row, ready, pending, plays, results, timer, turnTimers>>
    BY <1>0, <1>1 DEF ForfeitByPlayerID
  <2>2. CASE row.over /\ Return(s)
    <3>1. State(Idle)' /\ Lasting
      BY <1>0, <1>1, <2>1, <2>2, Looked
         DEF State, Knows, Expiring, Setting, Stopping, PumpOps, Idle
    <3> QED BY <1>0, <2>2, <3>1, Done
  <2>3. CASE ~row.over /\ Goto(s, "save", row)
    <3>1. ASSUME NEW d, d.op = c.op, d.at = "save", d.snap = row PROVE State(d)'
      BY <1>0, <1>1, <2>1, <2>3, <3>1, Looked
         DEF State, Knows, Expiring, Setting, Stopping, PumpOps
    <3> QED BY <1>0, <2>1, <2>3, <3>1, Onwards DEF Lasting
  <2> QED BY <1>0, <1>1, <2>2, <2>3 DEF ForfeitByPlayerID
<1>2. CASE c.at = "save"
  <2>1. c.snap = row /\ ~row.over
    BY <1>0, <1>2 DEF State, Knows, Expiring
  <2>2. row' = [row EXCEPT !.over = TRUE, !.winner = Other(Who(s))] /\ Other(Who(s)) \in Players
    BY <1>0, <1>2, <2>1, CallTyped, OtherPlayer DEF ForfeitByPlayerID
  <2>3. Goto(s, "record", NewRow) /\ UNCHANGED <<ready, pending, plays, results, timer, turnTimers>>
    BY <1>0, <1>2 DEF ForfeitByPlayerID
  <2> QED BY <1>0, <1>2, <2>1, <2>2, <2>3, Ended DEF EndOps
<1> QED BY <1>0, <1>1, <1>2

LEMMA ForfeitStep ==
  ASSUME TypeOK, RowCoherent, NEW s \in Goroutines, NEW c, Running(c), State(c), ForfeitLobby(s)
  PROVE  SerialInv' /\ Lasting
<1> USE DEF At, Snap, Points
<1>0. /\ c = call[s] /\ c.op = "ForfeitLobby" /\ call[s].op # "none" /\ row \in Rows
      /\ c.at \in {"load", "save"} /\ ~row.over
  BY Working DEF ForfeitLobby, TypeOK, State, Knows
<1>1. CASE c.at = "load"
  <2>1. Goto(s, "save", row) /\ UNCHANGED <<row, ready, pending, plays, results, timer, turnTimers>>
    BY <1>0, <1>1 DEF ForfeitLobby
  <2>2. ASSUME NEW d, d.op = c.op, d.at = "save", d.snap = row PROVE State(d)'
    BY <1>0, <1>1, <2>1, <2>2, Looked
       DEF State, Knows, Expiring, Setting, Stopping, PumpOps
  <2> QED BY <1>0, <2>1, <2>2, Onwards DEF Lasting
<1>2. CASE c.at = "save"
  <2>1. c.snap = row /\ UNCHANGED <<ready, pending, plays, results, timer, turnTimers>>
    BY <1>0, <1>2 DEF State, Knows, ForfeitLobby
  <2>2. CASE row.started
    <3>1. row' = [row EXCEPT !.over = TRUE, !.winner = Other(Who(s))] /\ Other(Who(s)) \in Players
      BY <1>0, <1>2, <2>1, <2>2, CallTyped, OtherPlayer DEF ForfeitLobby
    <3>2. Goto(s, "record", NewRow)
      BY <1>0, <1>2, <2>1, <2>2 DEF ForfeitLobby
    <3> QED BY <1>0, <1>2, <2>1, <3>1, <3>2, Ended DEF EndOps
  <2>3. CASE ~row.started
    <3>1. (row' = [row EXCEPT !.over = TRUE] \/ row' = row) /\ Return(s)
      BY <1>0, <1>2, <2>1, <2>3 DEF ForfeitLobby
    <3>2. /\ row'.winner = row.winner /\ row'.started = row.started /\ row'.paused = row.paused
          /\ row'.pauseBy = row.pauseBy /\ row'.resumeBy = row.resumeBy
      BY <1>0, <3>1 DEF Rows
    <3>3. State(Idle)'
      BY <1>0, <1>2, <2>1, <2>3, <3>2
         DEF State, Knows, Begun, Counts, Clocks, Going, Expiring, Setting, Stopping, Idle, PumpOps,
             Off
    <3> QED BY <1>0, <3>1, <3>3, Done DEF Lasting
  <2> QED BY <2>2, <2>3
<1> QED BY <1>0, <1>1, <1>2

----------------------------------------------------------------------------
(* Pauses *)

LEMMA PauseAsked ==
  ASSUME TypeOK, RowCoherent, NEW s \in Goroutines, NEW c, Running(c), State(c), RequestPause(s)
  PROVE  SerialInv' /\ Lasting
<1> USE DEF At, Snap, Points
<1>0. /\ c = call[s] /\ c.op = "RequestPause" /\ call[s].op # "none" /\ row \in Rows
      /\ c.at \in {"load", "save"} /\ row.started
  BY Working DEF RequestPause, TypeOK, State, Knows, PumpOps
<1>1. CASE c.at = "load" /\ Goto(s, "save", row)
  <2>1. UNCHANGED <<row, ready, pending, plays, results, timer, turnTimers>>
    BY <1>0, <1>1 DEF RequestPause
  <2>2. ASSUME NEW d, d.op = c.op, d.at = "save", d.snap = row PROVE State(d)'
    BY <1>0, <1>1, <2>1, <2>2, Looked DEF State, Knows, Expiring, Setting, Stopping
  <2> QED BY <1>0, <1>1, <2>1, <2>2, Onwards DEF Lasting
<1>2. CASE Return(s)
  <2>1. /\ UNCHANGED <<ready, pending, plays, results, timer, turnTimers>>
        /\ c.at = "save" => c.snap = row
    BY <1>0 DEF RequestPause, State, Knows
  <2>2. row' = row \/ (c.at = "save" /\ row' = [row EXCEPT !.pauseBy = Who(s)])
    BY <1>0, <1>2, <2>1 DEF RequestPause, Goto
  <2>3. /\ row'.over = row.over /\ row'.winner = row.winner /\ row'.started = row.started
        /\ row'.paused = row.paused
    BY <1>0, <2>2 DEF Rows
  <2>4. State(Idle)'
    BY <1>0, <2>1, <2>3
       DEF State, Knows, Begun, Counts, Clocks, Going, Expiring, Setting, Stopping, Idle, PumpOps
  <2> QED BY <1>0, <1>2, <2>3, <2>4, Done DEF Lasting
<1> QED BY <1>0, <1>1, <1>2 DEF RequestPause

LEMMA ResumeAsked ==
  ASSUME TypeOK, RowCoherent, NEW s \in Goroutines, NEW c, Running(c), State(c), RequestResume(s)
  PROVE  SerialInv' /\ Lasting
<1> USE DEF At, Snap, Points
<1>0. /\ c = call[s] /\ c.op = "RequestResume" /\ call[s].op # "none" /\ row \in Rows
      /\ c.at \in {"load", "save"} /\ row.started
  BY Working DEF RequestResume, TypeOK, State, Knows, PumpOps
<1>1. CASE c.at = "load" /\ Goto(s, "save", row)
  <2>1. UNCHANGED <<row, ready, pending, plays, results, timer, turnTimers>>
    BY <1>0, <1>1 DEF RequestResume
  <2>2. ASSUME NEW d, d.op = c.op, d.at = "save", d.snap = row PROVE State(d)'
    BY <1>0, <1>1, <2>1, <2>2, Looked DEF State, Knows, Expiring, Setting, Stopping
  <2> QED BY <1>0, <1>1, <2>1, <2>2, Onwards DEF Lasting
<1>2. CASE Return(s)
  <2>1. /\ UNCHANGED <<ready, pending, plays, results, timer, turnTimers>>
        /\ c.at = "save" => c.snap = row
    BY <1>0 DEF RequestResume, State, Knows
  <2>2. row' = row \/ (c.at = "save" /\ row' = [row EXCEPT !.resumeBy = Who(s)])
    BY <1>0, <1>2, <2>1 DEF RequestResume, Goto
  <2>3. /\ row'.over = row.over /\ row'.winner = row.winner /\ row'.started = row.started
        /\ row'.paused = row.paused
    BY <1>0, <2>2 DEF Rows
  <2>4. State(Idle)'
    BY <1>0, <2>1, <2>3
       DEF State, Knows, Begun, Counts, Clocks, Going, Expiring, Setting, Stopping, Idle, PumpOps
  <2> QED BY <1>0, <1>2, <2>3, <2>4, Done DEF Lasting
<1> QED BY <1>0, <1>1, <1>2 DEF RequestResume

LEMMA PauseAccepted ==
  ASSUME TypeOK, RowCoherent, NEW s \in Goroutines, NEW c, Running(c), State(c), AcceptPause(s)
  PROVE  SerialInv' /\ Lasting
<1> USE DEF At, Snap, Points
<1>0. /\ c = call[s] /\ c.op = "AcceptPause" /\ call[s].op # "none" /\ row \in Rows
      /\ c.at \in {"load", "update", "timer"} /\ row.started
  BY Working DEF AcceptPause, TypeOK, State, Knows, PumpOps
<1>1. CASE c.at = "load"
  <2>1. UNCHANGED <<row, ready, pending, plays, results, timer, turnTimers>>
    BY <1>0, <1>1 DEF AcceptPause
  <2>2. CASE Return(s)
    <3>1. State(Idle)'
      BY <1>0, <1>1, <2>1, Looked DEF State, Knows, Expiring, Setting, Stopping, Idle, PumpOps
    <3> QED BY <1>0, <2>1, <2>2, <3>1, Done DEF Lasting
  <2>3. CASE Goto(s, "update", NewRow)
    <3>1. ASSUME NEW d, d.op = c.op, d.at = "update" PROVE State(d)'
      BY <1>0, <1>1, <2>1, <3>1, Looked DEF State, Knows, Expiring, Setting, Stopping
    <3> QED BY <1>0, <2>1, <2>3, <3>1, Onwards DEF Lasting
  <2> QED BY <1>0, <1>1, <2>2, <2>3 DEF AcceptPause
<1>2. CASE c.at = "update"
  <2>1. PICK snap : Goto(s, "timer", snap)
    BY <1>0, <1>2 DEF AcceptPause
  <2>2. UNCHANGED <<ready, pending, plays, results, timer, turnTimers>>
    BY <1>0, <1>2 DEF AcceptPause
  <2>3. /\ row'.over = row.over /\ row'.winner = row.winner /\ row'.started
        /\ row'.paused
    BY <1>0, <1>2 DEF AcceptPause, Rows
  <2>4. ASSUME NEW d, d.op = c.op, d.at = "timer" PROVE State(d)'
    BY <1>0, <1>2, <2>2, <2>3, <2>4
       DEF State, Knows, Begun, Counts, Clocks, Going, Expiring, Setting, Stopping
  <2> QED BY <1>0, <2>1, <2>3, <2>4, Onwards DEF Lasting
<1>3. CASE c.at = "timer"
  <2>1. CancelTurnTimer /\ Return(s) /\ UNCHANGED <<row, ready, pending, plays, results>>
    BY <1>0, <1>3 DEF AcceptPause
  <2>2. row.paused
    BY <1>0, <1>3 DEF State, Knows, Stopping
  <2>3. row.over \/ \A t \in Timers : timer'[t].at # "armed"
    BY <1>0, <2>1, ClockStopped DEF State, Clocks, Expiring
  <2>4. State(Idle)'
    BY <1>0, <1>3, <2>1, <2>2, <2>3
       DEF State, Knows, Begun, Counts, Clocks, Going, Expiring, Setting, Stopping, Idle, PumpOps
  <2> QED BY <1>0, <2>1, <2>4, Done DEF Lasting
<1> QED BY <1>0, <1>1, <1>2, <1>3

LEMMA ResumeAccepted ==
  ASSUME TypeOK, RowCoherent, NEW s \in Goroutines, NEW c, Running(c), State(c), AcceptResume(s)
  PROVE  SerialInv' /\ Lasting
<1> USE DEF At, Snap, Points
<1>0. /\ c = call[s] /\ c.op = "AcceptResume" /\ call[s].op # "none" /\ row \in Rows
      /\ c.at \in {"load", "update", "timer"} /\ row.started
  BY Working DEF AcceptResume, TypeOK, State, Knows, PumpOps
<1>1. CASE c.at = "load"
  <2>1. UNCHANGED <<row, ready, pending, plays, results, timer, turnTimers>>
    BY <1>0, <1>1 DEF AcceptResume
  <2>2. CASE Return(s)
    <3>1. State(Idle)'
      BY <1>0, <1>1, <2>1, Looked DEF State, Knows, Expiring, Setting, Stopping, Idle, PumpOps
    <3> QED BY <1>0, <2>1, <2>2, <3>1, Done DEF Lasting
  <2>3. CASE Goto(s, "update", TurnOf(row))
    <3>1. ASSUME NEW d, d.op = c.op, d.at = "update" PROVE State(d)'
      BY <1>0, <1>1, <2>1, <3>1, Looked DEF State, Knows, Expiring, Setting, Stopping
    <3> QED BY <1>0, <2>1, <2>3, <3>1, Onwards DEF Lasting
  <2> QED BY <1>0, <1>1, <2>2, <2>3 DEF AcceptResume
<1>2. CASE c.at = "update"
  <2>1. PICK snap : Goto(s, "timer", snap)
    BY <1>0, <1>2 DEF AcceptResume
  <2>2. UNCHANGED <<ready, pending, plays, results, timer, turnTimers>>
    BY <1>0, <1>2 DEF AcceptResume
  <2>3. /\ row'.over = row.over /\ row'.winner = row.winner /\ row'.started
        /\ ~row'.paused
    BY <1>0, <1>2 DEF AcceptResume, Rows
  <2>4. ASSUME NEW d, d.op = c.op, d.at = "timer" PROVE State(d)'
    BY <1>0, <1>2, <2>2, <2>3, <2>4
       DEF State, Knows, Begun, Counts, Clocks, Going, Expiring, Setting, Stopping
  <2> QED BY <1>0, <2>1, <2>3, <2>4, Onwards DEF Lasting
<1>3. CASE c.at = "timer"
  <2>1. /\ StartTurnTimer(Snap(s).turn) /\ Return(s)
        /\ UNCHANGED <<row, ready, pending, plays, results>>
    BY <1>0, <1>3 DEF AcceptResume
  <2>2. ~row.paused
    BY <1>0, <1>3 DEF State, Knows
  <2>3. row.over \/ /\ \A t \in Timers : timer'[t].at = "armed" => turnTimers' = t
                    /\ \E t \in Timers : timer'[t] # Off
    BY <1>0, <2>1, ClockSet DEF State, Clocks, Expiring
  <2>4. State(Idle)'
    BY <1>0, <1>3, <2>1, <2>2, <2>3
       DEF State, Knows, Begun, Counts, Clocks, Going, Expiring, Setting, Stopping, Idle, PumpOps
  <2> QED BY <1>0, <2>1, <2>4, Done DEF Lasting
<1> QED BY <1>0, <1>1, <1>2, <1>3

----------------------------------------------------------------------------
(* Questions and answers *)

LEMMA Asked ==
  ASSUME TypeOK, RowCoherent, NEW s \in Goroutines, NEW c, Running(c), State(c), Question(s)
  PROVE  SerialInv' /\ Lasting
<1> USE DEF At, Snap, Points
<1>0. /\ c = call[s] /\ c.op = "game" /\ call[s].op # "none" /\ row \in Rows
      /\ c.at \in {"load", "timer", "store"} /\ row.started
  BY Working DEF Question, TypeOK, State, Knows, PumpOps
<1>1. CASE c.at = "load"
  <2>1. UNCHANGED <<row, ready, pending, plays, results, timer, turnTimers>>
    BY <1>0, <1>1 DEF Question
  <2>2. CASE Return(s)
    <3>1. State(Idle)'
      BY <1>0, <1>1, <2>1, Looked DEF State, Knows, Expiring, Setting, Stopping, Idle, PumpOps
    <3> QED BY <1>0, <2>1, <2>2, <3>1, Done DEF Lasting
  <2>3. CASE ~Return(s)
    <3>1. PICK point, snap : point \in {"timer", "store"} /\ Goto(s, point, snap)
      BY <1>0, <1>1, <2>3 DEF Question
    <3>2. point = "timer" => ~row.paused
      BY <1>0, <1>1, <2>3, <3>1, GotoNow DEF Question
    <3>3. ASSUME NEW d, d.op = c.op, d.at = point PROVE State(d)'
      BY <1>0, <1>1, <2>1, <3>1, <3>2, <3>3, Looked DEF State, Knows, Expiring, Setting, Stopping
    <3> QED BY <1>0, <2>1, <3>1, <3>3, Onwards DEF Lasting
  <2> QED BY <2>2, <2>3
<1>2. CASE c.at = "timer"
  <2>1. /\ \E p : StartTurnTimer(p)
        /\ Goto(s, "store", NewRow) /\ UNCHANGED <<row, ready, pending, plays, results>>
    BY <1>0, <1>2 DEF Question
  <2>2. ~row.paused
    BY <1>0, <1>2 DEF State, Knows
  <2>3. row.over \/ /\ \A t \in Timers : timer'[t].at = "armed" => turnTimers' = t
                    /\ \E t \in Timers : timer'[t] # Off
    BY <1>0, <2>1, ClockSet DEF State, Clocks, Expiring
  <2>4. ASSUME NEW d, d.op = c.op, d.at = "store" PROVE State(d)'
    BY <1>0, <1>2, <2>1, <2>2, <2>3, <2>4
       DEF State, Knows, Begun, Counts, Clocks, Going, Expiring, Setting, Stopping
  <2> QED BY <1>0, <2>1, <2>4, Onwards DEF Lasting
<1>3. CASE c.at = "store"
  <2>1. Return(s) /\ UNCHANGED <<row, ready, plays, results, timer, turnTimers>>
    BY <1>0, <1>3 DEF Question
  <2>2. State(Idle)'
    BY <1>0, <1>3, <2>1
       DEF State, Knows, Begun, Counts, Clocks, Going, Expiring, Setting, Stopping, Idle, PumpOps
  <2> QED BY <1>0, <2>1, <2>2, Done DEF Lasting
<1> QED BY <1>0, <1>1, <1>2, <1>3

LEMMA Answered ==
  ASSUME TypeOK, RowCoherent, NEW s \in Goroutines, NEW c, Running(c), State(c), Answer(s)
  PROVE  SerialInv' /\ Lasting
<1> USE DEF At, Snap, Points
<1>0. /\ c = call[s] /\ c.op = "response" /\ call[s].op # "none" /\ row \in Rows
      /\ c.at \in {"load", "save", "timer", "store"} /\ row.started
  BY Working DEF Answer, TypeOK, State, Knows, PumpOps
<1>1. CASE c.at = "load"
  <2>1. UNCHANGED <<row, ready, pending, plays, results, timer, turnTimers>>
    BY <1>0, <1>1 DEF Answer
  <2>2. CASE Return(s)
    <3>1. State(Idle)'
      BY <1>0, <1>1, <2>1, Looked DEF State, Knows, Expiring, Setting, Stopping, Idle, PumpOps
    <3> QED BY <1>0, <2>1, <2>2, <3>1, Done DEF Lasting
  <2>3. CASE Goto(s, "save", row)
    <3>1. ASSUME NEW d, d.op = c.op, d.at = "save", d.snap = row PROVE State(d)'
      BY <1>0, <1>1, <2>1, <3>1, Looked DEF State, Knows, Expiring, Setting, Stopping
    <3> QED BY <1>0, <2>1, <2>3, <3>1, Onwards DEF Lasting
  <2> QED BY <1>0, <1>1, <2>2, <2>3 DEF Answer
<1>2. CASE c.at = "timer"
  <2>1. /\ \E p : StartTurnTimer(p)
        /\ Goto(s, "store", NewRow) /\ UNCHANGED <<row, ready, pending, plays, results>>
    BY <1>0, <1>2 DEF Answer
  <2>2. ~row.paused
    BY <1>0, <1>2 DEF State, Knows
  <2>3. row.over \/ /\ \A t \in Timers : timer'[t].at = "armed" => turnTimers' = t
                    /\ \E t \in Timers : timer'[t] # Off
    BY <1>0, <2>1, ClockSet DEF State, Clocks, Expiring
  <2>4. ASSUME NEW d, d.op = c.op, d.at = "store" PROVE State(d)'
    BY <1>0, <1>2, <2>1, <2>2, <2>3, <2>4
       DEF State, Knows, Begun, Counts, Clocks, Going, Expiring, Setting, Stopping
  <2> QED BY <1>0, <2>1, <2>4, Onwards DEF Lasting
<1>3. CASE c.at = "store"
  <2>1. Return(s) /\ UNCHANGED <<row, ready, plays, results, timer, turnTimers>>
    BY <1>0, <1>3 DEF Answer
  <2>2. State(Idle)'
    BY <1>0, <1>3, <2>1
       DEF State, Knows, Begun, Counts, Clocks, Going, Expiring, Setting, Stopping, Idle, PumpOps
  <2> QED BY <1>0, <2>1, <2>2, Done DEF Lasting
<1>4. CASE c.at = "save"
  <2>1. /\ c.snap = row /\ row' = [row EXCEPT !.turn = Other(@)]
        /\ UNCHANGED <<ready, pending, plays, results, timer, turnTimers>>
    BY <1>0, <1>4 DEF State, Knows, Answer
  <2>2. PICK point, snap :
          point \in {"timer", "store"} /\ Goto(s, point, snap) /\ (point = "timer" => ~row.paused)
    BY <1>0, <1>4, <2>1 DEF Answer
  <2>3. /\ row'.over = row.over /\ row'.winner = row.winner /\ row'.started = row.started
        /\ row'.paused = row.paused
        /\ row'.pauseBy = row.pauseBy /\ row'.resumeBy = row.resumeBy
    BY <1>0, <2>1 DEF Rows
  <2>4. ASSUME NEW d, d.op = c.op, d.at = point PROVE State(d)'
    BY <1>0, <1>4, <2>1, <2>2, <2>3, <2>4
       DEF State, Knows, Begun, Counts, Clocks, Going, Expiring, Setting, Stopping
  <2> QED BY <1>0, <2>2, <2>3, <2>4, Onwards DEF Lasting
<1> QED BY <1>0, <1>1, <1>2, <1>3, <1>4

----------------------------------------------------------------------------
(* All the steps *)

LEMMA ProceedStep ==
  ASSUME TypeOK, RowCoherent, SerialInv, NEW s \in Goroutines, Proceed(s)
  PROVE  SerialInv' /\ Lasting
<1>1. PICK c : Running(c) /\ State(c)
  BY DEF SerialInv
<1> QED
  BY <1>1, ReadyStep, UnreadyStep, GuessStep, ForfeitStep, ExpiryStep, RecordStep, PauseAsked,
     PauseAccepted, ResumeAsked, ResumeAccepted, Asked, Answered DEF Proceed

LEMMA BeginStep ==
  ASSUME Serial, TypeOK, RowCoherent, SerialInv,
         NEW s \in Slots, NEW op \in Offers, NEW p \in Players, Begin(s, op, p)
  PROVE  SerialInv' /\ Lasting
<1>1. Quiet /\ Offered(op, p) /\ State(Idle) /\ op \in Ops
  BY Resting, OffersAssumption DEF SerialInv, Begin
<1>2. /\ call' = [call EXCEPT ![s] = [op |-> op, who |-> p, at |-> First(op), snap |-> NewRow]]
      /\ UNCHANGED <<row, ready, pending, plays, results, timer, turnTimers>>
  BY DEF Begin
<1>3. PICK d : d = call'[s]
  OBVIOUS
<1>4. /\ d.op = op /\ d.at = First(op)
      /\ \A t \in Goroutines : t # s => call'[t] = Idle
  BY <1>1, <1>2, <1>3 DEF TypeOK, Quiet, Goroutines
<1>5. Running(d)'
  BY <1>3, <1>4 DEF Running, Goroutines
<1>6. ~row.over /\ (op \in PumpOps => row.started) /\ (op = "SetPlayerReady" => ~row.started)
  <2>1. \A q \in Players : Other(q) # Nobody
    BY OtherPlayer, NobodyAssumption
  <2> QED BY <1>1, <2>1 DEF Offered, State, Begun, PumpOps, RowCoherent, Coherent
<1>7. Knows(d) /\ ~Expiring(d)
  BY <1>1, <1>4, <1>6
     DEF State, Knows, Begun, First, Expiring, Stopping, Offered, Ops, PumpOps, EndOps
<1>8. State(d)' /\ Lasting
  BY <1>1, <1>2, <1>4, <1>7, Looked DEF Idle, First, Expiring, Setting, Stopping
<1> QED BY <1>3, <1>5, <1>8 DEF SerialInv, Goroutines

\* A clock runs out.  Whatever handler runs then has not noticed.
LEMMA FireStep ==
  ASSUME TypeOK, SerialInv, NEW t \in Timers, Fire(t) PROVE SerialInv' /\ Lasting
<1>1. PICK c \in {Idle} \cup {call[s] : s \in Goroutines} : Running(c) /\ State(c)
  BY DEF SerialInv
<1>2. timer[t].at = "armed" /\ UNCHANGED <<row, ready, pending, plays, results, call, turnTimers>>
  BY DEF Fire
<1>3. timer'[t].at = "fired" /\ \A u \in Timers : u # t => timer'[u] = timer[u]
  BY <1>2 DEF Fire, TypeOK, TimerStates, Off
<1>4. timer[t] # Off /\ timer'[t] # Off
  BY <1>2, <1>3 DEF Off
<1>5. State(c)'
  BY <1>1, <1>2, <1>3, <1>4
     DEF State, Knows, Begun, Counts, Clocks, Going, Expiring, Setting, Stopping
<1>6. Running(c)' /\ c \in ({Idle} \cup {call[s] : s \in Goroutines})'
  BY <1>1, <1>2 DEF Running, Quiet
<1> QED BY <1>2, <1>5, <1>6 DEF SerialInv, Lasting

\* The callback of a clock that has run out: from here the game comes to its end.
LEMMA CallbackStep ==
  ASSUME Serial, TypeOK, SerialInv, NEW t \in Timers, Callback(t) PROVE SerialInv' /\ Lasting
<1>1. Quiet /\ State(Idle) /\ timer[t].at = "fired" /\ timer[t] # Off
  BY Resting DEF SerialInv, Callback, Off
<1>2. /\ call' = [call EXCEPT ![t] = [op |-> "ForfeitByPlayerID", who |-> timer[t].who,
                                     at |-> "load", snap |-> NewRow]]
      /\ UNCHANGED <<row, ready, pending, plays, results>>
  BY DEF Callback
<1>3. PICK d : d = call'[t]
  OBVIOUS
<1>4. /\ d.op = "ForfeitByPlayerID" /\ d.at = "load"
      /\ \A s \in Goroutines : s # t => call'[s] = Idle
  BY <1>1, <1>2, <1>3 DEF TypeOK, Quiet, Goroutines
<1>5. Running(d)'
  BY <1>3, <1>4 DEF Running, Goroutines
<1>6. row.started
  BY <1>1 DEF State, Begun
<1>7. State(d)'
  BY <1>1, <1>2, <1>4, <1>6
     DEF State, Knows, Begun, Counts, Clocks, Going, Expiring, Setting, Stopping, Idle
<1> QED BY <1>2, <1>3, <1>5, <1>7 DEF SerialInv, Goroutines, Lasting

LEMMA SerialNext ==
  ASSUME Serial, TypeOK, RowCoherent, SerialInv, [Next]_gameVars
  PROVE  SerialInv' /\ Lasting
<1>1. CASE UNCHANGED gameVars
  BY <1>1 DEF gameVars, SerialInv, Running, Quiet, State, Knows, Begun, Counts, Clocks, Going,
              Expiring, Setting, Stopping, Lasting
<1>2. CASE Next
  BY <1>2, ProceedStep, BeginStep, FireStep, CallbackStep DEF Next, Goroutines
<1> QED BY <1>1, <1>2

LEMMA SerialInit == Init => SerialInv
<1> SUFFICES ASSUME Init PROVE SerialInv
  OBVIOUS
<1>1. Running(Idle)
  BY DEF Init, Running, Quiet
<1>2. State(Idle)
  BY DEF Init, State, Knows, Begun, Counts, Clocks, Going, Expiring, Setting, Stopping, Idle,
         NewRow, PumpOps, Off
<1> QED BY <1>1, <1>2 DEF SerialInv

LEMMA SerialInvariant == ASSUME Serial PROVE Spec => [](TypeOK /\ RowCoherent /\ SerialInv)
<1>1. TypeOK /\ RowCoherent /\ SerialInv /\ [Next]_gameVars => SerialInv'
  BY SerialNext
<1> QED BY <1>1, SerialInit, TypeCorrect, RowCoherentHolds, PTL DEF Spec

\* A game is counted once as played, and once as a result for either player, as long as
\* handlers do not overlap: neither readiness taken back and given again, nor a clock that
\* outlives the game, counts it twice.
THEOREM CountedOnceHolds == ASSUME Serial PROVE Spec => []CountedOnce
<1>1. SerialInv => CountedOnce
  BY Resting DEF SerialInv, State, Counts, CountedOnce, Idle
<1> QED BY <1>1, SerialInvariant, PTL

\* A running timed game has a clock, whatever clocks ran out or called back before.
THEOREM GoingIsTimedHolds == ASSUME Serial PROVE Spec => []GoingIsTimed
<1>1. SerialInv => GoingIsTimed
  BY Resting DEF SerialInv, State, Clocks, Expiring, Setting, GoingIsTimed, Idle
<1> QED BY <1>1, SerialInvariant, PTL

\* In a pause no clock is left running, mapped or not.
THEOREM PausedIsUntimedHolds == ASSUME Serial PROVE Spec => []PausedIsUntimed
<1>1. SerialInv => PausedIsUntimed
  BY Resting DEF SerialInv, State, Clocks, Expiring, Stopping, PausedIsUntimed, Idle
<1> QED BY <1>1, SerialInvariant, PTL

\* Once a game is over, its result stands: no clock, request or answer that comes after
\* the end changes it.
THEOREM ResultIsFinalHolds == ASSUME Serial PROVE Spec => ResultIsFinal
<1>1. /\ TypeOK /\ RowCoherent /\ SerialInv /\ [Next]_gameVars
      => [row.over => row'.over /\ row'.winner = row.winner]_gameVars
  BY SerialNext DEF Lasting
<1> QED BY <1>1, SerialInvariant, PTL DEF Spec, ResultIsFinal

=============================================================================
