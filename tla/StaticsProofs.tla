--------------------------- MODULE StaticsProofs ---------------------------
(***************************************************************************)
(* What holds of the cached roster for any number of players and pumps.    *)
(***************************************************************************)
EXTENDS Statics, TLAPS

----------------------------------------------------------------------------
(* Types *)

LEMMA OutdatedTyped ==
  ASSUME TypeOK, NEW P \in SUBSET Pumps
  PROVE  Outdated(P) \in [Pumps -> PumpStates]
<1> SUFFICES ASSUME NEW p \in Pumps
             PROVE  (IF p \in P THEN [pump[p] EXCEPT !.late = TRUE] ELSE pump[p]) \in PumpStates
  BY DEF Outdated
<1> QED BY DEF TypeOK, PumpStates

LEMMA InvalidateTyped ==
  ASSUME TypeOK, Invalidate
  PROVE  /\ \E R \in SUBSET Seats : cache' \subseteq {R}
         /\ pump' \in [Pumps -> PumpStates]
<1>1. Holding \in SUBSET Pumps
  BY DEF Holding
<1> QED BY <1>1, OutdatedTyped DEF Invalidate

LEMMA HandleTyped ==
  ASSUME TypeOK, Handle
  PROVE  TypeOK'
<1>1. ASSUME NEW next \in Calls, Drop(next)
      PROVE  TypeOK'
  BY <1>1, InvalidateTyped DEF Drop, TypeOK, seatsVars, rowVars
<1>2. CASE JoinLobby
  <2>1. CASE handler = NoCall /\ \E r \in Seats \ used : Call("JoinLobby", "save", r)
    BY <1>2, <2>1, <1>1 DEF JoinLobby, TypeOK, Calls, Call, seatsVars, rowVars, NoCall, Drop
  <2>2. CASE handler.op = "JoinLobby" /\ handler.at = "save"
    BY <1>2, <2>2, <1>1 DEF JoinLobby, TypeOK, Calls, Call, seatsVars, rowVars, NoCall, Drop
  <2>3. CASE Drop(NoCall)
    BY <2>3, <1>1 DEF Calls
  <2> QED BY <1>2, <2>1, <2>2, <2>3 DEF JoinLobby
<1>3. CASE SetPlayerReady
  <2>1. CASE handler = NoCall /\ \E r \in rows : Call("SetPlayerReady", "save", r)
    BY <1>3, <2>1, <1>1 DEF SetPlayerReady, TypeOK, Calls, Call, seatsVars, rowVars, NoCall, Drop
  <2>2. CASE handler.op = "SetPlayerReady" /\ handler.at = "save"
    BY <1>3, <2>2, <1>1 DEF SetPlayerReady, TypeOK, Calls, Call, seatsVars, rowVars, NoCall, Drop
  <2>3. CASE handler.op = "SetPlayerReady" /\ Drop([handler EXCEPT !.at = "count"])
    <3>1. [handler EXCEPT !.at = "count"] \in Calls
      BY <2>3 DEF TypeOK, Calls, NoCall
    <3> QED BY <2>3, <3>1, <1>1
  <2>4. CASE handler.op = "SetPlayerReady" /\ handler.at = "count"
    <3>1. /\ started' = (started \/ rows \subseteq ready)
          /\ handler' = NoCall
          /\ UNCHANGED <<seatsVars, over, turn, cache, pump, panicked, overtaken>>
      BY <1>3, <2>4 DEF SetPlayerReady, NoCall, Drop
    <3>2. started' \in BOOLEAN
      BY <3>1, Zenon
    <3> QED BY <3>1, <3>2 DEF TypeOK, Calls, seatsVars
  <2> QED BY <1>3, <2>1, <2>2, <2>3, <2>4 DEF SetPlayerReady
<1>4. CASE SetPlayerUnready
  <2>1. CASE handler = NoCall /\ \E r \in rows \cap ready : Call("SetPlayerUnready", "save", r)
    BY <1>4, <2>1, <1>1 DEF SetPlayerUnready, TypeOK, Calls, Call, seatsVars, rowVars, NoCall, Drop
  <2>2. CASE handler.op = "SetPlayerUnready" /\ handler.at = "save"
    BY <1>4, <2>2, <1>1 DEF SetPlayerUnready, TypeOK, Calls, Call, seatsVars, rowVars, NoCall, Drop
  <2>3. CASE Drop(NoCall)
    BY <2>3, <1>1 DEF Calls
  <2> QED BY <1>4, <2>1, <2>2, <2>3 DEF SetPlayerUnready
<1> QED BY <1>2, <1>3, <1>4 DEF Handle

LEMMA LeaveTyped ==
  ASSUME TypeOK, NEW r \in Seats, ForfeitLobby(r) \/ PreGameForfeitByPlayerID(r)
  PROVE  TypeOK'
<1>1. CASE LeaveBeforeStart(r)
  <2>1. Busy \in SUBSET Pumps
    BY DEF Busy
  <2> QED BY <1>1, <2>1, OutdatedTyped DEF LeaveBeforeStart, TypeOK
<1>2. CASE ForfeitLobby(r) /\ ~LeaveBeforeStart(r)
  BY <1>2 DEF ForfeitLobby, TypeOK, seatsVars
<1> QED BY <1>1, <1>2 DEF ForfeitLobby, PreGameForfeitByPlayerID

\* A pump's record stays one when its fields get values of their kinds.
LEMMA PumpTyped ==
  ASSUME TypeOK, NEW p \in Pumps, NEW s \in PumpStates, pump' = [pump EXCEPT ![p] = s]
  PROVE  pump' \in [Pumps -> PumpStates]
BY DEF TypeOK

LEMMA RestingTyped == Resting \in PumpStates
BY DEF Resting, PumpStates

LEMMA PumpStepTyped ==
  ASSUME TypeOK, NEW p \in Pumps, Pump(p)
  PROVE  TypeOK'
<1> USE RestingTyped
<1>0. pump[p] \in PumpStates
  BY DEF TypeOK
<1>1. ASSUME NEW who \in Seats \cup {None}, Begin(p, who)
      PROVE  TypeOK'
  <2>1. [pump[p] EXCEPT !.at = "lookup", !.who = who] \in PumpStates
    BY <1>0 DEF PumpStates
  <2>2. pump' = [pump EXCEPT ![p] = [pump[p] EXCEPT !.at = "lookup", !.who = who]]
    BY <1>1 DEF Begin, TypeOK
  <2> QED BY <1>1, <2>1, <2>2, PumpTyped DEF Begin, TypeOK, seatsVars, rowVars
<1>2. CASE Show(p) \/ Answer(p)
  BY <1>2, <1>1 DEF Show, Answer, TypeOK
<1>3. CASE Lookup(p) /\ UNCHANGED <<seatsVars, rowVars, cache, handler, panicked, overtaken>>
  <2>1. [pump[p] EXCEPT !.at = "load"] \in PumpStates
    BY <1>0 DEF PumpStates
  <2>2. \A R \in cache : [pump[p] EXCEPT !.at = "first", !.roster = R] \in PumpStates
    BY <1>0 DEF PumpStates, TypeOK
  <2>3. [pump[p] EXCEPT !.at = "store", !.roster = rows, !.turn = turn] \in PumpStates
    BY <1>0 DEF PumpStates, TypeOK
  <2>4. [pump[p] EXCEPT !.at = "act", !.turn = turn] \in PumpStates
    BY <1>0 DEF PumpStates, TypeOK
  <2>5. pump' \in [Pumps -> PumpStates]
    BY <1>3, <2>1, <2>2, <2>3, <2>4 DEF Lookup, TypeOK
  <2> QED BY <1>3, <2>5 DEF TypeOK, seatsVars, rowVars
<1>4. CASE Store(p) /\ UNCHANGED <<seatsVars, rowVars, handler, panicked>>
  <2>1. [pump[p] EXCEPT !.at = "act"] \in PumpStates
    BY <1>0 DEF PumpStates
  <2>2. pump' \in [Pumps -> PumpStates]
    BY <1>4, <2>1 DEF Store, Got, TypeOK
  <2>3. pump[p].roster \in SUBSET Seats /\ pump[p].late \in BOOLEAN
    BY <1>0 DEF PumpStates
  <2> QED BY <1>4, <2>2, <2>3 DEF Store, TypeOK, seatsVars, rowVars
<1>5. CASE Act(p) /\ UNCHANGED <<used, ready, started, over, handler>>
  <2>1. [Resting EXCEPT !.at = "lookup"] \in PumpStates
    BY DEF Resting, PumpStates
  <2>2. pump' \in [Pumps -> PumpStates]
    BY <1>5, <2>1 DEF Act, Swap, TypeOK
  <2>3. pump[p].roster \in SUBSET Seats /\ pump[p].late \in BOOLEAN
    BY <1>0 DEF PumpStates
  <2> QED BY <1>5, <2>2, <2>3 DEF Act, Swap, NextTurns, TypeOK
<1> QED BY <1>2, <1>3, <1>4, <1>5 DEF Pump

LEMMA TypeStep == TypeOK /\ [Next]_vars => TypeOK'
<1> SUFFICES ASSUME TypeOK, [Next]_vars PROVE TypeOK'
  OBVIOUS
<1>1. CASE LobbyEmpties
  BY <1>1, InvalidateTyped DEF LobbyEmpties, TypeOK, seatsVars, rowVars
<1>2. CASE UNCHANGED vars
  BY <1>2 DEF vars, TypeOK
<1> QED BY <1>1, <1>2, HandleTyped, LeaveTyped, PumpStepTyped DEF Next

\* The types of the variables.
THEOREM TypeCorrect == Spec => []TypeOK
<1>1. Init => TypeOK
  BY SeatsAssumption, RestingTyped DEF Init, TypeOK, Calls, NoCall
<1> QED BY <1>1, TypeStep, PTL DEF Spec

----------------------------------------------------------------------------
(* The roster *)

\* Pump p has a roster, or is about to read one, and nothing has changed since.
Held(p) == pump[p].at \in {"first", "store", "act"} /\ ~pump[p].late
Loading(p) == pump[p].at = "load" /\ ~pump[p].late

\* But for the player who is joining there is one roster X about, in the cache and
\* in the pumps, and everybody who plays is in it.  It names somebody who has left
\* only while it is cached, so that whoever looks it up gets X too, and never while
\* a pump is about to read another one.
Agreed(X) ==
  /\ rows \ Joining \subseteq X /\ X \subseteq used
  /\ \A R \in cache : R \ Joining = X
  /\ \A p \in Pumps : Held(p) => pump[p].roster \ Joining = X
  /\ cache = {} => X = rows \ Joining
  /\ (\E p \in Pumps : Loading(p)) => X = rows \ Joining

\* Whose answer it is was in the game before, and is.
AnswersOfPlayers ==
  \A p \in Pumps :
    /\ pump[p].at = "idle" => pump[p].who = None
    /\ pump[p].at = "act" => pump[p].who # None
    /\ pump[p].who # None /\ ~pump[p].late => pump[p].who \in rows \ Joining

\* Nobody is read who was never inserted.
Inserted ==
  /\ rows \subseteq used
  /\ \A R \in cache : R \subseteq used
  /\ \A p \in Pumps : pump[p].roster \subseteq used

RosterInv ==
  /\ Inserted
  /\ AnswersOfPlayers
  /\ ~overtaken => \E X : Agreed(X)
  /\ panicked => overtaken

LEMMA InvalidateAgrees ==
  ASSUME TypeOK, RosterInv, Invalidate, Joining' \subseteq Joining,
         UNCHANGED <<rows, used, panicked, overtaken>>
  PROVE  RosterInv'
<1>1. \A p \in Pumps : ~Held(p)' /\ pump'[p].who = pump[p].who /\ pump'[p].roster = pump[p].roster
                        /\ pump'[p].at = pump[p].at /\ (~pump'[p].late => ~pump[p].late)
  BY DEF Invalidate, Outdated, Holding, Held, TypeOK, PumpStates
<1>2. AnswersOfPlayers'
  BY <1>1 DEF AnswersOfPlayers, RosterInv
<1>3. PICK X : X = (rows \ Joining)'
  OBVIOUS
<1>4. Agreed(X)'
  BY <1>1, <1>3 DEF Agreed, Invalidate, RosterInv, Inserted
<1>5. Inserted'
  BY <1>1 DEF Invalidate, RosterInv, Inserted
<1> QED BY <1>2, <1>4, <1>5 DEF RosterInv

\* A step that lets the rosters be.
LEMMA IdleAgrees ==
  ASSUME RosterInv, Joining' = Joining, UNCHANGED <<rows, used, cache, pump, panicked, overtaken>>
  PROVE  RosterInv'
<1>1. ASSUME NEW X, Agreed(X)
      PROVE  Agreed(X)'
  BY <1>1 DEF Agreed, Held, Loading
<1>2. AnswersOfPlayers'
  BY DEF RosterInv, AnswersOfPlayers
<1> QED BY <1>1, <1>2 DEF RosterInv, Inserted

\* A player whose row was never there before joins.
LEMMA InsertAgrees ==
  ASSUME TypeOK, RosterInv, NEW r, r \notin used, Joining = {}, Joining' = {r},
         rows' = rows \cup {r}, used' = used \cup {r},
         UNCHANGED <<cache, pump, panicked, overtaken>>
  PROVE  RosterInv'
<1>1. ASSUME NEW X, Agreed(X)
      PROVE  Agreed(X)'
  BY <1>1 DEF Agreed, Held, Loading, RosterInv, Inserted
<1>2. AnswersOfPlayers'
  BY DEF RosterInv, AnswersOfPlayers, Inserted
<1> QED BY <1>1, <1>2 DEF RosterInv, Inserted

\* The row that JoinLobby inserts is a new one.
NewRow == handler.op = "JoinLobby" /\ handler.at = "save" => handler.who \notin used

LEMMA HandleAgrees ==
  ASSUME TypeOK, RosterInv, NewRow, Handle
  PROVE  RosterInv'
<1>1. ASSUME NEW next, Drop(next), next = NoCall \/ next.at = "count"
      PROVE  RosterInv'
  <2>1. Joining' = {}
    BY <1>1 DEF Drop, Joining, NoCall
  <2> QED BY <1>1, <2>1, InvalidateAgrees DEF Drop, seatsVars
<1>2. ASSUME UNCHANGED <<rows, used, cache, pump, panicked, overtaken>>, Joining = {}, Joining' = {}
      PROVE  RosterInv'
  BY <1>2, IdleAgrees
<1>3. CASE JoinLobby
  <2>1. CASE handler = NoCall /\ \E r \in Seats \ used : Call("JoinLobby", "save", r)
    BY <1>2, <1>3, <2>1 DEF JoinLobby, Call, Joining, NoCall, Drop, seatsVars
  <2>2. CASE handler.op = "JoinLobby" /\ handler.at = "save"
    <3>1. Joining = {} /\ Joining' = {handler.who}
      BY <1>3, <2>2 DEF JoinLobby, Call, Joining, NoCall, Drop
    <3> QED BY <1>3, <2>2, <3>1, InsertAgrees DEF JoinLobby, NoCall, Drop, NewRow
  <2>3. CASE Drop(NoCall)
    BY <1>1, <2>3
  <2> QED BY <1>3, <2>1, <2>2, <2>3 DEF JoinLobby
<1>4. CASE SetPlayerReady
  <2>1. CASE handler.op = "SetPlayerReady" /\ Drop([handler EXCEPT !.at = "count"])
    <3>1. [handler EXCEPT !.at = "count"].at = "count"
      BY <2>1 DEF TypeOK, Calls, NoCall
    <3> QED BY <1>1, <2>1, <3>1
  <2> QED BY <1>2, <1>4, <2>1 DEF SetPlayerReady, Call, Joining, NoCall, seatsVars
<1>5. CASE SetPlayerUnready
  <2>1. CASE Drop(NoCall)
    BY <1>1, <2>1
  <2> QED BY <1>2, <1>5, <2>1 DEF SetPlayerUnready, Call, Joining, NoCall, seatsVars
<1> QED BY <1>3, <1>4, <1>5 DEF Handle

\* Whoever leaves stays in the cached roster, and outdates every other copy of it.
LEMMA LeaveAgrees ==
  ASSUME TypeOK, RosterInv, NEW r \in Seats, ForfeitLobby(r) \/ PreGameForfeitByPlayerID(r)
  PROVE  RosterInv'
<1>1. handler = NoCall /\ UNCHANGED <<handler, panicked, overtaken, used>>
  BY DEF ForfeitLobby, PreGameForfeitByPlayerID, LeaveBeforeStart, seatsVars
<1>2. Joining = {} /\ Joining' = {}
  BY <1>1 DEF Joining, NoCall
<1>3. CASE UNCHANGED <<rows, cache, pump>>
  BY <1>1, <1>2, <1>3, IdleAgrees
<1>4. CASE rows' = rows \ {r} /\ pump' = Outdated(Busy) /\ UNCHANGED cache
  <2>1. \A p \in Pumps : ~Held(p)' /\ ~Loading(p)'
    BY <1>4 DEF Outdated, Busy, Held, Loading, TypeOK, PumpStates
  <2>2. AnswersOfPlayers'
    BY <1>4 DEF Outdated, Busy, TypeOK, PumpStates, RosterInv, AnswersOfPlayers
  <2>3. ASSUME NEW X, Agreed(X)
        PROVE  \E Y : Agreed(Y)'
    <3>1. PICK Y : Y = IF cache = {} THEN rows' ELSE X
      OBVIOUS
    <3>2. Agreed(Y)'
      BY <1>1, <1>2, <1>4, <2>1, <2>3, <3>1 DEF Agreed
    <3> QED BY <3>2
  <2>4. Inserted'
    BY <1>1, <1>4 DEF Outdated, TypeOK, PumpStates, RosterInv, Inserted
  <2> QED BY <1>1, <1>4, <2>2, <2>3, <2>4 DEF RosterInv
<1> QED BY <1>1, <1>3, <1>4
       DEF ForfeitLobby, PreGameForfeitByPlayerID, LeaveBeforeStart, seatsVars

LEMMA PumpAgrees ==
  ASSUME TypeOK, RosterInv, NEW p \in Pumps, Pump(p)
  PROVE  RosterInv'
<1>1. handler' = handler /\ used' = used /\ Joining' = Joining
  BY DEF Pump, Show, Answer, Begin, seatsVars, Joining
<1>0. pump \in [Pumps -> PumpStates]
  BY DEF TypeOK
<1>2. CASE Show(p) \/ Answer(p)
  <2>1. PICK who \in {None} \cup (rows \ Joining) : Begin(p, who)
    BY <1>2 DEF Show, Answer, Joining
  <2>2. AnswersOfPlayers'
    BY <1>0, <1>1, <2>1, NoneAssumption DEF Begin, Resting, seatsVars, RosterInv, AnswersOfPlayers
  <2>3. ASSUME NEW X, Agreed(X) PROVE Agreed(X)'
    BY <1>0, <1>1, <2>1, <2>3 DEF Begin, Resting, seatsVars, Agreed, Held, Loading
  <2>4. Inserted'
    BY <1>0, <1>1, <2>1 DEF Begin, seatsVars, RosterInv, Inserted
  <2> QED BY <1>1, <2>1, <2>2, <2>3, <2>4 DEF Begin, seatsVars, RosterInv
<1>3. CASE Lookup(p) /\ UNCHANGED <<seatsVars, rowVars, cache, handler, panicked, overtaken>>
  <2>0. UNCHANGED <<rows, cache, panicked, overtaken>>
    BY <1>3 DEF seatsVars
  <2>1. CASE cache = {} /\ pump[p].at = "lookup" /\ pump' = [pump EXCEPT ![p].at = "load"]
    <3>1. Inserted' /\ AnswersOfPlayers'
      BY <1>0, <1>1, <2>0, <2>1 DEF PumpStates, RosterInv, Inserted, AnswersOfPlayers
    <3>2. ASSUME NEW X, Agreed(X) PROVE Agreed(X)'
      BY <1>0, <1>1, <2>0, <2>1, <3>2 DEF Agreed, Held, Loading, PumpStates
    <3> QED BY <2>0, <3>1, <3>2 DEF RosterInv
  <2>2. CASE /\ pump[p].at = "lookup"
             /\ \E R \in cache : pump' = [pump EXCEPT ![p].at = "first", ![p].roster = R]
    <3>0. PICK R \in cache : pump' = [pump EXCEPT ![p].at = "first", ![p].roster = R]
      BY <2>2
    <3>1. Inserted' /\ AnswersOfPlayers'
      BY <1>0, <1>1, <2>0, <2>2, <3>0 DEF PumpStates, RosterInv, Inserted, AnswersOfPlayers
    <3>2. ASSUME NEW X, Agreed(X) PROVE Agreed(X)'
      BY <1>0, <1>1, <2>0, <2>2, <3>0, <3>2 DEF Agreed, Held, Loading, PumpStates
    <3> QED BY <2>0, <3>1, <3>2 DEF RosterInv
  <2>3. CASE /\ pump[p].at = "load"
             /\ pump' = [pump EXCEPT ![p].at = "store", ![p].roster = rows, ![p].turn = turn]
    <3>1. Inserted' /\ AnswersOfPlayers'
      BY <1>0, <1>1, <2>0, <2>3 DEF PumpStates, RosterInv, Inserted, AnswersOfPlayers
    <3>2. ASSUME NEW X, Agreed(X) PROVE Agreed(X)'
      BY <1>0, <1>1, <2>0, <2>3, <3>2 DEF Agreed, Held, Loading, PumpStates
    <3> QED BY <2>0, <3>1, <3>2 DEF RosterInv
  <2>4. CASE /\ pump[p].at = "first"
             /\ pump' = [pump EXCEPT ![p] = IF @.who = None THEN Resting
                                            ELSE [@ EXCEPT !.at = "act", !.turn = turn]]
    <3>1. Inserted' /\ AnswersOfPlayers'
      BY <1>0, <1>1, <2>0, <2>4 DEF Resting, PumpStates, RosterInv, Inserted, AnswersOfPlayers
    <3>2. ASSUME NEW X, Agreed(X) PROVE Agreed(X)'
      BY <1>0, <1>1, <2>0, <2>4, <3>2 DEF Resting, Agreed, Held, Loading, PumpStates
    <3> QED BY <2>0, <3>1, <3>2 DEF RosterInv
  <2> QED BY <1>3, <2>1, <2>2, <2>3, <2>4 DEF Lookup
<1>4. CASE Store(p) /\ UNCHANGED <<seatsVars, rowVars, handler, panicked>>
  <2>1. AnswersOfPlayers'
    BY <1>0, <1>1, <1>4 DEF Store, Got, Resting, seatsVars, RosterInv, AnswersOfPlayers
  <2>2. ASSUME NEW X, Agreed(X), ~overtaken' PROVE Agreed(X)'
    <3>1. Held(p) /\ pump[p].roster \ Joining = X
      BY <1>4, <2>2 DEF Store, Held, Agreed
    <3> QED BY <1>0, <1>1, <1>4, <2>2, <3>1
           DEF Store, Got, seatsVars, Agreed, Held, Loading, PumpStates, Resting
  <2>3. Inserted'
    BY <1>0, <1>1, <1>4 DEF Store, Got, Resting, seatsVars, PumpStates, RosterInv, Inserted
  <2>4. overtaken => overtaken'
    BY <1>4, Zenon DEF Store
  <2> QED BY <1>1, <1>4, <2>1, <2>2, <2>3, <2>4 DEF seatsVars, RosterInv
<1>5. CASE Act(p) /\ UNCHANGED <<used, ready, started, over, handler>>
  <2>1. CASE pump[p].who # pump[p].turn /\ Swap(p)
    <3>1. overtaken => overtaken'
      BY <2>1, Zenon DEF Swap
    <3>2. ASSUME NEW X, Agreed(X), ~overtaken'
          PROVE  Held(p) /\ pump[p].roster \ Joining = X
      BY <1>5, <2>1, <3>2 DEF Act, Swap, Held, Agreed
    <3>3. CASE NextTurns(pump[p].roster, pump[p].turn) = {}
      <4>1. overtaken'
        <5> SUFFICES ASSUME ~overtaken' PROVE FALSE
          OBVIOUS
        <5>1. PICK X : Agreed(X)
          BY <3>1 DEF RosterInv
        <5>2. pump[p].who # None /\ ~pump[p].late /\ pump[p].who # pump[p].turn
          BY <1>5, <2>1 DEF Act, Swap, RosterInv, AnswersOfPlayers
        <5>3. pump[p].who \in pump[p].roster
          BY <3>2, <5>1, <5>2 DEF RosterInv, AnswersOfPlayers, Agreed
        <5> QED BY <3>3, <5>2, <5>3 DEF NextTurns
      <4>2. AnswersOfPlayers'
        BY <1>1, <2>1, <3>3 DEF Swap, RosterInv, AnswersOfPlayers
      <4>3. Inserted'
        BY <1>1, <1>5, <2>1, <3>3 DEF Act, Swap, RosterInv, Inserted
      <4> QED BY <4>1, <4>2, <4>3 DEF RosterInv
    <3>4. CASE NextTurns(pump[p].roster, pump[p].turn) # {}
      <4>1. rows' = rows \cup pump[p].roster /\ pump' = [pump EXCEPT ![p] = [Resting EXCEPT !.at = "lookup"]]
        BY <2>1, <3>4 DEF Swap
      <4>2. AnswersOfPlayers'
        BY <1>0, <1>1, <4>1 DEF Resting, RosterInv, AnswersOfPlayers
      <4>3. ASSUME NEW X, Agreed(X), ~overtaken' PROVE Agreed(X)'
        BY <1>0, <1>1, <1>5, <3>2, <4>1, <4>3 DEF Act, Agreed, Held, Loading, PumpStates, Resting
      <4>4. Inserted'
        BY <1>0, <1>1, <1>5, <4>1 DEF Act, Resting, PumpStates, RosterInv, Inserted
      <4> QED BY <3>1, <3>4, <2>1, <4>2, <4>3, <4>4 DEF Swap, RosterInv
    <3> QED BY <3>3, <3>4
  <2>2. CASE UNCHANGED <<rows, panicked, overtaken>> /\ pump' = [pump EXCEPT ![p] = Resting]
    <3>1. AnswersOfPlayers'
      BY <1>0, <1>1, <2>2 DEF Resting, RosterInv, AnswersOfPlayers
    <3>2. ASSUME NEW X, Agreed(X) PROVE Agreed(X)'
      BY <1>0, <1>1, <1>5, <2>2, <3>2 DEF Act, Agreed, Held, Loading, Resting
    <3>3. Inserted'
      BY <1>0, <1>1, <1>5, <2>2 DEF Act, Resting, PumpStates, RosterInv, Inserted
    <3> QED BY <1>1, <2>2, <3>1, <3>2, <3>3 DEF RosterInv
  <2> QED BY <1>5, <2>1, <2>2 DEF Act
<1> QED BY <1>2, <1>3, <1>4, <1>5 DEF Pump

RosterIInv == TypeOK /\ NewRow /\ RosterInv

LEMMA NewRowStep ==
  ASSUME TypeOK, NewRow, [Next]_vars
  PROVE  NewRow'
<1>1. CASE Handle
  BY <1>1 DEF Handle, JoinLobby, SetPlayerReady, SetPlayerUnready, Call, Drop, NoCall, NewRow,
              TypeOK, Calls, seatsVars
<1>2. ASSUME UNCHANGED <<handler, used>>
      PROVE  NewRow'
  BY <1>2 DEF NewRow
<1> QED BY <1>1, <1>2 DEF Next, LobbyEmpties, ForfeitLobby, PreGameForfeitByPlayerID,
           LeaveBeforeStart, Pump, Show, Answer, Begin, seatsVars, vars

LEMMA RosterInvariant == Spec => []RosterIInv
<1>1. Init => RosterIInv
  <2> SUFFICES ASSUME Init PROVE NewRow /\ RosterInv
    BY RestingTyped, SeatsAssumption DEF RosterIInv, Init, TypeOK, Calls, NoCall
  <2>1. NewRow /\ Joining = {}
    BY DEF Init, NewRow, NoCall, Joining
  <2>2. Agreed(rows)
    BY <2>1 DEF Init, Agreed, Held, Loading, Resting
  <2>3. Inserted /\ AnswersOfPlayers
    BY DEF Init, Inserted, AnswersOfPlayers, Resting
  <2> QED BY <2>1, <2>2, <2>3 DEF RosterInv, Init
<1>2. RosterIInv /\ [Next]_vars => RosterIInv'
  <2> SUFFICES ASSUME TypeOK, NewRow, RosterInv, [Next]_vars PROVE RosterInv'
    BY TypeStep, NewRowStep DEF RosterIInv
  <2>1. CASE LobbyEmpties
    <3>1. Joining' = Joining
      BY <2>1 DEF LobbyEmpties, Joining
    <3> QED BY <2>1, <3>1, InvalidateAgrees DEF LobbyEmpties, seatsVars
  <2>2. CASE UNCHANGED vars
    <3>1. Joining' = Joining
      BY <2>2 DEF vars, Joining
    <3> QED BY <2>2, <3>1, IdleAgrees DEF vars
  <2> QED BY <2>1, <2>2, HandleAgrees, LeaveAgrees, PumpAgrees DEF Next
<1> QED BY <1>1, <1>2, PTL DEF Spec

\* Whoever plays is in the cached roster, but for one who is just joining, however
\* many pumps fill the cache while handlers change the players, and as long as no
\* pump uses a roster that was dropped.
THEOREM RosterHasThePlayersHolds == Spec => []RosterHasThePlayers
<1>1. RosterIInv => RosterHasThePlayers
  BY DEF RosterIInv, RosterInv, Agreed, RosterHasThePlayers
<1> QED BY <1>1, RosterInvariant, PTL

\* A pump that has no opponent in its roster has one that was dropped meanwhile:
\* otherwise the player whose answer it is would be in it.
THEOREM SwapFindsOpponentHolds == Spec => []SwapFindsOpponent
<1>1. RosterIInv => SwapFindsOpponent
  BY DEF RosterIInv, RosterInv, SwapFindsOpponent
<1> QED BY <1>1, RosterInvariant, PTL

=============================================================================
