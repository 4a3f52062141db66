---------------------------- MODULE SeatsProofs ----------------------------
(***************************************************************************)
(* What holds of the seats for any number of users and lobbies: first for  *)
(* any number of handlers that run at once, then for one at a time.        *)
(***************************************************************************)
EXTENDS Seats, FiniteSetTheorems, TLAPS

\* A handler's record stays one when some of its fields change.
LEMMA CallsTyped ==
  ASSUME TypeOK, NEW s \in Slots, call[s].op # "none"
  PROVE  /\ call[s] \in [op : Ops, at : Points, who : Users \cup {Nil},
                         lobby : Lobbies \cup {Nil}, seat : Seats \cup {Nil},
                         snap : LobbyRows, seats : SUBSET Seats]
         /\ call[s].snap \in LobbyRows /\ call[s].seats \in SUBSET Seats
BY DEF TypeOK, Calls, Idle

LEMMA GotoTyped ==
  ASSUME TypeOK, NEW s \in Slots, call[s].op # "none", NEW point \in Points, Goto(s, point)
  PROVE  call' \in [Slots -> Calls]
<1>1. [call[s] EXCEPT !.at = point] \in Calls
  BY CallsTyped DEF Calls
<1>2. call' = [call EXCEPT ![s] = [call[s] EXCEPT !.at = point]]
  BY DEF Goto, TypeOK
<1> QED BY <1>1, <1>2 DEF TypeOK

LEMMA ReturnTyped ==
  ASSUME TypeOK, NEW s \in Slots, Return(s)
  PROVE  call' \in [Slots -> Calls]
BY DEF TypeOK, Return, Calls

LEMMA LoadTyped ==
  ASSUME TypeOK, NEW s \in Slots, call[s].op # "none", NEW point \in Points,
         NEW r \in Seats, LobbyOf(s) \in Lobbies, Load(s, point, r)
  PROVE  call' \in [Slots -> Calls]
<1> DEFINE c == [call[s] EXCEPT !.at = point, !.seat = r, !.snap = lobby[LobbyOf(s)],
                                !.seats = RowsOf(LobbyOf(s))]
<1>1. RowsOf(LobbyOf(s)) \in SUBSET Seats /\ lobby[LobbyOf(s)] \in LobbyRows
  BY DEF RowsOf, TypeOK
<1>2. c \in Calls
  BY <1>1, CallsTyped DEF Calls
<1>3. call' = [call EXCEPT ![s] = c]
  BY DEF Load, TypeOK
<1> QED BY <1>2, <1>3 DEF TypeOK

LEMMA NewLobbyTyped == \A u \in Users : NewLobby(u) \in LobbyRows
BY NilAssumption DEF NewLobby, NoLobby, LobbyRows

LEMMA InsertTyped ==
  ASSUME TypeOK, NEW row \in PlayerRows, Insert(row)
  PROVE  player' \in [Seats -> PlayerRows] /\ rows' \in SUBSET Seats
BY DEF TypeOK, Insert

----------------------------------------------------------------------------
(* The inductive invariant *)

\* A row of players that belongs to a lobby that was made.
Real(r) == r \in Seats /\ player[r].lobby \in Lobbies /\ lobby[player[r].lobby].made

SameOwner(a, b) == a.made /\ b.made /\ a.userId = b.userId /\ a.guestId = b.guestId

\* What a handler has read of its lobby and its seat stays right where the
\* steps that follow rely on it: who owns the lobby, and which lobby the seat
\* is in.
SlotSound(s) ==
  /\ call[s].op = "CreateLobby" => call[s].who \in Users
  /\ call[s].op = "CreateLobby" /\ call[s].at \in {"seat", "turn"} =>
       /\ call[s].lobby \in Lobbies
       /\ SameOwner(lobby[call[s].lobby], NewLobby(call[s].who))
  /\ call[s].op \in {"JoinLobby", "SetPlayerReady", "ForfeitLobby", "PreGameForfeitByPlayerID"} =>
       call[s].lobby \in Lobbies /\ lobby[call[s].lobby].made
  /\ call[s].op = "SetPlayerReady" /\ call[s].at = "save" => Real(call[s].seat)
  /\ call[s].op = "PreGameForfeitByPlayerID" => call[s].seat \in Seats
  /\ call[s].at = "act" =>
       /\ Real(call[s].seat)
       /\ player[call[s].seat].lobby = call[s].lobby
       /\ SameOwner(lobby[call[s].lobby], call[s].snap)
       /\ \A r \in call[s].seats : Real(r)

SlotsSound == \A s \in Slots : SlotSound(s)

RowsReal == \A r \in rows : Real(r)

\* A lobby is owned by a registered user or by a guest.
Owned(l) == lobby[l].made /\ lobby[l].userId = Nil => lobby[l].guestId \in Guests

\* The owner by user_id of a lobby has a row in it, from when it is inserted,
\* and also after the end.
Placed(l) ==
  lobby[l].made /\ lobby[l].userId # Nil /\ ~Creating(l) =>
    \E r \in rows : player[r].lobby = l /\ player[r].userId = lobby[l].userId

Inv == /\ TypeOK
       /\ SlotsSound
       /\ RowsReal
       /\ \A l \in Lobbies : Owned(l) /\ Placed(l)

----------------------------------------------------------------------------
(* What no step changes *)

\* Owners of lobbies, and the lobby and users of a row of players, never change.
Immutable ==
  /\ \A l \in Lobbies : lobby[l].made => SameOwner(lobby[l], lobby[l]')
  /\ \A r \in Seats : Real(r) =>
       /\ player'[r].lobby = player[r].lobby
       /\ player'[r].userId = player[r].userId
       /\ player'[r].guestId = player[r].guestId

LEMMA InsertFrame ==
  ASSUME Inv, NEW row \in PlayerRows, Insert(row)
  PROVE  \A r \in Seats : Real(r) => player'[r] = player[r]
BY NilAssumption DEF Inv, TypeOK, Insert, Real, NoPlayer

LEMMA RealStays ==
  ASSUME Inv, Immutable, NEW r \in Seats, Real(r) PROVE Real(r)'
BY DEF Immutable, Real, SameOwner

\* The slots that make no step stay sound.
LEMMA OthersSound ==
  ASSUME Inv, Immutable, NEW s \in Slots, call'[s] = call[s] PROVE SlotSound(s)'
<1>1. SlotSound(s)
  BY DEF Inv, SlotsSound
<1>2. \A r : Real(r) => Real(r)' /\ player'[r].lobby = player[r].lobby
  BY RealStays DEF Real, Immutable
<1>3. \A l \in Lobbies : lobby[l].made => SameOwner(lobby[l], lobby[l]')
  BY DEF Immutable
<1> QED BY <1>1, <1>2, <1>3 DEF SlotSound, SameOwner, Real

\* A row found in the table is that of a lobby, and stays it.
LEMMA RealRows ==
  ASSUME Inv, NEW l, NEW r \in RowsOf(l)
  PROVE  Real(r) /\ player[r].lobby = l /\ l \in Lobbies /\ lobby[l].made
BY DEF Inv, RowsReal, RowsOf, Real

\* A lobby keeps its owner, and the owner's row, if no row is deleted and the
\* lobby is not made or given its first player by this step.
LEMMA LobbiesStay ==
  ASSUME Inv, Immutable, NEW s \in Slots, ~At(s, "CreateLobby", "seat"),
         \A t \in Slots : t # s => call'[t] = call[t],
         rows \subseteq rows', NEW l \in Lobbies, lobby'[l].made = lobby[l].made
  PROVE  Owned(l)' /\ Placed(l)'
<1>1. Owned(l) /\ Placed(l)
  BY DEF Inv
<1>2. Owned(l)'
  BY <1>1 DEF Owned, Immutable, SameOwner
<1>3. Placed(l)'
  <2> SUFFICES ASSUME lobby'[l].made, lobby'[l].userId # Nil, ~Creating(l)'
               PROVE  \E r \in rows' : player'[r].lobby = l /\ player'[r].userId = lobby'[l].userId
    BY DEF Placed
  <2>1. lobby[l].made /\ lobby[l].userId = lobby'[l].userId
    BY DEF Immutable, SameOwner
  <2>2. ~Creating(l)
    BY DEF Creating, At, LobbyOf
  <2>3. PICK r \in rows : player[r].lobby = l /\ player[r].userId = lobby[l].userId
    BY <1>1, <2>1, <2>2 DEF Placed
  <2>4. Real(r) /\ r \in Seats
    BY DEF Inv, RowsReal, Real
  <2> QED BY <2>1, <2>3, <2>4 DEF Immutable
<1> QED BY <1>2, <1>3

LEMMA RowsStayReal ==
  ASSUME Inv, Immutable, NEW r \in rows PROVE Real(r)'
BY RealStays DEF Inv, RowsReal, Real

\* The parts make the whole again.
LEMMA Assemble ==
  ASSUME Inv, Immutable, NEW s \in Slots, \A t \in Slots : t # s => call'[t] = call[t],
         TypeOK', SlotSound(s)', RowsReal', \A l \in Lobbies : Owned(l)' /\ Placed(l)'
  PROVE  Inv'
<1>1. SlotsSound'
  BY OthersSound DEF SlotsSound
<1> QED BY <1>1 DEF Inv

\* A step that only reads.
LEMMA ReadStep ==
  ASSUME Inv, NEW s \in Slots, UNCHANGED <<lobby, player, rows, recorded>>,
         call' \in [Slots -> Calls], \A t \in Slots : t # s => call'[t] = call[t],
         ~At(s, "CreateLobby", "seat"), SlotSound(s)'
  PROVE  Inv'
<1>1. Immutable
  BY DEF Immutable, SameOwner
<1>2. TypeOK'
  BY DEF Inv, TypeOK
<1>3. RowsReal'
  BY <1>1, RowsStayReal DEF RowsReal
<1>4. \A l \in Lobbies : Owned(l)' /\ Placed(l)'
  BY <1>1, LobbiesStay
<1> QED BY <1>1, <1>2, <1>3, <1>4, Assemble

\* A step after which the lobby is read no more.
LEMMA ReturnSound ==
  ASSUME Inv, NEW s \in Slots, Return(s)
  PROVE  /\ SlotSound(s)' /\ call' \in [Slots -> Calls]
         /\ \A t \in Slots : t # s => call'[t] = call[t]
BY ReturnTyped DEF Inv, TypeOK, Return, SlotSound, Idle

\* What going on to another statement changes.
LEMMA GotoCall ==
  ASSUME Inv, NEW s \in Slots, call[s].op # "none", NEW point \in Points, Goto(s, point)
  PROVE  /\ call' \in [Slots -> Calls]
         /\ \A t \in Slots : t # s => call'[t] = call[t]
         /\ call'[s].op = call[s].op /\ call'[s].at = point /\ call'[s].who = call[s].who
         /\ call'[s].lobby = call[s].lobby /\ call'[s].seat = call[s].seat
         /\ call'[s].snap = call[s].snap /\ call'[s].seats = call[s].seats
<1>1. TypeOK
  BY DEF Inv
<1>2. call' = [call EXCEPT ![s] = [call[s] EXCEPT !.at = point]]
  BY <1>1 DEF Goto, TypeOK
<1> QED BY <1>1, <1>2, CallsTyped, GotoTyped DEF TypeOK

----------------------------------------------------------------------------
(* The steps of the handlers *)

LEMMA CreateStep == ASSUME Inv, NEW s \in Slots, CreateLobby(s) PROVE Inv'
<1> USE DEF At, Points, LobbyOf, Who
<1>0. TypeOK /\ SlotSound(s) /\ call[s].op = "CreateLobby" /\ call[s].who \in Users
  BY DEF Inv, SlotsSound, SlotSound, CreateLobby
<1>1. CASE call[s].at = "find"
  <2>1. CASE Return(s)
    BY <1>0, <1>1, <2>1, ReturnSound, ReadStep DEF CreateLobby
  <2>2. CASE Goto(s, "create")
    <3>1. SlotSound(s)'
      BY <1>0, <2>2, GotoCall DEF SlotSound
    <3> QED BY <1>0, <1>1, <2>2, <3>1, GotoCall, ReadStep DEF CreateLobby
  <2> QED BY <1>1, <2>1, <2>2 DEF CreateLobby
<1>2. CASE call[s].at = "create"
  <2>1. PICK l \in Lobbies :
          /\ ~lobby[l].made
          /\ lobby' = [lobby EXCEPT ![l] = NewLobby(Who(s))]
          /\ call' = [call EXCEPT ![s].at = "seat", ![s].lobby = l]
    BY <1>2 DEF CreateLobby
  <2>2. UNCHANGED <<player, rows, recorded>>
    BY <1>2 DEF CreateLobby
  <2>3. /\ [call[s] EXCEPT !.at = "seat", !.lobby = l] \in Calls
        /\ call' = [call EXCEPT ![s] = [call[s] EXCEPT !.at = "seat", !.lobby = l]]
    BY <1>0, <2>1, CallsTyped DEF Calls, TypeOK
  <2>4. call' \in [Slots -> Calls] /\ \A t \in Slots : t # s => call'[t] = call[t]
    BY <1>0, <2>3 DEF TypeOK
  <2>5. call'[s].op = "CreateLobby" /\ call'[s].at = "seat" /\ call'[s].lobby = l
        /\ call'[s].who = call[s].who
    BY <1>0, <2>3, CallsTyped DEF TypeOK
  <2>6. /\ lobby' \in [Lobbies -> LobbyRows] /\ lobby'[l] = NewLobby(call[s].who)
        /\ \A k \in Lobbies : k # l => lobby'[k] = lobby[k]
    BY <1>0, <2>1, NewLobbyTyped DEF TypeOK
  <2>7. TypeOK'
    BY <1>0, <2>2, <2>4, <2>6 DEF TypeOK
  <2>8. Immutable
    BY <2>1, <2>2, <2>6 DEF Immutable, SameOwner
  <2>9. NewLobby(call[s].who).made
        /\ (NewLobby(call[s].who).userId = Nil => NewLobby(call[s].who).guestId \in Guests)
    BY <1>0, NilAssumption DEF NewLobby, NoLobby
  <2>10. SlotSound(s)'
    BY <1>0, <2>5, <2>6, <2>9 DEF SlotSound, SameOwner
  <2>11. RowsReal'
    BY <2>2, <2>8, RowsStayReal DEF RowsReal
  <2>12. \A k \in Lobbies : Owned(k)' /\ Placed(k)'
    <3>1. Owned(l)'
      BY <2>6, <2>9 DEF Owned
    <3>2. Placed(l)'
      BY <2>5 DEF Placed, Creating
    <3>3. ASSUME NEW k \in Lobbies, k # l PROVE Owned(k)' /\ Placed(k)'
      BY <1>2, <2>2, <2>4, <2>6, <2>8, <3>3, LobbiesStay
    <3> QED BY <3>1, <3>2, <3>3
  <2> QED BY <2>4, <2>7, <2>8, <2>10, <2>11, <2>12, Assemble
<1>3. CASE call[s].at = "seat"
  <2> DEFINE row == [lobby |-> call[s].lobby, userId |-> call[s].who, guestId |-> Nil, ready |-> FALSE]
  <2>1. Insert(row) /\ Goto(s, "turn") /\ UNCHANGED <<lobby, recorded>>
    BY <1>3 DEF CreateLobby
  <2>2. /\ call[s].lobby \in Lobbies
        /\ SameOwner(lobby[call[s].lobby], NewLobby(call[s].who))
    BY <1>0, <1>3 DEF SlotSound
  <2>3. row \in PlayerRows
    BY <1>0, <2>2 DEF PlayerRows
  <2>4. PICK r \in Seats : player' = [player EXCEPT ![r] = row] /\ rows' = rows \cup {r}
    BY <2>1 DEF Insert
  <2>5. player' \in [Seats -> PlayerRows] /\ rows' \in SUBSET Seats /\ player'[r] = row
    BY <1>0, <2>1, <2>3, <2>4, InsertTyped DEF TypeOK
  <2>6. TypeOK'
    BY <1>0, <2>1, <2>5, GotoCall DEF TypeOK
  <2>7. Immutable
    BY <2>1, <2>3, InsertFrame DEF Immutable, SameOwner
  <2>8. SlotSound(s)'
    BY <1>0, <2>1, <2>2, GotoCall DEF SlotSound, SameOwner
  <2>9. Real(r)'
    BY <2>1, <2>2, <2>5 DEF Real, SameOwner
  <2>10. RowsReal'
    BY <2>4, <2>7, <2>9, RowsStayReal DEF RowsReal
  <2>11. \A k \in Lobbies : Owned(k)' /\ Placed(k)'
    <3> SUFFICES ASSUME NEW k \in Lobbies PROVE Owned(k)' /\ Placed(k)'
      OBVIOUS
    <3>1. Owned(k) /\ Placed(k)
      BY DEF Inv
    <3>2. CASE k = call[s].lobby
      <4>1. lobby[k].userId # Nil => lobby[k].userId = call[s].who
        BY <2>2, <3>2 DEF SameOwner, NewLobby, NoLobby
      <4>2. Placed(k)'
        BY <2>1, <2>4, <2>5, <3>2, <4>1 DEF Placed
      <4> QED BY <2>1, <3>1, <4>2 DEF Owned
    <3>3. CASE k # call[s].lobby
      <4>1. Creating(k) => Creating(k)'
        BY <2>1, <1>0, <3>3, GotoCall DEF Creating
      <4>2. Placed(k)'
        <5> SUFFICES ASSUME lobby[k].made, lobby[k].userId # Nil, ~Creating(k)
                     PROVE  \E q \in rows' : player'[q].lobby = k /\ player'[q].userId = lobby[k].userId
          BY <2>1, <4>1 DEF Placed
        <5>1. PICK q \in rows : player[q].lobby = k /\ player[q].userId = lobby[k].userId
          BY <3>1 DEF Placed
        <5>2. Real(q) /\ q \in Seats
          BY DEF Inv, RowsReal, Real
        <5> QED BY <2>4, <2>7, <5>1, <5>2 DEF Immutable
      <4> QED BY <2>1, <3>1, <4>2 DEF Owned
    <3> QED BY <3>2, <3>3
  <2> QED BY <1>0, <2>1, <2>6, <2>7, <2>8, <2>10, <2>11, GotoCall, Assemble
<1>4. CASE call[s].at = "turn"
  <2>1. /\ lobby' = [lobby EXCEPT ![call[s].lobby] = NewLobby(call[s].who)]
        /\ Return(s) /\ UNCHANGED <<player, rows, recorded>>
    BY <1>4 DEF CreateLobby
  <2>2. /\ call[s].lobby \in Lobbies
        /\ SameOwner(lobby[call[s].lobby], NewLobby(call[s].who))
    BY <1>0, <1>4 DEF SlotSound
  <2>3. TypeOK'
    BY <1>0, <2>1, <2>2, NewLobbyTyped, ReturnSound DEF TypeOK
  <2>4. Immutable
    BY <1>0, <2>1, <2>2 DEF Immutable, SameOwner, TypeOK
  <2>5. RowsReal'
    BY <2>1, <2>4, RowsStayReal DEF RowsReal
  <2>6. \A k \in Lobbies : lobby'[k].made = lobby[k].made
    BY <1>0, <2>1, <2>2 DEF TypeOK, SameOwner
  <2>7. \A k \in Lobbies : Owned(k)' /\ Placed(k)'
    BY <1>4, <2>1, <2>4, <2>6, ReturnSound, LobbiesStay
  <2> QED BY <2>1, <2>3, <2>4, <2>5, <2>7, ReturnSound, Assemble
<1> QED BY <1>1, <1>2, <1>3, <1>4 DEF CreateLobby

LEMMA JoinStep == ASSUME Inv, NEW s \in Slots, JoinLobby(s) PROVE Inv'
<1> USE DEF At, Points, LobbyOf, Who
<1>0. /\ TypeOK /\ SlotSound(s) /\ call[s].op = "JoinLobby" /\ call[s].who \in Users \cup {Nil}
      /\ call[s].lobby \in Lobbies /\ lobby[call[s].lobby].made
  BY CallsTyped DEF Inv, SlotsSound, SlotSound, JoinLobby
<1>1. CASE call[s].at \in {"find", "load"}
  <2>1. CASE Return(s)
    BY <1>0, <1>1, <2>1, ReturnSound, ReadStep DEF JoinLobby
  <2>2. ASSUME NEW point \in {"load", "seat"}, Goto(s, point) PROVE Inv'
    <3>1. UNCHANGED <<lobby, player, rows, recorded>>
      BY <1>1 DEF JoinLobby
    <3>2. SlotSound(s)'
      BY <1>0, <2>2, <3>1, GotoCall DEF SlotSound
    <3> QED BY <1>0, <2>2, <3>1, <3>2, GotoCall, ReadStep
  <2> QED BY <1>1, <2>1, <2>2 DEF JoinLobby
<1>2. CASE call[s].at = "seat"
  <2> DEFINE row == [lobby |-> LobbyOf(s), userId |-> IF Who(s) \in Guests THEN Nil ELSE Who(s),
                     guestId |-> IF Who(s) \in Guests THEN Who(s) ELSE Nil, ready |-> FALSE]
  <2>1. Insert(row) /\ Return(s) /\ UNCHANGED <<lobby, recorded>>
    BY <1>2 DEF JoinLobby
  <2>2. row \in PlayerRows /\ row.lobby = call[s].lobby
    BY <1>0 DEF PlayerRows
  <2>3. PICK r \in Seats : player' = [player EXCEPT ![r] = row] /\ rows' = rows \cup {r}
    BY <2>1 DEF Insert
  <2> HIDE DEF row
  <2>4. player' \in [Seats -> PlayerRows] /\ rows' \in SUBSET Seats /\ player'[r] = row
    BY <1>0, <2>1, <2>2, <2>3, InsertTyped DEF TypeOK
  <2>5. TypeOK'
    BY <1>0, <2>1, <2>4, ReturnSound DEF TypeOK
  <2>6. Immutable
    BY <2>1, <2>2, InsertFrame DEF Immutable, SameOwner
  <2>7. Real(r)'
    BY <1>0, <2>1, <2>2, <2>4 DEF Real
  <2>8. RowsReal'
    BY <2>3, <2>6, <2>7, RowsStayReal DEF RowsReal
  <2>9. \A k \in Lobbies : Owned(k)' /\ Placed(k)'
    BY <1>0, <2>1, <2>3, <2>6, ReturnSound, LobbiesStay
  <2> QED BY <2>1, <2>5, <2>6, <2>8, <2>9, ReturnSound, Assemble
<1> QED BY <1>1, <1>2 DEF JoinLobby

LEMMA ReadyStep == ASSUME Inv, NEW s \in Slots, SetPlayerReady(s) PROVE Inv'
<1> USE DEF At, Points, LobbyOf, Who
<1>0. /\ TypeOK /\ SlotSound(s) /\ call[s].op = "SetPlayerReady"
      /\ call[s].lobby \in Lobbies /\ lobby[call[s].lobby].made
  BY DEF Inv, SlotsSound, SlotSound, SetPlayerReady
<1>1. CASE call[s].at = "find"
  <2>0. UNCHANGED <<lobby, player, rows, recorded>>
    BY <1>1 DEF SetPlayerReady
  <2>1. CASE Return(s)
    BY <1>0, <1>1, <2>0, <2>1, ReturnSound, ReadStep
  <2>2. ASSUME NEW r \in RowsOf(LobbyOf(s)),
               call' = [call EXCEPT ![s].at = "save", ![s].seat = r]
        PROVE  Inv'
    <3>1. Real(r) /\ r \in Seats
      BY RealRows DEF Real
    <3>2. [call[s] EXCEPT !.at = "save", !.seat = r] \in Calls
      BY <1>0, <3>1, CallsTyped DEF Calls
    <3>3. call' = [call EXCEPT ![s] = [call[s] EXCEPT !.at = "save", !.seat = r]]
      BY <1>0, <2>2 DEF TypeOK
    <3>4. call' \in [Slots -> Calls] /\ \A t \in Slots : t # s => call'[t] = call[t]
      BY <1>0, <3>2, <3>3 DEF TypeOK
    <3>5. call'[s].op = "SetPlayerReady" /\ call'[s].at = "save" /\ call'[s].seat = r
          /\ call'[s].lobby = call[s].lobby
      BY <1>0, <3>3, CallsTyped DEF TypeOK
    <3>6. SlotSound(s)'
      BY <1>0, <2>0, <3>1, <3>5 DEF SlotSound, Real
    <3> QED BY <1>0, <2>0, <3>4, <3>6, ReadStep
  <2> QED BY <1>1, <2>1, <2>2 DEF SetPlayerReady
<1>2. CASE call[s].at = "save"
  <2>1. /\ player' = [player EXCEPT ![call[s].seat].ready = TRUE]
        /\ rows' = rows \cup {call[s].seat}
        /\ Goto(s, "count") /\ UNCHANGED <<lobby, recorded>>
    BY <1>2 DEF SetPlayerReady
  <2>2. Real(call[s].seat) /\ call[s].seat \in Seats
    BY <1>0, <1>2 DEF SlotSound, Real
  <2>3. player' \in [Seats -> PlayerRows]
        /\ \A r \in Seats : /\ player'[r].lobby = player[r].lobby
                            /\ player'[r].userId = player[r].userId
                            /\ player'[r].guestId = player[r].guestId
    BY <1>0, <2>1, <2>2 DEF TypeOK, PlayerRows
  <2>4. TypeOK'
    BY <1>0, <2>1, <2>2, <2>3, GotoCall DEF TypeOK
  <2>5. Immutable
    BY <2>1, <2>3 DEF Immutable, SameOwner
  <2>6. SlotSound(s)'
    BY <1>0, <2>1, GotoCall DEF SlotSound
  <2>7. RowsReal'
    BY <2>1, <2>2, <2>5, RowsStayReal, RealStays DEF RowsReal
  <2>8. \A k \in Lobbies : Owned(k)' /\ Placed(k)'
    BY <1>0, <2>1, <2>5, GotoCall, LobbiesStay
  <2> QED BY <1>0, <2>1, <2>4, <2>5, <2>6, <2>7, <2>8, GotoCall, Assemble
<1>3. CASE call[s].at = "count"
  <2>1. CASE Return(s)
    BY <1>0, <1>3, <2>1, ReturnSound, ReadStep DEF SetPlayerReady
  <2>2. CASE Goto(s, "start")
    <3>1. UNCHANGED <<lobby, player, rows, recorded>>
      BY <1>3 DEF SetPlayerReady
    <3>2. SlotSound(s)'
      BY <1>0, <2>2, <3>1, GotoCall DEF SlotSound
    <3> QED BY <1>0, <2>2, <3>1, <3>2, GotoCall, ReadStep
  <2> QED BY <1>3, <2>1, <2>2 DEF SetPlayerReady
<1>4. CASE call[s].at = "start"
  <2>1. /\ lobby' = [lobby EXCEPT ![call[s].lobby].started = TRUE]
        /\ Return(s) /\ UNCHANGED <<player, rows, recorded>>
    BY <1>4 DEF SetPlayerReady
  <2>2. /\ lobby' \in [Lobbies -> LobbyRows]
        /\ \A l \in Lobbies : /\ lobby'[l].made = lobby[l].made
                              /\ lobby'[l].userId = lobby[l].userId
                              /\ lobby'[l].guestId = lobby[l].guestId
    BY <1>0, <2>1 DEF TypeOK, LobbyRows
  <2>3. TypeOK'
    BY <1>0, <2>1, <2>2, ReturnSound DEF TypeOK
  <2>4. Immutable
    BY <2>1, <2>2 DEF Immutable, SameOwner
  <2>5. RowsReal'
    BY <2>1, <2>4, RowsStayReal DEF RowsReal
  <2>6. \A k \in Lobbies : Owned(k)' /\ Placed(k)'
    BY <1>0, <2>1, <2>2, <2>4, ReturnSound, LobbiesStay
  <2> QED BY <2>1, <2>3, <2>4, <2>5, <2>6, ReturnSound, Assemble
<1> QED BY <1>1, <1>2, <1>3, <1>4 DEF SetPlayerReady

\* Saving a lobby, with whatever of its columns changed but its owner.
LEMMA SaveStep ==
  ASSUME Inv, NEW s \in Slots, call[s].at = "act", call[s].op # "none", call[s].op # "CreateLobby",
         NEW row \in LobbyRows, SameOwner(call[s].snap, row), call[s].lobby \in Lobbies,
         Save(s, row), Return(s), UNCHANGED player, recorded' \in SUBSET Users
  PROVE  Inv'
<1> USE DEF LobbyOf
<1>1. TypeOK /\ SlotSound(s)
  BY DEF Inv, SlotsSound
<1>2. lobby' = [lobby EXCEPT ![call[s].lobby] = row] /\ rows' = rows \cup call[s].seats
  BY DEF Save
<1>3. SameOwner(lobby[call[s].lobby], row) /\ \A r \in call[s].seats : Real(r)
  BY <1>1 DEF SlotSound, SameOwner
<1>4. TypeOK'
  BY <1>1, <1>2, ReturnSound, CallsTyped DEF TypeOK
<1>5. Immutable
  BY <1>1, <1>2, <1>3 DEF Immutable, SameOwner, TypeOK
<1>6. RowsReal'
  BY <1>2, <1>3, <1>5, RowsStayReal, RealStays DEF RowsReal, Real
<1>7. \A k \in Lobbies : lobby'[k].made = lobby[k].made
  BY <1>1, <1>2, <1>3 DEF TypeOK, SameOwner
<1>8. \A k \in Lobbies : Owned(k)' /\ Placed(k)'
  BY <1>2, <1>5, <1>7, ReturnSound, LobbiesStay DEF At
<1> QED BY <1>4, <1>5, <1>6, <1>8, ReturnSound, Assemble

\* Leaving before the start: the row that is deleted is not that of a lobby's
\* owner by user_id, because IsCreator is true of that one.
LEMMA LeaveStep ==
  ASSUME Inv, NEW s \in Slots, call[s].at = "act", call[s].op # "none", call[s].op # "CreateLobby",
         LeaveBeforeStart(s)
  PROVE  Inv'
<1> USE DEF LobbyOf
<1>1. TypeOK /\ SlotSound(s)
  BY DEF Inv, SlotsSound
<1>2. /\ Real(call[s].seat) /\ call[s].seat \in Seats
      /\ player[call[s].seat].lobby = call[s].lobby /\ call[s].lobby \in Lobbies
      /\ SameOwner(lobby[call[s].lobby], call[s].snap)
  BY <1>1 DEF SlotSound, Real
<1>3. Return(s) /\ UNCHANGED <<player, recorded>>
  BY DEF LeaveBeforeStart
<1>4. CASE Save(s, [call[s].snap EXCEPT !.over = TRUE])
  <2> DEFINE row == [call[s].snap EXCEPT !.over = TRUE]
  <2>1. row \in LobbyRows /\ SameOwner(call[s].snap, row)
    BY <1>1, <1>2, CallsTyped DEF LobbyRows, SameOwner
  <2>2. recorded' \in SUBSET Users
    BY <1>1, <1>3 DEF TypeOK
  <2> HIDE DEF row
  <2>3. Save(s, row)
    BY <1>4 DEF row
  <2> QED BY <1>2, <1>3, <2>1, <2>2, <2>3, SaveStep
<1>5. CASE /\ ~IsCreator(call[s].seat, call[s].snap)
           /\ rows' = rows \ {call[s].seat}
           /\ UNCHANGED lobby
  <2>1. TypeOK'
    BY <1>1, <1>3, <1>5, ReturnSound DEF TypeOK
  <2>2. Immutable
    BY <1>3, <1>5 DEF Immutable, SameOwner
  <2>3. RowsReal'
    BY <1>5, <2>2, RowsStayReal DEF RowsReal
  <2>4. ASSUME NEW k \in Lobbies PROVE Owned(k)' /\ Placed(k)'
    <3>1. Owned(k) /\ Placed(k)
      BY DEF Inv
    <3>2. Placed(k)'
      <4> SUFFICES ASSUME lobby[k].made, lobby[k].userId # Nil, ~Creating(k)'
                   PROVE  \E q \in rows' : player[q].lobby = k /\ player[q].userId = lobby[k].userId
        BY <1>3, <1>5 DEF Placed
      <4>1. ~Creating(k)
        BY <1>3, ReturnSound DEF Creating, At
      <4>2. PICK q \in rows : player[q].lobby = k /\ player[q].userId = lobby[k].userId
        BY <3>1, <4>1 DEF Placed
      <4>3. q # call[s].seat
        BY <1>2, <1>5, <4>2 DEF IsCreator, SameOwner
      <4> QED BY <1>5, <4>2, <4>3
    <3> QED BY <1>5, <3>1, <3>2 DEF Owned
  <2> QED BY <1>3, <2>1, <2>2, <2>3, <2>4, ReturnSound, Assemble
<1> QED BY <1>4, <1>5 DEF LeaveBeforeStart

\* Reading the lobby with its players before leaving it.
LEMMA LoadStep ==
  ASSUME Inv, NEW s \in Slots, call[s].op \in {"ForfeitLobby", "PreGameForfeitByPlayerID"},
         NEW r \in RowsOf(LobbyOf(s)), Load(s, "act", r),
         UNCHANGED <<lobby, player, rows, recorded>>
  PROVE  Inv'
<1> USE DEF LobbyOf
<1>1. TypeOK /\ SlotSound(s) /\ call[s].lobby \in Lobbies /\ lobby[call[s].lobby].made
  BY DEF Inv, SlotsSound, SlotSound
<1>2. Real(r) /\ r \in Seats /\ player[r].lobby = call[s].lobby
  BY RealRows DEF Real
<1>3. call' \in [Slots -> Calls]
  BY <1>1, <1>2, LoadTyped DEF Points
<1>4. \A t \in Slots : t # s => call'[t] = call[t]
  BY <1>1 DEF Load, TypeOK
<1>5. /\ call'[s].op = call[s].op /\ call'[s].at = "act" /\ call'[s].lobby = call[s].lobby
      /\ call'[s].seat = r /\ call'[s].snap = lobby[call[s].lobby]
      /\ call'[s].seats = RowsOf(call[s].lobby)
  <2>1. call' = [call EXCEPT ![s] = [call[s] EXCEPT !.at = "act", !.seat = r,
                   !.snap = lobby[LobbyOf(s)], !.seats = RowsOf(LobbyOf(s))]]
    BY <1>1 DEF Load, TypeOK
  <2> QED BY <1>1, <2>1, CallsTyped DEF TypeOK
<1>6. SlotSound(s)'
  BY <1>1, <1>2, <1>5, RealRows DEF SlotSound, SameOwner, Real
<1> QED BY <1>3, <1>4, <1>6, ReadStep DEF At

LEMMA ForfeitStep == ASSUME Inv, NEW s \in Slots, ForfeitLobby(s) PROVE Inv'
<1> USE DEF At
<1>0. TypeOK /\ SlotSound(s) /\ call[s].op = "ForfeitLobby" /\ call[s].lobby \in Lobbies
  BY DEF Inv, SlotsSound, SlotSound, ForfeitLobby
<1>1. CASE call[s].at = "load"
  <2>1. UNCHANGED <<lobby, player, rows, recorded>>
    BY <1>1 DEF ForfeitLobby
  <2>2. CASE Return(s)
    BY <1>0, <2>1, <2>2, ReturnSound, ReadStep
  <2>3. ASSUME NEW r \in RowsOf(LobbyOf(s)), Load(s, "act", r) PROVE Inv'
    BY <1>0, <2>1, <2>3, LoadStep
  <2> QED BY <1>1, <2>2, <2>3 DEF ForfeitLobby
<1>2. CASE call[s].at = "act" /\ LeaveBeforeStart(s)
  BY <1>0, <1>2, LeaveStep
<1>3. CASE call[s].at = "act" /\ call[s].snap.started /\ ~LeaveBeforeStart(s)
  <2> DEFINE row == [call[s].snap EXCEPT !.over = TRUE]
  <2>1. SameOwner(lobby[call[s].lobby], call[s].snap)
    BY <1>0, <1>3 DEF SlotSound
  <2>2. row \in LobbyRows /\ SameOwner(call[s].snap, row)
    BY <1>0, <2>1, CallsTyped DEF LobbyRows, SameOwner
  <2>3. /\ Save(s, row) /\ Return(s) /\ UNCHANGED player
        /\ recorded' = recorded \cup Records(call[s].seats)
    BY <1>3 DEF ForfeitLobby
  <2>4. recorded' \in SUBSET Users
    BY <1>0, <2>3, CallsTyped DEF Records, TypeOK, PlayerRows
  <2> HIDE DEF row
  <2> QED BY <1>0, <1>3, <2>2, <2>3, <2>4, SaveStep
<1> QED BY <1>1, <1>2, <1>3 DEF ForfeitLobby

LEMMA ExpiryStep == ASSUME Inv, NEW s \in Slots, PreGameForfeitByPlayerID(s) PROVE Inv'
<1> USE DEF At
<1>0. call[s].op = "PreGameForfeitByPlayerID"
  BY DEF PreGameForfeitByPlayerID
<1>1. CASE call[s].at = "load"
  <2>1. UNCHANGED <<lobby, player, rows, recorded>>
    BY <1>1 DEF PreGameForfeitByPlayerID
  <2>2. CASE Return(s)
    BY <1>0, <2>1, <2>2, ReturnSound, ReadStep
  <2>3. CASE call[s].seat \in RowsOf(LobbyOf(s)) /\ Load(s, "act", call[s].seat)
    BY <1>0, <2>1, <2>3, LoadStep
  <2> QED BY <1>1, <2>2, <2>3 DEF PreGameForfeitByPlayerID
<1>2. CASE call[s].at = "act" /\ LeaveBeforeStart(s)
  BY <1>0, <1>2, LeaveStep
<1> QED BY <1>1, <1>2 DEF PreGameForfeitByPlayerID

----------------------------------------------------------------------------
(* Calls that begin, and games that end *)

LEMMA BeginStep ==
  ASSUME Inv, NEW s \in Slots, NEW c \in Calls, Begin(s, c),
         c.at \notin {"seat", "turn", "act", "save"},
         c.op = "CreateLobby" => c.who \in Users,
         c.op \in {"JoinLobby", "SetPlayerReady", "ForfeitLobby", "PreGameForfeitByPlayerID"} =>
           c.lobby \in Lobbies /\ lobby[c.lobby].made,
         c.op = "PreGameForfeitByPlayerID" => c.seat \in Seats
  PROVE  Inv'
<1>1. TypeOK /\ call[s] = Idle /\ call' = [call EXCEPT ![s] = c]
      /\ UNCHANGED <<lobby, player, rows, recorded>>
  BY DEF Inv, Begin
<1>2. call'[s] = c /\ call' \in [Slots -> Calls] /\ \A t \in Slots : t # s => call'[t] = call[t]
  BY <1>1 DEF TypeOK
<1>3. SlotSound(s)'
  BY <1>1, <1>2 DEF SlotSound
<1>4. ~At(s, "CreateLobby", "seat")
  BY <1>1 DEF At, Idle
<1> QED BY <1>1, <1>2, <1>3, <1>4, ReadStep

LEMMA FinishStep == ASSUME Inv, NEW l \in Lobbies, Finish(l) PROVE Inv'
<1>1. TypeOK /\ SlotsSound
  BY DEF Inv
<1>2. /\ lobby' = [lobby EXCEPT ![l].over = TRUE] /\ UNCHANGED <<player, rows, call>>
      /\ recorded' = recorded \cup Records(RowsOf(l))
  BY DEF Finish
<1>3. /\ lobby' \in [Lobbies -> LobbyRows]
      /\ \A k \in Lobbies : /\ lobby'[k].made = lobby[k].made
                            /\ lobby'[k].userId = lobby[k].userId
                            /\ lobby'[k].guestId = lobby[k].guestId
  BY <1>1, <1>2 DEF TypeOK, LobbyRows
<1>4. TypeOK'
  BY <1>1, <1>2, <1>3 DEF TypeOK, Records, RowsOf, PlayerRows
<1>5. Immutable
  BY <1>2, <1>3 DEF Immutable, SameOwner
<1>6. SlotsSound'
  BY <1>2, <1>5, OthersSound DEF SlotsSound
<1>7. RowsReal'
  BY <1>2, <1>5, RowsStayReal DEF RowsReal
<1>8. \A k \in Lobbies : Owned(k)' /\ Placed(k)'
  BY <1>2, <1>3 DEF Inv, Owned, Placed, Creating, At, LobbyOf
<1> QED BY <1>4, <1>6, <1>7, <1>8 DEF Inv

LEMMA CalledTyped ==
  ASSUME NEW op \in Ops, NEW at \in Points, NEW u \in Users \cup {Nil},
         NEW l \in Lobbies \cup {Nil}, NEW r \in Seats \cup {Nil}
  PROVE  /\ Called(op, at, u, l, r) \in Calls
         /\ Called(op, at, u, l, r).op = op /\ Called(op, at, u, l, r).at = at
         /\ Called(op, at, u, l, r).who = u /\ Called(op, at, u, l, r).lobby = l
         /\ Called(op, at, u, l, r).seat = r
<1>1. NoLobby \in LobbyRows
  BY DEF NoLobby, LobbyRows
<1> QED BY <1>1 DEF Called, Calls, Idle

LEMMA InvNext == Inv /\ [Next]_seatVars => Inv'
<1> SUFFICES ASSUME Inv, [Next]_seatVars PROVE Inv'
  OBVIOUS
<1> USE DEF Ops, Points
<1>1. ASSUME NEW s \in Slots, NEW u \in Users, BeginCreate(s, u) PROVE Inv'
  <2> DEFINE c == Called("CreateLobby", "find", u, Nil, Nil)
  <2>1. c \in Calls /\ c.op = "CreateLobby" /\ c.at = "find" /\ c.who = u
    BY CalledTyped
  <2>2. Begin(s, c)
    BY <1>1 DEF BeginCreate
  <2> HIDE DEF c
  <2> QED BY <2>1, <2>2, BeginStep
<1>2. ASSUME NEW s \in Slots, NEW u \in Users, NEW l \in Lobbies, BeginJoin(s, u, l) PROVE Inv'
  <2> DEFINE c == Called("JoinLobby", "find", u, l, Nil)
  <2>1. c \in Calls /\ c.op = "JoinLobby" /\ c.at = "find" /\ c.lobby = l
    BY CalledTyped
  <2>2. Begin(s, c) /\ lobby[l].made
    BY <1>2 DEF BeginJoin
  <2> HIDE DEF c
  <2> QED BY <2>1, <2>2, BeginStep
<1>3. ASSUME NEW s \in Slots, NEW u \in Users, NEW l \in Lobbies, BeginReady(s, u, l) PROVE Inv'
  <2> DEFINE c == Called("SetPlayerReady", "find", u, l, Nil)
  <2>1. c \in Calls /\ c.op = "SetPlayerReady" /\ c.at = "find" /\ c.lobby = l
    BY CalledTyped
  <2>2. Begin(s, c) /\ \E r \in RowsOf(l) : IsOf(r, u)
    BY <1>3 DEF BeginReady
  <2>3. lobby[l].made
    BY <2>2, RealRows
  <2> HIDE DEF c
  <2> QED BY <2>1, <2>2, <2>3, BeginStep
<1>4. ASSUME NEW s \in Slots, NEW u \in Users, NEW l \in Lobbies, BeginForfeit(s, u, l) PROVE Inv'
  <2> DEFINE c == Called("ForfeitLobby", "load", u, l, Nil)
  <2>1. c \in Calls /\ c.op = "ForfeitLobby" /\ c.at = "load" /\ c.lobby = l
    BY CalledTyped
  <2>2. Begin(s, c) /\ lobby[l].made
    BY <1>4 DEF BeginForfeit
  <2> HIDE DEF c
  <2> QED BY <2>1, <2>2, BeginStep
<1>5. ASSUME NEW s \in Slots, NEW r \in Seats, BeginExpiry(s, r) PROVE Inv'
  <2> DEFINE c == Called("PreGameForfeitByPlayerID", "load", Nil, player[r].lobby, r)
  <2>1. Real(r)
    BY <1>5 DEF BeginExpiry, Inv, RowsReal
  <2>2. c \in Calls /\ c.op = "PreGameForfeitByPlayerID" /\ c.at = "load"
        /\ c.lobby = player[r].lobby /\ c.seat = r
    BY <2>1, CalledTyped DEF Real
  <2>3. Begin(s, c)
    BY <1>5 DEF BeginExpiry
  <2> HIDE DEF c
  <2> QED BY <2>1, <2>2, <2>3, BeginStep DEF Real
<1>6. ASSUME NEW s \in Slots, Proceed(s) PROVE Inv'
  BY <1>6, CreateStep, JoinStep, ReadyStep, ForfeitStep, ExpiryStep DEF Proceed
<1>7. ASSUME NEW l \in Lobbies, Finish(l) PROVE Inv'
  BY <1>7, FinishStep
<1>8. CASE UNCHANGED seatVars
  BY <1>8 DEF seatVars, Inv, TypeOK, SlotsSound, SlotSound, RowsReal, Real, Owned, Placed,
              Creating, At, LobbyOf
<1> QED
  BY <1>1, <1>2, <1>3, <1>4, <1>5, <1>6, <1>7, <1>8 DEF Next

LEMMA InvInvariant == Spec => []Inv
<1>1. Init => Inv
  <2> SUFFICES ASSUME Init PROVE Inv
    OBVIOUS
  <2>1. TypeOK
    BY DEF Init, TypeOK, LobbyRows, NoLobby, PlayerRows, NoPlayer, Calls
  <2>2. SlotsSound
    BY DEF Init, SlotsSound, SlotSound, Idle
  <2>3. RowsReal /\ \A l \in Lobbies : Owned(l) /\ Placed(l)
    BY DEF Init, RowsReal, Owned, Placed, NoLobby
  <2> QED BY <2>1, <2>2, <2>3 DEF Inv
<1> QED BY <1>1, InvNext, PTL DEF Spec

\* Every reachable state is well typed.
THEOREM TypeCorrect == Spec => []TypeOK
<1>1. Inv => TypeOK
  BY DEF Inv
<1> QED BY <1>1, InvInvariant, PTL

\* Whatever joins, leaves, time-outs and saves do to each other, a lobby that a
\* registered user made does not stay open without that user in it.  The
\* invariant needs what the handlers remember: the owner they compare with is
\* the owner still, and the seat they delete is in the lobby they read.
THEOREM HostSeatedHolds == Spec => []HostSeated
<1>1. Inv => HostSeated
  BY DEF Inv, HostSeated, Owned, Placed, Live, Host, HasHost, RowsOf
<1> QED BY <1>1, InvInvariant, PTL

(***************************************************************************)
(* What holds as long as no two handlers run at once.                      *)
(***************************************************************************)

\* The open games of a user.
Games(u) == {l \in Lobbies : Live(l) /\ \E r \in RowsOf(l) : IsOf(r, u)}

\* One handler runs at a time.
Alone == \A s, t \in Slots : call[s] # Idle /\ call[t] # Idle => s = t

\* What the handler that runs has looked up is still so, since nobody else has written:
\* there is a seat left, the user is in no other game, the rows it has read are there.
Entering(s) ==
  \/ call[s].op = "CreateLobby" /\ call[s].at \in {"create", "seat"}
  \/ call[s].op = "JoinLobby" /\ call[s].at \in {"load", "seat"}

Fresh(s) ==
  /\ At(s, "JoinLobby", "seat") => Cardinality(RowsOf(LobbyOf(s))) <= 1
  /\ At(s, "CreateLobby", "seat") => RowsOf(LobbyOf(s)) = {}
  /\ call[s].op = "CreateLobby" /\ call[s].at \in {"seat", "turn"} => ~lobby[LobbyOf(s)].over
  /\ Entering(s) /\ Who(s) \notin Guests => Games(Who(s)) = {}
  /\ At(s, "SetPlayerReady", "save") => call[s].seat \in rows
  /\ call[s].at = "act" => call[s].seats \subseteq rows
  /\ call[s].op \in {"CreateLobby", "JoinLobby"} => Who(s) \in Users

\* Guests' identifiers alone are entered as such.
GuestIds == \A r \in rows : player[r].guestId \in Guests \cup {Nil}

Two == \A l \in Lobbies : IsFiniteSet(RowsOf(l)) /\ Cardinality(RowsOf(l)) <= 2
One == \A u \in Users \ Guests : \A l, k \in Games(u) : l = k

SerialInv == Alone /\ Two /\ One /\ GuestIds /\ \A s \in Slots : Fresh(s)

----------------------------------------------------------------------------
\* A step of the one handler: the others stay idle.
LEMMA OthersIdle ==
  ASSUME Alone, NEW s \in Slots, call[s] # Idle, \A t \in Slots : t # s => call'[t] = call[t]
  PROVE  /\ Alone'
         /\ \A t \in Slots : t # s => call'[t] = Idle
BY DEF Alone

LEMMA IdleFresh == ASSUME NEW s \in Slots, call'[s] = Idle PROVE Fresh(s)'
BY DEF Fresh, Entering, Idle, At, Who, LobbyOf

\* What is asked of a handler, as what is asked of where it has got to.
LEMMA FreshNow ==
  ASSUME NEW s \in Slots, NEW c, call'[s] = c,
         c.op = "JoinLobby" /\ c.at = "seat" => Cardinality(RowsOf(c.lobby)') <= 1,
         c.op = "CreateLobby" /\ c.at = "seat" => RowsOf(c.lobby)' = {},
         c.op = "CreateLobby" /\ c.at \in {"seat", "turn"} => ~lobby'[c.lobby].over,
         \/ c.op = "CreateLobby" /\ c.at \in {"create", "seat"}
         \/ c.op = "JoinLobby" /\ c.at \in {"load", "seat"}
         => (c.who \notin Guests => Games(c.who)' = {}),
         c.op = "SetPlayerReady" /\ c.at = "save" => c.seat \in rows',
         c.at = "act" => c.seats \subseteq rows',
         c.op \in {"CreateLobby", "JoinLobby"} => c.who \in Users
  PROVE  Fresh(s)'
<1>1. Cardinality(RowsOf(LobbyOf(s)))' = Cardinality(RowsOf(c.lobby)')
  BY DEF RowsOf, LobbyOf
<1>2. RowsOf(LobbyOf(s))' = RowsOf(c.lobby)'
  BY DEF RowsOf, LobbyOf
<1>3. Games(Who(s))' = Games(c.who)'
  BY DEF Games, Live, RowsOf, IsOf, Who
<1> QED BY <1>1, <1>2, <1>3 DEF Fresh, Entering, At, Who, LobbyOf

LEMMA SameRows ==
  ASSUME UNCHANGED <<lobby, player, rows>>, NEW l PROVE RowsOf(l)' = RowsOf(l)
BY DEF RowsOf

LEMMA SameGames ==
  ASSUME UNCHANGED <<lobby, player, rows>>, NEW u PROVE Games(u)' = Games(u)
BY DEF Games, Live, RowsOf, IsOf

\* No lobby gets another player, and no user another game.
Fewer ==
  /\ \A l \in Lobbies : RowsOf(l)' \subseteq RowsOf(l)
  /\ \A u \in Users \ Guests : Games(u)' \subseteq Games(u)
  /\ GuestIds'

LEMMA FewerKeeps == ASSUME Two, One, Fewer PROVE Two' /\ One'
<1>1. ASSUME NEW l \in Lobbies PROVE IsFiniteSet(RowsOf(l)') /\ Cardinality(RowsOf(l)') <= 2
  <2>1. IsFiniteSet(RowsOf(l)) /\ Cardinality(RowsOf(l)) <= 2 /\ RowsOf(l)' \subseteq RowsOf(l)
    BY DEF Two, Fewer
  <2>2. /\ IsFiniteSet(RowsOf(l)') /\ Cardinality(RowsOf(l)') <= Cardinality(RowsOf(l))
        /\ Cardinality(RowsOf(l)) \in Nat /\ Cardinality(RowsOf(l)') \in Nat
    BY <2>1, FS_Subset, FS_CardinalityType
  <2> QED BY <2>1, <2>2
<1>2. One'
  BY DEF One, Fewer
<1> QED BY <1>1, <1>2 DEF Two

\* Rows are only read or deleted, and no game becomes one that runs.
LEMMA NothingAdded ==
  ASSUME Inv, GuestIds, rows' \subseteq rows,
         \A r \in rows : /\ player'[r].lobby = player[r].lobby
                         /\ player'[r].userId = player[r].userId
                         /\ player'[r].guestId = player[r].guestId,
         \A l \in Lobbies : RowsOf(l) # {} /\ Live(l)' => Live(l)
  PROVE  Fewer
<1>1. ASSUME NEW l \in Lobbies PROVE RowsOf(l)' \subseteq RowsOf(l)
  BY DEF RowsOf
<1>2. ASSUME NEW u \in Users \ Guests PROVE Games(u)' \subseteq Games(u)
  <2> SUFFICES ASSUME NEW l \in Lobbies, Live(l)', NEW r \in RowsOf(l)', IsOf(r, u)'
               PROVE  Live(l) /\ \E q \in RowsOf(l) : IsOf(q, u)
    BY DEF Games
  <2>1. r \in RowsOf(l) /\ r \in rows
    BY <1>1 DEF RowsOf
  <2> QED BY <2>1 DEF IsOf
<1> QED BY <1>1, <1>2 DEF Fewer, GuestIds

\* A registered user who is not found to be in a game is in none.
LEMMA NotInGame ==
  ASSUME Inv, GuestIds, NEW u \in Users \ Guests, ~InGame(u) PROVE Games(u) = {}
<1> SUFFICES ASSUME NEW l \in Lobbies, Live(l), NEW r \in RowsOf(l), IsOf(r, u) PROVE FALSE
  BY DEF Games
<1>1. r \in rows /\ player[r].lobby = l /\ player[r].guestId # u
  BY NilAssumption DEF RowsOf, GuestIds
<1> QED BY <1>1 DEF InGame, IsOf, Live

\* A player is entered in lobby l for user u.
LEMMA Entered ==
  ASSUME Inv, Inv', SerialInv, NEW row \in PlayerRows, Insert(row), UNCHANGED lobby,
         NEW l \in Lobbies, row.lobby = l, NEW u \in Users,
         IF u \in Guests THEN row.userId \in {u, Nil} ELSE row.userId = u,
         row.guestId \in Guests \cup {Nil},
         Cardinality(RowsOf(l)) <= 1, u \notin Guests => Games(u) = {}
  PROVE  Two' /\ One' /\ GuestIds'
<1>1. PICK r \in Seats : /\ player[r] = NoPlayer
                         /\ player' = [player EXCEPT ![r] = row]
                         /\ rows' = rows \cup {r}
  BY DEF Insert
<1>2. player'[r] = row /\ \A q \in Seats : q # r => player'[q] = player[q]
  BY <1>1 DEF Inv, TypeOK
<1>3. rows \subseteq Seats /\ r \notin rows /\ \A q \in rows : q # r /\ player'[q] = player[q]
  BY <1>1, <1>2, NilAssumption DEF Inv, TypeOK, RowsReal, Real, NoPlayer
<1>4. /\ RowsOf(l)' = RowsOf(l) \cup {r} /\ r \notin RowsOf(l)
      /\ \A k \in Lobbies : k # l => RowsOf(k)' = RowsOf(k)
  BY <1>1, <1>2, <1>3 DEF RowsOf
<1>5. Two'
  <2>1. IsFiniteSet(RowsOf(l)) /\ Cardinality(RowsOf(l)) \in Nat
    BY FS_CardinalityType DEF SerialInv, Two
  <2>2. IsFiniteSet(RowsOf(l)') /\ Cardinality(RowsOf(l)') = Cardinality(RowsOf(l)) + 1
    BY <1>4, <2>1, FS_AddElement
  <2>3. IsFiniteSet(RowsOf(l)') /\ Cardinality(RowsOf(l)') <= 2
    BY <2>1, <2>2
  <2> QED BY <1>4, <2>3 DEF SerialInv, Two
<1>6. GuestIds'
  BY <1>1, <1>2, <1>3 DEF SerialInv, GuestIds
<1>7. One'
  <2> SUFFICES ASSUME NEW v \in Users \ Guests, NEW j \in Games(v)', NEW k \in Games(v)'
               PROVE  j = k
    BY DEF One
  <2>1. ASSUME NEW i \in Games(v)' PROVE i \in Games(v) \/ (v = u /\ i = l)
    <3>1. i \in Lobbies /\ Live(i)
      BY DEF Games, Live
    <3>2. PICK q \in RowsOf(i)' : IsOf(q, v)'
      BY DEF Games
    <3>3. CASE q = r
      <4>1. i = l
        BY <1>2, <3>2, <3>3 DEF RowsOf
      <4>2. v = u
        BY <1>2, <3>2, <3>3, NilAssumption DEF IsOf
      <4> QED BY <4>1, <4>2
    <3>4. CASE q # r
      <4>1. q \in RowsOf(i) /\ q \in rows
        BY <1>4, <3>1, <3>2, <3>4 DEF RowsOf
      <4>2. IsOf(q, v)
        BY <1>3, <3>2, <4>1 DEF IsOf
      <4> QED BY <3>1, <4>1, <4>2 DEF Games
    <3> QED BY <3>3, <3>4
  <2> QED BY <2>1 DEF SerialInv, One
<1> QED BY <1>5, <1>6, <1>7

----------------------------------------------------------------------------
\* The parts make the whole again.
LEMMA SerialAssemble ==
  ASSUME SerialInv, NEW s \in Slots, call[s] # Idle, \A t \in Slots : t # s => call'[t] = call[t],
         Two', One', GuestIds', Fresh(s)'
  PROVE  SerialInv'
<1>1. Alone' /\ \A t \in Slots : t # s => Fresh(t)'
  BY OthersIdle, IdleFresh DEF SerialInv
<1> QED BY <1>1 DEF SerialInv

LEMMA FewerStep ==
  ASSUME SerialInv, NEW s \in Slots, call[s] # Idle, \A t \in Slots : t # s => call'[t] = call[t],
         Fewer, Fresh(s)'
  PROVE  SerialInv'
BY FewerKeeps, SerialAssemble DEF SerialInv, Fewer

LEMMA LookStep ==
  ASSUME Inv, SerialInv, NEW s \in Slots, call[s] # Idle,
         \A t \in Slots : t # s => call'[t] = call[t], UNCHANGED <<lobby, player, rows>>, Fresh(s)'
  PROVE  SerialInv'
<1>1. Fewer
  BY NothingAdded DEF SerialInv, Live
<1> QED BY <1>1, FewerStep

\* A handler returns, having read, deleted or ended something.
LEMMA LastStep ==
  ASSUME Inv, SerialInv, NEW s \in Slots, call[s] # Idle, Return(s), Fewer
  PROVE  SerialInv'
<1>1. call'[s] = Idle /\ \A t \in Slots : t # s => call'[t] = call[t]
  BY DEF Return, Inv, TypeOK
<1> QED BY <1>1, IdleFresh, FewerStep

LEMMA LookAndReturn ==
  ASSUME Inv, SerialInv, NEW s \in Slots, call[s] # Idle, Return(s), UNCHANGED <<lobby, player, rows>>
  PROVE  SerialInv'
<1>1. Fewer
  BY NothingAdded DEF SerialInv, Live
<1> QED BY <1>1, LastStep

----------------------------------------------------------------------------
(* The handlers *)

LEMMA SerialCreate ==
  ASSUME Inv, Inv', SerialInv, NEW s \in Slots, CreateLobby(s) PROVE SerialInv'
<1> USE DEF At, Points, LobbyOf, Who
<1>0. /\ TypeOK /\ SlotSound(s) /\ Fresh(s) /\ call[s].op = "CreateLobby" /\ call[s].who \in Users
      /\ call[s] # Idle
  BY DEF Inv, SlotsSound, SlotSound, CreateLobby, SerialInv, Idle
<1>1. CASE call[s].at = "find"
  <2>1. UNCHANGED <<lobby, player, rows>>
    BY <1>1 DEF CreateLobby
  <2>2. CASE InGame(call[s].who)
    BY <1>0, <1>1, <2>1, <2>2, LookAndReturn DEF CreateLobby
  <2>3. CASE ~InGame(call[s].who)
    <3>1. Goto(s, "create")
      BY <1>1, <2>3 DEF CreateLobby
    <3>2. call[s].who \notin Guests => Games(call[s].who) = {}
      BY <1>0, <2>3, NotInGame DEF SerialInv
    <3>4. Fresh(s)'
      <4>1. PICK c : c = call'[s]
        OBVIOUS
      <4>2. c.op = "CreateLobby" /\ c.at = "create" /\ c.who = call[s].who
        BY <1>0, <3>1, <4>1, GotoCall
      <4>3. c.who \notin Guests => Games(c.who)' = {}
        BY <2>1, <3>2, <4>2, SameGames
      <4> QED BY <1>0, <4>1, <4>2, <4>3, FreshNow
    <3> QED BY <1>0, <2>1, <3>1, <3>4, GotoCall, LookStep
  <2> QED BY <2>2, <2>3
<1>2. CASE call[s].at = "create"
  <2>1. PICK l \in Lobbies :
          /\ ~lobby[l].made
          /\ lobby' = [lobby EXCEPT ![l] = NewLobby(Who(s))]
          /\ call' = [call EXCEPT ![s].at = "seat", ![s].lobby = l]
    BY <1>2 DEF CreateLobby
  <2>2. UNCHANGED <<player, rows>>
    BY <1>2 DEF CreateLobby
  <2>3. /\ \A t \in Slots : t # s => call'[t] = call[t]
        /\ call'[s].op = "CreateLobby" /\ call'[s].at = "seat" /\ call'[s].lobby = l
        /\ call'[s].who = call[s].who
    <3>1. call' = [call EXCEPT ![s] = [call[s] EXCEPT !.at = "seat", !.lobby = l]]
      BY <1>0, <2>1 DEF TypeOK
    <3> QED BY <1>0, <3>1, CallsTyped DEF TypeOK
  <2>4. lobby'[l] = NewLobby(call[s].who) /\ \A k \in Lobbies : k # l => lobby'[k] = lobby[k]
    BY <1>0, <2>1 DEF TypeOK
  <2>5. RowsOf(l) = {} /\ RowsOf(l)' = {}
    BY <2>1, <2>2, RealRows DEF RowsOf
  <2>6. Fewer
    BY <2>2, <2>4, <2>5, NothingAdded DEF SerialInv, Live
  <2>7. ASSUME NEW u \in Users \ Guests, u = call[s].who PROVE Games(u)' = {}
    <3>1. Games(u) = {}
      BY <1>0, <1>2, <2>7 DEF Fresh, Entering
    <3> QED BY <2>6, <3>1 DEF Fewer
  <2>8. ~NewLobby(call[s].who).over
    BY DEF NewLobby, NoLobby
  <2>9. Fresh(s)'
    <3>1. PICK c : c = call'[s]
      OBVIOUS
    <3>2. c.op = "CreateLobby" /\ c.at = "seat" /\ c.lobby = l /\ c.who = call[s].who
      BY <2>3, <3>1
    <3>3. c.who \notin Guests => Games(c.who)' = {}
      BY <1>0, <2>7, <3>2
    <3> QED BY <1>0, <2>4, <2>5, <2>8, <3>1, <3>2, <3>3, FreshNow
  <2> QED BY <1>0, <2>3, <2>6, <2>9, FewerStep
<1>3. CASE call[s].at = "seat"
  <2> DEFINE row == [lobby |-> call[s].lobby, userId |-> call[s].who, guestId |-> Nil, ready |-> FALSE]
  <2>1. Insert(row) /\ Goto(s, "turn") /\ UNCHANGED lobby
    BY <1>3 DEF CreateLobby
  <2>2. /\ call[s].lobby \in Lobbies /\ RowsOf(call[s].lobby) = {} /\ ~lobby[call[s].lobby].over
        /\ call[s].who \notin Guests => Games(call[s].who) = {}
    BY <1>0, <1>3 DEF SlotSound, Fresh, Entering
  <2>3. row \in PlayerRows /\ row.lobby = call[s].lobby /\ row.userId = call[s].who
        /\ row.guestId \in Guests \cup {Nil}
    BY <1>0, <2>2 DEF PlayerRows
  <2>4. Cardinality(RowsOf(call[s].lobby)) <= 1
    BY <2>2, FS_EmptySet
  <2> HIDE DEF row
  <2>5. Two' /\ One' /\ GuestIds'
    BY <1>0, <2>1, <2>2, <2>3, <2>4, Entered
  <2>6. /\ call'[s].op = "CreateLobby" /\ call'[s].at = "turn" /\ call'[s].who = call[s].who
        /\ call'[s].lobby = call[s].lobby /\ \A t \in Slots : t # s => call'[t] = call[t]
    BY <1>0, <2>1, GotoCall
  <2>7. Fresh(s)'
    <3>1. PICK c : c = call'[s]
      OBVIOUS
    <3> QED BY <1>0, <2>1, <2>2, <2>6, <3>1, FreshNow
  <2> QED BY <1>0, <2>5, <2>6, <2>7, SerialAssemble
<1>4. CASE call[s].at = "turn"
  <2>1. /\ lobby' = [lobby EXCEPT ![call[s].lobby] = NewLobby(call[s].who)]
        /\ Return(s) /\ UNCHANGED <<player, rows>>
    BY <1>4 DEF CreateLobby
  <2>2. call[s].lobby \in Lobbies /\ lobby[call[s].lobby].made /\ ~lobby[call[s].lobby].over
    BY <1>0, <1>4 DEF SlotSound, SameOwner, Fresh
  <2>3. \A l \in Lobbies : Live(l)' => Live(l)
    BY <1>0, <2>1, <2>2 DEF Live, TypeOK
  <2>4. Fewer
    BY <2>1, <2>3, NothingAdded DEF SerialInv
  <2> QED BY <1>0, <2>1, <2>4, LastStep
<1> QED BY <1>1, <1>2, <1>3, <1>4 DEF CreateLobby

LEMMA SerialJoin ==
  ASSUME Inv, Inv', SerialInv, NEW s \in Slots, JoinLobby(s) PROVE SerialInv'
<1> USE DEF At, Points, LobbyOf, Who
<1>0. /\ TypeOK /\ SlotSound(s) /\ Fresh(s) /\ call[s].op = "JoinLobby" /\ call[s].who \in Users
      /\ call[s].lobby \in Lobbies /\ call[s] # Idle
  BY DEF Inv, SlotsSound, SlotSound, JoinLobby, SerialInv, Fresh, Idle
<1>1. CASE call[s].at \in {"find", "load"}
  <2>1. UNCHANGED <<lobby, player, rows>>
    BY <1>1 DEF JoinLobby
  <2>2. CASE Return(s)
    BY <1>0, <2>1, <2>2, LookAndReturn
  <2>3. CASE call[s].at = "find" /\ ~InGame(call[s].who) /\ Goto(s, "load")
    <3>1. call[s].who \notin Guests => Games(call[s].who) = {}
      BY <1>0, <2>3, NotInGame DEF SerialInv
    <3>2. call'[s].op = "JoinLobby" /\ call'[s].at = "load" /\ call'[s].who = call[s].who
      BY <1>0, <2>3, GotoCall
    <3>3. Fresh(s)'
      <4>1. PICK c : c = call'[s]
        OBVIOUS
      <4>2. c.who \notin Guests => Games(c.who)' = {}
        BY <2>1, <3>1, <3>2, <4>1, SameGames
      <4> QED BY <1>0, <3>2, <4>1, <4>2, FreshNow
    <3> QED BY <1>0, <2>1, <2>3, <3>3, GotoCall, LookStep
  <2>4. CASE call[s].at = "load" /\ ~(Cardinality(RowsOf(LobbyOf(s))) >= 2) /\ Goto(s, "seat")
    <3>1. call[s].who \notin Guests => Games(call[s].who) = {}
      BY <1>0, <2>4 DEF Fresh, Entering
    <3>2. /\ call'[s].op = "JoinLobby" /\ call'[s].at = "seat" /\ call'[s].who = call[s].who
          /\ call'[s].lobby = call[s].lobby
      BY <1>0, <2>4, GotoCall
    <3>3. Cardinality(RowsOf(call[s].lobby)) <= 1
      <4>1. Cardinality(RowsOf(call[s].lobby)) \in Nat
        BY <1>0, FS_CardinalityType DEF SerialInv, Two
      <4> QED BY <2>4, <4>1
    <3>4. Fresh(s)'
      <4>1. PICK c : c = call'[s]
        OBVIOUS
      <4>2. /\ c.who \notin Guests => Games(c.who)' = {}
            /\ Cardinality(RowsOf(c.lobby)') <= 1
        BY <2>1, <3>1, <3>2, <3>3, <4>1, SameGames, SameRows
      <4> QED BY <1>0, <3>2, <4>1, <4>2, FreshNow
    <3> QED BY <1>0, <2>1, <2>4, <3>4, GotoCall, LookStep
  <2> QED BY <1>1, <2>2, <2>3, <2>4 DEF JoinLobby
<1>2. CASE call[s].at = "seat"
  <2> DEFINE row == [lobby |-> call[s].lobby,
                     userId |-> IF call[s].who \in Guests THEN Nil ELSE call[s].who,
                     guestId |-> IF call[s].who \in Guests THEN call[s].who ELSE Nil,
                     ready |-> FALSE]
  <2>1. Insert(row) /\ Return(s) /\ UNCHANGED lobby
    BY <1>2 DEF JoinLobby
  <2>2. /\ Cardinality(RowsOf(call[s].lobby)) <= 1
        /\ call[s].who \notin Guests => Games(call[s].who) = {}
    BY <1>0, <1>2 DEF Fresh, Entering
  <2>3. /\ row \in PlayerRows /\ row.lobby = call[s].lobby
        /\ IF call[s].who \in Guests THEN row.userId = Nil ELSE row.userId = call[s].who
        /\ row.guestId \in Guests \cup {Nil}
    BY <1>0 DEF PlayerRows
  <2> HIDE DEF row
  <2>4. Two' /\ One' /\ GuestIds'
    BY <1>0, <2>1, <2>2, <2>3, Entered
  <2>5. call'[s] = Idle /\ \A t \in Slots : t # s => call'[t] = call[t]
    BY <1>0, <2>1 DEF Return, TypeOK
  <2> QED BY <1>0, <2>4, <2>5, IdleFresh, SerialAssemble
<1> QED BY <1>1, <1>2 DEF JoinLobby

LEMMA SerialReady ==
  ASSUME Inv, Inv', SerialInv, NEW s \in Slots, SetPlayerReady(s) PROVE SerialInv'
<1> USE DEF At, Points, LobbyOf, Who
<1>0. /\ TypeOK /\ SlotSound(s) /\ Fresh(s) /\ call[s].op = "SetPlayerReady" /\ call[s] # Idle
      /\ call[s].lobby \in Lobbies /\ lobby[call[s].lobby].made
  BY DEF Inv, SlotsSound, SlotSound, SetPlayerReady, SerialInv, Idle
<1>1. CASE call[s].at \in {"find", "count"} /\ Return(s)
  <2>1. UNCHANGED <<lobby, player, rows>>
    BY <1>1 DEF SetPlayerReady
  <2> QED BY <1>0, <1>1, <2>1, LookAndReturn
<1>2. CASE call[s].at = "find" /\ ~Return(s)
  <2>1. PICK r \in RowsOf(LobbyOf(s)) : call' = [call EXCEPT ![s].at = "save", ![s].seat = r]
    BY <1>2 DEF SetPlayerReady
  <2>2. UNCHANGED <<lobby, player, rows>>
    BY <1>2 DEF SetPlayerReady
  <2>3. call' = [call EXCEPT ![s] = [call[s] EXCEPT !.at = "save", !.seat = r]]
    BY <1>0, <2>1 DEF TypeOK
  <2>4. /\ \A t \in Slots : t # s => call'[t] = call[t]
        /\ call'[s].op = "SetPlayerReady" /\ call'[s].at = "save" /\ call'[s].seat = r
    BY <1>0, <2>3, CallsTyped DEF TypeOK
  <2>5. r \in rows'
    BY <2>1, <2>2 DEF RowsOf
  <2>6. Fresh(s)'
    BY <2>4, <2>5, FreshNow
  <2> QED BY <1>0, <2>2, <2>4, <2>6, LookStep
<1>3. CASE call[s].at = "save"
  <2>1. /\ player' = [player EXCEPT ![call[s].seat].ready = TRUE] /\ rows' = rows \cup {call[s].seat}
        /\ Goto(s, "count") /\ UNCHANGED lobby
    BY <1>3 DEF SetPlayerReady
  <2>2. rows' = rows
    BY <1>0, <1>3, <2>1 DEF Fresh
  <2>3. \A r \in rows : /\ player'[r].lobby = player[r].lobby
                        /\ player'[r].userId = player[r].userId
                        /\ player'[r].guestId = player[r].guestId
    BY <1>0, <2>1 DEF TypeOK, PlayerRows
  <2>4. Fewer
    BY <2>1, <2>2, <2>3, NothingAdded DEF SerialInv, Live
  <2>5. call'[s].op = "SetPlayerReady" /\ call'[s].at = "count"
    BY <1>0, <2>1, GotoCall
  <2>6. Fresh(s)'
    BY <2>5 DEF Fresh, Entering
  <2> QED BY <1>0, <2>1, <2>4, <2>6, GotoCall, FewerStep
<1>4. CASE call[s].at = "count" /\ ~Return(s)
  <2>1. Goto(s, "start") /\ UNCHANGED <<lobby, player, rows>>
    BY <1>4 DEF SetPlayerReady
  <2>2. call'[s].op = "SetPlayerReady" /\ call'[s].at = "start"
    BY <1>0, <2>1, GotoCall
  <2>3. Fresh(s)'
    BY <2>2 DEF Fresh, Entering
  <2> QED BY <1>0, <2>1, <2>3, GotoCall, LookStep
<1>5. CASE call[s].at = "start"
  <2>1. /\ lobby' = [lobby EXCEPT ![call[s].lobby].started = TRUE]
        /\ Return(s) /\ UNCHANGED <<player, rows>>
    BY <1>5 DEF SetPlayerReady
  <2>2. \A l \in Lobbies : Live(l)' => Live(l)
    BY <1>0, <2>1 DEF Live, TypeOK, LobbyRows
  <2>3. Fewer
    BY <2>1, <2>2, NothingAdded DEF SerialInv
  <2> QED BY <1>0, <2>1, <2>3, LastStep
<1> QED BY <1>1, <1>2, <1>3, <1>4, <1>5 DEF SetPlayerReady

\* Whoever leaves adds nothing: the rows that are inserted again are there.
LEMMA SerialSave ==
  ASSUME Inv, SerialInv, NEW s \in Slots, call[s] # Idle, call[s].at = "act",
         Save(s, [call[s].snap EXCEPT !.over = TRUE]), Return(s), UNCHANGED player
  PROVE  SerialInv'
<1> USE DEF LobbyOf
<1>1. TypeOK /\ Fresh(s)
  BY DEF Inv, SerialInv
<1>2. /\ lobby' = [lobby EXCEPT ![call[s].lobby] = [call[s].snap EXCEPT !.over = TRUE]]
      /\ rows' = rows
  BY <1>1 DEF Save, Fresh
<1>3. call[s].snap \in LobbyRows
  BY <1>1 DEF TypeOK, Calls
<1>4. \A l \in Lobbies : Live(l)' => Live(l)
  BY <1>1, <1>2, <1>3 DEF Live, TypeOK, LobbyRows
<1>5. Fewer
  BY <1>2, <1>4, NothingAdded DEF SerialInv
<1> QED BY <1>5, LastStep

LEMMA SerialLeave ==
  ASSUME Inv, SerialInv, NEW s \in Slots, call[s] # Idle, call[s].at = "act", LeaveBeforeStart(s)
  PROVE  SerialInv'
<1>1. CASE Save(s, [call[s].snap EXCEPT !.over = TRUE])
  BY <1>1, SerialSave DEF LeaveBeforeStart
<1>2. CASE rows' = rows \ {call[s].seat} /\ UNCHANGED lobby
  <2>1. Fewer
    BY <1>2, NothingAdded DEF LeaveBeforeStart, SerialInv, Live
  <2> QED BY <2>1, LastStep DEF LeaveBeforeStart
<1> QED BY <1>1, <1>2 DEF LeaveBeforeStart

LEMMA SerialLoad ==
  ASSUME Inv, SerialInv, NEW s \in Slots, call[s].op \in {"ForfeitLobby", "PreGameForfeitByPlayerID"},
         NEW r \in Seats, Load(s, "act", r), UNCHANGED <<lobby, player, rows>>
  PROVE  SerialInv'
<1>1. TypeOK /\ call[s] # Idle
  BY DEF Inv, Idle
<1>2. call' = [call EXCEPT ![s] = [call[s] EXCEPT !.at = "act", !.seat = r,
                 !.snap = lobby[LobbyOf(s)], !.seats = RowsOf(LobbyOf(s))]]
  BY <1>1 DEF Load, TypeOK
<1>3. /\ \A t \in Slots : t # s => call'[t] = call[t]
      /\ call'[s].op = call[s].op /\ call'[s].at = "act" /\ call'[s].seats = RowsOf(LobbyOf(s))
  BY <1>1, <1>2, CallsTyped DEF TypeOK
<1>4. Fresh(s)'
  BY <1>3 DEF Fresh, Entering, At, RowsOf
<1> QED BY <1>1, <1>3, <1>4, LookStep

LEMMA SerialForfeit ==
  ASSUME Inv, Inv', SerialInv, NEW s \in Slots,
         ForfeitLobby(s) \/ PreGameForfeitByPlayerID(s)
  PROVE  SerialInv'
<1>0. /\ TypeOK /\ call[s] # Idle
      /\ call[s].op \in {"ForfeitLobby", "PreGameForfeitByPlayerID"}
  BY DEF Inv, Idle, ForfeitLobby, PreGameForfeitByPlayerID, At
<1>1. CASE call[s].at = "load"
  <2>1. UNCHANGED <<lobby, player, rows>>
    BY <1>1 DEF ForfeitLobby, PreGameForfeitByPlayerID, At
  <2>2. CASE Return(s)
    BY <1>0, <2>1, <2>2, LookAndReturn
  <2>3. CASE ~Return(s)
    <3>1. PICK r \in RowsOf(LobbyOf(s)) : Load(s, "act", r)
      BY <1>1, <2>3 DEF ForfeitLobby, PreGameForfeitByPlayerID, At
    <3>2. r \in Seats
      BY <1>0 DEF RowsOf, TypeOK
    <3> QED BY <1>0, <2>1, <3>1, <3>2, SerialLoad
  <2> QED BY <2>2, <2>3
<1>2. CASE call[s].at = "act" /\ LeaveBeforeStart(s)
  BY <1>0, <1>2, SerialLeave
<1>3. CASE call[s].at = "act" /\ ~LeaveBeforeStart(s)
  <2>1. Save(s, [call[s].snap EXCEPT !.over = TRUE]) /\ Return(s) /\ UNCHANGED player
    BY <1>3 DEF ForfeitLobby, PreGameForfeitByPlayerID, At
  <2> QED BY <1>0, <1>3, <2>1, SerialSave
<1> QED BY <1>1, <1>2, <1>3 DEF ForfeitLobby, PreGameForfeitByPlayerID, At

----------------------------------------------------------------------------
(* Calls that begin, and games that end *)

LEMMA SerialBegin ==
  ASSUME Inv, SerialInv, Serial, NEW s \in Slots, NEW c, Begin(s, c),
         c.op \in {"CreateLobby", "JoinLobby"} => c.who \in Users /\ c.at = "find",
         c.at \in {"find", "load"},
         c.op \in {"SetPlayerReady", "ForfeitLobby", "PreGameForfeitByPlayerID",
                   "CreateLobby", "JoinLobby"}
  PROVE  SerialInv'
<1>1. /\ TypeOK /\ call' = [call EXCEPT ![s] = c] /\ UNCHANGED <<lobby, player, rows>>
      /\ \A t \in Slots : call[t] = Idle
  BY DEF Inv, Begin, Quiet
<1>2. call'[s] = c /\ \A t \in Slots : t # s => call'[t] = Idle
  BY <1>1 DEF TypeOK
<1>3. Alone'
  BY <1>2 DEF Alone
<1>4. Fresh(s)'
  BY <1>2 DEF Fresh, Entering, At, Who
<1>5. Fewer
  BY <1>1, NothingAdded DEF SerialInv, Live
<1>6. Two' /\ One' /\ GuestIds'
  BY <1>5, FewerKeeps DEF SerialInv, Fewer
<1> QED BY <1>2, <1>3, <1>4, <1>6, IdleFresh DEF SerialInv

LEMMA SerialFinish ==
  ASSUME Inv, SerialInv, Serial, NEW l \in Lobbies, Finish(l) PROVE SerialInv'
<1>1. /\ TypeOK /\ lobby' = [lobby EXCEPT ![l].over = TRUE] /\ UNCHANGED <<player, rows, call>>
      /\ \A t \in Slots : call[t] = Idle
  BY DEF Inv, Finish, Quiet
<1>2. \A k \in Lobbies : Live(k)' => Live(k)
  BY <1>1 DEF Live, TypeOK, LobbyRows
<1>3. Fewer
  BY <1>1, <1>2, NothingAdded DEF SerialInv
<1>4. Two' /\ One' /\ GuestIds'
  BY <1>3, FewerKeeps DEF SerialInv, Fewer
<1>5. Alone'
  BY <1>1 DEF Alone
<1> QED BY <1>1, <1>4, <1>5, IdleFresh DEF SerialInv

LEMMA SerialNext ==
  ASSUME Serial, Inv, Inv', SerialInv, [Next]_seatVars PROVE SerialInv'
<1>1. ASSUME NEW s \in Slots, NEW u \in Users, BeginCreate(s, u) PROVE SerialInv'
  <2> DEFINE c == Called("CreateLobby", "find", u, Nil, Nil)
  <2>1. c.op = "CreateLobby" /\ c.at = "find" /\ c.who = u
    BY DEF Called, Idle
  <2>2. Begin(s, c)
    BY <1>1 DEF BeginCreate
  <2> HIDE DEF c
  <2> QED BY <2>1, <2>2, SerialBegin
<1>2. ASSUME NEW s \in Slots, NEW u \in Users, NEW l \in Lobbies, BeginJoin(s, u, l)
      PROVE  SerialInv'
  <2> DEFINE c == Called("JoinLobby", "find", u, l, Nil)
  <2>1. c.op = "JoinLobby" /\ c.at = "find" /\ c.who = u
    BY DEF Called, Idle
  <2>2. Begin(s, c)
    BY <1>2 DEF BeginJoin
  <2> HIDE DEF c
  <2> QED BY <2>1, <2>2, SerialBegin
<1>3. ASSUME NEW s \in Slots, NEW u \in Users, NEW l \in Lobbies, BeginReady(s, u, l)
      PROVE  SerialInv'
  <2> DEFINE c == Called("SetPlayerReady", "find", u, l, Nil)
  <2>1. c.op = "SetPlayerReady" /\ c.at = "find"
    BY DEF Called, Idle
  <2>2. Begin(s, c)
    BY <1>3 DEF BeginReady
  <2> HIDE DEF c
  <2> QED BY <2>1, <2>2, SerialBegin
<1>4. ASSUME NEW s \in Slots, NEW u \in Users, NEW l \in Lobbies, BeginForfeit(s, u, l)
      PROVE  SerialInv'
  <2> DEFINE c == Called("ForfeitLobby", "load", u, l, Nil)
  <2>1. c.op = "ForfeitLobby" /\ c.at = "load"
    BY DEF Called, Idle
  <2>2. Begin(s, c)
    BY <1>4 DEF BeginForfeit
  <2> HIDE DEF c
  <2> QED BY <2>1, <2>2, SerialBegin
<1>5. ASSUME NEW s \in Slots, NEW r \in Seats, BeginExpiry(s, r) PROVE SerialInv'
  <2> DEFINE c == Called("PreGameForfeitByPlayerID", "load", Nil, player[r].lobby, r)
  <2>1. c.op = "PreGameForfeitByPlayerID" /\ c.at = "load"
    BY DEF Called, Idle
  <2>2. Begin(s, c)
    BY <1>5 DEF BeginExpiry
  <2> HIDE DEF c
  <2> QED BY <2>1, <2>2, SerialBegin
<1>6. ASSUME NEW s \in Slots, Proceed(s) PROVE SerialInv'
  BY <1>6, SerialCreate, SerialJoin, SerialReady, SerialForfeit DEF Proceed
<1>7. ASSUME NEW l \in Lobbies, Finish(l) PROVE SerialInv'
  BY <1>7, SerialFinish
<1>8. CASE UNCHANGED seatVars
  <2>1. UNCHANGED <<lobby, player, rows, call>>
    BY <1>8 DEF seatVars
  <2>2. Fewer
    BY <2>1, NothingAdded DEF SerialInv, Live
  <2>3. Two' /\ One' /\ GuestIds'
    BY <2>2, FewerKeeps DEF SerialInv, Fewer
  <2>4. Alone' /\ \A s \in Slots : Fresh(s)'
    BY <2>1 DEF SerialInv, Alone, Fresh, Entering, At, Who, LobbyOf, Games, Live, RowsOf, IsOf
  <2> QED BY <2>3, <2>4 DEF SerialInv
<1> QED
  BY <1>1, <1>2, <1>3, <1>4, <1>5, <1>6, <1>7, <1>8 DEF Next

LEMMA SerialInvariant == ASSUME Serial PROVE Spec => [](Inv /\ SerialInv)
<1>1. Init => SerialInv
  <2> SUFFICES ASSUME Init PROVE SerialInv
    OBVIOUS
  <2>1. rows = {} /\ \A s \in Slots : call[s] = Idle
    BY DEF Init
  <2>2. \A l : RowsOf(l) = {}
    BY <2>1 DEF RowsOf
  <2>3. Two
    BY <2>2, FS_EmptySet DEF Two
  <2>4. One
    BY <2>2 DEF One, Games
  <2>5. Alone /\ GuestIds /\ \A s \in Slots : Fresh(s)
    BY <2>1 DEF Alone, GuestIds, Fresh, Entering, Idle, At, Who, LobbyOf
  <2> QED BY <2>3, <2>4, <2>5 DEF SerialInv
<1>2. Inv /\ Inv' /\ SerialInv /\ [Next]_seatVars => SerialInv'
  BY SerialNext
<1> QED BY <1>1, <1>2, InvInvariant, PTL DEF Spec

\* As long as handlers do not overlap, no lobby ever has more than two players: a seat
\* that was counted is still free when it is taken, and whole-row saves seat nobody again.
THEOREM TwoSeatsHolds == ASSUME Serial PROVE Spec => []TwoSeats
<1>1. SerialInv => TwoSeats
  BY DEF SerialInv, Two, TwoSeats
<1> QED BY <1>1, SerialInvariant, PTL

\* As long as handlers do not overlap, a registered user is never in two open games,
\* whether they made the lobby or joined it.
THEOREM OneGameHolds == ASSUME Serial PROVE Spec => []OneGame
<1>1. SerialInv => OneGame
  <2> SUFFICES ASSUME One, NEW u \in Users \ Guests PROVE Cardinality(Games(u)) <= 1
    BY DEF SerialInv, OneGame, Games
  <2>1. CASE Games(u) = {}
    BY <2>1, FS_EmptySet
  <2>2. CASE Games(u) # {}
    <3>1. PICK l : Games(u) = {l}
      BY <2>2 DEF One
    <3> QED BY <3>1, FS_Singleton
  <2> QED BY <2>1, <2>2
<1> QED BY <1>1, SerialInvariant, PTL

=============================================================================
