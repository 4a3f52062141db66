-------------------------------- MODULE Seats ------------------------------
(***************************************************************************)
(* Who sits in which lobby: creating, joining and leaving lobbies, as far  *)
(* as the rows of the tables lobbies and players tell                      *)
(* (services/lobby_service.go).                                            *)
(*                                                                         *)
(* A user is registered or a guest.  Both tables have a column for each    *)
(* kind, user_id and guest_id, and the column that is not set holds        *)
(* uuid.Nil (here Nil).  One database statement is one step, as in module  *)
(* Game; a DB.Save of a lobby read with its players writes the lobby's     *)
(* columns and inserts again the players that have been deleted since.     *)
(***************************************************************************)
EXTENDS Naturals, FiniteSets

CONSTANTS
  Users,       \* everybody
  Guests,      \* those of them without an account
  Lobbies,     \* rows of the table lobbies that may ever be made
  Seats,       \* rows of the table players that may ever be made
  Slots,       \* goroutines that may run a handler at once
  Nil,         \* uuid.Nil
  Serial       \* whether a handler runs only while no other handler does

ASSUME GuestsAssumption == Guests \subseteq Users
ASSUME NilAssumption == Nil \notin Users \cup Lobbies \cup Seats
ASSUME SerialAssumption == Serial \in BOOLEAN

VARIABLES
  lobby,       \* the rows of lobbies
  player,      \* what was inserted for a row of players
  rows,        \* the rows of players that are there
  recorded,    \* users that some GameRecord is about
  call         \* what the goroutine of a slot is doing

seatVars == <<lobby, player, rows, recorded, call>>

----------------------------------------------------------------------------
LobbyRows == [made : BOOLEAN, started : BOOLEAN, over : BOOLEAN,
              userId : Users \cup {Nil}, guestId : Users \cup {Nil}]
PlayerRows == [lobby : Lobbies \cup {Nil}, userId : Users \cup {Nil},
               guestId : Users \cup {Nil}, ready : BOOLEAN]

NoLobby == [made |-> FALSE, started |-> FALSE, over |-> FALSE,
            userId |-> Nil, guestId |-> Nil]
NoPlayer == [lobby |-> Nil, userId |-> Nil, guestId |-> Nil, ready |-> FALSE]

Ops == {"CreateLobby", "JoinLobby", "SetPlayerReady", "ForfeitLobby",
        "PreGameForfeitByPlayerID"}
Points == {"find", "load", "create", "seat", "turn", "save", "count", "start", "act"}

Idle == [op |-> "none", at |-> "none", who |-> Nil, lobby |-> Nil, seat |-> Nil,
         snap |-> NoLobby, seats |-> {}]
Calls == [op : Ops, at : Points, who : Users \cup {Nil}, lobby : Lobbies \cup {Nil},
          seat : Seats \cup {Nil}, snap : LobbyRows, seats : SUBSET Seats] \cup {Idle}

TypeOK ==
  /\ lobby \in [Lobbies -> LobbyRows]
  /\ player \in [Seats -> PlayerRows]
  /\ rows \in SUBSET Seats
  /\ recorded \in SUBSET Users
  /\ call \in [Slots -> Calls]

Init ==
  /\ lobby = [l \in Lobbies |-> NoLobby]
  /\ player = [r \in Seats |-> NoPlayer]
  /\ rows = {}
  /\ recorded = {}
  /\ call = [s \in Slots |-> Idle]

RowsOf(l) == {r \in rows : player[r].lobby = l}
IsOf(r, u) == player[r].userId = u \/ player[r].guestId = u

Quiet == \A s \in Slots : call[s] = Idle

At(s, op, point) == call[s].op = op /\ call[s].at = point
Who(s) == call[s].who
LobbyOf(s) == call[s].lobby

Goto(s, point) == call' = [call EXCEPT ![s].at = point]
Return(s) == call' = [call EXCEPT ![s] = Idle]

\* First("lobbies") with Preload("Players"), and the player row looked for in it.
Load(s, point, r) ==
  call' = [call EXCEPT ![s].at = point, ![s].seat = r,
                       ![s].snap = lobby[LobbyOf(s)], ![s].seats = RowsOf(LobbyOf(s))]

\* DB.Save of a lobby that was read with its players.
Save(s, row) ==
  /\ lobby' = [lobby EXCEPT ![LobbyOf(s)] = row]
  /\ rows' = rows \cup call[s].seats

\* DB.Create of a player in a row that was never used.
Insert(row) ==
  \E r \in Seats :
    /\ player[r] = NoPlayer
    /\ player' = [player EXCEPT ![r] = row]
    /\ rows' = rows \cup {r}

\* GetPlayerByUser: guests are looked for by guest_id, others by user_id.
InGame(u) ==
  \E r \in rows :
    /\ lobby[player[r].lobby].made /\ ~lobby[player[r].lobby].over
    /\ u = IF u \in Guests THEN player[r].guestId ELSE player[r].userId

----------------------------------------------------------------------------
(* Entering a lobby *)

NewLobby(u) == [NoLobby EXCEPT !.made = TRUE, !.userId = IF u \in Guests THEN Nil ELSE u,
                               !.guestId = IF u \in Guests THEN u ELSE Nil]

\* Mutant: nobody asks whether the user is in a game already.
CreateLobbyUnchecked(s) ==
  \/ /\ At(s, "CreateLobby", "find")
     /\ Goto(s, "create")
     /\ UNCHANGED <<lobby, player, rows, recorded>>
  \/ /\ At(s, "CreateLobby", "create")
     /\ \E l \in Lobbies :
          /\ ~lobby[l].made
          /\ lobby' = [lobby EXCEPT ![l] = NewLobby(Who(s))]
          /\ call' = [call EXCEPT ![s].at = "seat", ![s].lobby = l]
     /\ UNCHANGED <<player, rows, recorded>>
  \/ /\ At(s, "CreateLobby", "seat")
     /\ Insert([lobby |-> LobbyOf(s), userId |-> Who(s), guestId |-> Nil, ready |-> FALSE])
     /\ Return(s)
     /\ UNCHANGED <<lobby, recorded>>

\* The lobby is owned by column, guest or user; its first player is entered by
\* user_id in either case; then the turn is saved together with all the
\* columns of the row that was created.
CreateLobby(s) ==
  \/ /\ At(s, "CreateLobby", "find")
     /\ IF InGame(Who(s)) THEN Return(s) ELSE Goto(s, "create")
     /\ UNCHANGED <<lobby, player, rows, recorded>>
  \/ /\ At(s, "CreateLobby", "create")
     /\ \E l \in Lobbies :
          /\ ~lobby[l].made
          /\ lobby' = [lobby EXCEPT ![l] = NewLobby(Who(s))]
          /\ call' = [call EXCEPT ![s].at = "seat", ![s].lobby = l]
     /\ UNCHANGED <<player, rows, recorded>>
  \/ /\ At(s, "CreateLobby", "seat")
     /\ Insert([lobby |-> LobbyOf(s), userId |-> Who(s), guestId |-> Nil, ready |-> FALSE])
     /\ Goto(s, "turn")
     /\ UNCHANGED <<lobby, recorded>>
  \/ /\ At(s, "CreateLobby", "turn")
     /\ lobby' = [lobby EXCEPT ![LobbyOf(s)] = NewLobby(Who(s))]
     /\ Return(s)
     /\ UNCHANGED <<player, rows, recorded>>

\* Mutant: a full lobby takes another player.
JoinLobbyFull(s) ==
  \/ /\ At(s, "JoinLobby", "find")
     /\ IF InGame(Who(s)) THEN Return(s) ELSE Goto(s, "seat")
     /\ UNCHANGED <<lobby, player, rows, recorded>>
  \/ /\ At(s, "JoinLobby", "seat")
     /\ Insert([lobby |-> LobbyOf(s), userId |-> IF Who(s) \in Guests THEN Nil ELSE Who(s),
                guestId |-> IF Who(s) \in Guests THEN Who(s) ELSE Nil, ready |-> FALSE])
     /\ Return(s)
     /\ UNCHANGED <<lobby, recorded>>

\* A lobby with two players is full; whether its game is over or has started is
\* not looked at.
JoinLobby(s) ==
  \/ /\ At(s, "JoinLobby", "find")
     /\ IF InGame(Who(s)) THEN Return(s) ELSE Goto(s, "load")
     /\ UNCHANGED <<lobby, player, rows, recorded>>
  \/ /\ At(s, "JoinLobby", "load")
     /\ IF Cardinality(RowsOf(LobbyOf(s))) >= 2 THEN Return(s) ELSE Goto(s, "seat")
     /\ UNCHANGED <<lobby, player, rows, recorded>>
  \/ /\ At(s, "JoinLobby", "seat")
     /\ Insert([lobby |-> LobbyOf(s), userId |-> IF Who(s) \in Guests THEN Nil ELSE Who(s),
                guestId |-> IF Who(s) \in Guests THEN Who(s) ELSE Nil, ready |-> FALSE])
     /\ Return(s)
     /\ UNCHANGED <<lobby, recorded>>

----------------------------------------------------------------------------
(* Starting and finishing; module Game has the steps in between *)

\* The player's row is read and saved, which inserts it again if it is gone;
\* the players of the lobby who are not ready are counted, however many there
\* are; if there are none the game starts.
SetPlayerReady(s) ==
  \/ /\ At(s, "SetPlayerReady", "find")
     /\ \/ \E r \in RowsOf(LobbyOf(s)) :
             IsOf(r, Who(s)) /\ call' = [call EXCEPT ![s].at = "save", ![s].seat = r]
        \/ ~(\E r \in RowsOf(LobbyOf(s)) : IsOf(r, Who(s))) /\ Return(s)
     /\ UNCHANGED <<lobby, player, rows, recorded>>
  \/ /\ At(s, "SetPlayerReady", "save")
     /\ player' = [player EXCEPT ![call[s].seat].ready = TRUE]
     /\ rows' = rows \cup {call[s].seat}
     /\ Goto(s, "count")
     /\ UNCHANGED <<lobby, recorded>>
  \/ /\ At(s, "SetPlayerReady", "count")
     /\ IF \A r \in RowsOf(LobbyOf(s)) : player[r].ready THEN Goto(s, "start") ELSE Return(s)
     /\ UNCHANGED <<lobby, player, rows, recorded>>
  \/ /\ At(s, "SetPlayerReady", "start")
     /\ lobby' = [lobby EXCEPT ![LobbyOf(s)].started = TRUE]
     /\ Return(s)
     /\ UNCHANGED <<player, rows, recorded>>

\* writeGameRecords: a record for each of two players who has a user_id.
Records(seats) ==
  IF Cardinality(seats) = 2 THEN {player[r].userId : r \in seats} \ {Nil} ELSE {}

\* A guess, or the clock, ends the game of the players of lobby l.
Finish(l) ==
  /\ Serial => Quiet
  /\ lobby[l].started /\ ~lobby[l].over
  /\ Cardinality(RowsOf(l)) = 2
  /\ lobby' = [lobby EXCEPT ![l].over = TRUE]
  /\ recorded' = recorded \cup Records(RowsOf(l))
  /\ UNCHANGED <<player, rows, call>>

----------------------------------------------------------------------------
(* Leaving a lobby *)

\* Mutant: only guest_id is compared.
IsCreatorByGuest(r, row) == player[r].guestId = row.guestId /\ row.guestId # Nil

\* The expression both ways of leaving decide by.
IsCreator(r, row) == player[r].userId = row.userId \/ player[r].guestId = row.guestId

\* Before the start: its creator ends the lobby, anybody else is deleted.
LeaveBeforeStart(s) ==
  /\ \/ /\ IsCreator(call[s].seat, call[s].snap)
        /\ Save(s, [call[s].snap EXCEPT !.over = TRUE])
     \/ /\ ~IsCreator(call[s].seat, call[s].snap)
        /\ rows' = rows \ {call[s].seat}
        /\ UNCHANGED lobby
  /\ Return(s)
  /\ UNCHANGED <<player, recorded>>

\* ForfeitLobby: the way to leave of a user who asks for it.
ForfeitLobby(s) ==
  \/ /\ At(s, "ForfeitLobby", "load")
     /\ \/ \E r \in RowsOf(LobbyOf(s)) : IsOf(r, Who(s)) /\ Load(s, "act", r)
        \/ ~(\E r \in RowsOf(LobbyOf(s)) : IsOf(r, Who(s))) /\ Return(s)
     /\ UNCHANGED <<lobby, player, rows, recorded>>
  \/ /\ At(s, "ForfeitLobby", "act")
     /\ ~call[s].snap.started
     /\ LeaveBeforeStart(s)
  \/ /\ At(s, "ForfeitLobby", "act")
     /\ call[s].snap.started
     /\ Save(s, [call[s].snap EXCEPT !.over = TRUE])
     /\ recorded' = recorded \cup Records(call[s].seats)
     /\ Return(s)
     /\ UNCHANGED player

\* PreGameForfeitByPlayerID: the grace period of a player who lost the
\* connection before the start is over.  Whether the game has started by now
\* is not looked at.
PreGameForfeitByPlayerID(s) ==
  \/ /\ At(s, "PreGameForfeitByPlayerID", "load")
     /\ IF lobby[LobbyOf(s)].over \/ call[s].seat \notin RowsOf(LobbyOf(s))
        THEN Return(s) ELSE Load(s, "act", call[s].seat)
     /\ UNCHANGED <<lobby, player, rows, recorded>>
  \/ /\ At(s, "PreGameForfeitByPlayerID", "act")
     /\ LeaveBeforeStart(s)

----------------------------------------------------------------------------
(* Calls begin *)

Begin(s, c) ==
  /\ call[s] = Idle
  /\ Serial => Quiet
  /\ call' = [call EXCEPT ![s] = c]
  /\ UNCHANGED <<lobby, player, rows, recorded>>

Called(op, at, u, l, r) == [Idle EXCEPT !.op = op, !.at = at, !.who = u, !.lobby = l, !.seat = r]

\* A lobby nobody has heard of yet: its first player is not entered.
Creating(l) == \E s \in Slots : At(s, "CreateLobby", "seat") /\ LobbyOf(s) = l

\* What the pages offer a user; the list of lobbies to join may be an old one.
BeginCreate(s, u) == Begin(s, Called("CreateLobby", "find", u, Nil, Nil))

BeginJoin(s, u, l) ==
  /\ lobby[l].made /\ ~Creating(l)
  /\ \A r \in RowsOf(l) : ~IsOf(r, u)
  /\ Begin(s, Called("JoinLobby", "find", u, l, Nil))

BeginReady(s, u, l) ==
  /\ ~lobby[l].started /\ ~lobby[l].over
  /\ Cardinality(RowsOf(l)) >= 2
  /\ \E r \in RowsOf(l) : IsOf(r, u) /\ ~player[r].ready
  /\ Begin(s, Called("SetPlayerReady", "find", u, l, Nil))

BeginForfeit(s, u, l) ==
  /\ lobby[l].made /\ ~lobby[l].over
  /\ \E r \in RowsOf(l) : IsOf(r, u)
  /\ Begin(s, Called("ForfeitLobby", "load", u, l, Nil))

BeginExpiry(s, r) ==
  /\ r \in rows
  /\ ~lobby[player[r].lobby].over
  /\ Begin(s, Called("PreGameForfeitByPlayerID", "load", Nil, player[r].lobby, r))

Proceed(s) ==
  \/ CreateLobby(s) \/ JoinLobby(s) \/ SetPlayerReady(s)
  \/ ForfeitLobby(s) \/ PreGameForfeitByPlayerID(s)

Next ==
  \/ \E s \in Slots, u \in Users :
       \/ BeginCreate(s, u)
       \/ \E l \in Lobbies : BeginJoin(s, u, l) \/ BeginReady(s, u, l) \/ BeginForfeit(s, u, l)
  \/ \E s \in Slots, r \in Seats : BeginExpiry(s, r)
  \/ \E s \in Slots : Proceed(s)
  \/ \E l \in Lobbies : Finish(l)

Spec == Init /\ [][Next]_seatVars

----------------------------------------------------------------------------
(* What holds, whatever runs at once *)

Live(l) == lobby[l].made /\ ~lobby[l].over
Host(l) == IF lobby[l].userId # Nil THEN lobby[l].userId ELSE lobby[l].guestId
HasHost(l) == \E r \in RowsOf(l) : player[r].userId = Host(l)

\* No order of leaving, timing out, saving and joining leaves a lobby that a
\* registered user made open without that user in it.
HostSeated ==
  \A l \in Lobbies : Live(l) /\ Host(l) \notin Guests /\ ~Creating(l) => HasHost(l)

----------------------------------------------------------------------------
(* What holds as long as handlers do not overlap *)

\* A game is one of two players.
TwoSeats == \A l \in Lobbies : Cardinality(RowsOf(l)) <= 2

\* A registered user who is in a game cannot get into another one before it is
\* over.  (A guest who made one is not found in it, and can.)
OneGame ==
  \A u \in Users \ Guests :
    Cardinality({l \in Lobbies : Live(l) /\ \E r \in RowsOf(l) : IsOf(r, u)}) <= 1

----------------------------------------------------------------------------
(* What the code says of itself, and does not keep *)

\* "Joiner leaves [...] remove the player and reopen": that does not end a lobby
\* for the one who made it.
JoinerLeavingReopens ==
  [][\A s \in Slots :
       /\ call[s].at = "act" /\ call'[s] # call[s] /\ ~call[s].snap.started
       /\ player[call[s].seat].userId # Host(LobbyOf(s))
       => (lobby'[LobbyOf(s)].over => lobby[LobbyOf(s)].over)]_seatVars

=============================================================================
