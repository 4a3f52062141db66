-------------------------------- MODULE Table --------------------------------
(***************************************************************************)
(* Two players at a table: they pick a secret character, get ready, play,  *)
(* and when the game is over agree on another one.                         *)
(*                                                                         *)
(* The server's row says how far they are; what a page shows, and which    *)
(* buttons it offers, follows from the last lobby_update it has received.  *)
(* Every request ends by broadcasting the row, but it reads the row first  *)
(* and broadcasts later, and the requests of the two players run at once.  *)
(* Here the pages' screens and buttons are modelled with the handlers      *)
(* behind them; whose turn it is is the business of Room, who may sit at   *)
(* the table that of Seats.                                                *)
(***************************************************************************)
EXTENDS Integers, Sequences, FiniteSets

CONSTANTS
  Players,    \* the two players
  NoOne,      \* nobody
  MaxClicks,  \* bound on the buttons pressed
  MaxFaults   \* bound on requests that fail and connections that are replaced

ASSUME TableAssumption ==
  /\ \E p, q \in Players : p # q /\ Players = {p, q}
  /\ NoOne \notin Players
  /\ MaxClicks \in Nat /\ MaxFaults \in Nat

VARIABLES
  row,      \* the lobby and its players' rows in the database
  page,     \* what the page of each player keeps
  call,     \* the request a page is waiting for, and how far its handler is
  inbox,    \* on the way from the hub to the page
  astray,   \* ghost: what has crossed or was lost, of a rematch or of the notices
  clicks, faults

vars == <<row, page, call, inbox, astray, clicks, faults>>

Other(p) == CHOOSE q \in Players : q # p

\* What a lobby_update carries.
Snapshot == [ready |-> row.ready, started |-> row.started, over |-> row.over]

Blank  == [ready |-> [p \in Players |-> FALSE], started |-> FALSE, over |-> FALSE]
NoCall == [op |-> "none", at |-> "done", snap |-> Blank]

\* away says which countdown runs for an opponent who has disconnected.
NewPage ==
  [at |-> "table", lobby |-> Blank, secret |-> FALSE, picker |-> FALSE, waiting |-> FALSE,
   incoming |-> FALSE, away |-> "nobody", opponentLeft |-> FALSE]

\* Both are seated and their pages have received the lobby and their game state;
\* the game has not begun, or it is over.
Init ==
  /\ \E played \in BOOLEAN :
       row = [secret |-> [p \in Players |-> played], ready |-> [p \in Players |-> played],
              started |-> played, over |-> played, by |-> NoOne, rematches |-> 0]
  /\ page = [p \in Players |-> [NewPage EXCEPT !.lobby = Snapshot, !.secret = row.over]]
  /\ call = [p \in Players |-> NoCall]
  /\ inbox = [p \in Players |-> <<>>]
  /\ astray = {}
  /\ clicks = 0 /\ faults = 0

----------------------------------------------------------------------------
(* The screens, and what they offer *)

Over(p) == page[p].lobby.over

CharacterSelection(p) == ~Over(p) /\ ~page[p].secret

ReadyScreen(p) ==
  ~Over(p) /\ page[p].secret /\ \E q \in Players : ~page[p].lobby.ready[q]

MainGame(p) ==
  ~Over(p) /\ page[p].secret /\ \A q \in Players : page[p].lobby.ready[q]

\* The buttons below the result: a rematch unless one was asked for, or to cancel it.
OverActions(p) ==
  IF page[p].waiting THEN {"cancel"} ELSE IF page[p].opponentLeft THEN {} ELSE {"pick"}

\* The modals lie over everything else.
IncomingModal(p) == page[p].incoming
PickerModal(p)   == page[p].picker

Offered(p) ==
  CASE CharacterSelection(p) -> {"setSecretChar"}
    [] ReadyScreen(p) -> {IF page[p].lobby.ready[p] THEN "unready" ELSE "ready"}
    [] MainGame(p) -> {"guess"}
    [] Over(p) /\ IncomingModal(p) -> {"accept", "decline"}
    [] Over(p) /\ ~IncomingModal(p) /\ PickerModal(p) -> {"rematch"}
    [] OTHER -> OverActions(p)

\* A button sends its request; opening the picker sends none.
Click(p) ==
  /\ page[p].at = "table" /\ call[p].op = "none"
  /\ clicks < MaxClicks
  /\ clicks' = clicks + 1
  /\ \E op \in Offered(p) :
       IF op = "pick" THEN page' = [page EXCEPT ![p].picker = TRUE] /\ UNCHANGED call
       ELSE call' = [call EXCEPT ![p] = [NoCall EXCEPT !.op = op, !.at = "sent"]] /\ UNCHANGED page
  /\ UNCHANGED <<row, inbox, astray, faults>>

Seated == {p \in Players : page[p].at = "table"}

\* The page is unmounted and its socket closed: the hub tells the other one.
Departure(p) ==
  inbox' = [q \in Players |-> IF q # p /\ q \in Seated
                             THEN Append(inbox[q], [channel |-> "opponent_disconnected", by |-> p]) ELSE <<>>]

\* Back to Home.
Leave(p) ==
  /\ page[p].at = "table" /\ Over(p) /\ call[p].op = "none"
  /\ page' = [page EXCEPT ![p].at = "home"]
  /\ Departure(p)
  /\ UNCHANGED <<row, call, astray, clicks, faults>>

----------------------------------------------------------------------------
(* The handlers *)

At(p, op, step) == call[p].op = op /\ call[p].at = step
Goto(p, step) == call' = [call EXCEPT ![p].at = step]

Broadcast(message) ==
  inbox' = [p \in Players |-> IF p \in Seated THEN Append(inbox[p], message) ELSE inbox[p]]

\* A request for a rematch that is on its way to a page.
Unseen(p) == \E i \in DOMAIN inbox[p] : inbox[p][i].channel = "rematch_request" /\ inbox[p][i].by # p

Strays(kinds) == astray' = astray \cup kinds

SetSecretChar(p) ==
  /\ At(p, "setSecretChar", "sent")
  /\ row' = [row EXCEPT !.secret[p] = TRUE]
  /\ Goto(p, "saved")
  /\ UNCHANGED <<page, inbox, astray, clicks, faults>>

\* The game starts when no player of the lobby is unready any more.
SetPlayerReady(p) ==
  /\ At(p, "ready", "sent")
  /\ LET ready == [row.ready EXCEPT ![p] = TRUE] IN
       row' = [row EXCEPT !.ready = ready, !.started = @ \/ \A q \in Players : ready[q]]
  /\ Goto(p, "saved")
  /\ UNCHANGED <<page, inbox, astray, clicks, faults>>

\* Whether the game has started is looked up first ...
CheckUnready(p) ==
  /\ At(p, "unready", "sent")
  /\ Goto(p, IF row.started THEN "answered" ELSE "checked")
  /\ UNCHANGED <<row, page, inbox, astray, clicks, faults>>

\* ... and the player's row written later.
SetPlayerUnready(p) ==
  /\ At(p, "unready", "checked")
  /\ row' = [row EXCEPT !.ready[p] = FALSE]
  /\ Goto(p, "saved")
  /\ UNCHANGED <<page, inbox, astray, clicks, faults>>

MakeGuessLobby(p) ==
  /\ At(p, "guess", "sent")
  /\ row' = [row EXCEPT !.over = TRUE]
  /\ Goto(p, "saved")
  /\ UNCHANGED <<page, inbox, astray, clicks, faults>>

\* broadcastLobbyUpdate reads the row ...
ReadLobby(p) ==
  /\ call[p].at = "saved"
  /\ call' = [call EXCEPT ![p].at = "read", ![p].snap = Snapshot]
  /\ UNCHANGED <<row, page, inbox, astray, clicks, faults>>

\* ... and hands what it has read to the hub.
BroadcastLobbyUpdate(p) ==
  /\ call[p].at = "read"
  /\ Broadcast([channel |-> "lobby_update", lobby |-> call[p].snap])
  /\ Goto(p, "answered")
  /\ UNCHANGED <<row, page, astray, clicks, faults>>

\* The two players ask without knowing of each other, or after the answer was given.
RequestRematch(p) ==
  /\ At(p, "rematch", "sent")
  /\ row' = [row EXCEPT !.by = IF row.over THEN p ELSE @]
  /\ IF row.over THEN Broadcast([channel |-> "rematch_request", by |-> p]) ELSE UNCHANGED inbox
  /\ Strays({kind \in {"rematch"} : row.by = Other(p) \/ Unseen(p)})
  /\ Goto(p, "answered")
  /\ UNCHANGED <<page, clicks, faults>>

\* Mutant: the one who accepts is expected to follow the answer.
MutAcceptRematch(p) ==
  /\ At(p, "accept", "sent")
  /\ IF row.by = Other(p)
     THEN /\ row' = [row EXCEPT !.rematches = @ + 1]
          /\ inbox' = [q \in Players |-> IF q \in Seated \ {p}
                                         THEN Append(inbox[q], [channel |-> "rematch_ready"]) ELSE inbox[q]]
     ELSE UNCHANGED <<row, inbox>>
  /\ Goto(p, "answered")
  /\ UNCHANGED <<page, astray, clicks, faults>>

\* Nobody accepts their own request; the request stays in the row.  It may be another
\* than the one the page showed, which will show it after the answer.
AcceptRematch(p) ==
  /\ At(p, "accept", "sent")
  /\ IF row.by = Other(p)
     THEN /\ row' = [row EXCEPT !.rematches = @ + 1]
          /\ Broadcast([channel |-> "rematch_ready"])
     ELSE UNCHANGED <<row, inbox>>
  /\ Goto(p, "answered")
  /\ Strays({kind \in {"rematch"} : Unseen(p)})
  /\ UNCHANGED <<page, clicks, faults>>

\* Mutant: the request is withdrawn without telling the one who waits.
MutDeclineRematch(p) ==
  /\ At(p, "decline", "sent") \/ At(p, "cancel", "sent")
  /\ row' = [row EXCEPT !.by = NoOne]
  /\ Goto(p, "answered")
  /\ UNCHANGED <<page, inbox, astray, clicks, faults>>

\* Declining and cancelling are one request.
DeclineRematch(p) ==
  /\ At(p, "decline", "sent") \/ At(p, "cancel", "sent")
  /\ IF row.by # NoOne
     THEN /\ row' = [row EXCEPT !.by = NoOne]
          /\ Broadcast([channel |-> "rematch_declined", by |-> p])
     ELSE UNCHANGED <<row, inbox>>
  /\ Goto(p, "answered")
  /\ UNCHANGED <<page, astray, clicks, faults>>

\* The request does not reach the server, and the page learns that it failed.
Fail(p) ==
  /\ call[p].at = "sent" /\ faults < MaxFaults
  /\ faults' = faults + 1
  /\ Goto(p, "failed")
  /\ UNCHANGED <<row, page, inbox, astray, clicks>>

\* Mutant: setSecretChar does not look at what its answer says.
MutOnAnswer(s, c) ==
  IF c.op = "setSecretChar" THEN [s EXCEPT !.secret = TRUE] ELSE
  IF c.at = "failed" THEN s ELSE
  CASE c.op = "rematch" -> [s EXCEPT !.picker = FALSE, !.waiting = TRUE]
    [] c.op \in {"accept", "decline"} -> [s EXCEPT !.incoming = FALSE]
    [] c.op = "cancel" -> [s EXCEPT !.waiting = FALSE]
    [] OTHER -> s

\* Only setSecretChar looks at what its answer says; the others need one.
OnAnswer(s, c) ==
  IF c.at = "failed" THEN s ELSE
  CASE c.op = "setSecretChar" -> [s EXCEPT !.secret = TRUE]
    [] c.op = "rematch" -> [s EXCEPT !.picker = FALSE, !.waiting = TRUE]
    [] c.op \in {"accept", "decline"} -> [s EXCEPT !.incoming = FALSE]
    [] c.op = "cancel" -> [s EXCEPT !.waiting = FALSE]
    [] OTHER -> s

Answered(p) ==
  /\ call[p].at \in {"answered", "failed"}
  /\ call' = [call EXCEPT ![p] = NoCall]
  /\ page' = [page EXCEPT ![p] = OnAnswer(@, call[p])]
  /\ UNCHANGED <<row, inbox, astray, clicks, faults>>

----------------------------------------------------------------------------
(* The pages' sockets *)

\* The result ends the countdown of a running game; who was away then has left.
OnLobbyUpdate(s, m) ==
  LET left == m.lobby.over /\ s.away = "game" IN
  [s EXCEPT !.lobby = m.lobby,
            !.away = IF left THEN "nobody" ELSE @,
            !.opponentLeft = @ \/ left,
            !.picker = @ /\ ~left,
            !.incoming = @ /\ ~left]

\* The page has a game start date with its lobby: here, once both were ready.
OnDisconnect(s) ==
  IF s.lobby.over THEN [s EXCEPT !.opponentLeft = TRUE, !.picker = FALSE, !.incoming = FALSE]
  ELSE [s EXCEPT !.away = IF s.lobby.started THEN "game" ELSE "before the game"]

\* Mutant: only the ref is reset.
MutOnReconnected(s) == s

\* Whoever left after the game stays marked as gone.
OnReconnected(s) == [s EXCEPT !.away = "nobody"]

OnMessage(p, s, m) ==
  CASE m.channel = "lobby_update" -> OnLobbyUpdate(s, m)
    [] m.channel = "rematch_ready" -> [s EXCEPT !.at = "rematch"]
    [] m.channel = "rematch_request" /\ m.by # p -> [s EXCEPT !.incoming = TRUE]
    [] m.channel = "rematch_declined" /\ m.by # p -> [s EXCEPT !.waiting = FALSE]
    [] m.channel = "opponent_disconnected" /\ m.by # p -> OnDisconnect(s)
    [] m.channel = "player_reconnected" /\ m.by # p -> OnReconnected(s)
    [] OTHER -> s

\* The other one asks or declines before the page knows that its own request was sent.
Overtakes(p, m) ==
  m.channel \in {"rematch_request", "rematch_declined"} /\ m.by # p /\ call[p].op = "rematch"

Receive(p) ==
  /\ page[p].at = "table" /\ inbox[p] # <<>>
  /\ page' = [page EXCEPT ![p] = OnMessage(p, @, Head(inbox[p]))]
  /\ IF Head(inbox[p]).channel = "rematch_ready" THEN Departure(p)
     ELSE inbox' = [inbox EXCEPT ![p] = Tail(@)]
  /\ Strays({kind \in {"rematch"} : Overtakes(p, Head(inbox[p]))})
  /\ UNCHANGED <<row, call, clicks, faults>>

\* What is lost with a page's connection.
Carries == [rematch |-> {"rematch_request", "rematch_declined", "rematch_ready"},
            notice  |-> {"player_reconnected"}]

Lost(p) ==
  {kind \in DOMAIN Carries : \E i \in DOMAIN inbox[p] : inbox[p][i].channel \in Carries[kind]}

\* The page's connection is lost with everything on its way, and another one is
\* made, which is greeted with the state of the lobby and nothing else.  The hub's
\* two notices are a second apart at least and arrive in order.
Reconnect(p) ==
  /\ page[p].at = "table" /\ faults < MaxFaults
  /\ faults' = faults + 1
  /\ Strays(Lost(p))
  /\ LET update == [channel |-> "lobby_update", lobby |-> Snapshot] IN
       inbox' = [inbox EXCEPT ![p] = <<update>>,
                              ![Other(p)] = IF Other(p) \notin Seated THEN @ ELSE @ \o
                                 <<[channel |-> "opponent_disconnected", by |-> p],
                                    [channel |-> "player_reconnected", by |-> p], update>>]
  /\ UNCHANGED <<row, page, call, clicks>>

----------------------------------------------------------------------------
Handlers(p) ==
  \/ SetSecretChar(p) \/ SetPlayerReady(p) \/ CheckUnready(p) \/ SetPlayerUnready(p)
  \/ MakeGuessLobby(p) \/ ReadLobby(p) \/ BroadcastLobbyUpdate(p)
  \/ RequestRematch(p) \/ AcceptRematch(p) \/ DeclineRematch(p)

Next ==
  \E p \in Players :
    \/ Click(p) \/ Leave(p)
    \/ Handlers(p)
    \/ Fail(p) \/ Answered(p)
    \/ Receive(p) \/ Reconnect(p)

Spec == Init /\ [][Next]_vars

----------------------------------------------------------------------------
(* Properties *)

\* The rows and the pages keep their types; the game cannot be over unless it started.
TypeOK ==
  /\ row.by \in Players \cup {NoOne} /\ row.rematches \in Nat
  /\ row.over => row.started
  /\ \A p \in Players :
       /\ page[p].at \in {"table", "home", "rematch"}
       /\ page[p].away \in {"nobody", "before the game", "game"}
       /\ call[p].at \in {"done", "sent", "checked", "saved", "read", "answered", "failed"}
       /\ page[p].at # "table" => inbox[p] = <<>>

\* No request runs and every message has arrived.
Settled == \A p \in Players : call[p].op = "none" /\ (p \in Seated => inbox[p] = <<>>)

\* Whatever the order in which the handlers read and broadcast the row, the two
\* pages end up with the same lobby; and neither counts down for an opponent who
\* has come back, unless that notice was lost with a connection of its own.
PagesAgree ==
  Settled /\ Seated = Players =>
    \A p \in Players : /\ page[p].lobby = page[Other(p)].lobby
                       /\ "notice" \notin astray => page[p].away = "nobody"

\* Only the pages see to it that nobody gets ready without a secret: a guess is
\* never compared with a character that was not chosen.
GuessHasAnswer == \A p \in Players : At(p, "guess", "sent") => row.secret[Other(p)]

\* Unless the messages of a rematch crossed or were lost, the players agree on
\* one new lobby and both go there.
Together ==
  "rematch" \notin astray =>
    /\ row.rematches <= 1
    /\ Settled => \A p \in Players : page[p].at = "rematch" => Other(p) \notin Seated

\* Unless they crossed or were lost, a page waits for the answer to a request that
\* the server still knows as this player's.
WaitsForSomething ==
  Settled /\ "rematch" \notin astray => \A p \in Seated : page[p].waiting => row.by = p
=============================================================================
