---------------------------- MODULE TableProofs -----------------------------
(***************************************************************************)
(* What two pages, whose screens follow from messages that may be late,    *)
(* keep for a server that does not look, however many buttons are pressed, *)
(* requests fail and connections are replaced.  No guess is made without a *)
(* character to guess (Inv); a rematch brings both to one new lobby, and   *)
(* nobody waits for nothing (RematchInv); in the end both pages show the   *)
(* same lobby, and nobody counts down for an opponent who is there         *)
(* (AgreeInv).                                                             *)
(***************************************************************************)
EXTENDS Table, TLAPS

\* Shapes of the state.
Lobbies == [ready : [Players -> BOOLEAN], started : BOOLEAN, over : BOOLEAN]

Rows == [secret : [Players -> BOOLEAN], ready : [Players -> BOOLEAN], started : BOOLEAN,
         over : BOOLEAN, by : Players \cup {NoOne}, rematches : Nat]

Pages == [at : {"table", "home", "rematch"}, lobby : Lobbies, secret : BOOLEAN,
          picker : BOOLEAN, waiting : BOOLEAN, incoming : BOOLEAN,
          away : {"nobody", "before the game", "game"}, opponentLeft : BOOLEAN]

Calls == [op : {"none", "setSecretChar", "ready", "unready", "guess",
                "rematch", "accept", "decline", "cancel"},
          at : {"done", "sent", "checked", "saved", "read", "answered", "failed"},
          snap : Lobbies]

Updates == [channel : {"lobby_update"}, lobby : Lobbies]
Notices == [channel : {"rematch_request", "rematch_declined",
                       "opponent_disconnected", "player_reconnected"}, by : Players]
Ready   == [channel : {"rematch_ready"}]
Messages == Updates \cup Notices \cup Ready

Typed == /\ row \in Rows
         /\ page \in [Players -> Pages]
         /\ call \in [Players -> Calls]
         /\ inbox \in [Players -> Seq(Messages)]

\* What a lobby says of readiness and the end, however old it is, is so in the row r.
Backed(r, l) ==
  /\ \A q \in Players : l.ready[q] => r.secret[q]
  /\ (\A q \in Players : l.ready[q]) => r.started
  /\ l.over => r.over

RowSound == Backed(row, row) /\ (row.over => row.started)

PageSound(p) ==
  /\ page[p].secret => row.secret[p]
  /\ Backed(row, page[p].lobby)
  /\ page[p].at # "table" => inbox[p] = <<>>

Rematches == {"rematch", "accept", "decline", "cancel"}

CallSound(p) ==
  /\ Backed(row, call[p].snap)
  /\ call[p].op = "setSecretChar" /\ call[p].at \in {"saved", "read", "answered"} => row.secret[p]
  /\ call[p].op = "ready" => row.secret[p]
  /\ call[p].op = "guess" => row.started /\ \A q \in Players : row.secret[q]
  /\ call[p].op \in Rematches => row.over /\ call[p].at \in {"sent", "answered", "failed"}

InboxSound(p) ==
  \A i \in DOMAIN inbox[p] :
    inbox[p][i].channel = "lobby_update" => Backed(row, inbox[p][i].lobby)

Inv == /\ Typed
       /\ RowSound
       /\ \A p \in Players : PageSound(p) /\ CallSound(p) /\ InboxSound(p)

----------------------------------------------------------------------------
LEMMA OtherPlayer == \A p \in Players : Other(p) \in Players /\ Other(p) # p
BY TableAssumption DEF Other

\* Secrets that were chosen, a start and an end are never taken back.
Grows == /\ row' \in Rows
         /\ \A q \in Players : row.secret[q] => row'.secret[q]
         /\ row.started => row'.started
         /\ row.over => row'.over

LEMMA BackedStays == ASSUME Grows, NEW l, Backed(row, l) PROVE Backed(row', l)
BY DEF Grows, Backed

\* Who takes no part in a step keeps what is known of them.
LEMMA CallStays ==
  ASSUME Grows, NEW p \in Players, CallSound(p), call'[p] = call[p] PROVE CallSound(p)'
<1>1. Backed(row', call[p].snap)
  BY BackedStays DEF CallSound
<1> QED BY <1>1 DEF CallSound, Grows

LEMMA PageStays ==
  ASSUME Grows, NEW p \in Players, PageSound(p), page'[p] = page[p],
         page[p].at # "table" => inbox'[p] = <<>>
  PROVE  PageSound(p)'
<1>1. Backed(row', page[p].lobby)
  BY BackedStays DEF PageSound
<1> QED BY <1>1 DEF PageSound, Grows

LEMMA InboxStays ==
  ASSUME Grows, NEW p \in Players, InboxSound(p), inbox'[p] = inbox[p] PROVE InboxSound(p)'
BY BackedStays DEF InboxSound

\* A message is put behind the others.
LEMMA Appended ==
  ASSUME Grows, NEW p \in Players, InboxSound(p), inbox[p] \in Seq(Messages), NEW m \in Messages,
         m.channel = "lobby_update" => Backed(row', m.lobby), inbox'[p] = Append(inbox[p], m)
  PROVE  inbox'[p] \in Seq(Messages) /\ InboxSound(p)'
<1>1. inbox'[p] \in Seq(Messages) /\ Len(inbox'[p]) = Len(inbox[p]) + 1
      /\ DOMAIN inbox'[p] = 1..(Len(inbox[p]) + 1) /\ DOMAIN inbox[p] = 1..Len(inbox[p])
      /\ Len(inbox[p]) \in Nat
  OBVIOUS
<1>2. ASSUME NEW i \in DOMAIN inbox'[p], inbox'[p][i].channel = "lobby_update"
      PROVE  Backed(row', inbox'[p][i].lobby)
  <2>1. CASE i = Len(inbox[p]) + 1
    BY <1>1, <1>2, <2>1
  <2>2. CASE i # Len(inbox[p]) + 1
    <3>1. i \in DOMAIN inbox[p] /\ inbox'[p][i] = inbox[p][i]
      BY <1>1, <2>2
    <3> QED BY <1>2, <3>1, BackedStays DEF InboxSound
  <2> QED BY <2>1, <2>2
<1> QED BY <1>1, <1>2 DEF InboxSound

LEMMA Emptied ==
  ASSUME NEW p \in Players, inbox'[p] = <<>> PROVE inbox'[p] \in Seq(Messages) /\ InboxSound(p)'
BY DEF InboxSound

\* A broadcast reaches the pages that are there.
LEMMA Broadcasts ==
  ASSUME Inv, Grows, NEW m \in Messages, m.channel = "lobby_update" => Backed(row', m.lobby),
         Broadcast(m)
  PROVE  /\ inbox' \in [Players -> Seq(Messages)]
         /\ \A p \in Players : /\ InboxSound(p)'
                               /\ page[p].at # "table" => inbox'[p] = <<>>
<1>1. ASSUME NEW p \in Players
      PROVE  inbox'[p] \in Seq(Messages) /\ InboxSound(p)' /\ (page[p].at # "table" => inbox'[p] = <<>>)
  <2>1. CASE p \in Seated
    <3>1. inbox'[p] = Append(inbox[p], m)
      BY <2>1 DEF Broadcast
    <3> QED BY <2>1, <3>1, Appended DEF Inv, Typed, Seated
  <2>2. CASE p \notin Seated
    <3>1. inbox'[p] = inbox[p]
      BY <2>2 DEF Broadcast
    <3> QED BY <2>2, <3>1, InboxStays DEF Inv, Typed, Seated, PageSound
  <2> QED BY <2>1, <2>2
<1> QED BY <1>1 DEF Broadcast

\* A departure empties one page's inbox and tells the other page.
LEMMA Departs ==
  ASSUME Inv, Grows, NEW p \in Players, Departure(p)
  PROVE  /\ inbox' \in [Players -> Seq(Messages)]
         /\ \A q \in Players : /\ InboxSound(q)'
                               /\ q = p \/ page[q].at # "table" => inbox'[q] = <<>>
<1> DEFINE m == [channel |-> "opponent_disconnected", by |-> p]
<1>1. m \in Messages /\ m.channel # "lobby_update"
  BY DEF Messages, Notices
<1>2. ASSUME NEW q \in Players
      PROVE  /\ inbox'[q] \in Seq(Messages) /\ InboxSound(q)'
             /\ q = p \/ page[q].at # "table" => inbox'[q] = <<>>
  <2>1. CASE q # p /\ q \in Seated
    <3>1. inbox'[q] = Append(inbox[q], m)
      BY <2>1 DEF Departure
    <3> HIDE DEF m
    <3> QED BY <1>1, <2>1, <3>1, Appended DEF Inv, Typed, Seated
  <2>2. CASE ~(q # p /\ q \in Seated)
    BY <2>2, Emptied DEF Departure
  <2> QED BY <2>1, <2>2
<1> QED BY <1>2 DEF Departure

----------------------------------------------------------------------------
\* The parts make the whole again: in every step one player's page or request moves.
LEMMA Assemble ==
  ASSUME Inv, Grows, NEW p \in Players,
         page' \in [Players -> Pages], call' \in [Players -> Calls],
         inbox' \in [Players -> Seq(Messages)],
         \A q \in Players \ {p} : page'[q] = page[q] /\ call'[q] = call[q],
         \A q \in Players \ {p} : page[q].at # "table" => inbox'[q] = <<>>,
         RowSound', PageSound(p)', CallSound(p)', \A q \in Players : InboxSound(q)'
  PROVE  Inv'
<1>1. Typed'
  BY DEF Typed, Grows
<1>2. ASSUME NEW q \in Players \ {p} PROVE PageSound(q)' /\ CallSound(q)'
  BY PageStays, CallStays DEF Inv
<1> QED BY <1>1, <1>2 DEF Inv

\* The row is left as it is, or only the request for a rematch changes.
LEMMA RowStays ==
  ASSUME Inv, row' \in Rows, row'.secret = row.secret, row'.ready = row.ready,
         row'.started = row.started, row'.over = row.over
  PROVE  Grows /\ RowSound'
BY DEF Inv, Grows, RowSound, Backed

\* What is on the way stays on the way.
LEMMA InboxesStay ==
  ASSUME Inv, Grows, UNCHANGED inbox
  PROVE  /\ inbox' \in [Players -> Seq(Messages)]
         /\ \A q \in Players : InboxSound(q)' /\ (page[q].at # "table" => inbox'[q] = <<>>)
BY InboxStays DEF Inv, Typed, PageSound

LEMMA GotoCall ==
  ASSUME Inv, NEW p \in Players, NEW step \in {"checked", "saved", "read", "answered", "failed"},
         Goto(p, step)
  PROVE  /\ call' \in [Players -> Calls]
         /\ \A q \in Players \ {p} : call'[q] = call[q]
         /\ call'[p].op = call[p].op /\ call'[p].at = step /\ call'[p].snap = call[p].snap
<1>1. call[p] \in Calls
  BY DEF Inv, Typed
<1>2. call' = [call EXCEPT ![p] = [call[p] EXCEPT !.at = step]]
  BY DEF Goto, Inv, Typed
<1> QED BY <1>1, <1>2 DEF Calls, Inv, Typed

LEMMA SnapshotSound == ASSUME Inv PROVE Snapshot \in Lobbies /\ Backed(row, Snapshot)
BY DEF Inv, Typed, Rows, Snapshot, Lobbies, RowSound, Backed

----------------------------------------------------------------------------
(* The page's buttons *)

\* What a screen offers was paid for: nobody is offered to get ready without a secret,
\* or to guess before both have one.
LEMMA OfferSound ==
  ASSUME Inv, NEW p \in Players, NEW op \in Offered(p)
  PROVE  /\ op \in {"pick", "setSecretChar", "ready", "unready", "guess",
                    "rematch", "accept", "decline", "cancel"}
         /\ op = "ready" => row.secret[p]
         /\ op = "guess" => row.started /\ \A q \in Players : row.secret[q]
         /\ op \in Rematches => row.over /\ Over(p)
<1>1. PageSound(p)
  BY DEF Inv
<1>2. CASE CharacterSelection(p)
  <2>1. op = "setSecretChar"
    BY <1>2 DEF Offered, CharacterSelection, ReadyScreen, MainGame, Over
  <2> QED BY <2>1 DEF Rematches
<1>3. CASE ~CharacterSelection(p) /\ ReadyScreen(p)
  <2>1. row.secret[p]
    BY <1>1, <1>3 DEF ReadyScreen, PageSound
  <2>2. op \in {"unready", "ready"}
    BY <1>3 DEF Offered, CharacterSelection, ReadyScreen, MainGame, Over
  <2> QED BY <2>1, <2>2 DEF Rematches
<1>4. CASE MainGame(p)
  <2>1. op = "guess"
    BY <1>4 DEF Offered, CharacterSelection, ReadyScreen, MainGame, Over
  <2>2. row.started /\ \A q \in Players : row.secret[q]
    BY <1>1, <1>4 DEF MainGame, PageSound, Backed
  <2> QED BY <2>1, <2>2 DEF Rematches
<1>5. CASE ~CharacterSelection(p) /\ ~ReadyScreen(p) /\ ~MainGame(p)
  <2>1. Over(p) /\ row.over
    BY <1>1, <1>5 DEF CharacterSelection, ReadyScreen, MainGame, Over, PageSound, Backed
  <2>2. op \in Rematches \cup {"pick"}
    BY <1>5 DEF Offered, OverActions, CharacterSelection, ReadyScreen, MainGame, Over, Rematches
  <2> QED BY <2>1, <2>2 DEF Rematches
<1> QED BY <1>2, <1>3, <1>4, <1>5

LEMMA ClickStep == ASSUME Inv, NEW p \in Players, Click(p) PROVE Inv'
<1>1. PICK op \in Offered(p) :
        IF op = "pick" THEN page' = [page EXCEPT ![p].picker = TRUE] /\ UNCHANGED call
        ELSE call' = [call EXCEPT ![p] = [NoCall EXCEPT !.op = op, !.at = "sent"]] /\ UNCHANGED page
  BY DEF Click
<1>2. UNCHANGED <<row, inbox>> /\ Typed
  BY DEF Click, Inv
<1>3. Grows /\ RowSound'
  BY <1>2, RowStays DEF Typed
<1>4. PageSound(p) /\ CallSound(p) /\ page[p] \in Pages
  BY <1>2 DEF Inv, Typed
<1>5. CASE op = "pick"
  <2>1. page'[p] = [page[p] EXCEPT !.picker = TRUE]
        /\ \A q \in Players \ {p} : page'[q] = page[q]
    BY <1>1, <1>2, <1>5 DEF Typed
  <2>2. page'[p] \in Pages /\ page'[p].secret = page[p].secret /\ page'[p].lobby = page[p].lobby
        /\ page'[p].at = page[p].at
    BY <1>4, <2>1 DEF Pages
  <2>3. page' \in [Players -> Pages]
    BY <1>1, <1>2, <1>5, <2>1, <2>2 DEF Typed
  <2>4. PageSound(p)'
    BY <1>2, <1>4, <2>2 DEF PageSound
  <2>5. CallSound(p)'
    BY <1>1, <1>3, <1>4, <1>5, CallStays
  <2>6. UNCHANGED call
    BY <1>1, <1>5
  <2> QED BY <1>2, <1>3, <2>1, <2>3, <2>4, <2>5, <2>6, InboxesStay, Assemble DEF Typed
<1>6. CASE op # "pick"
  <2> DEFINE c == [NoCall EXCEPT !.op = op, !.at = "sent"]
  <2>1. call' = [call EXCEPT ![p] = c] /\ UNCHANGED page
    BY <1>1, <1>6
  <2>2. c \in Calls /\ c.op = op /\ c.at = "sent" /\ c.snap = Blank
    BY <1>6, OfferSound DEF NoCall, Blank, Calls, Lobbies
  <2>3. Backed(row', Blank)
    BY OtherPlayer DEF Backed, Blank
  <2> HIDE DEF c
  <2>4. call' \in [Players -> Calls] /\ call'[p] = c /\ \A q \in Players \ {p} : call'[q] = call[q]
    BY <1>2, <2>1, <2>2 DEF Typed
  <2>5. CallSound(p)'
    BY <1>2, <2>2, <2>3, <2>4, OfferSound DEF CallSound
  <2>6. PageSound(p)'
    BY <1>2, <1>4, <2>1 DEF PageSound
  <2> QED BY <1>2, <1>3, <2>1, <2>4, <2>5, <2>6, InboxesStay, Assemble DEF Typed
<1> QED BY <1>5, <1>6

LEMMA LeaveStep == ASSUME Inv, NEW p \in Players, Leave(p) PROVE Inv'
<1>1. /\ page' = [page EXCEPT ![p].at = "home"] /\ Departure(p)
      /\ UNCHANGED <<row, call>> /\ Typed
  BY DEF Leave, Inv
<1>2. Grows /\ RowSound'
  BY <1>1, RowStays DEF Typed
<1>3. PageSound(p) /\ CallSound(p) /\ page[p] \in Pages
  BY <1>1 DEF Inv, Typed
<1>4. page'[p] = [page[p] EXCEPT !.at = "home"] /\ \A q \in Players \ {p} : page'[q] = page[q]
  BY <1>1 DEF Typed
<1>5. page'[p] \in Pages /\ page'[p].secret = page[p].secret /\ page'[p].lobby = page[p].lobby
  BY <1>3, <1>4 DEF Pages
<1>6. page' \in [Players -> Pages]
  BY <1>1, <1>4, <1>5 DEF Typed
<1>7. inbox'[p] = <<>>
  BY <1>1 DEF Departure
<1>8. PageSound(p)'
  BY <1>1, <1>3, <1>5, <1>7 DEF PageSound
<1>9. CallSound(p)'
  BY <1>1, <1>2, <1>3, CallStays
<1> QED BY <1>1, <1>2, <1>4, <1>6, <1>8, <1>9, Departs, Assemble DEF Typed

----------------------------------------------------------------------------
(* The handlers *)

\* A handler changes the row and goes on; nobody hears of it yet.
LEMMA WriteStep ==
  ASSUME Inv, NEW p \in Players, Grows, RowSound',
         NEW step \in {"checked", "saved", "answered", "failed"}, Goto(p, step),
         UNCHANGED <<page, inbox>>,
         call[p].op = "setSecretChar" /\ step \in {"saved", "answered"} => row'.secret[p],
         call[p].op \in Rematches => step \in {"answered", "failed"}
  PROVE  Inv'
<1>1. PageSound(p) /\ CallSound(p) /\ Typed
  BY DEF Inv
<1>2. PageSound(p)'
  BY <1>1, PageStays DEF PageSound
<1>3. CallSound(p)'
  BY <1>1, GotoCall, BackedStays DEF CallSound, Grows
<1> QED BY <1>1, <1>2, <1>3, GotoCall, InboxesStay, Assemble DEF Typed

LEMMA SetSecretCharStep == ASSUME Inv, NEW p \in Players, SetSecretChar(p) PROVE Inv'
<1>1. /\ row' = [row EXCEPT !.secret[p] = TRUE] /\ Goto(p, "saved") /\ UNCHANGED <<page, inbox>>
      /\ call[p].op = "setSecretChar" /\ row \in Rows /\ RowSound
  BY DEF SetSecretChar, At, Inv, Typed
<1>2. /\ row' \in Rows /\ row'.secret[p] /\ row'.ready = row.ready /\ row'.started = row.started
      /\ row'.over = row.over /\ \A q \in Players : row.secret[q] => row'.secret[q]
  BY <1>1 DEF Rows
<1>3. Grows /\ RowSound'
  BY <1>1, <1>2 DEF Grows, RowSound, Backed
<1> QED BY <1>1, <1>2, <1>3, WriteStep DEF Rematches

LEMMA SetPlayerReadyStep == ASSUME Inv, NEW p \in Players, SetPlayerReady(p) PROVE Inv'
<1> DEFINE ready == [row.ready EXCEPT ![p] = TRUE]
<1>1. /\ row' = [row EXCEPT !.ready = ready, !.started = @ \/ \A q \in Players : ready[q]]
      /\ call[p].op = "ready" /\ Goto(p, "saved") /\ UNCHANGED <<page, inbox>>
      /\ row \in Rows /\ RowSound /\ CallSound(p)
  BY DEF SetPlayerReady, At, Inv, Typed
<1>2. ready \in [Players -> BOOLEAN] /\ \A q \in Players : ready[q] => q = p \/ row.ready[q]
  BY <1>1 DEF Rows
<1> HIDE DEF ready
<1>3. /\ row' \in Rows /\ row'.secret = row.secret /\ row'.ready = ready /\ row'.over = row.over
      /\ row'.started <=> row.started \/ \A q \in Players : ready[q]
  BY <1>1, <1>2 DEF Rows
<1>4. row.secret[p]
  BY <1>1 DEF CallSound
<1>5. Grows /\ RowSound'
  BY <1>1, <1>2, <1>3, <1>4 DEF Grows, RowSound, Backed
<1> QED BY <1>1, <1>5, WriteStep DEF Rematches

LEMMA CheckUnreadyStep == ASSUME Inv, NEW p \in Players, CheckUnready(p) PROVE Inv'
<1>1. PICK step \in {"checked", "answered"} : Goto(p, step)
  BY DEF CheckUnready
<1>2. UNCHANGED <<row, page, inbox>> /\ call[p].op = "unready" /\ row \in Rows
  BY DEF CheckUnready, At, Inv, Typed
<1>3. Grows /\ RowSound'
  BY <1>2, RowStays
<1> QED BY <1>1, <1>2, <1>3, WriteStep DEF Rematches

LEMMA SetPlayerUnreadyStep == ASSUME Inv, NEW p \in Players, SetPlayerUnready(p) PROVE Inv'
<1>1. /\ row' = [row EXCEPT !.ready[p] = FALSE] /\ Goto(p, "saved") /\ UNCHANGED <<page, inbox>>
      /\ call[p].op = "unready" /\ row \in Rows /\ RowSound
  BY DEF SetPlayerUnready, At, Inv, Typed
<1>2. /\ row' \in Rows /\ row'.secret = row.secret /\ row'.started = row.started
      /\ row'.over = row.over /\ \A q \in Players : row'.ready[q] => row.ready[q]
  BY <1>1 DEF Rows
<1>3. Grows /\ RowSound'
  BY <1>1, <1>2 DEF Grows, RowSound, Backed
<1> QED BY <1>1, <1>3, WriteStep DEF Rematches

LEMMA MakeGuessLobbyStep == ASSUME Inv, NEW p \in Players, MakeGuessLobby(p) PROVE Inv'
<1>1. /\ row' = [row EXCEPT !.over = TRUE] /\ Goto(p, "saved") /\ UNCHANGED <<page, inbox>>
      /\ call[p].op = "guess" /\ row \in Rows /\ RowSound /\ CallSound(p)
  BY DEF MakeGuessLobby, At, Inv, Typed
<1>2. /\ row' \in Rows /\ row'.secret = row.secret /\ row'.ready = row.ready
      /\ row'.started = row.started
  BY <1>1 DEF Rows
<1>3. row.started
  BY <1>1 DEF CallSound
<1>4. Grows /\ RowSound'
  BY <1>1, <1>2, <1>3 DEF Grows, RowSound, Backed
<1> QED BY <1>1, <1>4, WriteStep DEF Rematches

LEMMA ReadLobbyStep == ASSUME Inv, NEW p \in Players, ReadLobby(p) PROVE Inv'
<1>1. /\ call' = [call EXCEPT ![p].at = "read", ![p].snap = Snapshot]
      /\ call[p].at = "saved" /\ UNCHANGED <<row, page, inbox>>
      /\ Typed /\ PageSound(p) /\ CallSound(p)
  BY DEF ReadLobby, Inv
<1>2. call' = [call EXCEPT ![p] = [call[p] EXCEPT !.at = "read", !.snap = Snapshot]]
      /\ call[p] \in Calls
  BY <1>1 DEF Typed
<1>3. [call[p] EXCEPT !.at = "read", !.snap = Snapshot] \in Calls
  BY <1>2, SnapshotSound DEF Calls
<1>4. call' \in [Players -> Calls] /\ (\A q \in Players \ {p} : call'[q] = call[q])
      /\ call'[p].op = call[p].op /\ call'[p].at = "read" /\ call'[p].snap = Snapshot
  BY <1>1, <1>2, <1>3 DEF Typed, Calls
<1>5. Grows /\ RowSound'
  BY <1>1, RowStays DEF Typed
<1>6. CallSound(p)'
  BY <1>1, <1>4, SnapshotSound DEF CallSound
<1>7. PageSound(p)'
  BY <1>1 DEF PageSound
<1> QED BY <1>1, <1>4, <1>5, <1>6, <1>7, InboxesStay, Assemble DEF Typed

\* A handler tells both pages and answers.
LEMMA TellStep ==
  ASSUME Inv, NEW p \in Players, row' \in Rows, row'.secret = row.secret,
         row'.ready = row.ready, row'.started = row.started, row'.over = row.over,
         NEW m \in Messages, m.channel = "lobby_update" => Backed(row, m.lobby),
         Broadcast(m) \/ UNCHANGED inbox, Goto(p, "answered"), UNCHANGED page,
         call[p].op = "setSecretChar" => call[p].at = "read"
  PROVE  Inv'
<1>1. Grows /\ RowSound' /\ Typed /\ PageSound(p) /\ CallSound(p)
  BY RowStays DEF Inv
<1>2. m.channel = "lobby_update" => Backed(row', m.lobby)
  BY <1>1, BackedStays
<1>3. /\ inbox' \in [Players -> Seq(Messages)]
      /\ \A q \in Players : InboxSound(q)' /\ (page[q].at # "table" => inbox'[q] = <<>>)
  BY <1>1, <1>2, Broadcasts, InboxesStay
<1>4. PageSound(p)'
  BY <1>1, <1>3, PageStays
<1>5. CallSound(p)'
  BY <1>1, GotoCall, BackedStays DEF CallSound
<1> QED BY <1>1, <1>3, <1>4, <1>5, GotoCall, Assemble DEF Typed

LEMMA BroadcastLobbyUpdateStep ==
  ASSUME Inv, NEW p \in Players, BroadcastLobbyUpdate(p) PROVE Inv'
<1> DEFINE m == [channel |-> "lobby_update", lobby |-> call[p].snap]
<1>1. /\ call[p].at = "read" /\ Broadcast(m) /\ Goto(p, "answered") /\ UNCHANGED <<row, page>>
      /\ row \in Rows /\ call[p] \in Calls /\ CallSound(p)
  BY DEF BroadcastLobbyUpdate, Inv, Typed
<1>2. m \in Messages /\ Backed(row, m.lobby)
  BY <1>1 DEF Messages, Updates, Calls, CallSound
<1> HIDE DEF m
<1> QED BY <1>1, <1>2, TellStep

\* The three requests of a rematch.
LEMMA RematchStep ==
  ASSUME Inv, NEW p \in Players, RequestRematch(p) \/ AcceptRematch(p) \/ DeclineRematch(p)
  PROVE  Inv'
<1>1. row \in Rows /\ UNCHANGED page /\ Goto(p, "answered")
  BY DEF Inv, Typed, RequestRematch, AcceptRematch, DeclineRematch
<1>2. /\ row' \in Rows /\ row'.secret = row.secret /\ row'.ready = row.ready
      /\ row'.started = row.started /\ row'.over = row.over
  BY <1>1 DEF RequestRematch, AcceptRematch, DeclineRematch, Rows
<1>3. call[p].op # "setSecretChar"
  BY DEF RequestRematch, AcceptRematch, DeclineRematch, At
<1>4. PICK m \in Notices \cup Ready : Broadcast(m) \/ UNCHANGED inbox
  BY DEF RequestRematch, AcceptRematch, DeclineRematch, Notices, Ready
<1>5. m \in Messages /\ m.channel # "lobby_update"
  BY <1>4 DEF Messages, Notices, Ready
<1> QED BY <1>1, <1>2, <1>3, <1>4, <1>5, TellStep

LEMMA FailStep == ASSUME Inv, NEW p \in Players, Fail(p) PROVE Inv'
<1>1. UNCHANGED <<row, page, inbox>> /\ Goto(p, "failed") /\ row \in Rows
  BY DEF Fail, Inv, Typed
<1> QED BY <1>1, RowStays, WriteStep

----------------------------------------------------------------------------
(* What reaches the page *)

LEMMA AnswerTyped ==
  ASSUME NEW s \in Pages, NEW c \in Calls
  PROVE  /\ OnAnswer(s, c) \in Pages
         /\ OnAnswer(s, c).lobby = s.lobby /\ OnAnswer(s, c).at = s.at
         /\ OnAnswer(s, c).secret => s.secret \/ (c.op = "setSecretChar" /\ c.at # "failed")
BY DEF OnAnswer, Pages

LEMMA AnsweredStep == ASSUME Inv, NEW p \in Players, Answered(p) PROVE Inv'
<1>1. /\ call[p].at \in {"answered", "failed"}
      /\ call' = [call EXCEPT ![p] = NoCall]
      /\ page' = [page EXCEPT ![p] = OnAnswer(page[p], call[p])]
      /\ UNCHANGED <<row, inbox>> /\ Typed /\ PageSound(p) /\ CallSound(p)
  BY DEF Answered, Inv, Typed
<1>2. page[p] \in Pages /\ call[p] \in Calls
  BY <1>1 DEF Typed
<1>3. /\ page' \in [Players -> Pages] /\ page'[p] = OnAnswer(page[p], call[p])
      /\ \A q \in Players \ {p} : page'[q] = page[q]
  BY <1>1, <1>2, AnswerTyped DEF Typed
<1>4. NoCall \in Calls /\ NoCall.op = "none" /\ NoCall.snap = Blank
  BY DEF NoCall, Calls, Blank, Lobbies
<1>5. /\ call' \in [Players -> Calls] /\ call'[p] = NoCall
      /\ \A q \in Players \ {p} : call'[q] = call[q]
  BY <1>1, <1>4 DEF Typed
<1>6. Grows /\ RowSound'
  BY <1>1, RowStays DEF Typed
<1>7. PageSound(p)'
  BY <1>1, <1>2, <1>3, AnswerTyped DEF PageSound, CallSound
<1>8. Backed(row', Blank)
  BY OtherPlayer DEF Backed, Blank
<1>9. CallSound(p)'
  BY <1>4, <1>5, <1>8 DEF CallSound, Rematches
<1> QED BY <1>1, <1>3, <1>5, <1>6, <1>7, <1>9, InboxesStay, Assemble

LEMMA MessageTyped ==
  ASSUME NEW p \in Players, NEW s \in Pages, NEW m \in Messages
  PROVE  /\ OnMessage(p, s, m) \in Pages
         /\ OnMessage(p, s, m).secret = s.secret
         /\ OnMessage(p, s, m).at = IF m.channel = "rematch_ready" THEN "rematch" ELSE s.at
         /\ OnMessage(p, s, m).lobby = IF m.channel = "lobby_update" THEN m.lobby ELSE s.lobby
<1>1. CASE m \in Updates
  <2>1. m.channel = "lobby_update" /\ m.lobby \in Lobbies /\ m.lobby.over \in BOOLEAN
    BY <1>1 DEF Updates, Lobbies
  <2>2. OnMessage(p, s, m) = OnLobbyUpdate(s, m)
    BY <2>1 DEF OnMessage
  <2> QED BY <2>1, <2>2 DEF OnLobbyUpdate, Pages
<1>2. CASE m \in Notices
  <2>1. m.channel \in {"rematch_request", "rematch_declined", "opponent_disconnected",
                       "player_reconnected"}
    BY <1>2 DEF Notices
  <2> QED BY <2>1 DEF OnMessage, OnDisconnect, OnReconnected, Pages
<1>3. CASE m \in Ready
  <2>1. m.channel = "rematch_ready"
    BY <1>3 DEF Ready
  <2> QED BY <2>1 DEF OnMessage, Pages
<1> QED BY <1>1, <1>2, <1>3 DEF Messages

LEMMA ReceiveStep == ASSUME Inv, NEW p \in Players, Receive(p) PROVE Inv'
<1> DEFINE m == Head(inbox[p])
<1>1. /\ page[p].at = "table" /\ inbox[p] # <<>>
      /\ page' = [page EXCEPT ![p] = OnMessage(p, page[p], m)]
      /\ UNCHANGED <<row, call>> /\ Typed /\ PageSound(p) /\ CallSound(p) /\ InboxSound(p)
  BY DEF Receive, Inv, Typed
<1>2. inbox[p] \in Seq(Messages) /\ page[p] \in Pages
  BY <1>1 DEF Typed
<1>3. m \in Messages /\ m = inbox[p][1] /\ 1 \in DOMAIN inbox[p]
  BY <1>1, <1>2
<1>4. m.channel = "lobby_update" => Backed(row, m.lobby)
  BY <1>1, <1>3 DEF InboxSound
<1>5. Grows /\ RowSound'
  BY <1>1, RowStays DEF Typed
<1> HIDE DEF m
<1>6. /\ page' \in [Players -> Pages] /\ page'[p] = OnMessage(p, page[p], m)
      /\ \A q \in Players \ {p} : page'[q] = page[q]
  BY <1>1, <1>2, <1>3, MessageTyped DEF Typed
<1>7. Backed(row', page'[p].lobby) /\ (page'[p].secret => row'.secret[p])
  BY <1>1, <1>2, <1>3, <1>4, <1>6, MessageTyped DEF PageSound
<1>8. CallSound(p)'
  BY <1>1, <1>5, CallStays
<1>9. CASE m.channel = "rematch_ready"
  <2>1. Departure(p)
    BY <1>9 DEF Receive, m
  <2>2. inbox'[p] = <<>>
    BY <2>1 DEF Departure
  <2>3. PageSound(p)'
    BY <1>7, <2>2 DEF PageSound
  <2> QED BY <1>1, <1>5, <1>6, <1>8, <2>1, <2>3, Departs, Assemble DEF Typed
<1>10. CASE m.channel # "rematch_ready"
  <2>1. inbox' = [inbox EXCEPT ![p] = Tail(inbox[p])]
    BY <1>10 DEF Receive, m
  <2>2. inbox'[p] = Tail(inbox[p]) /\ \A q \in Players \ {p} : inbox'[q] = inbox[q]
    BY <1>1, <2>1 DEF Typed
  <2>3. /\ inbox'[p] \in Seq(Messages)
        /\ \A i \in DOMAIN inbox'[p] : i + 1 \in DOMAIN inbox[p] /\ inbox'[p][i] = inbox[p][i + 1]
    BY <1>1, <1>2, <2>2
  <2>4. InboxSound(p)'
    BY <1>1, <2>3 DEF InboxSound
  <2>5. \A q \in Players \ {p} : InboxSound(q)' /\ (page[q].at # "table" => inbox'[q] = <<>>)
    BY <1>5, <2>2, InboxStays DEF Inv, PageSound
  <2>6. inbox' \in [Players -> Seq(Messages)]
    BY <1>1, <2>1, <2>3 DEF Typed
  <2>7. page'[p].at = "table"
    BY <1>1, <1>2, <1>3, <1>6, <1>10, MessageTyped
  <2>8. PageSound(p)'
    BY <1>7, <2>7 DEF PageSound
  <2> QED BY <1>1, <1>5, <1>6, <1>8, <2>4, <2>5, <2>6, <2>8, Assemble DEF Typed
<1> QED BY <1>9, <1>10

LEMMA ReconnectStep == ASSUME Inv, NEW p \in Players, Reconnect(p) PROVE Inv'
<1> DEFINE update == [channel |-> "lobby_update", lobby |-> Snapshot]
           gone   == [channel |-> "opponent_disconnected", by |-> p]
           back   == [channel |-> "player_reconnected", by |-> p]
           told   == <<gone, back, update>>
           o      == Other(p)
<1>1. /\ page[p].at = "table" /\ UNCHANGED <<row, page, call>> /\ Typed
      /\ inbox' = [inbox EXCEPT ![p] = <<update>>,
                                ![o] = IF o \notin Seated THEN @ ELSE @ \o told]
  BY DEF Reconnect, Inv
<1>2. o \in Players /\ o # p /\ \A q \in Players : q \in {p, o}
  BY OtherPlayer, TableAssumption
<1>3. /\ update \in Messages /\ update.channel = "lobby_update" /\ Backed(row, update.lobby)
      /\ gone \in Messages /\ gone.channel # "lobby_update"
      /\ back \in Messages /\ back.channel # "lobby_update"
  BY SnapshotSound DEF Messages, Updates, Notices
<1>4. Grows /\ RowSound'
  BY <1>1, RowStays DEF Typed
<1> HIDE DEF update, gone, back, o
<1>5. inbox'[p] = <<update>> /\ inbox'[o] = IF o \notin Seated THEN inbox[o] ELSE inbox[o] \o told
  BY <1>1, <1>2 DEF Typed
<1>6. inbox'[p] \in Seq(Messages) /\ InboxSound(p)'
  <2>1. /\ inbox'[p] \in Seq(Messages)
        /\ \A i \in DOMAIN inbox'[p] : inbox'[p][i] = update
    BY <1>3, <1>5
  <2>2. Backed(row', update.lobby)
    BY <1>1, <1>3
  <2> QED BY <2>1, <2>2 DEF InboxSound
<1>7. inbox'[o] \in Seq(Messages) /\ InboxSound(o)' /\ (page[o].at # "table" => inbox'[o] = <<>>)
  <2>1. CASE o \notin Seated
    BY <1>2, <1>4, <1>5, <2>1, InboxStays DEF Inv, Typed, PageSound
  <2>2. CASE o \in Seated
    <3>1. inbox[o] \in Seq(Messages) /\ InboxSound(o)
      BY <1>2 DEF Inv, Typed
    <3>2. /\ Len(inbox[o]) \in Nat /\ told \in Seq(Messages)
          /\ inbox'[o] \in Seq(Messages) /\ Len(inbox'[o]) = Len(inbox[o]) + 3
          /\ DOMAIN inbox'[o] = 1..(Len(inbox[o]) + 3) /\ DOMAIN inbox[o] = 1..Len(inbox[o])
      BY <1>3, <1>5, <2>2, <3>1
    <3>3. ASSUME NEW i \in DOMAIN inbox'[o]
          PROVE  \/ i \in DOMAIN inbox[o] /\ inbox'[o][i] = inbox[o][i]
                 \/ inbox'[o][i] \in {gone, back, update}
      BY <1>5, <2>2, <3>1, <3>2
    <3>4. InboxSound(o)'
      BY <1>1, <1>3, <3>1, <3>3 DEF InboxSound
    <3> QED BY <2>2, <3>2, <3>4 DEF Seated
  <2> QED BY <2>1, <2>2
<1>8. inbox' \in [Players -> Seq(Messages)]
  BY <1>1, <1>2, <1>6, <1>7 DEF Typed
<1>9. PageSound(p)' /\ CallSound(p)'
  BY <1>1, <1>4, CallStays, PageStays DEF Inv
<1> QED BY <1>1, <1>2, <1>4, <1>6, <1>7, <1>8, <1>9, Assemble DEF Typed

----------------------------------------------------------------------------
LEMMA InvNext == Inv /\ [Next]_vars => Inv'
<1> SUFFICES ASSUME Inv, [Next]_vars PROVE Inv'
  OBVIOUS
<1>1. ASSUME NEW p \in Players, Handlers(p) PROVE Inv'
  BY <1>1, SetSecretCharStep, SetPlayerReadyStep, CheckUnreadyStep, SetPlayerUnreadyStep,
     MakeGuessLobbyStep, ReadLobbyStep, BroadcastLobbyUpdateStep, RematchStep DEF Handlers
<1>2. ASSUME NEW p \in Players,
             Click(p) \/ Leave(p) \/ Fail(p) \/ Answered(p) \/ Receive(p) \/ Reconnect(p)
      PROVE  Inv'
  BY <1>2, ClickStep, LeaveStep, FailStep, AnsweredStep, ReceiveStep, ReconnectStep
<1>3. CASE UNCHANGED vars
  BY <1>3 DEF vars, Inv, Typed, RowSound, PageSound, CallSound, InboxSound
<1> QED BY <1>1, <1>2, <1>3 DEF Next

LEMMA InvInit == Init => Inv
<1> SUFFICES ASSUME Init PROVE Inv
  OBVIOUS
<1>1. PICK played \in BOOLEAN :
        row = [secret |-> [p \in Players |-> played], ready |-> [p \in Players |-> played],
               started |-> played, over |-> played, by |-> NoOne, rematches |-> 0]
  BY DEF Init
<1>2. row \in Rows /\ RowSound
  <2>1. row \in Rows
    BY <1>1 DEF Rows
  <2>2. /\ row.started = played /\ row.over = played
        /\ \A q \in Players : row.secret[q] = played /\ row.ready[q] = played
    BY <1>1
  <2>3. \E q \in Players : TRUE
    BY TableAssumption
  <2> QED BY <2>1, <2>2, <2>3 DEF RowSound, Backed
<1>3. Snapshot \in Lobbies /\ Backed(row, Snapshot)
  BY <1>1, <1>2 DEF Snapshot, Lobbies, RowSound, Backed
<1>4. ASSUME NEW p \in Players
      PROVE  /\ page[p] \in Pages /\ page[p].lobby = Snapshot /\ page[p].at = "table"
             /\ page[p].secret = row.over
  <2>1. page[p] = [NewPage EXCEPT !.lobby = Snapshot, !.secret = row.over]
    BY DEF Init
  <2> QED BY <1>1, <1>3, <2>1 DEF NewPage, Pages
<1>5. NoCall \in Calls /\ NoCall.op = "none" /\ NoCall.snap = Blank /\ Backed(row, Blank)
  BY OtherPlayer, TableAssumption DEF NoCall, Calls, Blank, Lobbies, Backed
<1>6. Typed
  BY <1>2, <1>4, <1>5 DEF Init, Typed
<1>7. ASSUME NEW p \in Players PROVE PageSound(p) /\ CallSound(p) /\ InboxSound(p)
  <2>1. page[p].secret => row.secret[p]
    BY <1>1, <1>4
  <2>2. call[p] = NoCall /\ inbox[p] = <<>>
    BY DEF Init
  <2> QED BY <1>3, <1>4, <1>5, <2>1, <2>2 DEF PageSound, CallSound, InboxSound, Rematches
<1> QED BY <1>2, <1>6, <1>7 DEF Inv

LEMMA InvInvariant == Spec => []Inv
BY InvInit, InvNext, PTL DEF Spec

\* The rows, the pages and the requests keep their types, and no game is over that has
\* not started, however many requests fail and connections are replaced.
THEOREM TypeCorrect == Spec => []TypeOK
<1>1. Inv => TypeOK
  BY DEF Inv, Typed, RowSound, PageSound, TypeOK, Rows, Pages, Calls
<1> QED BY <1>1, InvInvariant, PTL

\* A guess is never compared with a character that was not chosen: whatever a page has
\* seen of the lobby, and however late, both players had a character when it was sent.
THEOREM GuessHasAnswerHolds == Spec => []GuessHasAnswer
<1>1. Inv => GuessHasAnswer
  BY OtherPlayer DEF Inv, CallSound, GuessHasAnswer, At
<1> QED BY <1>1, InvInvariant, PTL

----------------------------------------------------------------------------
(* What is on its way to a page *)

\* Messages that matter to p's rematch.
Asks(p, m)    == m.channel = "rematch_request" /\ m.by # p
Refuses(p, m) == m.channel = "rematch_declined" /\ m.by # p
Announces(m)      == m.channel = "rematch_ready"

Asked(p, s)   == \E i \in DOMAIN s : Asks(p, s[i])
Refused(p, s) == \E i \in DOMAIN s : Refuses(p, s[i])
Announced(s)     == \E i \in DOMAIN s : Announces(s[i])

\* No question before a refusal; the new lobby before any question.
RefusedFirst(p, s) == \A i \in DOMAIN s : Asks(p, s[i]) => \E j \in 1..(i - 1) : Refuses(p, s[j])
AnnouncedFirst(p, s)  == \E i \in DOMAIN s : Announces(s[i]) /\ \A j \in 1..i : ~Asks(p, s[j])

\* The lobby that a page with lobby l will show when it has received s.
Ends(s, l, last) ==
  \/ \E i \in DOMAIN s :
       /\ s[i].channel = "lobby_update" /\ s[i].lobby = last
       /\ \A j \in DOMAIN s : j > i => s[j].channel # "lobby_update"
  \/ l = last /\ \A i \in DOMAIN s : s[i].channel # "lobby_update"

\* p's opponent comes back in the end.
Returns(p, m) == m.channel = "player_reconnected" /\ m.by # p
Returned(p, s) == \E i \in DOMAIN s : Returns(p, s[i])
ReturnedLast(p, s) ==
  \A i \in DOMAIN s : s[i].channel = "opponent_disconnected" =>
    \E j \in DOMAIN s : j > i /\ Returns(p, s[j])

\* Nothing of a rematch is lost between s and t, and nothing but refusals added.
Quiet(p, s, t) ==
  /\ Asked(p, t) => Asked(p, s)
  /\ Announced(t) => Announced(s)
  /\ Refused(p, s) => Refused(p, t)
  /\ RefusedFirst(p, s) => RefusedFirst(p, t)
  /\ AnnouncedFirst(p, s) => AnnouncedFirst(p, t)

LEMMA AppendedAt ==
  ASSUME NEW T, NEW s \in Seq(T), NEW m \in T
  PROVE  /\ Len(s) \in Nat /\ DOMAIN s = 1..Len(s)
         /\ Append(s, m) \in Seq(T) /\ DOMAIN Append(s, m) = 1..(Len(s) + 1)
         /\ Append(s, m)[Len(s) + 1] = m
         /\ \A i \in DOMAIN s : i \in DOMAIN Append(s, m) /\ Append(s, m)[i] = s[i]
         /\ \A i \in DOMAIN Append(s, m) : i \in DOMAIN s \/ i = Len(s) + 1
OBVIOUS

LEMMA RestAt ==
  ASSUME NEW T, NEW s \in Seq(T), s # <<>>
  PROVE  /\ Len(s) \in Nat /\ DOMAIN s = 1..Len(s) /\ 1 \in DOMAIN s /\ Head(s) = s[1]
         /\ Head(s) \in T /\ Tail(s) \in Seq(T) /\ DOMAIN Tail(s) = 1..(Len(s) - 1)
         /\ \A i \in DOMAIN Tail(s) : i + 1 \in DOMAIN s /\ Tail(s)[i] = s[i + 1]
         /\ \A i \in DOMAIN s : i = 1 \/ (i - 1 \in DOMAIN Tail(s) /\ Tail(s)[i - 1] = s[i])
OBVIOUS

\* What a message put behind the others adds.
LEMMA PutBehind ==
  ASSUME NEW p, NEW s \in Seq(Messages), NEW m \in Messages
  PROVE  LET t == Append(s, m) IN
         /\ Asked(p, t) => Asked(p, s) \/ Asks(p, m)
         /\ Announced(t) => Announced(s) \/ Announces(m)
         /\ Refused(p, s) \/ Refuses(p, m) => Refused(p, t)
         /\ RefusedFirst(p, s) /\ (Asks(p, m) => Refused(p, s)) => RefusedFirst(p, t)
         /\ AnnouncedFirst(p, s) => AnnouncedFirst(p, t)
         /\ Announces(m) /\ ~Asked(p, s) => AnnouncedFirst(p, t)
<1> DEFINE t == Append(s, m)
           n == Len(s) + 1
<1>1. /\ Len(s) \in Nat /\ DOMAIN s = 1..Len(s) /\ DOMAIN t = 1..n /\ n \in DOMAIN t /\ t[n] = m
      /\ \A i \in DOMAIN s : i \in DOMAIN t /\ t[i] = s[i]
      /\ \A i \in DOMAIN t : i \in DOMAIN s \/ i = n
  BY AppendedAt
<1>2. n \in Nat /\ n = Len(s) + 1
  BY <1>1
<1> HIDE DEF t, n
<1>3. (Asked(p, t) => Asked(p, s) \/ Asks(p, m)) /\ (Announced(t) => Announced(s) \/ Announces(m))
  BY <1>1 DEF Asked, Announced
<1>4. Refused(p, s) \/ Refuses(p, m) => Refused(p, t)
  BY <1>1 DEF Refused
<1>5. RefusedFirst(p, s) /\ (Asks(p, m) => Refused(p, s)) => RefusedFirst(p, t)
  <2> SUFFICES ASSUME RefusedFirst(p, s), Asks(p, m) => Refused(p, s),
                      NEW i \in DOMAIN t, Asks(p, t[i])
               PROVE  \E j \in 1..(i - 1) : Refuses(p, t[j])
    BY DEF RefusedFirst
  <2>1. CASE i \in DOMAIN s
    <3>1. PICK j \in 1..(i - 1) : Refuses(p, s[j])
      BY <1>1, <2>1 DEF RefusedFirst
    <3>2. j \in DOMAIN s
      BY <1>1, <2>1
    <3> QED BY <1>1, <3>1, <3>2
  <2>2. CASE i = n
    <3>1. PICK j \in DOMAIN s : Refuses(p, s[j])
      BY <1>1, <2>2 DEF Refused
    <3>2. j \in 1..(i - 1) /\ t[j] = s[j]
      BY <1>1, <1>2, <2>2
    <3> QED BY <3>1, <3>2
  <2> QED BY <1>1, <2>1, <2>2
<1>6. AnnouncedFirst(p, s) => AnnouncedFirst(p, t)
  <2> SUFFICES ASSUME AnnouncedFirst(p, s) PROVE AnnouncedFirst(p, t)
    OBVIOUS
  <2>1. PICK i \in DOMAIN s : Announces(s[i]) /\ \A j \in 1..i : ~Asks(p, s[j])
    BY DEF AnnouncedFirst
  <2>2. i \in DOMAIN t /\ Announces(t[i])
    BY <1>1, <2>1
  <2>3. ASSUME NEW j \in 1..i PROVE ~Asks(p, t[j])
    <3>1. j \in DOMAIN s
      BY <1>1, <2>1
    <3> QED BY <1>1, <2>1, <3>1
  <2> QED BY <2>2, <2>3 DEF AnnouncedFirst
<1>7. Announces(m) /\ ~Asked(p, s) => AnnouncedFirst(p, t)
  <2> SUFFICES ASSUME Announces(m), ~Asked(p, s) PROVE AnnouncedFirst(p, t)
    OBVIOUS
  <2>1. ~Asks(p, m)
    BY DEF Announces, Asks
  <2>2. \A j \in 1..n : ~Asks(p, t[j])
    BY <1>1, <2>1 DEF Asked
  <2> QED BY <1>1, <2>2 DEF AnnouncedFirst
<1> QED BY <1>3, <1>4, <1>5, <1>6, <1>7 DEF t

\* What is left when the first message has been taken.
LEMMA TakeFirst ==
  ASSUME NEW p, NEW s \in Seq(Messages), s # <<>>
  PROVE  LET m == Head(s)
             t == Tail(s) IN
         /\ Asked(p, t) \/ Asks(p, m) => Asked(p, s)
         /\ Announced(t) \/ Announces(m) => Announced(s)
         /\ Refused(p, s) => Refused(p, t) \/ Refuses(p, m)
         /\ RefusedFirst(p, s) => ~Asks(p, m) /\ (RefusedFirst(p, t) \/ Refuses(p, m))
         /\ AnnouncedFirst(p, s) => Announces(m) \/ (~Asks(p, m) /\ AnnouncedFirst(p, t))
<1> DEFINE m == Head(s)
           t == Tail(s)
<1>1. /\ Len(s) \in Nat /\ DOMAIN s = 1..Len(s) /\ 1 \in DOMAIN s /\ m = s[1]
      /\ DOMAIN t = 1..(Len(s) - 1)
      /\ \A i \in DOMAIN t : i + 1 \in DOMAIN s /\ t[i] = s[i + 1]
      /\ \A i \in DOMAIN s : i = 1 \/ (i - 1 \in DOMAIN t /\ t[i - 1] = s[i])
  BY RestAt
<1> HIDE DEF m, t
<1>2. (Asked(p, t) \/ Asks(p, m) => Asked(p, s)) /\ (Announced(t) \/ Announces(m) => Announced(s))
  BY <1>1 DEF Asked, Announced
<1>3. Refused(p, s) => Refused(p, t) \/ Refuses(p, m)
  BY <1>1 DEF Refused
<1>4. RefusedFirst(p, s) => ~Asks(p, m)
  <2> SUFFICES ASSUME RefusedFirst(p, s), Asks(p, s[1]) PROVE FALSE
    BY <1>1
  <2>1. PICK j \in 1..(1 - 1) : Refuses(p, s[j])
    BY <1>1 DEF RefusedFirst
  <2> QED BY <2>1
<1>5. RefusedFirst(p, s) => RefusedFirst(p, t) \/ Refuses(p, m)
  <2> SUFFICES ASSUME RefusedFirst(p, s), ~Refuses(p, s[1]), NEW i \in DOMAIN t, Asks(p, t[i])
               PROVE  \E j \in 1..(i - 1) : Refuses(p, t[j])
    BY <1>1 DEF RefusedFirst
  <2>1. PICK j \in 1..((i + 1) - 1) : Refuses(p, s[j])
    BY <1>1 DEF RefusedFirst
  <2>2. j # 1 /\ j \in DOMAIN s /\ j - 1 \in 1..(i - 1)
    BY <1>1, <2>1
  <2> QED BY <1>1, <2>1, <2>2
<1>6. AnnouncedFirst(p, s) => Announces(m) \/ (~Asks(p, m) /\ AnnouncedFirst(p, t))
  <2> SUFFICES ASSUME AnnouncedFirst(p, s), ~Announces(s[1]) PROVE ~Asks(p, s[1]) /\ AnnouncedFirst(p, t)
    BY <1>1
  <2>1. PICK i \in DOMAIN s : Announces(s[i]) /\ \A j \in 1..i : ~Asks(p, s[j])
    BY DEF AnnouncedFirst
  <2>2. i # 1 /\ 1 \in 1..i
    BY <1>1, <2>1
  <2>3. i - 1 \in DOMAIN t /\ Announces(t[i - 1])
    BY <1>1, <2>1, <2>2
  <2>4. ASSUME NEW j \in 1..(i - 1) PROVE ~Asks(p, t[j])
    <3>1. j \in DOMAIN t /\ j + 1 \in 1..i
      BY <1>1, <2>1
    <3> QED BY <1>1, <2>1, <3>1
  <2> QED BY <2>1, <2>2, <2>3, <2>4 DEF AnnouncedFirst
<1> QED BY <1>2, <1>3, <1>4, <1>5, <1>6 DEF m, t

LEMMA QuietAppend ==
  ASSUME NEW p, NEW s \in Seq(Messages), NEW m \in Messages, ~Asks(p, m), ~Announces(m)
  PROVE  Quiet(p, s, Append(s, m))
BY PutBehind DEF Quiet

\* A message that reaches p's page, or does not if nobody is there.
Hears(p, m) == inbox'[p] = IF p \in Seated THEN Append(inbox[p], m) ELSE inbox[p]

LEMMA QuietHears ==
  ASSUME Inv, NEW p \in Players, NEW m \in Messages, ~Asks(p, m), ~Announces(m),
         inbox'[p] = inbox[p] \/ Hears(p, m)
  PROVE  Quiet(p, inbox[p], inbox'[p])
<1>1. inbox[p] \in Seq(Messages)
  BY DEF Inv, Typed
<1>2. CASE inbox'[p] = inbox[p]
  BY <1>2 DEF Quiet
<1>3. CASE inbox'[p] = Append(inbox[p], m)
  BY <1>1, <1>3, QuietAppend
<1> QED BY <1>2, <1>3 DEF Hears

----------------------------------------------------------------------------
(* The rematch *)

\* p has asked for one and has not taken it back.
Hopes(p) == At(p, "rematch", "answered") \/ (page[p].waiting /\ ~At(p, "cancel", "answered"))

AskSound(p) ==
  /\ call[p].op = "rematch" => ~page[p].incoming
  /\ call[p].op \in {"accept", "decline"} => ~page[p].waiting
  /\ Hopes(p) => /\ ~page[p].incoming /\ RefusedFirst(p, inbox[p])
                 /\ p \in Seated => row.by = p \/ Refused(p, inbox[p])
  /\ row.by = p => ~page[p].incoming /\ call[p].op # "accept" /\ ~Asked(p, inbox[p])

ReadySound(p) ==
  /\ page[p].at = "rematch" \/ Announced(inbox[p]) => row.rematches = 1
  /\ row.rematches = 1 => /\ page[p].incoming => At(p, "accept", "answered")
                          /\ ~At(p, "accept", "sent")
                          /\ p \in Seated => AnnouncedFirst(p, inbox[p])

Straight == "rematch" \notin astray

RematchInv ==
  Straight => row.rematches \in {0, 1} /\ \A p \in Players : AskSound(p) /\ ReadySound(p)

\* p's page, call and place at the table are as before as far as a rematch is concerned.
SamePage(p) ==
  /\ page'[p].waiting = page[p].waiting
  /\ page'[p].incoming = page[p].incoming \/ ~page'[p].incoming
  /\ page'[p].at = page[p].at \/ page'[p].at = "home"

SameCall(p) ==
  /\ call'[p].op = call[p].op
  /\ call[p].op \in Rematches => /\ call'[p].at = "answered" <=> call[p].at = "answered"
                                 /\ call'[p].at = "sent" => call[p].at = "sent"

\* Whoever hears of nothing new, or of a refusal, keeps what is known of them.
LEMMA Calm ==
  ASSUME NEW p \in Players, AskSound(p), ReadySound(p), SamePage(p), SameCall(p),
         Quiet(p, inbox[p], inbox'[p]), row'.rematches = row.rematches,
         row'.by = p => row.by = p,
         p \in Seated /\ row.by = p => row'.by = p \/ Refused(p, inbox'[p])
  PROVE  AskSound(p)' /\ ReadySound(p)'
<1> DEFINE s == inbox[p]
           t == inbox'[p]
           c == call[p]
           d == call'[p]
           g == page[p]
           h == page'[p]
<1>1. /\ h.waiting = g.waiting /\ (h.incoming = g.incoming \/ ~h.incoming)
      /\ h.at = g.at \/ h.at = "home"
  BY DEF SamePage
<1>2. /\ d.op = c.op
      /\ c.op \in Rematches => /\ d.at = "answered" <=> c.at = "answered"
                               /\ d.at = "sent" => c.at = "sent"
  BY DEF SameCall
<1>3. At(p, "rematch", "answered")' <=> At(p, "rematch", "answered")
  BY <1>2 DEF At, Rematches
<1>4. At(p, "cancel", "answered")' <=> At(p, "cancel", "answered")
  BY <1>2 DEF At, Rematches
<1>5. At(p, "accept", "answered")' <=> At(p, "accept", "answered")
  BY <1>2 DEF At, Rematches
<1>6. At(p, "accept", "sent")' => At(p, "accept", "sent")
  BY <1>2 DEF At, Rematches
<1>7. (p \in Seated)' => p \in Seated
  BY <1>1 DEF Seated
<1>8. Hopes(p)' <=> Hopes(p)
  BY <1>1, <1>3, <1>4 DEF Hopes
<1>9. AskSound(p)'
  BY <1>1, <1>2, <1>7, <1>8 DEF AskSound, Quiet
<1>10. ReadySound(p)'
  BY <1>1, <1>5, <1>6, <1>7 DEF ReadySound, Quiet
<1> QED BY <1>9, <1>10

\* The one who does not move hears of nothing new; the row keeps the request.
LEMMA Aside ==
  ASSUME RematchInv, Straight, NEW p \in Players,
         row'.by = row.by, row'.rematches = row.rematches,
         \A q \in Players \ {p} : page'[q] = page[q] /\ call'[q] = call[q],
         \A q \in Players \ {p} : Quiet(q, inbox[q], inbox'[q]),
         AskSound(p)', ReadySound(p)'
  PROVE  RematchInv'
<1>1. ASSUME NEW q \in Players \ {p} PROVE AskSound(q)' /\ ReadySound(q)'
  <2>1. SamePage(q) /\ SameCall(q)
    BY DEF SamePage, SameCall
  <2> QED BY <2>1, Calm DEF RematchInv
<1> QED BY <1>1 DEF RematchInv

LEMMA ClickAsks ==
  ASSUME Inv, RematchInv, Straight, NEW p \in Players, Click(p) PROVE RematchInv'
<1>1. PICK op \in Offered(p) :
        IF op = "pick" THEN page' = [page EXCEPT ![p].picker = TRUE] /\ UNCHANGED call
        ELSE call' = [call EXCEPT ![p] = [NoCall EXCEPT !.op = op, !.at = "sent"]] /\ UNCHANGED page
  BY DEF Click
<1>2. /\ UNCHANGED <<row, inbox>> /\ Typed /\ call[p].op = "none" /\ page[p].at = "table"
      /\ AskSound(p) /\ ReadySound(p)
  BY DEF Click, Inv, RematchInv
<1>3. \A q \in Players : Quiet(q, inbox[q], inbox'[q])
  BY <1>2 DEF Quiet
<1>4. CASE op = "pick"
  <2>1. /\ page'[p].waiting = page[p].waiting /\ page'[p].incoming = page[p].incoming
        /\ page'[p].at = page[p].at /\ \A q \in Players \ {p} : page'[q] = page[q]
    BY <1>1, <1>2, <1>4 DEF Typed, Pages
  <2>2. SamePage(p) /\ SameCall(p) /\ UNCHANGED call
    BY <1>1, <1>4, <2>1 DEF SamePage, SameCall
  <2>3. AskSound(p)' /\ ReadySound(p)'
    BY <1>2, <1>3, <2>2, Calm
  <2> QED BY <1>2, <1>3, <2>1, <2>2, <2>3, Aside
<1>5. CASE op # "pick"
  <2> DEFINE c == [NoCall EXCEPT !.op = op, !.at = "sent"]
  <2>1. call' = [call EXCEPT ![p] = c] /\ UNCHANGED page
    BY <1>1, <1>5
  <2>2. c.op = op /\ c.at = "sent"
    BY DEF NoCall
  <2> HIDE DEF c
  <2>3. call'[p] = c /\ \A q \in Players \ {p} : call'[q] = call[q]
    BY <1>2, <2>1 DEF Typed
  <2>4. /\ op \in {"accept", "decline"} => page[p].incoming
        /\ op = "rematch" => ~page[p].incoming
    <3>1. op \in Rematches => Over(p)
      BY OfferSound
    <3>2. op \in Rematches => IF page[p].incoming THEN op \in {"accept", "decline"}
                                                   ELSE op \in {"rematch", "cancel"}
      BY <3>1 DEF Offered, OverActions, CharacterSelection, ReadyScreen, MainGame, Over,
                  IncomingModal, PickerModal, Rematches
    <3> QED BY <3>2 DEF Rematches
  <2>5. Hopes(p) <=> page[p].waiting
    BY <1>2 DEF Hopes, At
  <2>6. Hopes(p)' <=> page[p].waiting
    BY <2>1, <2>2, <2>3 DEF Hopes, At
  <2>7. (p \in Seated)' <=> p \in Seated
    BY <2>1 DEF Seated
  <2>8. AskSound(p)'
    BY <1>2, <2>1, <2>2, <2>3, <2>4, <2>5, <2>6, <2>7 DEF AskSound
  <2>9. row.rematches = 1 => ~page[p].incoming
    BY <1>2 DEF ReadySound, At
  <2>10. ~At(p, "accept", "sent")' \/ page[p].incoming
    BY <2>2, <2>3, <2>4 DEF At
  <2>11. ReadySound(p)'
    BY <1>2, <2>1, <2>7, <2>9, <2>10 DEF ReadySound
  <2> QED BY <1>2, <1>3, <2>1, <2>3, <2>8, <2>11, Aside
<1> QED BY <1>4, <1>5

\* A request that has nothing to do with a rematch, or fails, goes on.
LEMMA GoesOnAsks ==
  ASSUME Inv, RematchInv, Straight, NEW p \in Players, row'.by = row.by,
         row'.rematches = row.rematches, UNCHANGED page,
         call[p].op \notin Rematches \/ (call[p].at = "sent" /\ call'[p].at = "failed"),
         call'[p].op = call[p].op, \A q \in Players \ {p} : call'[q] = call[q],
         \A q \in Players : Quiet(q, inbox[q], inbox'[q])
  PROVE  RematchInv'
<1>1. SamePage(p) /\ SameCall(p)
  BY DEF SamePage, SameCall
<1>2. AskSound(p)' /\ ReadySound(p)'
  BY <1>1, Calm DEF RematchInv
<1> QED BY <1>2, Aside

LEMMA LeaveAsks ==
  ASSUME Inv, RematchInv, Straight, NEW p \in Players, Leave(p) PROVE RematchInv'
<1> DEFINE gone == [channel |-> "opponent_disconnected", by |-> p]
<1>1. /\ page' = [page EXCEPT ![p].at = "home"] /\ Departure(p) /\ call[p].op = "none"
      /\ UNCHANGED <<row, call>> /\ Typed /\ AskSound(p) /\ ReadySound(p)
  BY DEF Leave, Inv, RematchInv
<1>2. gone \in Messages /\ ~Announces(gone) /\ \A q : ~Asks(q, gone)
  BY DEF Messages, Notices, Announces, Asks
<1>3. /\ page'[p].waiting = page[p].waiting /\ page'[p].incoming = page[p].incoming
      /\ page'[p].at = "home" /\ \A q \in Players \ {p} : page'[q] = page[q]
  BY <1>1 DEF Typed, Pages
<1>4. ASSUME NEW q \in Players \ {p} PROVE Quiet(q, inbox[q], inbox'[q])
  <2>1. q \notin Seated => inbox[q] = <<>>
    BY DEF Inv, PageSound, Seated
  <2>2. Hears(q, gone)
    BY <1>1, <2>1 DEF Departure, Hears
  <2> HIDE DEF gone
  <2> QED BY <1>2, <2>2, QuietHears
<1>5. inbox'[p] = <<>>
  BY <1>1 DEF Departure
<1>6. ~Asked(p, inbox'[p]) /\ ~Announced(inbox'[p]) /\ RefusedFirst(p, inbox'[p])
  BY <1>5 DEF Asked, Announced, RefusedFirst
<1>7. (p \notin Seated)'
  BY <1>3 DEF Seated
<1>8. AskSound(p)'
  BY <1>1, <1>3, <1>6, <1>7 DEF AskSound, Hopes, At
<1>9. ReadySound(p)'
  BY <1>1, <1>3, <1>6, <1>7 DEF ReadySound, At
<1> QED BY <1>1, <1>3, <1>4, <1>8, <1>9, Aside

\* What a broadcast adds for each.
LEMMA BroadcastHears ==
  ASSUME Inv, NEW m \in Messages, Broadcast(m), NEW q \in Players PROVE Hears(q, m)
BY DEF Broadcast, Hears

\* p asks: nobody else has, as far as the row and p's page know.
LEMMA RequestAsks ==
  ASSUME Inv, RematchInv, Straight', NEW p \in Players, RequestRematch(p) PROVE RematchInv'
<1> DEFINE m == [channel |-> "rematch_request", by |-> p]
           o == Other(p)
<1>1. /\ call[p].op = "rematch" /\ call[p].at = "sent" /\ Typed /\ row \in Rows /\ row.over
      /\ UNCHANGED page /\ Goto(p, "answered") /\ page[p].at \in {"table", "home", "rematch"}
  BY DEF RequestRematch, At, Inv, Typed, CallSound, Rematches, Pages
<1>2. row'.by = p /\ row'.rematches = row.rematches /\ Broadcast(m)
  BY <1>1 DEF RequestRematch, Rows
<1>3. Straight /\ row.by # o /\ ~Asked(p, inbox[p])
  BY DEF RequestRematch, Strays, Straight, Unseen, Asked, Asks
<1>4. /\ call'[p].op = "rematch" /\ call'[p].at = "answered"
      /\ \A q \in Players \ {p} : call'[q] = call[q]
  BY <1>1, GotoCall
<1>5. m \in Messages /\ ~Announces(m) /\ ~Asks(p, m) /\ ~Refuses(p, m)
  BY DEF Messages, Notices, Announces, Asks, Refuses
<1>6. \A q \in Players : Hears(q, m) /\ inbox[q] \in Seq(Messages)
  BY <1>1, <1>2, <1>5, BroadcastHears DEF Typed
<1> HIDE DEF m
<1>7. AskSound(p) /\ ReadySound(p) /\ Quiet(p, inbox[p], inbox'[p])
  BY <1>3, <1>5, <1>6, QuietHears DEF RematchInv
<1>8. ~Asked(p, inbox'[p]) /\ RefusedFirst(p, inbox'[p])
  BY <1>3, <1>7 DEF Quiet, Asked, RefusedFirst
<1>9. AskSound(p)'
  BY <1>1, <1>2, <1>4, <1>7, <1>8 DEF AskSound
<1>10. (p \in Seated)' <=> p \in Seated
  BY <1>1 DEF Seated
<1>11. ReadySound(p)'
  BY <1>1, <1>2, <1>4, <1>7, <1>10 DEF ReadySound, AskSound, Quiet, At
<1>12. ASSUME NEW q \in Players \ {p} PROVE AskSound(q)' /\ ReadySound(q)'
  <2>1. AskSound(q) /\ ReadySound(q) /\ row.by # q /\ row'.by # q
    BY <1>2, <1>3, OtherPlayer, TableAssumption DEF RematchInv
  <2>2. /\ call'[q] = call[q] /\ page'[q] = page[q]
        /\ (q \in Seated)' <=> q \in Seated
    BY <1>1, <1>4 DEF Seated
  <2>3. CASE q \notin Seated
    <3>1. inbox'[q] = inbox[q]
      BY <1>6, <2>3 DEF Hears
    <3>2. AskSound(q)'
      BY <2>1, <2>2, <2>3, <3>1 DEF AskSound, Hopes, At
    <3>3. ReadySound(q)'
      BY <1>2, <2>1, <2>2, <2>3, <3>1 DEF ReadySound, At
    <3> QED BY <3>2, <3>3
  <2>4. CASE q \in Seated
    <3>1. inbox'[q] = Append(inbox[q], m)
      BY <1>6, <2>4 DEF Hears
    <3>2. /\ Announced(inbox'[q]) => Announced(inbox[q])
          /\ Refused(q, inbox[q]) => Refused(q, inbox'[q])
          /\ RefusedFirst(q, inbox[q]) /\ Refused(q, inbox[q]) => RefusedFirst(q, inbox'[q])
          /\ AnnouncedFirst(q, inbox[q]) => AnnouncedFirst(q, inbox'[q])
      BY <1>5, <1>6, <3>1, PutBehind
    <3>3. Hopes(q)' <=> Hopes(q)
      BY <2>2 DEF Hopes, At
    <3>4. AskSound(q)'
      BY <2>1, <2>2, <2>4, <3>2, <3>3 DEF AskSound
    <3>5. ReadySound(q)'
      BY <1>2, <2>1, <2>2, <2>4, <3>2 DEF ReadySound, At
    <3> QED BY <3>4, <3>5
  <2> QED BY <2>3, <2>4
<1> QED BY <1>2, <1>3, <1>9, <1>11, <1>12 DEF RematchInv

\* p accepts: only once, and nobody asks before the new lobby is announced.
LEMMA AcceptAsks ==
  ASSUME Inv, RematchInv, Straight', NEW p \in Players, AcceptRematch(p) PROVE RematchInv'
<1> DEFINE m == [channel |-> "rematch_ready"]
           o == Other(p)
<1>1. /\ call[p].op = "accept" /\ call[p].at = "sent" /\ Typed /\ row \in Rows
      /\ UNCHANGED page /\ Goto(p, "answered")
  BY DEF AcceptRematch, At, Inv, Typed
<1>2. Straight /\ ~Asked(p, inbox[p])
  BY DEF AcceptRematch, Strays, Straight, Unseen, Asked, Asks
<1>3. /\ call'[p].op = "accept" /\ call'[p].at = "answered"
      /\ \A q \in Players \ {p} : call'[q] = call[q]
  BY <1>1, GotoCall
<1>4. \A q \in Players : /\ AskSound(q) /\ ReadySound(q) /\ inbox[q] \in Seq(Messages)
                         /\ (q \in Seated)' <=> q \in Seated
  BY <1>1, <1>2 DEF RematchInv, Seated, Typed
<1>5. row.rematches = 0
  BY <1>1, <1>2, <1>4 DEF RematchInv, ReadySound, At
<1>6. ~page[p].waiting
  BY <1>1, <1>4 DEF AskSound
<1>7. ~Hopes(p) /\ ~Hopes(p)'
  BY <1>1, <1>3, <1>6 DEF Hopes, At
<1>8. CASE row.by # o
  <2>1. UNCHANGED <<row, inbox>>
    BY <1>8 DEF AcceptRematch
  <2>2. AskSound(p)'
    BY <1>1, <1>3, <1>4, <1>7, <2>1 DEF AskSound
  <2>3. ReadySound(p)'
    BY <1>1, <1>4, <1>5, <2>1 DEF ReadySound
  <2>4. \A q \in Players : Quiet(q, inbox[q], inbox'[q])
    BY <2>1 DEF Quiet
  <2> QED BY <1>1, <1>2, <1>3, <2>1, <2>2, <2>3, <2>4, Aside
<1>9. CASE row.by = o
  <2>1. row' = [row EXCEPT !.rematches = row.rematches + 1] /\ Broadcast(m)
    BY <1>9 DEF AcceptRematch
  <2>2. row'.by = o /\ row'.rematches = 1
    BY <1>1, <1>5, <1>9, <2>1 DEF Rows
  <2>3. m \in Messages /\ Announces(m) /\ \A q : ~Asks(q, m)
    BY DEF Messages, Ready, Announces, Asks
  <2>4. \A q \in Players : Hears(q, m)
    BY <2>1, <2>3, BroadcastHears
  <2> HIDE DEF m
  <2>5. ASSUME NEW q \in Players
        PROVE  /\ ~Asked(q, inbox[q]) /\ ~Asked(q, inbox'[q])
               /\ Refused(q, inbox[q]) => Refused(q, inbox'[q])
               /\ RefusedFirst(q, inbox[q]) => RefusedFirst(q, inbox'[q])
               /\ q \in Seated => AnnouncedFirst(q, inbox'[q])
    <3>1. ~Asked(q, inbox[q])
      BY <1>2, <1>4, <1>9, OtherPlayer, TableAssumption DEF AskSound
    <3>2. CASE q \in Seated
      <4>1. inbox'[q] = Append(inbox[q], m)
        BY <2>4, <3>2 DEF Hears
      <4> QED BY <1>4, <2>3, <3>1, <4>1, PutBehind
    <3>3. CASE q \notin Seated
      <4>1. inbox'[q] = inbox[q]
        BY <2>4, <3>3 DEF Hears
      <4> QED BY <3>1, <3>3, <4>1
    <3> QED BY <3>2, <3>3
  <2>6. AskSound(p)'
    BY <1>1, <1>3, <1>4, <1>7, <2>2, <2>5, OtherPlayer DEF AskSound
  <2>7. ReadySound(p)'
    BY <1>3, <1>4, <2>2, <2>5 DEF ReadySound, At
  <2>8. ASSUME NEW q \in Players \ {p} PROVE AskSound(q)' /\ ReadySound(q)'
    <3>1. q = o /\ call'[q] = call[q] /\ page'[q] = page[q]
      BY <1>1, <1>3, OtherPlayer, TableAssumption
    <3>2. Hopes(q)' <=> Hopes(q)
      BY <3>1 DEF Hopes, At
    <3>3. AskSound(q)'
      BY <1>4, <1>9, <2>2, <2>5, <3>1, <3>2 DEF AskSound
    <3>4. ~page[q].incoming /\ call[q].op # "accept"
      BY <1>4, <1>9, <3>1 DEF AskSound
    <3>5. ReadySound(q)'
      BY <1>4, <2>2, <2>5, <3>1, <3>4 DEF ReadySound, At
    <3> QED BY <3>3, <3>5
  <2> QED BY <2>2, <2>6, <2>7, <2>8 DEF RematchInv
<1> QED BY <1>8, <1>9

\* p declines or takes back: the one who waits is told.
LEMMA DeclineAsks ==
  ASSUME Inv, RematchInv, Straight, NEW p \in Players, DeclineRematch(p) PROVE RematchInv'
<1> DEFINE m == [channel |-> "rematch_declined", by |-> p]
<1>1. /\ call[p].op \in {"decline", "cancel"} /\ call[p].at = "sent" /\ Typed /\ row \in Rows
      /\ UNCHANGED page /\ Goto(p, "answered")
  BY DEF DeclineRematch, At, Inv, Typed
<1>2. /\ call'[p].op = call[p].op /\ call'[p].at = "answered"
      /\ \A q \in Players \ {p} : call'[q] = call[q]
  BY <1>1, GotoCall
<1>3. \A q \in Players : AskSound(q) /\ ReadySound(q) /\ inbox[q] \in Seq(Messages)
  BY <1>1 DEF RematchInv, Typed
<1>4. (p \in Seated)' <=> p \in Seated
  BY <1>1 DEF Seated
<1>5. ~Hopes(p)'
  BY <1>1, <1>2, <1>3 DEF Hopes, At, AskSound
<1>6. m \in Messages /\ ~Announces(m) /\ \A q : ~Asks(q, m)
  BY DEF Messages, Notices, Announces, Asks
<1>7. /\ row'.rematches = row.rematches
      /\ \/ row'.by = row.by /\ UNCHANGED inbox
         \/ row'.by = NoOne /\ Broadcast(m)
  BY <1>1 DEF DeclineRematch, Rows
<1>8. \A q \in Players : inbox'[q] = inbox[q] \/ Hears(q, m)
  BY <1>6, <1>7, BroadcastHears
<1>9. \A q \in Players \ {p} : Refuses(q, m)
  BY DEF Refuses
<1> HIDE DEF m
<1>10. \A q \in Players : Quiet(q, inbox[q], inbox'[q])
  BY <1>6, <1>8, QuietHears
<1>11. \A q \in Players : row'.by = q => row.by = q
  BY <1>7, TableAssumption
<1>12. AskSound(p)'
  BY <1>1, <1>2, <1>3, <1>5, <1>10, <1>11 DEF AskSound, Quiet
<1>13. ReadySound(p)'
  <2>1. row.rematches = 1 => ~page[p].incoming
    BY <1>1, <1>3 DEF ReadySound, At
  <2> QED BY <1>1, <1>2, <1>3, <1>4, <1>7, <1>10, <2>1 DEF ReadySound, Quiet, At
<1>14. ASSUME NEW q \in Players \ {p} PROVE AskSound(q)' /\ ReadySound(q)'
  <2>1. SamePage(q) /\ SameCall(q)
    BY <1>1, <1>2 DEF SamePage, SameCall
  <2>2. q \in Seated /\ row.by = q => row'.by = q \/ Refused(q, inbox'[q])
    <3> SUFFICES ASSUME q \in Seated, Broadcast(m) PROVE Refused(q, inbox'[q])
      BY <1>7
    <3>1. inbox'[q] = Append(inbox[q], m)
      BY DEF Broadcast
    <3> QED BY <1>3, <1>6, <1>9, <3>1, PutBehind
  <2> QED BY <1>3, <1>7, <1>10, <1>11, <2>1, <2>2, Calm
<1> QED BY <1>7, <1>12, <1>13, <1>14 DEF RematchInv

LEMMA AnsweredAsks ==
  ASSUME Inv, RematchInv, Straight, NEW p \in Players, Answered(p) PROVE RematchInv'
<1> DEFINE c == call[p]
           g == page[p]
           h == OnAnswer(g, c)
<1>1. /\ c.at \in {"answered", "failed"} /\ UNCHANGED <<row, inbox>> /\ Typed
      /\ call' = [call EXCEPT ![p] = NoCall] /\ page' = [page EXCEPT ![p] = h]
      /\ AskSound(p) /\ ReadySound(p)
  BY DEF Answered, Inv, RematchInv
<1>2. g \in Pages /\ c \in Calls
  BY <1>1 DEF Typed
<1>3. /\ h.at = g.at
      /\ h.waiting <=> IF c.at = "failed" THEN g.waiting
                       ELSE c.op = "rematch" \/ (g.waiting /\ c.op # "cancel")
      /\ h.incoming <=> g.incoming /\ (c.at = "failed" \/ c.op \notin {"accept", "decline"})
  BY <1>2 DEF OnAnswer, Pages
<1>4. /\ page'[p] = h /\ call'[p].op = "none"
      /\ \A q \in Players \ {p} : page'[q] = page[q] /\ call'[q] = call[q]
  BY <1>1 DEF Typed, NoCall
<1> HIDE DEF h
<1>5. (p \in Seated)' <=> p \in Seated
  BY <1>3, <1>4 DEF Seated
<1>6. Hopes(p)' <=> h.waiting
  BY <1>4 DEF Hopes, At
<1>7. h.waiting => Hopes(p)
  BY <1>1, <1>3 DEF Hopes, At
<1>8. AskSound(p)'
  BY <1>1, <1>3, <1>4, <1>5, <1>6, <1>7 DEF AskSound
<1>9. row.rematches = 1 => ~h.incoming
  BY <1>1, <1>3 DEF ReadySound, At
<1>10. ReadySound(p)'
  BY <1>1, <1>3, <1>4, <1>5, <1>9 DEF ReadySound, At
<1>11. \A q \in Players : Quiet(q, inbox[q], inbox'[q])
  BY <1>1 DEF Quiet
<1> QED BY <1>1, <1>4, <1>8, <1>10, <1>11, Aside

LEMMA ReceiveAsks ==
  ASSUME Inv, RematchInv, Straight', NEW p \in Players, Receive(p) PROVE RematchInv'
<1> DEFINE m == Head(inbox[p])
           gone == [channel |-> "opponent_disconnected", by |-> p]
           g == page[p]
           h == OnMessage(p, g, m)
           s == inbox[p]
           t == Tail(inbox[p])
<1>1. /\ g.at = "table" /\ s # <<>> /\ page' = [page EXCEPT ![p] = h]
      /\ UNCHANGED <<row, call>> /\ Typed /\ s \in Seq(Messages) /\ g \in Pages
  BY DEF Receive, Inv, Typed
<1>2. Straight /\ ~(call[p].op = "rematch" /\ (Asks(p, m) \/ Refuses(p, m)))
  BY DEF Receive, Strays, Straight, Overtakes, Asks, Refuses
<1>3. AskSound(p) /\ ReadySound(p) /\ p \in Seated
  BY <1>1, <1>2 DEF RematchInv, Seated
<1>4. m \in Messages
  BY <1>1, RestAt
<1>5. /\ Asked(p, t) \/ Asks(p, m) => Asked(p, s)
      /\ Announced(t) \/ Announces(m) => Announced(s)
      /\ Refused(p, s) => Refused(p, t) \/ Refuses(p, m)
      /\ RefusedFirst(p, s) => ~Asks(p, m) /\ (RefusedFirst(p, t) \/ Refuses(p, m))
      /\ AnnouncedFirst(p, s) => Announces(m) \/ (~Asks(p, m) /\ AnnouncedFirst(p, t))
  BY <1>1, TakeFirst
<1>6. /\ h.waiting <=> g.waiting /\ ~Refuses(p, m)
      /\ h.incoming => g.incoming \/ Asks(p, m)
      /\ h.at = IF Announces(m) THEN "rematch" ELSE g.at
  <2>1. CASE m \in Updates
    <3>1. m.channel = "lobby_update" /\ m.lobby.over \in BOOLEAN
      BY <2>1 DEF Updates, Lobbies
    <3> QED BY <1>1, <3>1 DEF OnMessage, OnLobbyUpdate, Asks, Refuses, Announces, Pages
  <2>2. CASE m \in Notices
    <3>1. m.channel \in {"rematch_request", "rematch_declined", "opponent_disconnected",
                         "player_reconnected"}
      BY <2>2 DEF Notices
    <3> QED BY <1>1, <3>1 DEF OnMessage, OnDisconnect, OnReconnected, Asks, Refuses, Announces, Pages
  <2>3. CASE m \in Ready
    <3>1. m.channel = "rematch_ready"
      BY <2>3 DEF Ready
    <3> QED BY <1>1, <3>1 DEF OnMessage, Asks, Refuses, Announces, Pages
  <2> QED BY <1>4, <2>1, <2>2, <2>3 DEF Messages
<1> HIDE DEF m, h, g, t
<1>7. page'[p] = h /\ \A q \in Players \ {p} : page'[q] = page[q] /\ call'[q] = call[q]
  BY <1>1 DEF Typed
<1>8. CASE Announces(m)
  <2>1. Departure(p)
    BY <1>8 DEF Receive, m, Announces
  <2>2. inbox'[p] = <<>> /\ (p \notin Seated)'
    BY <1>6, <1>7, <1>8, <2>1 DEF Departure, Seated
  <2>3. ~Asked(p, inbox'[p]) /\ ~Announced(inbox'[p]) /\ RefusedFirst(p, inbox'[p])
    BY <2>2 DEF Asked, Announced, RefusedFirst
  <2>4. ~Asks(p, m) /\ ~Refuses(p, m)
    BY <1>8 DEF Announces, Asks, Refuses
  <2>5. Hopes(p)' => Hopes(p)
    BY <1>1, <1>6, <1>7 DEF Hopes, At, g
  <2>6. AskSound(p)'
    BY <1>1, <1>3, <1>6, <1>7, <2>2, <2>3, <2>4, <2>5 DEF AskSound, g
  <2>7. row.rematches = 1
    BY <1>3, <1>5, <1>8 DEF ReadySound
  <2>8. ReadySound(p)'
    BY <1>1, <1>3, <1>6, <1>7, <2>2, <2>4, <2>7 DEF ReadySound, At, g
  <2>9. ASSUME NEW q \in Players \ {p} PROVE Quiet(q, inbox[q], inbox'[q])
    <3>1. q \notin Seated => inbox[q] = <<>>
      BY DEF Inv, PageSound, Seated
    <3>2. Hears(q, gone)
      BY <2>1, <3>1 DEF Departure, Hears
    <3>3. gone \in Messages /\ ~Announces(gone) /\ ~Asks(q, gone)
      BY DEF Messages, Notices, Announces, Asks
    <3> HIDE DEF gone
    <3> QED BY <3>2, <3>3, QuietHears
  <2> QED BY <1>1, <1>2, <1>7, <2>6, <2>8, <2>9, Aside
<1>9. CASE ~Announces(m)
  <2>1. inbox' = [inbox EXCEPT ![p] = t]
    BY <1>9 DEF Receive, m, t, Announces
  <2>2. inbox'[p] = t /\ \A q \in Players \ {p} : inbox'[q] = inbox[q]
    BY <1>1, <2>1 DEF Typed
  <2>3. (p \in Seated)'
    BY <1>1, <1>6, <1>7, <1>9 DEF Seated, g
  <2>4. Hopes(p)' => Hopes(p) /\ ~Refuses(p, m)
    BY <1>1, <1>2, <1>6, <1>7 DEF Hopes, At, g
  <2>5. AskSound(p)'
    BY <1>1, <1>2, <1>3, <1>5, <1>6, <1>7, <2>2, <2>4 DEF AskSound, g
  <2>6. ReadySound(p)'
    BY <1>1, <1>3, <1>5, <1>6, <1>7, <1>9, <2>2 DEF ReadySound, At, g
  <2>7. \A q \in Players \ {p} : Quiet(q, inbox[q], inbox'[q])
    BY <2>2 DEF Quiet
  <2> QED BY <1>1, <1>2, <1>7, <2>5, <2>6, <2>7, Aside
<1> QED BY <1>8, <1>9

LEMMA ThreeBehind ==
  ASSUME NEW T, NEW s \in Seq(T), NEW a \in T, NEW b \in T, NEW c \in T
  PROVE  s \o <<a, b, c>> = Append(Append(Append(s, a), b), c)
OBVIOUS

\* What the page that is not reconnected gets of a reconnection.
LEMMA ReconnectTells ==
  ASSUME Inv, NEW p \in Players, Reconnect(p)
  PROVE  LET update == [channel |-> "lobby_update", lobby |-> Snapshot]
             gone   == [channel |-> "opponent_disconnected", by |-> p]
             back   == [channel |-> "player_reconnected", by |-> p] IN
         /\ inbox'[p] = <<update>>
         /\ \A q \in Players \ {p} :
              inbox'[q] = IF q \in Seated THEN Append(Append(Append(inbox[q], gone), back), update)
                          ELSE inbox[q]
         /\ update \in Messages /\ gone \in Messages /\ back \in Messages
         /\ p \in Seated /\ UNCHANGED <<row, page, call>>
<1> DEFINE update == [channel |-> "lobby_update", lobby |-> Snapshot]
           gone   == [channel |-> "opponent_disconnected", by |-> p]
           back   == [channel |-> "player_reconnected", by |-> p]
           o      == Other(p)
<1>1. /\ page[p].at = "table" /\ UNCHANGED <<row, page, call>> /\ Typed
      /\ inbox' = [inbox EXCEPT ![p] = <<update>>,
                    ![o] = IF o \notin Seated THEN inbox[o] ELSE inbox[o] \o <<gone, back, update>>]
  BY OtherPlayer DEF Reconnect, Inv, Typed
<1>2. o \in Players /\ o # p /\ \A q \in Players \ {p} : q = o
  BY OtherPlayer, TableAssumption
<1>3. update \in Messages /\ gone \in Messages /\ back \in Messages
  BY SnapshotSound DEF Messages, Updates, Notices
<1> HIDE DEF update, gone, back, o
<1>4. inbox'[p] = <<update>>
      /\ inbox'[o] = IF o \notin Seated THEN inbox[o] ELSE inbox[o] \o <<gone, back, update>>
  BY <1>1, <1>2 DEF Typed
<1>5. inbox[o] \o <<gone, back, update>> = Append(Append(Append(inbox[o], gone), back), update)
  BY <1>1, <1>2, <1>3, ThreeBehind DEF Typed
<1> QED BY <1>1, <1>2, <1>3, <1>4, <1>5 DEF update, gone, back, Seated

LEMMA ReconnectAsks ==
  ASSUME Inv, RematchInv, Straight', NEW p \in Players, Reconnect(p) PROVE RematchInv'
<1> DEFINE update == [channel |-> "lobby_update", lobby |-> Snapshot]
           gone   == [channel |-> "opponent_disconnected", by |-> p]
           back   == [channel |-> "player_reconnected", by |-> p]
<1>1. /\ inbox'[p] = <<update>>
      /\ \A q \in Players \ {p} :
           inbox'[q] = IF q \in Seated THEN Append(Append(Append(inbox[q], gone), back), update)
                       ELSE inbox[q]
      /\ update \in Messages /\ gone \in Messages /\ back \in Messages
      /\ p \in Seated /\ UNCHANGED <<row, page, call>>
  BY ReconnectTells
<1>2. /\ Straight
      /\ \A i \in DOMAIN inbox[p] :
           inbox[p][i].channel \notin {"rematch_request", "rematch_declined", "rematch_ready"}
  BY DEF Reconnect, Strays, Straight, Lost, Carries
<1>3. \A q : \A m \in {update, gone, back} : ~Asks(q, m) /\ ~Announces(m)
  BY DEF Asks, Announces
<1> HIDE DEF update, gone, back
<1>4. Quiet(p, inbox[p], inbox'[p])
  <2>1. ~Refused(p, inbox[p]) /\ ~Announced(inbox[p])
    BY <1>2 DEF Refused, Refuses, Announced, Announces
  <2>2. ~AnnouncedFirst(p, inbox[p])
    BY <2>1 DEF AnnouncedFirst, Announced
  <2>3. \A i \in DOMAIN inbox'[p] : inbox'[p][i] = update
    BY <1>1
  <2>4. ~Asked(p, inbox'[p]) /\ ~Announced(inbox'[p]) /\ RefusedFirst(p, inbox'[p])
    BY <1>3, <2>3 DEF Asked, Announced, RefusedFirst
  <2> QED BY <2>1, <2>2, <2>4 DEF Quiet
<1>5. ASSUME NEW q \in Players \ {p} PROVE Quiet(q, inbox[q], inbox'[q])
  <2>1. CASE q \notin Seated
    BY <1>1, <2>1 DEF Quiet
  <2>2. CASE q \in Seated
    <3> DEFINE s1 == Append(inbox[q], gone)
               s2 == Append(s1, back)
    <3>1. inbox[q] \in Seq(Messages) /\ s1 \in Seq(Messages) /\ s2 \in Seq(Messages)
      BY <1>1 DEF Inv, Typed
    <3>2. inbox'[q] = Append(s2, update)
      BY <1>1, <2>2
    <3>3. Quiet(q, inbox[q], s1)
      BY <1>1, <1>3, <3>1, QuietAppend
    <3> HIDE DEF s1
    <3>4. Quiet(q, s1, s2)
      BY <1>1, <1>3, <3>1, QuietAppend
    <3> HIDE DEF s2
    <3>5. Quiet(q, s2, inbox'[q])
      BY <1>1, <1>3, <3>1, <3>2, QuietAppend
    <3> QED BY <3>3, <3>4, <3>5 DEF Quiet
  <2> QED BY <2>1, <2>2
<1>6. SamePage(p) /\ SameCall(p)
  BY <1>1 DEF SamePage, SameCall
<1>7. AskSound(p)' /\ ReadySound(p)'
  BY <1>1, <1>2, <1>4, <1>6, Calm DEF RematchInv
<1> QED BY <1>1, <1>2, <1>5, <1>7, Aside

\* Handlers that have nothing to do with a rematch, and requests that fail.
LEMMA OtherAsks ==
  ASSUME Inv, RematchInv, Straight, NEW p \in Players,
         \/ SetSecretChar(p) \/ SetPlayerReady(p) \/ CheckUnready(p) \/ SetPlayerUnready(p)
         \/ MakeGuessLobby(p) \/ ReadLobby(p) \/ BroadcastLobbyUpdate(p) \/ Fail(p)
  PROVE  RematchInv'
<1> DEFINE m == [channel |-> "lobby_update", lobby |-> call[p].snap]
<1>1. /\ Typed /\ CallSound(p) /\ row \in Rows /\ call \in [Players -> Calls] /\ call[p] \in Calls
  BY DEF Inv, Typed
<1>2. row'.by = row.by /\ row'.rematches = row.rematches /\ UNCHANGED page
  <2>1. CASE SetSecretChar(p)
    BY <1>1, <2>1 DEF SetSecretChar, Rows
  <2>2. CASE SetPlayerReady(p)
    BY <1>1, <2>2 DEF SetPlayerReady, Rows
  <2>3. CASE SetPlayerUnready(p)
    BY <1>1, <2>3 DEF SetPlayerUnready, Rows
  <2>4. CASE MakeGuessLobby(p)
    BY <1>1, <2>4 DEF MakeGuessLobby, Rows
  <2> QED BY <2>1, <2>2, <2>3, <2>4 DEF CheckUnready, ReadLobby, BroadcastLobbyUpdate, Fail
<1>3. \/ call[p].op \notin Rematches
      \/ call[p].at = "sent" /\ call'[p].at = "failed"
  <2>1. CASE Fail(p)
    BY <2>1, GotoCall DEF Fail
  <2>2. CASE ~Fail(p)
    BY <1>1, <2>2 DEF SetSecretChar, SetPlayerReady, CheckUnready, SetPlayerUnready,
       MakeGuessLobby, ReadLobby, BroadcastLobbyUpdate, At, CallSound, Rematches
  <2> QED BY <2>1, <2>2
<1>4. call'[p].op = call[p].op /\ \A q \in Players \ {p} : call'[q] = call[q]
  <2>1. CASE ReadLobby(p)
    BY <1>1, <2>1 DEF ReadLobby, Calls
  <2>2. CASE ~ReadLobby(p)
    <3>1. PICK step \in {"checked", "saved", "read", "answered", "failed"} : Goto(p, step)
      BY <2>2 DEF SetSecretChar, SetPlayerReady, CheckUnready, SetPlayerUnready,
         MakeGuessLobby, BroadcastLobbyUpdate, Fail
    <3> QED BY <3>1, GotoCall
  <2> QED BY <2>1, <2>2
<1>5. m \in Messages /\ ~Announces(m) /\ \A q : ~Asks(q, m)
  BY <1>1 DEF Messages, Updates, Calls, Announces, Asks
<1>6. Broadcast(m) \/ UNCHANGED inbox
  BY DEF SetSecretChar, SetPlayerReady, CheckUnready, SetPlayerUnready,
     MakeGuessLobby, ReadLobby, BroadcastLobbyUpdate, Fail
<1>7. \A q \in Players : inbox'[q] = inbox[q] \/ Hears(q, m)
  BY <1>5, <1>6, BroadcastHears
<1> HIDE DEF m
<1>8. \A q \in Players : Quiet(q, inbox[q], inbox'[q])
  BY <1>5, <1>7, QuietHears
<1> QED BY <1>2, <1>3, <1>4, <1>8, GoesOnAsks

LEMMA RematchNext == Inv /\ RematchInv /\ [Next]_vars => RematchInv'
<1> SUFFICES ASSUME Inv, RematchInv, [Next]_vars, Straight' PROVE RematchInv'
  BY DEF RematchInv
<1>1. ASSUME NEW p \in Players, Straight,
             \/ SetSecretChar(p) \/ SetPlayerReady(p) \/ CheckUnready(p) \/ SetPlayerUnready(p)
             \/ MakeGuessLobby(p) \/ ReadLobby(p) \/ BroadcastLobbyUpdate(p) \/ Fail(p)
      PROVE  RematchInv'
  BY <1>1, OtherAsks
<1>2. ASSUME NEW p \in Players, Straight,
             Click(p) \/ Leave(p) \/ DeclineRematch(p) \/ Answered(p)
      PROVE  RematchInv'
  BY <1>2, ClickAsks, LeaveAsks, DeclineAsks, AnsweredAsks
<1>3. ASSUME NEW p \in Players,
             RequestRematch(p) \/ AcceptRematch(p) \/ Receive(p) \/ Reconnect(p)
      PROVE  RematchInv'
  BY <1>3, RequestAsks, AcceptAsks, ReceiveAsks, ReconnectAsks
<1>4. ASSUME NEW p \in Players,
             \/ SetSecretChar(p) \/ SetPlayerReady(p) \/ CheckUnready(p) \/ SetPlayerUnready(p)
             \/ MakeGuessLobby(p) \/ ReadLobby(p) \/ BroadcastLobbyUpdate(p) \/ Fail(p)
             \/ Click(p) \/ Leave(p) \/ DeclineRematch(p) \/ Answered(p)
      PROVE  Straight
  BY <1>4 DEF Straight, SetSecretChar, SetPlayerReady, CheckUnready, SetPlayerUnready,
     MakeGuessLobby, ReadLobby, BroadcastLobbyUpdate, Fail, Click, Leave, DeclineRematch, Answered
<1>5. CASE UNCHANGED vars
  BY <1>5 DEF vars, RematchInv, Straight, AskSound, ReadySound, Hopes, At, Seated
<1> QED BY <1>1, <1>2, <1>3, <1>4, <1>5 DEF Next, Handlers

LEMMA RematchInvariant == Spec => [](Inv /\ RematchInv)
<1>1. Init => Inv /\ RematchInv
  <2> SUFFICES ASSUME Init PROVE RematchInv
    BY InvInit
  <2>1. row.by = NoOne /\ row.rematches = 0
    BY DEF Init
  <2>2. ASSUME NEW p \in Players PROVE AskSound(p) /\ ReadySound(p)
    <3>1. /\ page[p] = [NewPage EXCEPT !.lobby = Snapshot, !.secret = row.over]
          /\ call[p] = NoCall /\ inbox[p] = <<>>
      BY DEF Init
    <3>2. /\ ~page[p].waiting /\ ~page[p].incoming /\ page[p].at = "table"
          /\ call[p].op = "none"
      BY <3>1 DEF NewPage, NoCall
    <3>3. ~Announced(inbox[p])
      BY <3>1 DEF Announced
    <3> QED BY <2>1, <3>2, <3>3, TableAssumption DEF AskSound, ReadySound, Hopes, At
  <2> QED BY <2>1, <2>2 DEF RematchInv
<1> QED BY <1>1, InvNext, RematchNext, PTL DEF Spec

\* Unless requests crossed or a message was lost, a second request is accepted by nobody,
\* however often the players ask, decline and take back, and both leave for the one lobby
\* that AcceptRematch made.
THEOREM TogetherHolds == Spec => []Together
<1>1. Inv /\ RematchInv => Together
  <2> SUFFICES ASSUME Inv, RematchInv, Straight PROVE Together
    BY DEF Together, Straight
  <2>1. row.rematches <= 1
    BY DEF RematchInv
  <2>2. ASSUME Settled, NEW p \in Players, page[p].at = "rematch" PROVE Other(p) \notin Seated
    <3>1. row.rematches = 1
      BY <2>2 DEF RematchInv, ReadySound
    <3> SUFFICES ASSUME Other(p) \in Seated PROVE FALSE
      OBVIOUS
    <3>2. inbox[Other(p)] = <<>> /\ AnnouncedFirst(Other(p), inbox[Other(p)])
      BY <2>2, <3>1, OtherPlayer DEF Settled, RematchInv, ReadySound
    <3> QED BY <3>2 DEF AnnouncedFirst
  <2> QED BY <2>1, <2>2 DEF Together
<1> QED BY <1>1, RematchInvariant, PTL

\* Nor does a page wait in the end for an answer to a request that the row does not have:
\* whoever takes it out of the row has told the page, before or after its answer arrives.
THEOREM WaitsForSomethingHolds == Spec => []WaitsForSomething
<1>1. Inv /\ RematchInv => WaitsForSomething
  <2> SUFFICES ASSUME Inv, RematchInv, Straight, Settled, NEW p \in Seated, page[p].waiting
               PROVE  row.by = p
    BY DEF WaitsForSomething, Straight
  <2>1. p \in Players /\ call[p].op = "none" /\ inbox[p] = <<>>
    BY DEF Settled, Seated
  <2>2. Hopes(p)
    BY <2>1 DEF Hopes, At
  <2>3. row.by = p \/ Refused(p, inbox[p])
    BY <2>1, <2>2 DEF RematchInv, AskSound
  <2> QED BY <2>1, <2>3 DEF Refused
<1> QED BY <1>1, RematchInvariant, PTL

----------------------------------------------------------------------------
(* What the two pages show in the end *)

LEMMA EndsBehind ==
  ASSUME NEW s \in Seq(Messages), NEW m \in Messages, NEW l, NEW last
  PROVE  /\ m.channel = "lobby_update" => Ends(Append(s, m), l, m.lobby)
         /\ m.channel # "lobby_update" /\ Ends(s, l, last) => Ends(Append(s, m), l, last)
<1> DEFINE t == Append(s, m)
           n == Len(s) + 1
<1>1. /\ Len(s) \in Nat /\ DOMAIN s = 1..Len(s) /\ DOMAIN t = 1..n /\ n \in DOMAIN t /\ t[n] = m
      /\ \A i \in DOMAIN s : i \in DOMAIN t /\ t[i] = s[i]
      /\ \A i \in DOMAIN t : i \in DOMAIN s \/ i = n
  BY AppendedAt
<1>2. n \in Nat /\ \A i \in DOMAIN t : ~(i > n)
  BY <1>1
<1> HIDE DEF t, n
<1>3. m.channel = "lobby_update" => Ends(t, l, m.lobby)
  BY <1>1, <1>2 DEF Ends
<1>4. ASSUME m.channel # "lobby_update", Ends(s, l, last) PROVE Ends(t, l, last)
  <2>1. CASE l = last /\ \A i \in DOMAIN s : s[i].channel # "lobby_update"
    BY <1>1, <1>4, <2>1 DEF Ends
  <2>2. CASE \E i \in DOMAIN s :
               /\ s[i].channel = "lobby_update" /\ s[i].lobby = last
               /\ \A j \in DOMAIN s : j > i => s[j].channel # "lobby_update"
    BY <1>1, <1>4, <2>2 DEF Ends
  <2> QED BY <1>4, <2>1, <2>2 DEF Ends
<1> QED BY <1>3, <1>4 DEF t

LEMMA EndsFirst ==
  ASSUME NEW s \in Seq(Messages), s # <<>>, NEW l, NEW last, Ends(s, l, last)
  PROVE  Ends(Tail(s), IF Head(s).channel = "lobby_update" THEN Head(s).lobby ELSE l, last)
<1> DEFINE m == Head(s)
           t == Tail(s)
           k == IF m.channel = "lobby_update" THEN m.lobby ELSE l
<1>1. /\ Len(s) \in Nat /\ DOMAIN s = 1..Len(s) /\ 1 \in DOMAIN s /\ m = s[1]
      /\ DOMAIN t = 1..(Len(s) - 1)
      /\ \A i \in DOMAIN t : i + 1 \in DOMAIN s /\ t[i] = s[i + 1]
      /\ \A i \in DOMAIN s : i = 1 \/ (i - 1 \in DOMAIN t /\ t[i - 1] = s[i])
  BY RestAt
<1> HIDE DEF m, t
<1>2. CASE l = last /\ \A i \in DOMAIN s : s[i].channel # "lobby_update"
  BY <1>1, <1>2 DEF Ends
<1>3. CASE \E i \in DOMAIN s :
             /\ s[i].channel = "lobby_update" /\ s[i].lobby = last
             /\ \A j \in DOMAIN s : j > i => s[j].channel # "lobby_update"
  <2>1. PICK i \in DOMAIN s :
             /\ s[i].channel = "lobby_update" /\ s[i].lobby = last
             /\ \A j \in DOMAIN s : j > i => s[j].channel # "lobby_update"
    BY <1>3
  <2>2. \A j \in DOMAIN t : j + 1 > i => t[j].channel # "lobby_update"
    BY <1>1, <2>1
  <2>3. CASE i = 1
    <3>1. k = last
      BY <1>1, <2>1, <2>3
    <3>2. \A j \in DOMAIN t : t[j].channel # "lobby_update"
      BY <1>1, <2>2, <2>3
    <3> QED BY <3>1, <3>2 DEF Ends, t, m
  <2>4. CASE i # 1
    <3>1. i - 1 \in DOMAIN t /\ t[i - 1] = s[i]
      BY <1>1, <2>1, <2>4
    <3>2. \A j \in DOMAIN t : j > i - 1 => t[j].channel # "lobby_update"
      BY <1>1, <2>1, <2>2
    <3> QED BY <2>1, <3>1, <3>2 DEF Ends, t, m
  <2> QED BY <2>3, <2>4
<1> QED BY <1>2, <1>3 DEF Ends

LEMMA ReturnsBehind ==
  ASSUME NEW p, NEW s \in Seq(Messages), NEW m \in Messages
  PROVE  /\ Returned(p, s) \/ Returns(p, m) => Returned(p, Append(s, m))
         /\ m.channel # "opponent_disconnected" /\ ReturnedLast(p, s) => ReturnedLast(p, Append(s, m))
         /\ Returns(p, m) => ReturnedLast(p, Append(s, m))
<1> DEFINE t == Append(s, m)
           n == Len(s) + 1
<1>1. /\ Len(s) \in Nat /\ DOMAIN s = 1..Len(s) /\ DOMAIN t = 1..n /\ n \in DOMAIN t /\ t[n] = m
      /\ \A i \in DOMAIN s : i \in DOMAIN t /\ t[i] = s[i]
      /\ \A i \in DOMAIN t : i \in DOMAIN s \/ i = n
  BY AppendedAt
<1>2. n \in Nat /\ \A i \in DOMAIN s : n > i
  BY <1>1
<1> HIDE DEF t, n
<1>3. Returned(p, s) \/ Returns(p, m) => Returned(p, t)
  BY <1>1 DEF Returned
<1>4. m.channel # "opponent_disconnected" /\ ReturnedLast(p, s) => ReturnedLast(p, t)
  BY <1>1 DEF ReturnedLast
<1>5. Returns(p, m) => ReturnedLast(p, t)
  BY <1>1, <1>2 DEF ReturnedLast, Returns
<1> QED BY <1>3, <1>4, <1>5 DEF t

LEMMA ReturnsFirst ==
  ASSUME NEW p, NEW s \in Seq(Messages), s # <<>>
  PROVE  /\ Returned(p, s) => Returns(p, Head(s)) \/ Returned(p, Tail(s))
         /\ ReturnedLast(p, s) => ReturnedLast(p, Tail(s))
         /\ ReturnedLast(p, s) /\ Head(s).channel = "opponent_disconnected" => Returned(p, Tail(s))
<1> DEFINE m == Head(s)
           t == Tail(s)
<1>1. /\ Len(s) \in Nat /\ DOMAIN s = 1..Len(s) /\ 1 \in DOMAIN s /\ m = s[1]
      /\ DOMAIN t = 1..(Len(s) - 1)
      /\ \A i \in DOMAIN t : i + 1 \in DOMAIN s /\ t[i] = s[i + 1]
      /\ \A i \in DOMAIN s : i = 1 \/ (i - 1 \in DOMAIN t /\ t[i - 1] = s[i])
  BY RestAt
<1> HIDE DEF m, t
<1>2. Returned(p, s) => Returns(p, m) \/ Returned(p, t)
  BY <1>1 DEF Returned
<1>3. ASSUME ReturnedLast(p, s), NEW i \in DOMAIN t, t[i].channel = "opponent_disconnected"
      PROVE  \E j \in DOMAIN t : j > i /\ Returns(p, t[j])
  <2>1. PICK j \in DOMAIN s : j > i + 1 /\ Returns(p, s[j])
    BY <1>1, <1>3 DEF ReturnedLast
  <2>2. j - 1 \in DOMAIN t /\ t[j - 1] = s[j] /\ j - 1 > i
    BY <1>1, <2>1
  <2> QED BY <2>1, <2>2
<1>4. ASSUME ReturnedLast(p, s), m.channel = "opponent_disconnected" PROVE Returned(p, t)
  <2>1. PICK j \in DOMAIN s : j > 1 /\ Returns(p, s[j])
    BY <1>1, <1>4 DEF ReturnedLast
  <2>2. j - 1 \in DOMAIN t /\ t[j - 1] = s[j]
    BY <1>1, <2>1
  <2> QED BY <2>1, <2>2 DEF Returned
<1> QED BY <1>2, <1>3, <1>4 DEF ReturnedLast, t, m

NoticeSound(p) ==
  /\ page[p].away # "nobody" => Returned(p, inbox[p])
  /\ ReturnedLast(p, inbox[p])

Noticed == "notice" \notin astray

\* As long as both are there, they will show the same lobby when they have received what
\* is on its way; and whoever is thought to be away, or will be, is on the way back.
AgreeInv ==
  Seated = Players =>
    /\ \E last \in Lobbies : \A p \in Players : Ends(inbox[p], page[p].lobby, last)
    /\ Noticed => \A p \in Players : NoticeSound(p)

\* Both pages stay as they are and get the same message, if any.
LEMMA SharedAgrees ==
  ASSUME Inv, AgreeInv, NEW m \in Messages, m.channel # "opponent_disconnected",
         \A p \in Players : /\ page'[p].at = page[p].at /\ page'[p].lobby = page[p].lobby
                            /\ page'[p].away = page[p].away,
         Broadcast(m) \/ UNCHANGED inbox, Noticed' => Noticed
  PROVE  AgreeInv'
<1> SUFFICES ASSUME (Seated = Players)' PROVE AgreeInv'
  BY DEF AgreeInv
<1>1. Seated = Players /\ \A p \in Players : inbox[p] \in Seq(Messages)
  BY DEF Seated, Inv, Typed
<1>2. PICK last \in Lobbies : \A p \in Players : Ends(inbox[p], page[p].lobby, last)
  BY <1>1 DEF AgreeInv
<1>3. CASE UNCHANGED inbox
  BY <1>1, <1>2, <1>3 DEF AgreeInv, NoticeSound
<1>4. CASE Broadcast(m)
  <2>1. \A p \in Players : inbox'[p] = Append(inbox[p], m)
    BY <1>1, <1>4 DEF Broadcast
  <2>2. \E k \in Lobbies : \A p \in Players : Ends(inbox'[p], page'[p].lobby, k)
    <3>1. CASE m.channel = "lobby_update"
      <4>1. m.lobby \in Lobbies
        BY <3>1 DEF Messages, Updates, Notices, Ready
      <4>2. ASSUME NEW p \in Players PROVE Ends(inbox'[p], page'[p].lobby, m.lobby)
        <5>1. Ends(Append(inbox[p], m), page[p].lobby, m.lobby)
          BY <1>1, <3>1, EndsBehind
        <5> QED BY <2>1, <5>1
      <4> QED BY <4>1, <4>2
    <3>2. CASE m.channel # "lobby_update"
      <4>1. ASSUME NEW p \in Players PROVE Ends(inbox'[p], page'[p].lobby, last)
        <5>1. Ends(Append(inbox[p], m), page[p].lobby, last)
          BY <1>1, <1>2, <3>2, EndsBehind
        <5> QED BY <2>1, <5>1
      <4> QED BY <4>1
    <3> QED BY <3>1, <3>2
  <2>3. Noticed' => \A p \in Players : NoticeSound(p)'
    BY <1>1, <2>1, ReturnsBehind DEF AgreeInv, NoticeSound
  <2> QED BY <2>2, <2>3 DEF AgreeInv
<1> QED BY <1>3, <1>4

\* Without one of them there is nothing to agree on, and nobody comes back.
LEMMA GoneAgrees ==
  ASSUME NEW p \in Players, page'[p].at # "table" PROVE AgreeInv'
BY DEF AgreeInv, Seated

LEMMA ReceiveAgrees ==
  ASSUME Inv, AgreeInv, NEW p \in Players, Receive(p) PROVE AgreeInv'
<1> DEFINE m == Head(inbox[p])
           g == page[p]
           h == OnMessage(p, g, m)
           s == inbox[p]
           t == Tail(inbox[p])
<1>1. /\ g.at = "table" /\ s # <<>> /\ page' = [page EXCEPT ![p] = h]
      /\ Typed /\ s \in Seq(Messages) /\ g \in Pages
  BY DEF Receive, Inv, Typed
<1>2. Noticed' => Noticed
  BY DEF Receive, Strays, Noticed
<1>3. m \in Messages
  BY <1>1, RestAt
<1>4. /\ h.at = IF m.channel = "rematch_ready" THEN "rematch" ELSE g.at
      /\ h.lobby = IF m.channel = "lobby_update" THEN m.lobby ELSE g.lobby
  BY <1>1, <1>3, MessageTyped
<1>5. h.away # "nobody" => \/ g.away # "nobody" /\ ~Returns(p, m)
                           \/ m.channel = "opponent_disconnected"
  <2>1. CASE m \in Updates
    <3>1. m.channel = "lobby_update" /\ m.lobby.over \in BOOLEAN
      BY <2>1 DEF Updates, Lobbies
    <3> QED BY <1>1, <3>1 DEF OnMessage, OnLobbyUpdate, Returns, Pages
  <2>2. CASE m \in Notices
    <3>1. m.channel \in {"rematch_request", "rematch_declined", "opponent_disconnected",
                         "player_reconnected"}
      BY <2>2 DEF Notices
    <3> QED BY <1>1, <3>1 DEF OnMessage, OnDisconnect, OnReconnected, Returns, Pages
  <2>3. CASE m \in Ready
    <3>1. m.channel = "rematch_ready"
      BY <2>3 DEF Ready
    <3> QED BY <1>1, <3>1 DEF OnMessage, Returns, Pages
  <2> QED BY <1>3, <2>1, <2>2, <2>3 DEF Messages
<1>6. \A last : Ends(s, g.lobby, last) => Ends(t, h.lobby, last)
  BY <1>1, <1>4, EndsFirst
<1>7. /\ Returned(p, s) => Returns(p, m) \/ Returned(p, t)
      /\ ReturnedLast(p, s) => ReturnedLast(p, t)
      /\ ReturnedLast(p, s) /\ m.channel = "opponent_disconnected" => Returned(p, t)
  BY <1>1, ReturnsFirst
<1> HIDE DEF m, h, g, t
<1>8. page'[p] = h /\ \A q \in Players \ {p} : page'[q] = page[q]
  BY <1>1 DEF Typed
<1>9. CASE m.channel = "rematch_ready"
  BY <1>4, <1>8, <1>9, GoneAgrees
<1>10. CASE m.channel # "rematch_ready"
  <2>1. inbox' = [inbox EXCEPT ![p] = t]
    BY <1>10 DEF Receive, m, t
  <2>2. inbox'[p] = t /\ \A q \in Players \ {p} : inbox'[q] = inbox[q]
    BY <1>1, <2>1 DEF Typed
  <2> SUFFICES ASSUME (Seated = Players)' PROVE AgreeInv'
    BY DEF AgreeInv
  <2>3. Seated = Players
    BY <1>1, <1>8 DEF Seated, g
  <2>4. PICK last \in Lobbies : \A q \in Players : Ends(inbox[q], page[q].lobby, last)
    BY <2>3 DEF AgreeInv
  <2>5. \A q \in Players : Ends(inbox'[q], page'[q].lobby, last)
    BY <1>6, <1>8, <2>2, <2>4 DEF g
  <2>6. ASSUME Noticed', NEW q \in Players PROVE NoticeSound(q)'
    <3>1. NoticeSound(q)
      BY <1>2, <2>3, <2>6 DEF AgreeInv
    <3>2. CASE q = p
      BY <1>5, <1>7, <1>8, <2>2, <3>1, <3>2 DEF NoticeSound, g
    <3>3. CASE q # p
      BY <1>8, <2>2, <3>1, <3>3 DEF NoticeSound
    <3> QED BY <3>2, <3>3
  <2> QED BY <2>5, <2>6 DEF AgreeInv
<1> QED BY <1>9, <1>10

LEMMA ReconnectAgrees ==
  ASSUME Inv, AgreeInv, NEW p \in Players, Reconnect(p) PROVE AgreeInv'
<1> DEFINE update == [channel |-> "lobby_update", lobby |-> Snapshot]
           gone   == [channel |-> "opponent_disconnected", by |-> p]
           back   == [channel |-> "player_reconnected", by |-> p]
<1>1. /\ inbox'[p] = <<update>>
      /\ \A q \in Players \ {p} :
           inbox'[q] = IF q \in Seated THEN Append(Append(Append(inbox[q], gone), back), update)
                       ELSE inbox[q]
      /\ update \in Messages /\ gone \in Messages /\ back \in Messages
      /\ p \in Seated /\ UNCHANGED <<row, page, call>>
  BY ReconnectTells
<1>2. Snapshot \in Lobbies
  BY SnapshotSound
<1>3. /\ update.channel = "lobby_update" /\ update.lobby = Snapshot
      /\ back.channel # "opponent_disconnected"
  OBVIOUS
<1>4. \A q \in Players \ {p} : Returns(q, back)
  BY DEF Returns
<1>5. ~\E i \in DOMAIN inbox[p] : Noticed' /\ inbox[p][i].channel = "player_reconnected"
  BY DEF Reconnect, Strays, Noticed, Lost, Carries
<1>6. Noticed' => Noticed
  BY DEF Reconnect, Strays, Noticed
<1> HIDE DEF update, gone, back
<1> SUFFICES ASSUME (Seated = Players)' PROVE AgreeInv'
  BY DEF AgreeInv
<1>7. Seated = Players
  BY <1>1 DEF Seated
<1>8. ASSUME NEW q \in Players \ {p}
      PROVE  /\ Ends(inbox'[q], page'[q].lobby, Snapshot)
             /\ Returned(q, inbox'[q]) /\ ReturnedLast(q, inbox'[q])
  <2> DEFINE s1 == Append(inbox[q], gone)
             s2 == Append(s1, back)
  <2>1. s1 \in Seq(Messages) /\ s2 \in Seq(Messages)
    BY <1>1 DEF Inv, Typed
  <2>2. inbox'[q] = Append(s2, update)
    BY <1>1, <1>7
  <2> HIDE DEF s1
  <2>3. Returned(q, s2) /\ ReturnedLast(q, s2)
    BY <1>1, <1>4, <2>1, ReturnsBehind
  <2> HIDE DEF s2
  <2>4. Ends(Append(s2, update), page[q].lobby, update.lobby)
    BY <1>1, <1>3, <2>1, EndsBehind
  <2>5. update.channel # "opponent_disconnected"
    BY <1>3
  <2>6. Returned(q, Append(s2, update)) /\ ReturnedLast(q, Append(s2, update))
    BY <1>1, <2>1, <2>3, <2>5, ReturnsBehind
  <2> QED BY <1>1, <1>3, <2>2, <2>4, <2>6
<1>9. Ends(inbox'[p], page'[p].lobby, Snapshot)
  BY <1>1, <1>3 DEF Ends
<1>10. ASSUME Noticed' PROVE NoticeSound(p)'
  <2>1. page[p].away = "nobody"
    BY <1>5, <1>6, <1>7, <1>10 DEF AgreeInv, NoticeSound, Returned, Returns
  <2>2. ReturnedLast(p, inbox'[p])
    BY <1>1, <1>3 DEF ReturnedLast
  <2> QED BY <1>1, <2>1, <2>2 DEF NoticeSound
<1> QED BY <1>2, <1>8, <1>9, <1>10 DEF AgreeInv, NoticeSound

LEMMA AgreeNext == Inv /\ AgreeInv /\ [Next]_vars => AgreeInv'
<1> SUFFICES ASSUME Inv, AgreeInv, [Next]_vars PROVE AgreeInv'
  OBVIOUS
<1>1. ASSUME NEW p \in Players, Click(p) PROVE AgreeInv'
  <2>1. Typed /\ UNCHANGED <<inbox, astray>>
    BY <1>1 DEF Click, Inv
  <2>2. \A q \in Players : /\ page'[q].at = page[q].at /\ page'[q].lobby = page[q].lobby
                           /\ page'[q].away = page[q].away
    <3>1. page' = [page EXCEPT ![p].picker = TRUE] \/ UNCHANGED page
      BY <1>1 DEF Click
    <3>2. /\ [page[p] EXCEPT !.picker = TRUE].at = page[p].at
          /\ [page[p] EXCEPT !.picker = TRUE].lobby = page[p].lobby
          /\ [page[p] EXCEPT !.picker = TRUE].away = page[p].away
      BY <2>1 DEF Typed, Pages
    <3>3. page' = [page EXCEPT ![p] = [page[p] EXCEPT !.picker = TRUE]] \/ UNCHANGED page
      BY <2>1, <3>1 DEF Typed
    <3> QED BY <2>1, <3>2, <3>3 DEF Typed
  <2>3. [channel |-> "rematch_ready"] \in Messages
    BY DEF Messages, Ready
  <2> QED BY <2>1, <2>2, <2>3, SharedAgrees DEF Noticed
<1>2. ASSUME NEW p \in Players, Leave(p) PROVE AgreeInv'
  <2>1. page'[p].at = "home"
    BY <1>2 DEF Leave, Inv, Typed, Pages
  <2> QED BY <2>1, GoneAgrees
<1>3. ASSUME NEW p \in Players, Handlers(p) \/ Fail(p) PROVE AgreeInv'
  <2> DEFINE Known == {[channel |-> "lobby_update", lobby |-> call[p].snap],
                       [channel |-> "rematch_request", by |-> p],
                       [channel |-> "rematch_declined", by |-> p],
                       [channel |-> "rematch_ready"]}
  <2>1. UNCHANGED page /\ (Noticed' => Noticed)
    BY <1>3 DEF Handlers, SetSecretChar, SetPlayerReady, CheckUnready, SetPlayerUnready,
       MakeGuessLobby, ReadLobby, BroadcastLobbyUpdate, RequestRematch, AcceptRematch,
       DeclineRematch, Fail, Strays, Noticed
  <2>2. \E m \in Known : Broadcast(m) \/ UNCHANGED inbox
    BY <1>3 DEF Handlers, SetSecretChar, SetPlayerReady, CheckUnready, SetPlayerUnready,
       MakeGuessLobby, ReadLobby, BroadcastLobbyUpdate, RequestRematch, AcceptRematch,
       DeclineRematch, Fail
  <2>3. call[p].snap \in Lobbies
    BY DEF Inv, Typed, Calls
  <2>4. \A m \in Known : m \in Messages /\ m.channel # "opponent_disconnected"
    BY <2>3 DEF Messages, Updates, Notices, Ready
  <2> HIDE DEF Known
  <2> QED BY <2>1, <2>2, <2>4, SharedAgrees
<1>4. ASSUME NEW p \in Players, Answered(p) PROVE AgreeInv'
  <2>1. /\ Typed /\ UNCHANGED <<inbox, astray>>
        /\ page' = [page EXCEPT ![p] = OnAnswer(page[p], call[p])]
    BY <1>4 DEF Answered, Inv, Typed
  <2>2. page[p] \in Pages /\ call[p] \in Calls
    BY <2>1 DEF Typed
  <2>3. /\ OnAnswer(page[p], call[p]).at = page[p].at
        /\ OnAnswer(page[p], call[p]).lobby = page[p].lobby
        /\ OnAnswer(page[p], call[p]).away = page[p].away
    BY <2>2 DEF OnAnswer, Pages
  <2>4. \A q \in Players : /\ page'[q].at = page[q].at /\ page'[q].lobby = page[q].lobby
                           /\ page'[q].away = page[q].away
    BY <2>1, <2>3 DEF Typed
  <2>5. [channel |-> "rematch_ready"] \in Messages
    BY DEF Messages, Ready
  <2> QED BY <2>1, <2>4, <2>5, SharedAgrees DEF Noticed
<1>5. ASSUME NEW p \in Players, Receive(p) \/ Reconnect(p) PROVE AgreeInv'
  BY <1>5, ReceiveAgrees, ReconnectAgrees
<1>6. CASE UNCHANGED vars
  BY <1>6 DEF vars, AgreeInv, NoticeSound, Noticed, Seated
<1> QED BY <1>1, <1>2, <1>3, <1>4, <1>5, <1>6 DEF Next

LEMMA AgreeInvariant == Spec => [](Inv /\ AgreeInv)
<1>1. Init => Inv /\ AgreeInv
  <2> SUFFICES ASSUME Init, Inv PROVE AgreeInv
    BY InvInit
  <2>1. ASSUME NEW p \in Players
        PROVE  /\ inbox[p] = <<>> /\ page[p].lobby = Snapshot /\ page[p].away = "nobody"
    <3>1. page[p] = [NewPage EXCEPT !.lobby = Snapshot, !.secret = row.over] /\ inbox[p] = <<>>
      BY DEF Init
    <3> QED BY <3>1 DEF NewPage
  <2>2. \A p \in Players : Ends(inbox[p], page[p].lobby, Snapshot) /\ NoticeSound(p)
    BY <2>1 DEF Ends, NoticeSound, ReturnedLast
  <2> QED BY <2>2, SnapshotSound DEF AgreeInv
<1> QED BY <1>1, InvNext, AgreeNext, PTL DEF Spec

\* However the two players' handlers read the row and broadcast it late, and whoever is
\* reconnected, two pages that have received everything show the same lobby; and neither
\* counts down for an opponent who is there, unless it lost the notice of the return.
THEOREM PagesAgreeHolds == Spec => []PagesAgree
<1>1. Inv /\ AgreeInv => PagesAgree
  <2> SUFFICES ASSUME Inv, AgreeInv, Settled, Seated = Players, NEW p \in Players
               PROVE  /\ page[p].lobby = page[Other(p)].lobby
                      /\ Noticed => page[p].away = "nobody"
    BY DEF PagesAgree, Noticed
  <2>1. \A q \in Players : inbox[q] = <<>>
    BY DEF Settled
  <2>2. PICK last \in Lobbies : \A q \in Players : Ends(inbox[q], page[q].lobby, last)
    BY DEF AgreeInv
  <2>3. \A q \in Players : page[q].lobby = last
    BY <2>1, <2>2 DEF Ends
  <2>4. Noticed => page[p].away = "nobody"
    BY <2>1 DEF AgreeInv, NoticeSound, Returned
  <2> QED BY <2>3, <2>4, OtherPlayer
<1> QED BY <1>1, AgreeInvariant, PTL
=============================================================================
