-------------------------------- MODULE Room --------------------------------
(***************************************************************************)
(* The conversation of a running game, seen from the two browsers: the     *)
(* socket of page.js with its reconnection, the question-and-answer panel  *)
(* of gameSend.js, and the part of ReadPump that serves them.              *)
(*                                                                         *)
(* The state that decides what a player may do next is kept three times:   *)
(* the turn and the stored messages on the server, and on each page the    *)
(* flags `turn', `waitingReponse' and `receivedMessage', which are put     *)
(* together from messages, from timers and from what a reconnect replays.  *)
(* This module is about whether the three agree.                           *)
(*                                                                         *)
(* The game has chat mode and no turn timer; who wins, and leaving, are    *)
(* the business of Game and Seats.                                         *)
(***************************************************************************)
EXTENDS Integers, Sequences

CONSTANTS
  Players,     \* the two players
  NoOne,       \* no player: an unresolved playerId, a lobby not yet received
  MaxAsks,     \* bound on the questions asked
  MaxFaults    \* bound on connections lost or refused and pages reloaded

ASSUME RoomAssumption ==
  /\ \E p, q \in Players : p # q /\ Players = {p, q}
  /\ NoOne \notin Players
  /\ MaxAsks \in Nat /\ MaxFaults \in Nat

VARIABLES
  turn,      \* lobbies.turn_id
  stored,    \* the stored messages of the lobby, oldest first
  page,      \* what each mounted page keeps in React state and refs
  sock,      \* the page's current WebSocket
  greeting,  \* how far ReadPump is with greeting that socket
  inbox,     \* on the way from the hub to the page
  outbox,    \* on the way from the page to ReadPump
  late,      \* the 150 ms timers handleResponse has running
  astray,    \* ghost: pages that wait for an answer nobody will send, or offer
             \*        one that nobody waits for
  patchy,    \* ghost: pages whose log has missed messages: mounted again, or a
             \*        question of their own was lost on its way back
  asks, faults

serverVars == <<turn, stored>>
countVars == <<asks, faults>>
vars == <<turn, stored, page, sock, greeting, inbox, outbox, late,
          astray, patchy, countVars>>

\* Something that is looked up in one step and used in a later one.
Idle       == [at |-> "idle", found |-> <<>>]
Due        == [at |-> "due", found |-> <<>>]
Found(seq) == [at |-> "found", found |-> seq]

Other(p) == CHOOSE q \in Players : q # p

\* The sender is set by the server from the connection.
GameMsg(p, q)     == [channel |-> "game", by |-> p, val |-> q, turn |-> turn]
ResponseMsg(p, a) == [channel |-> "response", by |-> p, val |-> a, turn |-> Other(turn)]
UpdateMsg(t)      == [channel |-> "lobby_update", turn |-> t]
PendingMsg(p, q)  == [channel |-> IF q.by = p THEN "pending_waiting" ELSE "pending_question",
                      val |-> q.val]

FreshPage == [lobby |-> NoOne, id |-> NoOne, turn |-> FALSE, waiting |-> FALSE,
              received |-> 0, log |-> <<>>]

Init ==
  /\ turn \in Players
  /\ stored = <<>>
  /\ page = [p \in Players |-> [FreshPage EXCEPT !.lobby = turn, !.id = p, !.turn = (turn = p)]]
  /\ sock = [p \in Players |-> "open"]
  /\ greeting = [p \in Players |-> Idle]
  /\ inbox = [p \in Players |-> <<>>]
  /\ outbox = [p \in Players |-> <<>>]
  /\ late = [p \in Players |-> 0]
  /\ astray = {} /\ patchy = {}
  /\ asks = 0 /\ faults = 0

----------------------------------------------------------------------------
(* The panel: what it offers and what its buttons do *)

\* The panel is there once the page knows its lobby and its player.
PanelShown(p) == page[p].id = p

\* What the panel offers.
Body(p) ==
  CASE page[p].turn /\ ~page[p].waiting -> "ask"
    [] page[p].turn /\ page[p].waiting -> "waiting for the answer"
    [] ~page[p].turn /\ page[p].received # 0 -> "answer"
    [] OTHER -> "waiting for a question"

NeedsAction(p) == PanelShown(p) /\ Body(p) \in {"ask", "answer"}

\* The questions that have an answer beside them, beside the screen or in a drawer.
LogPanel(p) == {i \in DOMAIN page[p].log : page[p].log[i].answer # 0}

\* A frame given to a socket that is really gone is dropped without a word;
\* send() of a connecting socket, and a socket that is null, throw.
Send(p, frame) ==
  \/ /\ sock[p] = "open"
     /\ outbox' = [outbox EXCEPT ![p] = Append(@, frame)]
     /\ UNCHANGED astray
  \/ /\ sock[p] = "dead"
     /\ astray' = IF frame.channel = "game" THEN astray \cup {p} ELSE astray
     /\ UNCHANGED outbox

\* sendMessage: the page waits from now on, whatever becomes of the frame.
\* Typing a question takes longer than the 150 ms of an answer and its way to the
\* server.
Ask(p) ==
  /\ PanelShown(p) /\ Body(p) = "ask"
  /\ asks < MaxAsks
  /\ outbox[p] = <<>> /\ \A q \in Players : late[q] = 0
  /\ asks' = asks + 1
  /\ Send(p, [channel |-> "game", val |-> asks + 1])
  /\ page' = [page EXCEPT ![p].waiting = TRUE]
  /\ UNCHANGED <<serverVars, sock, greeting, inbox, late, patchy, faults>>

\* handleResponse: the buttons stay until the 150 ms are over, so that a double
\* click answers twice.  Reading a question takes longer than the 150 ms, too.
Answer(p) ==
  /\ PanelShown(p) /\ Body(p) = "answer"
  /\ late[p] < 2 /\ late[Other(p)] = 0
  /\ Send(p, [channel |-> "response", val |-> page[p].received])
  /\ late' = [late EXCEPT ![p] = @ + 1]
  /\ UNCHANGED <<serverVars, page, sock, greeting, inbox, patchy, countVars>>

\* The 150 ms are over.
ClearAnswered(p) ==
  /\ late[p] > 0
  /\ late' = [late EXCEPT ![p] = @ - 1]
  /\ page' = [page EXCEPT ![p].received = 0, ![p].turn = TRUE]
  /\ UNCHANGED <<serverVars, sock, greeting, inbox, outbox, astray, patchy, countVars>>

----------------------------------------------------------------------------
(* The server *)

Reached == {p \in Players : sock[p] = "open"}

BroadcastAll(messages) ==
  inbox' = [p \in Players |-> IF p \in Reached THEN inbox[p] \o messages ELSE inbox[p]]

\* getPendingQuestion: the last question if nothing answered it.
PendingQuestion ==
  IF stored # <<>> /\ stored[Len(stored)].channel = "game" THEN <<stored[Len(stored)]>> ELSE <<>>

\* The asker is not there when the answer is broadcast.
MissesAnswer(q) == q \notin Reached /\ page[q].waiting

\* The turn check of ReadPump: the holder asks, the other one answers.
InTurn(p, frame) == (frame.channel = "game") <=> (p = turn)

\* An answer does not say which question it is for: one to a question that is not
\* open (any more) counts as the answer to whatever is.  The asker takes it for an
\* answer to its question, and the one who gave it is no longer asked that.
Misplaced(frame) == \A i \in DOMAIN PendingQuestion : PendingQuestion[i].val # frame.val

\* A frame that is not in turn is answered with an error for the chat alone.
HandleFrame(p) ==
  /\ outbox[p] # <<>>
  /\ outbox' = [outbox EXCEPT ![p] = Tail(@)]
  /\ LET frame == Head(outbox[p]) IN
       CASE ~InTurn(p, frame) ->
              /\ astray' = IF frame.channel = "game" THEN astray \cup {p} ELSE astray
              /\ UNCHANGED <<serverVars, inbox>>
         [] InTurn(p, frame) /\ frame.channel = "game" ->
              /\ stored' = Append(stored, [channel |-> "game", by |-> p, val |-> frame.val])
              /\ BroadcastAll(<<GameMsg(p, frame.val)>>)
              /\ UNCHANGED <<turn, astray>>
         [] OTHER ->
              /\ turn' = Other(turn)
              /\ stored' = Append(stored, [channel |-> "response", by |-> p, val |-> frame.val])
              /\ BroadcastAll(<<ResponseMsg(p, frame.val), UpdateMsg(Other(turn))>>)
              /\ astray' = astray \cup (IF Misplaced(frame) THEN Players
                                      ELSE {q \in Players \ {p} : MissesAnswer(q)})
  /\ UNCHANGED <<page, sock, greeting, late, patchy, countVars>>

\* Mutant: no question is replayed to the one who should answer it.
MutGreetRead(p) ==
  /\ sock[p] = "open" /\ greeting[p] = Due
  /\ greeting' = [greeting EXCEPT ![p] = IF PendingQuestion # <<>> /\ turn = p THEN Found(PendingQuestion) ELSE Idle]
  /\ inbox' = [q \in Players |-> IF q \in Reached THEN Append(inbox[q], UpdateMsg(turn))
                                 ELSE inbox[q]]
  /\ UNCHANGED <<serverVars, page, sock, outbox, late, astray, patchy, countVars>>

\* A new ReadPump tells everybody the state of the lobby and looks for a
\* question that is still open ...
GreetRead(p) ==
  /\ sock[p] = "open" /\ greeting[p] = Due
  /\ greeting' = [greeting EXCEPT ![p] = IF PendingQuestion = <<>> THEN Idle ELSE Found(PendingQuestion)]
  /\ inbox' = [q \in Players |-> IF q \in Reached THEN Append(inbox[q], UpdateMsg(turn))
                                 ELSE inbox[q]]
  /\ UNCHANGED <<serverVars, page, sock, outbox, late, astray, patchy, countVars>>

\* ... which it puts behind whatever was broadcast in the meantime.  The
\* connection of a page that does not know its player yet has no player id.
GreetSend(p) ==
  /\ sock[p] = "open" /\ greeting[p].at = "found"
  /\ greeting' = [greeting EXCEPT ![p] = Idle]
  /\ inbox' = [inbox EXCEPT ![p] = Append(@, PendingMsg(page[p].id, Head(greeting[p].found)))]
  /\ UNCHANGED <<serverVars, page, sock, outbox, late, astray, patchy, countVars>>

----------------------------------------------------------------------------
(* The page's socket *)

\* What a replaced or lost socket leaves behind.
Disconnected(p, state) ==
  /\ sock' = [sock EXCEPT ![p] = state]
  /\ greeting' = [greeting EXCEPT ![p] = Idle]
  /\ inbox' = [inbox EXCEPT ![p] = <<>>]
  /\ outbox' = [outbox EXCEPT ![p] = <<>>]

LosesQuestion(p) == \E i \in DOMAIN outbox[p] : outbox[p][i].channel = "game"
LosesAnswer(p) ==
  page[p].waiting /\ \E i \in DOMAIN inbox[p] :
                       inbox[p][i].channel = "response" /\ inbox[p][i].by # p

\* Its own question, which the log is made of, does not come back to the page.
LosesEcho(p) ==
  \E i \in DOMAIN inbox[p] : inbox[p][i].channel = "game" /\ inbox[p][i].by = p

Opened(p) ==
  /\ sock[p] = "connecting"
  /\ sock' = [sock EXCEPT ![p] = "open"]
  /\ greeting' = [greeting EXCEPT ![p] = Due]
  /\ UNCHANGED <<serverVars, page, inbox, outbox, late, astray, patchy, countVars>>

\* The network fails; neither side knows.
Lose(p) ==
  /\ sock[p] \in {"open", "connecting"}
  /\ faults < MaxFaults
  /\ faults' = faults + 1
  /\ Disconnected(p, "dead")
  /\ astray' = IF LosesQuestion(p) \/ LosesAnswer(p) THEN astray \cup {p} ELSE astray
  /\ patchy' = IF LosesEcho(p) THEN patchy \cup {p} ELSE patchy
  /\ UNCHANGED <<serverVars, page, late, asks>>

\* Mutant: the old socket stays in wsRef, so that the timer's connect returns early.
MutClosed(p) ==
  /\ sock[p] = "dead" /\ page[p].id = NoOne
  /\ sock' = [sock EXCEPT ![p] = "none"]
  /\ UNCHANGED <<serverVars, page, greeting, inbox, outbox, late, astray, patchy, countVars>>

\* onclose of a close that was not planned: a timer will dial again.
Closed(p) ==
  /\ sock[p] = "dead"
  /\ sock' = [sock EXCEPT ![p] = "none"]
  /\ UNCHANGED <<serverVars, page, greeting, inbox, outbox, late, astray, patchy, countVars>>

\* The reconnect timer (a second, at least) calls connect, which dials unless a
\* socket is alive.
Redial(p) ==
  /\ sock[p] = "none"
  /\ late[p] = 0
  /\ sock' = [sock EXCEPT ![p] = "connecting"]
  /\ UNCHANGED <<serverVars, page, greeting, inbox, outbox, late, astray, patchy, countVars>>

\* The lobby tells the page which player it is: the effect of the socket runs
\* again, closes the anonymous socket on purpose and opens one with a player id.
Identify(p) ==
  /\ page[p].id = NoOne /\ page[p].lobby # NoOne
  /\ page' = [page EXCEPT ![p].id = p, ![p].turn = (page[p].lobby = p)]
  /\ Disconnected(p, "connecting")
  /\ UNCHANGED <<serverVars, late, astray, patchy, countVars>>

\* The player reloads the page.
Reload(p) ==
  /\ faults < MaxFaults
  /\ faults' = faults + 1
  /\ page' = [page EXCEPT ![p] = FreshPage]
  /\ Disconnected(p, "connecting")
  /\ late' = [late EXCEPT ![p] = 0]
  /\ astray' = astray \ {p}
  /\ patchy' = patchy \cup {p}
  /\ UNCHANGED <<serverVars, asks>>

----------------------------------------------------------------------------
(* onmessage *)

\* The last question of the log gets the answer.
Answered(log, a) ==
  IF log = <<>> THEN log ELSE [log EXCEPT ![Len(log)].answer = a]

\* Mutant: the page forgets that its own answer comes back to it too.
MutOnResponse(s, m) ==
  [s EXCEPT !.log = Answered(@, m.val), !.received = 0, !.waiting = FALSE, !.turn = (m.turn = s.id)]

\* A message that says whose turn it is overrules the page.
OnGame(s, m) ==
  [(IF m.by = s.id THEN [s EXCEPT !.log = Append(@, [question |-> m.val, answer |-> 0])]
                   ELSE [s EXCEPT !.received = m.val])
   EXCEPT !.turn = (m.turn = s.id)]

OnResponse(s, m) ==
  [(IF m.by = s.id THEN s
    ELSE [s EXCEPT !.log = Answered(@, m.val), !.received = 0, !.waiting = FALSE])
   EXCEPT !.turn = (m.turn = s.id)]

\* setLobby and the effect that derives the turn from it.
OnLobbyUpdate(s, m) ==
  IF s.id = NoOne THEN [s EXCEPT !.lobby = m.turn]
  ELSE [s EXCEPT !.lobby = m.turn, !.turn = (m.turn = s.id)]

OnMessage(s, m) ==
  CASE m.channel = "game" -> OnGame(s, m)
    [] m.channel = "response" -> OnResponse(s, m)
    [] m.channel = "lobby_update" -> OnLobbyUpdate(s, m)
    [] m.channel = "pending_question" -> [s EXCEPT !.received = m.val]
    [] OTHER -> [s EXCEPT !.waiting = TRUE]

\* A question or a greeting overtaken by the answer: the question is not open any
\* more, or the page has answered it and only the server does not know yet.
Overtaken(p, m) ==
  /\ \/ m.channel \in {"pending_waiting", "pending_question"}
     \/ m.channel = "game" /\ m.by # p
  /\ \/ \A i \in DOMAIN PendingQuestion : PendingQuestion[i].val # m.val
     \/ \E i \in DOMAIN outbox[p] : outbox[p][i] = [channel |-> "response", val |-> m.val]

\* A page that does not know its player takes its own question for the opponent's.
TakesItsOwn(p, m) ==
  /\ page[p].id = NoOne
  /\ \/ m.channel = "game" /\ m.by = p
     \/ m.channel = "pending_question" /\ \E i \in DOMAIN stored : stored[i].by = p /\ stored[i].val = m.val

Receive(p) ==
  /\ sock[p] = "open" /\ inbox[p] # <<>>
  /\ inbox' = [inbox EXCEPT ![p] = Tail(@)]
  /\ page' = [page EXCEPT ![p] = OnMessage(@, Head(inbox[p]))]
  /\ astray' = IF Overtaken(p, Head(inbox[p])) \/ TakesItsOwn(p, Head(inbox[p])) THEN astray \cup {p} ELSE astray
  /\ UNCHANGED <<serverVars, sock, greeting, outbox, late, patchy, countVars>>

----------------------------------------------------------------------------
Next ==
  \E p \in Players :
    \/ Ask(p) \/ Answer(p)
    \/ ClearAnswered(p)
    \/ HandleFrame(p) \/ GreetRead(p) \/ GreetSend(p)
    \/ Opened(p) \/ Lose(p) \/ Closed(p) \/ Redial(p) \/ Identify(p) \/ Reload(p)
    \/ Receive(p)

Spec == Init /\ [][Next]_vars

\* Messages arrive, timers expire and goroutines run; nobody has to play.
FairSpec ==
  /\ Spec
  /\ \A p \in Players :
       /\ WF_vars(ClearAnswered(p)) /\ WF_vars(HandleFrame(p))
       /\ WF_vars(GreetRead(p)) /\ WF_vars(GreetSend(p))
       /\ WF_vars(Opened(p)) /\ WF_vars(Closed(p)) /\ WF_vars(Redial(p)) /\ WF_vars(Identify(p))
       /\ WF_vars(Receive(p))

----------------------------------------------------------------------------
(* Properties *)

\* Nothing is on its way and both pages are connected as who they are.
Settled ==
  \A p \in Players :
    /\ sock[p] = "open" /\ page[p].id = p
    /\ inbox[p] = <<>> /\ outbox[p] = <<>> /\ late[p] = 0
    /\ greeting[p] = Idle

\* Whom the server waits for: the other player while a question is open.
Expected == IF PendingQuestion = <<>> THEN turn ELSE Other(turn)

\* When everything has arrived, the panel of exactly one page offers something,
\* and it is the page of the player the server's turn check would let through:
\* the flags of the two pages and the rows of the server agree, over replays,
\* reconnections and reloads, except on the ways to go astray counted above.
OneActs == Settled /\ astray = {} => \A p \in Players : NeedsAction(p) <=> p = Expected

\* The log shows beside a question the answer that was given to it (an answer
\* carries the number of its question here; in the code it only says yes or no),
\* unless the page went astray or its log has missed something: the log a new page
\* makes of the stored messages is left out (it takes answers to the opponent's
\* questions too), and so is one that a lost question never reached.
LogTrue ==
  astray = {} => \A p \in Players \ patchy : \A i \in LogPanel(p) :
                   page[p].log[i].answer = page[p].log[i].question

\* Whoever the server waits for is offered it in the end, whatever connections
\* were lost and pages reloaded, unless a page goes astray.
OfferComes ==
  \A p \in Players : Expected = p ~> (NeedsAction(p) \/ Expected # p \/ astray # {})
=============================================================================
