----------------------------- MODULE RoomProofs -----------------------------
(***************************************************************************)
(* What the two pages of a running game agree on with the server, for any  *)
(* number of questions asked, connections lost and pages reloaded.  When   *)
(* everything has arrived exactly one page offers something, and it is     *)
(* that of the player the server waits for (OneActs); and the log shows    *)
(* beside a question the answer that was given to it (LogTrue).            *)
(*                                                                         *)
(* Base says of everything on its way that it is about questions the       *)
(* server has stored.  PageInv says of a page that has not gone astray     *)
(* what its flags mean while messages are on their way, and LogInv what    *)
(* its log means.                                                          *)
(***************************************************************************)
EXTENDS Room, TLAPS

\* Shapes of the state.
Kinds  == {"game", "response"}
Rows   == [channel : Kinds, by : Players, val : Nat]
Frames == [channel : Kinds, val : Nat]
Messages == [channel : Kinds, by : Players, val : Nat, turn : Players]
            \cup [channel : {"lobby_update"}, turn : Players]
            \cup [channel : {"pending_waiting", "pending_question"}, val : Nat]
Entries == [question : Nat, answer : Nat]
Pages == [lobby : Players \cup {NoOne}, id : Players \cup {NoOne}, turn : BOOLEAN,
          waiting : BOOLEAN, received : Nat, log : Seq(Entries)]

Typed ==
  /\ turn \in Players
  /\ stored \in Seq(Rows)
  /\ page \in [Players -> Pages]
  /\ sock \in [Players -> {"open", "connecting", "dead", "none"}]
  /\ greeting \in [Players -> [at : {"idle", "due", "found"}, found : Seq(Rows)]]
  /\ inbox \in [Players -> Seq(Messages)]
  /\ outbox \in [Players -> Seq(Frames)]
  /\ late \in [Players -> Nat]
  /\ asks \in Nat
  /\ \A p \in Players : greeting[p].at = "found" => greeting[p].found # <<>>

\* A question is open: the last stored message is one.
Last == stored[Len(stored)]
Pending == stored # <<>> /\ Last.channel = "game"

----------------------------------------------------------------------------
LEMMA OtherPlayer ==
  ASSUME NEW p \in Players
  PROVE  /\ Other(p) \in Players /\ Other(p) # p
         /\ \A r \in Players : r = p \/ r = Other(p)
BY RoomAssumption DEF Other

LEMMA OtherOne ==
  ASSUME NEW p \in Players, NEW q \in Players, p # q
  PROVE  Other(p) = q /\ Other(q) = p
BY OtherPlayer

LEMMA PendingIs ==
  /\ Pending => PendingQuestion = <<Last>> /\ DOMAIN PendingQuestion = {1} /\ PendingQuestion[1] = Last
  /\ ~Pending => PendingQuestion = <<>>
BY DEF Pending, PendingQuestion, Last

LEMMA MisplacedIs ==
  ASSUME NEW frame PROVE Misplaced(frame) <=> ~(Pending /\ Last.val = frame.val)
<1>1. CASE Pending
  BY <1>1, PendingIs DEF Misplaced
<1>2. CASE ~Pending
  BY <1>2, PendingIs DEF Misplaced
<1> QED BY <1>1, <1>2

\* What a sequence holds after a step.
Grown(t, s, m) == /\ Len(t) = Len(s) + 1 /\ DOMAIN t = 1..(Len(s) + 1) /\ DOMAIN s = 1..Len(s)
                  /\ Len(s) \in Nat
                  /\ \A i \in 1..Len(s) : t[i] = s[i]
                  /\ t[Len(s) + 1] = m

Shrunk(t, s) == /\ Len(t) = Len(s) - 1 /\ DOMAIN t = 1..(Len(s) - 1) /\ DOMAIN s = 1..Len(s)
                /\ Len(s) \in Nat \ {0}
                /\ \A i \in 1..(Len(s) - 1) : t[i] = s[i + 1]
                /\ Head(s) = s[1]

LEMMA GrownBy ==
  ASSUME NEW S, NEW s \in Seq(S), NEW m \in S
  PROVE  Append(s, m) \in Seq(S) /\ Grown(Append(s, m), s, m)
BY DEF Grown

LEMMA ShrunkBy ==
  ASSUME NEW S, NEW s \in Seq(S), s # <<>>
  PROVE  Tail(s) \in Seq(S) /\ Head(s) \in S /\ Shrunk(Tail(s), s)
BY DEF Shrunk

LEMMA JoinOne ==
  ASSUME NEW S, NEW s \in Seq(S), NEW m \in S
  PROVE  s \o <<m>> = Append(s, m)
OBVIOUS

LEMMA JoinTwo ==
  ASSUME NEW S, NEW s \in Seq(S), NEW m \in S, NEW n \in S
  PROVE  s \o <<m, n>> = Append(Append(s, m), n)
OBVIOUS

----------------------------------------------------------------------------
(* The state is well typed *)

LEMMA PageTyped ==
  ASSUME NEW s \in Pages, NEW m \in Messages PROVE OnMessage(s, m) \in Pages
<1>1. m.channel \in {"game", "response", "lobby_update", "pending_question", "pending_waiting"}
  BY DEF Messages, Kinds
<1>2. CASE m.channel = "game"
  <2>1. m.by \in Players /\ m.val \in Nat /\ m.turn \in Players
    BY <1>2 DEF Messages
  <2>2. [question |-> m.val, answer |-> 0] \in Entries
    BY <2>1 DEF Entries
  <2>3. Append(s.log, [question |-> m.val, answer |-> 0]) \in Seq(Entries)
    BY <2>2 DEF Pages
  <2> QED BY <1>2, <2>1, <2>3 DEF OnMessage, OnGame, Pages
<1>3. CASE m.channel = "response"
  <2>1. m.by \in Players /\ m.val \in Nat /\ m.turn \in Players
    BY <1>3 DEF Messages
  <2>2. Answered(s.log, m.val) \in Seq(Entries)
    <3>1. CASE s.log = <<>>
      BY <3>1 DEF Answered
    <3>2. CASE s.log # <<>>
      <4>1. s.log \in Seq(Entries) /\ Len(s.log) \in DOMAIN s.log
        BY <3>2 DEF Pages
      <4> DEFINE entry == s.log[Len(s.log)]
      <4>a. entry \in Entries
        BY <4>1
      <4> HIDE DEF entry
      <4>b. [entry EXCEPT !.answer = m.val] \in Entries
        BY <2>1, <4>a DEF Entries
      <4>2. [s.log[Len(s.log)] EXCEPT !.answer = m.val] \in Entries
        BY <4>b DEF entry
      <4> QED BY <3>2, <4>1, <4>2 DEF Answered
    <3> QED BY <3>1, <3>2
  <2> QED BY <1>3, <2>1, <2>2 DEF OnMessage, OnResponse, Pages
<1>4. CASE m.channel = "lobby_update"
  <2>1. m.turn \in Players
    BY <1>4 DEF Messages, Kinds
  <2> QED BY <1>4, <2>1 DEF OnMessage, OnLobbyUpdate, Pages
<1>5. CASE m.channel = "pending_question"
  <2>1. m.val \in Nat
    BY <1>5 DEF Messages, Kinds
  <2> QED BY <1>5, <2>1 DEF OnMessage, Pages
<1>6. CASE m.channel = "pending_waiting"
  BY <1>6 DEF OnMessage, Pages
<1> QED BY <1>1, <1>2, <1>3, <1>4, <1>5, <1>6

\* The messages the server makes.
LEMMA MessagesTyped ==
  ASSUME turn \in Players
  PROVE  /\ \A p \in Players, v \in Nat : GameMsg(p, v) \in Messages /\ ResponseMsg(p, v) \in Messages
         /\ \A t \in Players : UpdateMsg(t) \in Messages
         /\ \A id : \A row \in Rows : PendingMsg(id, row) \in Messages
<1>1. Other(turn) \in Players
  BY OtherPlayer
<1>2. \A p \in Players, v \in Nat : GameMsg(p, v) \in Messages /\ ResponseMsg(p, v) \in Messages
  BY <1>1 DEF GameMsg, ResponseMsg, Messages, Kinds
<1>3. \A t \in Players : UpdateMsg(t) \in Messages
  BY DEF UpdateMsg, Messages
<1>4. \A id : \A row \in Rows : PendingMsg(id, row) \in Messages
  BY DEF PendingMsg, Messages, Rows
<1> QED BY <1>2, <1>3, <1>4

LEMMA LastTyped == ASSUME Typed, stored # <<>> PROVE Last \in Rows /\ Len(stored) \in DOMAIN stored
BY DEF Typed, Last

LEMMA SendTyped ==
  ASSUME Typed, NEW p \in Players, NEW frame \in Frames, Send(p, frame)
  PROVE  outbox' \in [Players -> Seq(Frames)]
<1>1. Append(outbox[p], frame) \in Seq(Frames)
  BY DEF Typed
<1> QED BY <1>1 DEF Send, Typed

LEMMA TypedStep == ASSUME Typed, [Next]_vars PROVE Typed'
<1> USE DEF serverVars, countVars
<1>1. ASSUME NEW p \in Players, Ask(p) PROVE Typed'
  <2>1. [channel |-> "game", val |-> asks + 1] \in Frames
    BY DEF Typed, Frames, Kinds
  <2>2. outbox' \in [Players -> Seq(Frames)]
    BY <1>1, <2>1, SendTyped DEF Ask
  <2>3. [page[p] EXCEPT !.waiting = TRUE] \in Pages
    BY DEF Typed, Pages
  <2>4. page' \in [Players -> Pages]
    BY <1>1, <2>3 DEF Ask, Typed
  <2>5. UNCHANGED <<serverVars, sock, greeting, inbox, late>> /\ asks' \in Nat
    BY <1>1 DEF Ask, Typed
  <2> QED BY <2>2, <2>4, <2>5 DEF Typed
<1>2. ASSUME NEW p \in Players, Answer(p) PROVE Typed'
  <2>1. [channel |-> "response", val |-> page[p].received] \in Frames
    BY DEF Typed, Frames, Kinds, Pages
  <2>2. outbox' \in [Players -> Seq(Frames)]
    BY <1>2, <2>1, SendTyped DEF Answer
  <2>3. late' \in [Players -> Nat] /\ UNCHANGED <<serverVars, page, sock, greeting, inbox, asks>>
    BY <1>2 DEF Answer, Typed
  <2> QED BY <2>2, <2>3 DEF Typed
<1>3. ASSUME NEW p \in Players, ClearAnswered(p) PROVE Typed'
  <2>0. [page[p] EXCEPT !.received = 0, !.turn = TRUE] \in Pages
    BY DEF Typed, Pages
  <2>1. page' \in [Players -> Pages]
    BY <1>3, <2>0 DEF ClearAnswered, Typed
  <2>2. late' \in [Players -> Nat]
    BY <1>3 DEF ClearAnswered, Typed
  <2> QED BY <1>3, <2>1, <2>2 DEF ClearAnswered, Typed
<1>4. ASSUME NEW p \in Players, HandleFrame(p) PROVE Typed'
  <2>1. Head(outbox[p]) \in Frames /\ outbox' \in [Players -> Seq(Frames)]
    BY <1>4 DEF HandleFrame, Typed
  <2>2. turn' \in Players /\ stored' \in Seq(Rows) /\ inbox' \in [Players -> Seq(Messages)]
    <3>1. Head(outbox[p]).val \in Nat
      BY <2>1 DEF Frames
    <3>2. CASE UNCHANGED <<serverVars, inbox>>
      BY <3>2 DEF Typed
    <3>3. CASE /\ stored' = Append(stored, [channel |-> "game", by |-> p, val |-> Head(outbox[p]).val])
               /\ BroadcastAll(<<GameMsg(p, Head(outbox[p]).val)>>)
               /\ UNCHANGED turn
      <4>1. GameMsg(p, Head(outbox[p]).val) \in Messages
        BY <3>1, MessagesTyped DEF Typed
      <4>2. inbox' \in [Players -> Seq(Messages)]
        BY <3>3, <4>1 DEF BroadcastAll, Typed
      <4>3. [channel |-> "game", by |-> p, val |-> Head(outbox[p]).val] \in Rows
        BY <3>1 DEF Rows, Kinds
      <4> QED BY <3>3, <4>2, <4>3 DEF Typed
    <3>4. CASE /\ turn' = Other(turn)
               /\ stored' = Append(stored, [channel |-> "response", by |-> p, val |-> Head(outbox[p]).val])
               /\ BroadcastAll(<<ResponseMsg(p, Head(outbox[p]).val), UpdateMsg(Other(turn))>>)
      <4>1. Other(turn) \in Players
        BY OtherPlayer DEF Typed
      <4>2. ResponseMsg(p, Head(outbox[p]).val) \in Messages /\ UpdateMsg(Other(turn)) \in Messages
        BY <3>1, <4>1, MessagesTyped DEF Typed
      <4>3. inbox' \in [Players -> Seq(Messages)]
        BY <3>4, <4>2 DEF BroadcastAll, Typed
      <4>4. [channel |-> "response", by |-> p, val |-> Head(outbox[p]).val] \in Rows
        BY <3>1 DEF Rows, Kinds
      <4> QED BY <3>4, <4>1, <4>3, <4>4 DEF Typed
    <3> QED BY <1>4, <3>2, <3>3, <3>4, Zenon DEF HandleFrame
  <2> QED BY <1>4, <2>1, <2>2 DEF HandleFrame, Typed
<1>5. ASSUME NEW p \in Players, GreetRead(p) PROVE Typed'
  <2>1. UpdateMsg(turn) \in Messages
    BY MessagesTyped DEF Typed
  <2>2. inbox' \in [Players -> Seq(Messages)]
    BY <1>5, <2>1 DEF GreetRead, Typed
  <2>3. PendingQuestion \in Seq(Rows)
    <3>1. CASE Pending
      <4>1. Last \in Rows
        BY <3>1, LastTyped DEF Pending
      <4>2. <<Last>> \in Seq(Rows)
        BY <4>1
      <4> QED BY <3>1, <4>2, PendingIs
    <3>2. CASE ~Pending
      BY <3>2, PendingIs
    <3> QED BY <3>1, <3>2
  <2>4. greeting' \in [Players -> [at : {"idle", "due", "found"}, found : Seq(Rows)]]
        /\ \A q \in Players : greeting'[q].at = "found" => greeting'[q].found # <<>>
    BY <1>5, <2>3 DEF GreetRead, Typed, Idle, Found
  <2> QED BY <1>5, <2>2, <2>4 DEF GreetRead, Typed
<1>6. ASSUME NEW p \in Players, GreetSend(p) PROVE Typed'
  <2>1. Head(greeting[p].found) \in Rows
    BY <1>6 DEF GreetSend, Typed
  <2>2. PendingMsg(page[p].id, Head(greeting[p].found)) \in Messages
    BY <2>1, MessagesTyped DEF Typed
  <2>3. inbox' \in [Players -> Seq(Messages)]
    BY <1>6, <2>2 DEF GreetSend, Typed
  <2>4. greeting' \in [Players -> [at : {"idle", "due", "found"}, found : Seq(Rows)]]
        /\ \A q \in Players : greeting'[q].at = "found" => greeting'[q].found # <<>>
    BY <1>6 DEF GreetSend, Typed, Idle
  <2> QED BY <1>6, <2>3, <2>4 DEF GreetSend, Typed
<1>7. ASSUME NEW p \in Players, Opened(p) PROVE Typed'
  <2>1. greeting' \in [Players -> [at : {"idle", "due", "found"}, found : Seq(Rows)]]
        /\ \A q \in Players : greeting'[q].at = "found" => greeting'[q].found # <<>>
    BY <1>7 DEF Opened, Typed, Due
  <2> QED BY <1>7, <2>1 DEF Opened, Typed
<1>8. ASSUME NEW p \in Players, NEW state \in {"open", "connecting", "dead", "none"}, Disconnected(p, state)
      PROVE  /\ sock' \in [Players -> {"open", "connecting", "dead", "none"}]
             /\ greeting' \in [Players -> [at : {"idle", "due", "found"}, found : Seq(Rows)]]
             /\ \A q \in Players : greeting'[q].at = "found" => greeting'[q].found # <<>>
             /\ inbox' \in [Players -> Seq(Messages)]
             /\ outbox' \in [Players -> Seq(Frames)]
  BY <1>8 DEF Disconnected, Typed, Idle
<1>9. ASSUME NEW p \in Players, Lose(p) PROVE Typed'
  BY <1>8, <1>9 DEF Lose, Typed
<1>10. ASSUME NEW p \in Players, Closed(p) \/ Redial(p) PROVE Typed'
  BY <1>10 DEF Closed, Redial, Typed
<1>11. ASSUME NEW p \in Players, Identify(p) PROVE Typed'
  <2>0. [page[p] EXCEPT !.id = p, !.turn = (page[p].lobby = p)] \in Pages
    <3> DEFINE mine == (page[p].lobby = p)
    <3>1. mine \in BOOLEAN /\ page[p] \in Pages
      BY DEF Typed
    <3> HIDE DEF mine
    <3>2. [page[p] EXCEPT !.id = p, !.turn = mine] \in Pages
      BY <3>1 DEF Pages
    <3> QED BY <3>2 DEF mine
  <2>1. page' \in [Players -> Pages]
    BY <1>11, <2>0 DEF Identify, Typed
  <2> QED BY <1>8, <1>11, <2>1 DEF Identify, Typed
<1>12. ASSUME NEW p \in Players, Reload(p) PROVE Typed'
  <2>1. page' \in [Players -> Pages] /\ late' \in [Players -> Nat]
    BY <1>12 DEF Reload, Typed, Pages, FreshPage
  <2> QED BY <1>8, <1>12, <2>1 DEF Reload, Typed
<1>13. ASSUME NEW p \in Players, Receive(p) PROVE Typed'
  <2>1. Head(inbox[p]) \in Messages /\ inbox' \in [Players -> Seq(Messages)]
    BY <1>13 DEF Receive, Typed
  <2>2. page' \in [Players -> Pages]
    BY <1>13, <2>1, PageTyped DEF Receive, Typed
  <2> QED BY <1>13, <2>1, <2>2 DEF Receive, Typed
<1>14. CASE UNCHANGED vars
  BY <1>14 DEF Typed, vars
<1> QED BY <1>1, <1>2, <1>3, <1>4, <1>5, <1>6, <1>7, <1>9, <1>10, <1>11, <1>12, <1>13, <1>14 DEF Next
----------------------------------------------------------------------------
(* What the steps do, player by player *)

Joined(t, s, m, n) == /\ Len(t) = Len(s) + 2 /\ DOMAIN t = 1..(Len(s) + 2) /\ DOMAIN s = 1..Len(s)
                      /\ Len(s) \in Nat
                      /\ \A i \in 1..Len(s) : t[i] = s[i]
                      /\ t[Len(s) + 1] = m /\ t[Len(s) + 2] = n

LEMMA JoinedTo ==
  ASSUME NEW S, NEW s \in Seq(S), NEW m \in S, NEW n \in S
  PROVE  Joined(s \o <<m, n>>, s, m, n)
BY DEF Joined

LEMMA GrownByOne ==
  ASSUME NEW S, NEW s \in Seq(S), NEW m \in S
  PROVE  Grown(s \o <<m>>, s, m)
BY DEF Grown

\* A frame is dropped; or a question is stored and broadcast; or an answer is.
Dropped(p, frame) ==
  /\ frame.channel = "game" <=> p # turn
  /\ UNCHANGED <<serverVars, inbox>>
  /\ astray' = IF frame.channel = "game" THEN astray \cup {p} ELSE astray

Asked(p, frame) ==
  /\ frame.channel = "game" /\ p = turn
  /\ turn' = turn /\ astray' = astray
  /\ Grown(stored', stored, [channel |-> "game", by |-> p, val |-> frame.val])
  /\ \A r \in Players : IF sock[r] = "open" THEN Grown(inbox'[r], inbox[r], GameMsg(p, frame.val))
                                           ELSE inbox'[r] = inbox[r]

Replied(p, frame) ==
  /\ frame.channel = "response" /\ p # turn
  /\ turn' = p
  /\ Grown(stored', stored, [channel |-> "response", by |-> p, val |-> frame.val])
  /\ astray \subseteq astray'
  /\ astray' = astray \cup (IF Misplaced(frame) THEN Players ELSE {q \in Players \ {p} : MissesAnswer(q)})
  /\ \A r \in Players : IF sock[r] = "open"
                        THEN Joined(inbox'[r], inbox[r], ResponseMsg(p, frame.val), UpdateMsg(p))
                        ELSE inbox'[r] = inbox[r]

LEMMA Handled ==
  ASSUME Typed, NEW p \in Players, HandleFrame(p)
  PROVE  /\ outbox[p] # <<>> /\ outbox[p][1] \in Frames /\ Shrunk(outbox'[p], outbox[p])
         /\ \A q \in Players \ {p} : outbox'[q] = outbox[q]
         /\ UNCHANGED <<page, sock, greeting, late, patchy, asks>>
         /\ Dropped(p, outbox[p][1]) \/ Asked(p, outbox[p][1]) \/ Replied(p, outbox[p][1])
<1> DEFINE frame == outbox[p][1]
<1>1. /\ outbox[p] # <<>> /\ outbox[p] \in Seq(Frames) /\ outbox'[p] = Tail(outbox[p])
      /\ \A q \in Players \ {p} : outbox'[q] = outbox[q]
      /\ UNCHANGED <<page, sock, greeting, late, patchy, asks>>
  BY DEF HandleFrame, Typed, countVars
<1>2. Head(outbox[p]) = frame /\ frame \in Frames /\ Shrunk(outbox'[p], outbox[p])
  <2>1. Head(outbox[p]) \in Frames /\ Shrunk(Tail(outbox[p]), outbox[p])
    BY <1>1, ShrunkBy
  <2> QED BY <1>1, <2>1 DEF Shrunk
<1>3. frame.val \in Nat /\ frame.channel \in Kinds
  BY <1>2 DEF Frames
<1> HIDE DEF frame
<1>4. \/ /\ ~InTurn(p, frame)
         /\ astray' = IF frame.channel = "game" THEN astray \cup {p} ELSE astray
         /\ UNCHANGED <<serverVars, inbox>>
      \/ /\ InTurn(p, frame) /\ frame.channel = "game"
         /\ stored' = Append(stored, [channel |-> "game", by |-> p, val |-> frame.val])
         /\ BroadcastAll(<<GameMsg(p, frame.val)>>)
         /\ UNCHANGED <<turn, astray>>
      \/ /\ InTurn(p, frame) /\ frame.channel # "game"
         /\ turn' = Other(turn)
         /\ stored' = Append(stored, [channel |-> "response", by |-> p, val |-> frame.val])
         /\ BroadcastAll(<<ResponseMsg(p, frame.val), UpdateMsg(Other(turn))>>)
         /\ astray' = astray \cup (IF Misplaced(frame) THEN Players ELSE {q \in Players \ {p} : MissesAnswer(q)})
  BY <1>2, Zenon DEF HandleFrame
<1>5. ASSUME /\ ~InTurn(p, frame)
             /\ astray' = IF frame.channel = "game" THEN astray \cup {p} ELSE astray
             /\ UNCHANGED <<serverVars, inbox>>
      PROVE  Dropped(p, frame)
  <2>1. frame.channel = "game" <=> p # turn
    BY <1>5 DEF InTurn
  <2> QED BY <1>5, <2>1, Zenon DEF Dropped
<1>6. ASSUME /\ InTurn(p, frame) /\ frame.channel = "game"
             /\ stored' = Append(stored, [channel |-> "game", by |-> p, val |-> frame.val])
             /\ BroadcastAll(<<GameMsg(p, frame.val)>>)
             /\ UNCHANGED <<turn, astray>>
      PROVE  Asked(p, frame)
  <2>1. [channel |-> "game", by |-> p, val |-> frame.val] \in Rows
    BY <1>3 DEF Rows, Kinds
  <2>2. Grown(stored', stored, [channel |-> "game", by |-> p, val |-> frame.val])
    BY <1>6, <2>1, GrownBy DEF Typed
  <2>3. GameMsg(p, frame.val) \in Messages
    BY <1>3, MessagesTyped DEF Typed
  <2>4. ASSUME NEW r \in Players
        PROVE  IF sock[r] = "open" THEN Grown(inbox'[r], inbox[r], GameMsg(p, frame.val))
                                   ELSE inbox'[r] = inbox[r]
    <3>1. inbox[r] \in Seq(Messages)
      BY DEF Typed
    <3>2. Grown(inbox[r] \o <<GameMsg(p, frame.val)>>, inbox[r], GameMsg(p, frame.val))
      BY <2>3, <3>1, GrownByOne
    <3> QED BY <1>6, <3>2 DEF BroadcastAll, Reached
  <2>5. p = turn
    BY <1>6 DEF InTurn
  <2> QED BY <1>6, <2>2, <2>4, <2>5 DEF Asked
<1>7. ASSUME /\ InTurn(p, frame) /\ frame.channel # "game"
             /\ turn' = Other(turn)
             /\ stored' = Append(stored, [channel |-> "response", by |-> p, val |-> frame.val])
             /\ BroadcastAll(<<ResponseMsg(p, frame.val), UpdateMsg(Other(turn))>>)
             /\ astray' = astray \cup (IF Misplaced(frame) THEN Players ELSE {q \in Players \ {p} : MissesAnswer(q)})
      PROVE  Replied(p, frame)
  <2>1. [channel |-> "response", by |-> p, val |-> frame.val] \in Rows
    BY <1>3 DEF Rows, Kinds
  <2>2. Grown(stored', stored, [channel |-> "response", by |-> p, val |-> frame.val])
    BY <1>7, <2>1, GrownBy DEF Typed
  <2>3. p # turn /\ frame.channel = "response"
    BY <1>3, <1>7 DEF InTurn, Kinds
  <2>4. Other(turn) = p
    BY <2>3, OtherOne DEF Typed
  <2>5. ResponseMsg(p, frame.val) \in Messages /\ UpdateMsg(p) \in Messages
    BY <1>3, MessagesTyped DEF Typed
  <2>6. ASSUME NEW r \in Players
        PROVE  IF sock[r] = "open"
               THEN Joined(inbox'[r], inbox[r], ResponseMsg(p, frame.val), UpdateMsg(p))
               ELSE inbox'[r] = inbox[r]
    <3>1. inbox[r] \in Seq(Messages)
      BY DEF Typed
    <3>2. Joined(inbox[r] \o <<ResponseMsg(p, frame.val), UpdateMsg(p)>>, inbox[r],
                 ResponseMsg(p, frame.val), UpdateMsg(p))
      BY <2>5, <3>1, JoinedTo
    <3> QED BY <1>7, <2>4, <3>2 DEF BroadcastAll, Reached
  <2>7. astray \subseteq astray'
    BY <1>7
  <2> QED BY <1>7, <2>2, <2>3, <2>4, <2>6, <2>7 DEF Replied
<1>8. Dropped(p, frame) \/ Asked(p, frame) \/ Replied(p, frame)
  BY <1>4, <1>5, <1>6, <1>7, Zenon
<1> QED BY <1>1, <1>2, <1>8, Zenon DEF frame

LEMMA Greeted ==
  ASSUME Typed, NEW p \in Players, GreetRead(p)
  PROVE  /\ sock[p] = "open" /\ greeting[p].at = "due"
         /\ greeting'[p].at = IF Pending THEN "found" ELSE "idle"
         /\ Pending => greeting'[p].found[1] = Last
         /\ \A q \in Players \ {p} : greeting'[q] = greeting[q]
         /\ \A r \in Players : IF sock[r] = "open" THEN Grown(inbox'[r], inbox[r], UpdateMsg(turn))
                                                  ELSE inbox'[r] = inbox[r]
         /\ UNCHANGED <<turn, stored, page, sock, outbox, late, astray, patchy, asks>>
<1>1. greeting'[p].at = (IF Pending THEN "found" ELSE "idle") /\ (Pending => greeting'[p].found[1] = Last)
  <2>1. greeting'[p] = IF PendingQuestion = <<>> THEN Idle ELSE Found(PendingQuestion)
    BY DEF GreetRead, Typed
  <2>2. CASE Pending
    <3>1. PendingQuestion # <<>> /\ PendingQuestion[1] = Last
      BY <2>2, PendingIs
    <3> QED BY <2>1, <2>2, <3>1 DEF Found
  <2>3. CASE ~Pending
    BY <2>1, <2>3, PendingIs DEF Idle
  <2> QED BY <2>2, <2>3
<1>2. UpdateMsg(turn) \in Messages
  BY MessagesTyped DEF Typed
<1>3. ASSUME NEW r \in Players
      PROVE  IF sock[r] = "open" THEN Grown(inbox'[r], inbox[r], UpdateMsg(turn)) ELSE inbox'[r] = inbox[r]
  <2>1. inbox[r] \in Seq(Messages)
    BY DEF Typed
  <2>2. Grown(Append(inbox[r], UpdateMsg(turn)), inbox[r], UpdateMsg(turn))
    BY <1>2, <2>1, GrownBy
  <2> QED BY <2>2 DEF GreetRead, Reached
<1> QED BY <1>1, <1>3 DEF GreetRead, Typed, Due, serverVars, countVars

LEMMA Replayed ==
  ASSUME Typed, NEW p \in Players, GreetSend(p)
  PROVE  /\ sock[p] = "open" /\ greeting[p].at = "found" /\ greeting[p].found # <<>> /\ greeting[p].found[1] \in Rows
         /\ greeting'[p].at = "idle"
         /\ \A q \in Players \ {p} : greeting'[q] = greeting[q] /\ inbox'[q] = inbox[q]
         /\ Grown(inbox'[p], inbox[p], PendingMsg(page[p].id, greeting[p].found[1]))
         /\ UNCHANGED <<turn, stored, page, sock, outbox, late, astray, patchy, asks>>
<1>1. /\ greeting[p].found \in Seq(Rows) /\ greeting[p].found # <<>> /\ sock[p] = "open"
      /\ greeting[p].at = "found" /\ inbox[p] \in Seq(Messages)
  BY DEF GreetSend, Typed
<1>2. Head(greeting[p].found) = greeting[p].found[1] /\ greeting[p].found[1] \in Rows
  BY <1>1
<1>3. PendingMsg(page[p].id, greeting[p].found[1]) \in Messages
  BY <1>2, MessagesTyped DEF Typed
<1>4. Grown(Append(inbox[p], PendingMsg(page[p].id, greeting[p].found[1])), inbox[p],
            PendingMsg(page[p].id, greeting[p].found[1]))
  BY <1>1, <1>3, GrownBy
<1>5. greeting'[p].at = "idle" /\ \A q \in Players \ {p} : greeting'[q] = greeting[q] /\ inbox'[q] = inbox[q]
  BY DEF GreetSend, Typed, Idle
<1>6. inbox'[p] = Append(inbox[p], PendingMsg(page[p].id, greeting[p].found[1]))
  BY <1>2 DEF GreetSend, Typed
<1>7. UNCHANGED <<turn, stored, page, sock, outbox, late, astray, patchy, asks>>
  BY DEF GreetSend, serverVars, countVars
<1> QED BY <1>1, <1>2, <1>4, <1>5, <1>6, <1>7

LEMMA Received ==
  ASSUME Typed, NEW p \in Players, Receive(p)
  PROVE  /\ sock[p] = "open" /\ inbox[p] # <<>> /\ inbox[p][1] \in Messages
         /\ Shrunk(inbox'[p], inbox[p])
         /\ page'[p] = OnMessage(page[p], inbox[p][1])
         /\ \A q \in Players \ {p} : page'[q] = page[q] /\ inbox'[q] = inbox[q]
         /\ astray' = IF Overtaken(p, inbox[p][1]) \/ TakesItsOwn(p, inbox[p][1]) THEN astray \cup {p} ELSE astray
         /\ UNCHANGED <<turn, stored, sock, greeting, outbox, late, patchy, asks>>
<1>1. inbox[p] \in Seq(Messages) /\ inbox[p] # <<>> /\ sock[p] = "open" /\ inbox'[p] = Tail(inbox[p])
  BY DEF Receive, Typed
<1>2. Head(inbox[p]) = inbox[p][1] /\ inbox[p][1] \in Messages
  BY <1>1
<1>3. Shrunk(inbox'[p], inbox[p])
  BY <1>1, ShrunkBy
<1>4. page'[p] = OnMessage(page[p], inbox[p][1])
  BY <1>2 DEF Receive, Typed
<1>5. \A q \in Players \ {p} : page'[q] = page[q] /\ inbox'[q] = inbox[q]
  BY DEF Receive, Typed
<1>6. astray' = IF Overtaken(p, inbox[p][1]) \/ TakesItsOwn(p, inbox[p][1]) THEN astray \cup {p} ELSE astray
  BY <1>2 DEF Receive
<1>7. UNCHANGED <<turn, stored, sock, greeting, outbox, late, patchy, asks>>
  BY DEF Receive, serverVars, countVars
<1> QED BY <1>1, <1>2, <1>3, <1>4, <1>5, <1>6, <1>7

\* A frame given to the socket.
Sent(p, frame) ==
  \/ /\ sock[p] = "open" /\ Grown(outbox'[p], outbox[p], frame) /\ astray' = astray
  \/ /\ sock[p] = "dead" /\ outbox'[p] = outbox[p]
     /\ astray' = IF frame.channel = "game" THEN astray \cup {p} ELSE astray

LEMMA Sending ==
  ASSUME Typed, NEW p \in Players, NEW frame \in Frames, Send(p, frame)
  PROVE  Sent(p, frame) /\ \A q \in Players \ {p} : outbox'[q] = outbox[q]
<1>1. outbox[p] \in Seq(Frames)
  BY DEF Typed
<1>2. Grown(Append(outbox[p], frame), outbox[p], frame)
  BY <1>1, GrownBy
<1>3. CASE sock[p] = "open" /\ outbox' = [outbox EXCEPT ![p] = Append(@, frame)] /\ UNCHANGED astray
  BY <1>2, <1>3 DEF Sent, Typed
<1>4. CASE sock[p] = "dead" /\ astray' = (IF frame.channel = "game" THEN astray \cup {p} ELSE astray) /\ UNCHANGED outbox
  BY <1>4 DEF Sent
<1> QED BY <1>3, <1>4 DEF Send

LEMMA Asking ==
  ASSUME Typed, NEW p \in Players, Ask(p)
  PROVE  /\ page[p].id = p /\ page[p].turn /\ ~page[p].waiting
         /\ outbox[p] = <<>> /\ \A q \in Players : late[q] = 0
         /\ asks' = asks + 1
         /\ Sent(p, [channel |-> "game", val |-> asks + 1])
         /\ page'[p] = [page[p] EXCEPT !.waiting = TRUE]
         /\ \A q \in Players \ {p} : page'[q] = page[q] /\ outbox'[q] = outbox[q]
         /\ UNCHANGED <<turn, stored, sock, greeting, inbox, late, patchy>>
<1>1. [channel |-> "game", val |-> asks + 1] \in Frames
  BY DEF Typed, Frames, Kinds
<1>2. Sent(p, [channel |-> "game", val |-> asks + 1]) /\ \A q \in Players \ {p} : outbox'[q] = outbox[q]
  BY <1>1, Sending DEF Ask
<1>3. page'[p] = [page[p] EXCEPT !.waiting = TRUE] /\ \A q \in Players \ {p} : page'[q] = page[q]
  BY DEF Ask, Typed
<1>4. page[p].id = p /\ page[p].turn /\ ~page[p].waiting
  BY DEF Ask, PanelShown, Body
<1> QED BY <1>2, <1>3, <1>4 DEF Ask, serverVars

LEMMA Answering ==
  ASSUME Typed, NEW p \in Players, Answer(p)
  PROVE  /\ page[p].id = p /\ ~page[p].turn /\ page[p].received # 0
         /\ Sent(p, [channel |-> "response", val |-> page[p].received])
         /\ late'[p] = late[p] + 1 /\ late[p] \in Nat
         /\ \A q \in Players \ {p} : late'[q] = late[q] /\ outbox'[q] = outbox[q]
         /\ UNCHANGED <<turn, stored, page, sock, greeting, inbox, patchy, asks>>
<1>1. [channel |-> "response", val |-> page[p].received] \in Frames
  BY DEF Typed, Pages, Frames, Kinds
<1>2. Sent(p, [channel |-> "response", val |-> page[p].received]) /\ \A q \in Players \ {p} : outbox'[q] = outbox[q]
  BY <1>1, Sending DEF Answer
<1>3. page[p].id = p /\ ~page[p].turn /\ page[p].received # 0
  BY DEF Answer, PanelShown, Body
<1>4. late'[p] = late[p] + 1 /\ late[p] \in Nat /\ \A q \in Players \ {p} : late'[q] = late[q]
  BY DEF Answer, Typed
<1> QED BY <1>2, <1>3, <1>4 DEF Answer, serverVars, countVars

LEMMA Clearing ==
  ASSUME Typed, NEW p \in Players, ClearAnswered(p)
  PROVE  /\ late[p] \in Nat \ {0} /\ late'[p] = late[p] - 1
         /\ page'[p] = [page[p] EXCEPT !.received = 0, !.turn = TRUE]
         /\ \A q \in Players \ {p} : late'[q] = late[q] /\ page'[q] = page[q]
         /\ UNCHANGED <<turn, stored, sock, greeting, inbox, outbox, astray, patchy, asks>>
BY DEF ClearAnswered, Typed, serverVars, countVars

\* The socket of p is lost or replaced.
CutOff(p, state) ==
  /\ sock'[p] = state /\ greeting'[p].at = "idle" /\ inbox'[p] = <<>> /\ outbox'[p] = <<>>
  /\ \A q \in Players \ {p} : /\ sock'[q] = sock[q] /\ greeting'[q] = greeting[q]
                              /\ inbox'[q] = inbox[q] /\ outbox'[q] = outbox[q]
  /\ UNCHANGED <<turn, stored, asks>>

LEMMA CuttingOff ==
  ASSUME Typed, NEW p \in Players, NEW state, Disconnected(p, state), UNCHANGED <<turn, stored, asks>>
  PROVE  CutOff(p, state)
BY DEF Disconnected, Typed, CutOff, Idle

LEMMA Losing ==
  ASSUME Typed, NEW p \in Players, Lose(p)
  PROVE  /\ CutOff(p, "dead") /\ sock[p] \in {"open", "connecting"}
         /\ astray' = IF LosesQuestion(p) \/ LosesAnswer(p) THEN astray \cup {p} ELSE astray
         /\ patchy' = IF LosesEcho(p) THEN patchy \cup {p} ELSE patchy
         /\ UNCHANGED <<page, late>>
BY CuttingOff DEF Lose, serverVars

LEMMA Identifying ==
  ASSUME Typed, NEW p \in Players, Identify(p)
  PROVE  /\ CutOff(p, "connecting") /\ page[p].id = NoOne
         /\ page'[p] = [page[p] EXCEPT !.id = p, !.turn = (page[p].lobby = p)]
         /\ \A q \in Players \ {p} : page'[q] = page[q]
         /\ UNCHANGED <<late, astray, patchy>>
<1>1. CutOff(p, "connecting")
  BY CuttingOff DEF Identify, serverVars, countVars
<1> QED BY <1>1 DEF Identify, Typed

LEMMA Reloading ==
  ASSUME Typed, NEW p \in Players, Reload(p)
  PROVE  /\ CutOff(p, "connecting")
         /\ page'[p] = FreshPage /\ late'[p] = 0
         /\ \A q \in Players \ {p} : page'[q] = page[q] /\ late'[q] = late[q]
         /\ astray' = astray \ {p} /\ patchy' = patchy \cup {p}
<1>1. CutOff(p, "connecting")
  BY CuttingOff DEF Reload, serverVars
<1> QED BY <1>1 DEF Reload, Typed

LEMMA Opening ==
  ASSUME Typed, NEW p \in Players, Opened(p)
  PROVE  /\ sock[p] = "connecting" /\ sock'[p] = "open" /\ greeting'[p].at = "due"
         /\ \A q \in Players \ {p} : sock'[q] = sock[q] /\ greeting'[q] = greeting[q]
         /\ UNCHANGED <<turn, stored, page, inbox, outbox, late, astray, patchy, asks>>
BY DEF Opened, Typed, Due, serverVars, countVars

LEMMA Dialling ==
  ASSUME Typed, NEW p \in Players, Closed(p) \/ Redial(p)
  PROVE  /\ sock[p] \in {"dead", "none"} /\ sock'[p] \in {"none", "connecting"}
         /\ sock'[p] = "connecting" => late[p] = 0
         /\ \A q \in Players \ {p} : sock'[q] = sock[q]
         /\ UNCHANGED <<turn, stored, page, greeting, inbox, outbox, late, astray, patchy, asks>>
BY DEF Closed, Redial, Typed, serverVars, countVars

----------------------------------------------------------------------------
(* Numbers of questions are fresh, and sockets that are gone carry nothing *)

\* Question v was asked by b.
QuestionBy(b, v) == \E i \in DOMAIN stored : stored[i].channel = "game" /\ stored[i].by = b /\ stored[i].val = v
Known(v) == \E b \in Players : QuestionBy(b, v)

Numbered ==
  /\ \A b \in Players, v \in Nat : QuestionBy(b, v) => 0 < v /\ v <= asks
  /\ \A b, c \in Players, v \in Nat : QuestionBy(b, v) /\ QuestionBy(c, v) => b = c
  /\ Pending => Last.by = turn

SocketSound(p) ==
  /\ sock[p] # "open" => inbox[p] = <<>> /\ outbox[p] = <<>> /\ greeting[p].at = "idle"
  /\ sock[p] = "connecting" => late[p] = 0
  /\ page[p].id \in {p, NoOne}
  /\ page[p].id = NoOne => /\ ~page[p].waiting /\ outbox[p] = <<>> /\ late[p] = 0
                           /\ \A i \in DOMAIN inbox[p] : inbox[p][i].channel # "pending_waiting"

\* A question on its way to the server is new, and the first frame; an answer is to a known one.
FramesSound(p) ==
  \A i \in DOMAIN outbox[p] :
    /\ outbox[p][i].channel = "game" => /\ i = 1
                                        /\ 0 < outbox[p][i].val /\ outbox[p][i].val <= asks
                                        /\ ~Known(outbox[p][i].val)
    /\ outbox[p][i].channel = "response" => Known(outbox[p][i].val)

MessageSound(p, m) ==
  /\ m.channel = "game" => QuestionBy(m.by, m.val)
  /\ m.channel = "pending_waiting" => QuestionBy(p, m.val)
  /\ m.channel = "pending_question" => /\ Known(m.val)
                                       /\ page[p].id = p => QuestionBy(Other(p), m.val)

PageSound(p) == page[p].received # 0 => Known(page[p].received)
GreetingSound(p) == greeting[p].at = "found" => QuestionBy(greeting[p].found[1].by, greeting[p].found[1].val)

Sound(p) == /\ SocketSound(p) /\ FramesSound(p) /\ PageSound(p) /\ GreetingSound(p)
            /\ \A i \in DOMAIN inbox[p] : MessageSound(p, inbox[p][i])

\* The questions that the two pages send are different.
Different ==
  \A p, q \in Players : \A i \in DOMAIN outbox[p], j \in DOMAIN outbox[q] :
    outbox[p][i].channel = "game" /\ outbox[q][j].channel = "game" /\ outbox[p][i].val = outbox[q][j].val
      => p = q

Base == Typed /\ Numbered /\ Different /\ \A p \in Players : Sound(p)

LEMMA StoredSame ==
  ASSUME stored' = stored
  PROVE  /\ Last' = Last /\ (Pending' <=> Pending)
         /\ \A b, v : QuestionBy(b, v)' <=> QuestionBy(b, v)
         /\ \A v : Known(v)' <=> Known(v)
BY DEF Last, Pending, QuestionBy, Known

LEMMA StoredGrown ==
  ASSUME NEW m, Grown(stored', stored, m)
  PROVE  /\ Last' = m /\ (Pending' <=> m.channel = "game")
         /\ \A b, v : QuestionBy(b, v)' <=> (QuestionBy(b, v) \/ (m.channel = "game" /\ m.by = b /\ m.val = v))
         /\ \A v : Known(v) => Known(v)'
<1>1. Last' = m /\ stored' # <<>>
  BY DEF Grown, Last
<1>2. ASSUME NEW b, NEW v
      PROVE  QuestionBy(b, v)' <=> (QuestionBy(b, v) \/ (m.channel = "game" /\ m.by = b /\ m.val = v))
  BY DEF QuestionBy, Grown
<1>3. Pending' <=> m.channel = "game"
  BY <1>1 DEF Pending
<1>4. \A v : Known(v) => Known(v)'
  BY <1>2 DEF Known
<1> QED BY <1>1, <1>2, <1>3, <1>4, Zenon

LEMMA PendingKnown ==
  ASSUME Typed, Pending PROVE Last \in Rows /\ QuestionBy(Last.by, Last.val) /\ Known(Last.val)
<1>1. Last \in Rows /\ Len(stored) \in DOMAIN stored
  BY LastTyped DEF Pending
<1>2. QuestionBy(Last.by, Last.val)
  BY <1>1 DEF QuestionBy, Pending, Last
<1> QED BY <1>1, <1>2 DEF Known, Rows

\* Nothing changes for r.
Same(r) == /\ page'[r] = page[r] /\ sock'[r] = sock[r] /\ greeting'[r] = greeting[r]
           /\ inbox'[r] = inbox[r] /\ outbox'[r] = outbox[r] /\ late'[r] = late[r]

LEMMA SoundStays ==
  ASSUME NEW r \in Players, Typed, Sound(r), Same(r), stored' = stored, asks' \in Nat, asks <= asks'
  PROVE  Sound(r)'
<1>1. \A b, v : QuestionBy(b, v)' <=> QuestionBy(b, v)
  BY StoredSame
<1>2. \A v : Known(v)' <=> Known(v)
  BY StoredSame
<1>3. \A i \in DOMAIN outbox[r] : outbox[r][i].val \in Nat
  <2>1. outbox[r] \in Seq(Frames)
    BY DEF Typed
  <2>2. \A i \in DOMAIN outbox[r] : outbox[r][i] \in Frames
    BY <2>1
  <2> QED BY <2>2 DEF Frames
<1>4. SocketSound(r)' /\ PageSound(r)' /\ GreetingSound(r)'
  BY <1>1, <1>2 DEF Sound, Same, SocketSound, PageSound, GreetingSound
<1>5. FramesSound(r)'
  BY <1>2, <1>3 DEF Sound, Same, FramesSound, Typed
<1>6. (\A i \in DOMAIN inbox[r] : MessageSound(r, inbox[r][i]))'
  BY <1>1, <1>2 DEF Sound, Same, MessageSound
<1> QED BY <1>4, <1>5, <1>6 DEF Sound

LEMMA NumberedStays ==
  ASSUME Typed, Numbered, stored' = stored, turn' = turn, asks' \in Nat, asks <= asks'
  PROVE  Numbered'
<1>1. \A b, v : QuestionBy(b, v)' <=> QuestionBy(b, v)
  BY StoredSame
<1>2. Pending' => Last'.by = turn'
  BY StoredSame DEF Numbered
<1>3. (\A b \in Players, v \in Nat : QuestionBy(b, v) => 0 < v /\ v <= asks)'
  BY <1>1 DEF Numbered, Typed
<1>4. (\A b, c \in Players, v \in Nat : QuestionBy(b, v) /\ QuestionBy(c, v) => b = c)'
  BY <1>1 DEF Numbered
<1> QED BY <1>2, <1>3, <1>4 DEF Numbered

LEMMA DifferentStays ==
  ASSUME Different,
         \A p \in Players : \A i \in DOMAIN outbox'[p] : outbox'[p][i].channel = "game" =>
           \E j \in DOMAIN outbox[p] : outbox[p][j] = outbox'[p][i]
  PROVE  Different'
BY DEF Different

LEMMA MessagesStay ==
  ASSUME NEW r \in Players, Sound(r), page'[r].id = page[r].id,
         \A b, v : QuestionBy(b, v) => QuestionBy(b, v)',
         \A i \in DOMAIN inbox'[r] : \/ \E j \in DOMAIN inbox[r] : inbox'[r][i] = inbox[r][j]
                                     \/ MessageSound(r, inbox[r][i])' \/ inbox'[r][i].channel \in {"response", "lobby_update"}
  PROVE  (\A i \in DOMAIN inbox[r] : MessageSound(r, inbox[r][i]))'
<1>1. \A v : Known(v) => Known(v)'
  BY DEF Known
<1>2. ASSUME NEW i \in DOMAIN inbox'[r] PROVE MessageSound(r, inbox[r][i])'
  <2>1. CASE \E j \in DOMAIN inbox[r] : inbox'[r][i] = inbox[r][j]
    <3>1. PICK j \in DOMAIN inbox[r] : inbox'[r][i] = inbox[r][j]
      BY <2>1
    <3>2. MessageSound(r, inbox[r][j])
      BY DEF Sound
    <3> QED BY <1>1, <3>1, <3>2 DEF MessageSound
  <2>2. CASE inbox'[r][i].channel \in {"response", "lobby_update"}
    BY <2>2 DEF MessageSound
  <2> QED BY <2>1, <2>2
<1> QED BY <1>2

LEMMA BaseSpread ==
  ASSUME Base, NEW p \in Players PROVE Typed /\ Numbered /\ Different /\ Sound(p)
BY DEF Base

\* Steps that store nothing: only the sound state of the player who takes it is at stake.
LEMMA BaseQuiet ==
  ASSUME Base, NEW p \in Players, [Next]_vars,
         UNCHANGED <<turn, stored>>, asks <= asks',
         \A q \in Players \ {p} : Same(q),
         Sound(p)',
         \A i \in DOMAIN outbox'[p] : outbox'[p][i].channel = "game" =>
           \/ \E j \in DOMAIN outbox[p] : outbox[p][j] = outbox'[p][i]
           \/ outbox'[p][i].val > asks
  PROVE  Base'
<1>1. Typed'
  BY TypedStep DEF Base
<1>2. asks' \in Nat /\ asks \in Nat /\ Typed /\ Numbered
  BY <1>1 DEF Typed, Base
<1>3. Numbered'
  BY <1>2, NumberedStays
<1>4. ASSUME NEW r \in Players PROVE Sound(r)'
  <2>1. CASE r = p
    BY <2>1
  <2>2. CASE r # p
    BY <1>2, <2>2, SoundStays DEF Base
  <2> QED BY <2>1, <2>2
<1>5. Different'
  <2> SUFFICES ASSUME NEW r \in Players, NEW q \in Players, NEW i \in DOMAIN outbox'[r], NEW j \in DOMAIN outbox'[q],
                      outbox'[r][i].channel = "game", outbox'[q][j].channel = "game",
                      outbox'[r][i].val = outbox'[q][j].val, r # q
               PROVE  FALSE
    BY DEF Different
  <2>1. ASSUME NEW a \in Players, a # p PROVE outbox'[a] = outbox[a]
    BY <2>1 DEF Same
  <2>2. ASSUME NEW a \in Players, a # p, NEW k \in DOMAIN outbox'[a], outbox'[a][k].channel = "game"
        PROVE  outbox'[a][k].val <= asks
    BY <2>1, <2>2 DEF Base, Sound, FramesSound
  <2>3. ASSUME NEW a \in Players, NEW k \in DOMAIN outbox'[a], outbox'[a][k].channel = "game",
               outbox'[a][k].val <= asks
        PROVE  \E l \in DOMAIN outbox[a] : outbox[a][l] = outbox'[a][k]
    <3>1. outbox'[a][k].val \in Nat
      <4>1. outbox'[a] \in Seq(Frames)
        BY <1>1 DEF Typed
      <4>2. outbox'[a][k] \in Frames
        BY <4>1
      <4> QED BY <4>2 DEF Frames
    <3>2. ~(outbox'[a][k].val > asks)
      BY <1>2, <2>3, <3>1
    <3> QED BY <2>1, <2>3, <3>2
  <2>4. outbox'[r][i].val <= asks /\ outbox'[q][j].val <= asks
    BY <2>2
  <2> QED BY <2>3, <2>4 DEF Base, Different
<1> QED BY <1>1, <1>3, <1>4, <1>5 DEF Base

LEMMA IdsDiffer == NoOne \notin Players
BY RoomAssumption

LEMMA BaseAsk == ASSUME Base, [Next]_vars, NEW p \in Players, Ask(p) PROVE Base'
<1> DEFINE frame == [channel |-> "game", val |-> asks + 1]
<1>1. Typed /\ Sound(p) /\ asks \in Nat /\ Numbered
  BY DEF Base, Typed
<1>2. /\ page[p].id = p /\ outbox[p] = <<>> /\ late[p] = 0 /\ asks' = asks + 1
      /\ Sent(p, frame)
      /\ page'[p] = [page[p] EXCEPT !.waiting = TRUE]
      /\ \A q \in Players \ {p} : page'[q] = page[q] /\ outbox'[q] = outbox[q]
      /\ UNCHANGED <<turn, stored, sock, greeting, inbox, late, patchy>>
  BY <1>1, Asking
<1>3. page'[p].id = page[p].id /\ page'[p].received = page[p].received
  BY <1>1, <1>2 DEF Typed, Pages
<1>4. (\A b, v : QuestionBy(b, v)' <=> QuestionBy(b, v)) /\ (\A v : Known(v)' <=> Known(v))
  BY <1>2, StoredSame
<1>5. ~Known(asks + 1)
  BY <1>1 DEF Numbered, Known
<1>6. \A i \in DOMAIN outbox'[p] : i = 1 /\ outbox'[p][i] = frame /\ sock[p] = "open"
  BY <1>2 DEF Sent, Grown
<1>7. FramesSound(p)'
  BY <1>1, <1>2, <1>4, <1>5, <1>6 DEF FramesSound
<1>8. SocketSound(p)'
  BY <1>1, <1>2, <1>3, <1>6, IdsDiffer DEF Sound, SocketSound, Sent
<1>9. PageSound(p)' /\ GreetingSound(p)'
  BY <1>1, <1>2, <1>3, <1>4 DEF Sound, PageSound, GreetingSound
<1>10. (\A i \in DOMAIN inbox[p] : MessageSound(p, inbox[p][i]))'
  BY <1>1, <1>2, <1>3, <1>4, MessagesStay
<1>11. Sound(p)'
  BY <1>7, <1>8, <1>9, <1>10 DEF Sound
<1>12. \A q \in Players \ {p} : Same(q)
  BY <1>2 DEF Same
<1>13. \A i \in DOMAIN outbox'[p] : outbox'[p][i].val > asks
  BY <1>1, <1>6
<1> QED BY <1>1, <1>2, <1>11, <1>12, <1>13, BaseQuiet

LEMMA BaseAnswer == ASSUME Base, [Next]_vars, NEW p \in Players, Answer(p) PROVE Base'
<1> DEFINE frame == [channel |-> "response", val |-> page[p].received]
<1>1. Typed /\ Sound(p) /\ asks \in Nat
  BY DEF Base, Typed
<1>2. /\ page[p].id = p /\ page[p].received # 0
      /\ Sent(p, frame)
      /\ \A q \in Players \ {p} : late'[q] = late[q] /\ outbox'[q] = outbox[q]
      /\ UNCHANGED <<turn, stored, page, sock, greeting, inbox, patchy, asks>>
  BY <1>1, Answering
<1>3. sock[p] \in {"open", "dead"}
  BY <1>2 DEF Sent
<1>4. (\A b, v : QuestionBy(b, v)' <=> QuestionBy(b, v)) /\ (\A v : Known(v)' <=> Known(v))
  BY <1>2, StoredSame
<1>5. \A i \in DOMAIN outbox'[p] : \/ i \in DOMAIN outbox[p] /\ outbox'[p][i] = outbox[p][i]
                                  \/ outbox'[p][i] = frame
  BY <1>2 DEF Sent, Grown
<1>6. Known(frame.val)
  BY <1>1, <1>2 DEF Sound, PageSound
<1>7. FramesSound(p)'
  BY <1>1, <1>2, <1>4, <1>5, <1>6 DEF Sound, FramesSound
<1>8. SocketSound(p)'
  BY <1>1, <1>2, <1>3, IdsDiffer DEF Sound, SocketSound, Sent
<1>9. PageSound(p)' /\ GreetingSound(p)'
  BY <1>1, <1>2, <1>4 DEF Sound, PageSound, GreetingSound
<1>10. (\A i \in DOMAIN inbox[p] : MessageSound(p, inbox[p][i]))'
  BY <1>1, <1>2, <1>4, MessagesStay
<1>11. Sound(p)'
  BY <1>7, <1>8, <1>9, <1>10 DEF Sound
<1>12. \A q \in Players \ {p} : Same(q)
  BY <1>2 DEF Same
<1>13. \A i \in DOMAIN outbox'[p] : outbox'[p][i].channel = "game" =>
         \E j \in DOMAIN outbox[p] : outbox[p][j] = outbox'[p][i]
  BY <1>5
<1> QED BY <1>1, <1>2, <1>11, <1>12, <1>13, BaseQuiet

LEMMA BaseClear == ASSUME Base, [Next]_vars, NEW p \in Players, ClearAnswered(p) PROVE Base'
<1>1. Typed /\ Sound(p) /\ asks \in Nat
  BY DEF Base, Typed
<1>2. /\ late[p] \in Nat \ {0} /\ late'[p] = late[p] - 1
      /\ page'[p] = [page[p] EXCEPT !.received = 0, !.turn = TRUE]
      /\ \A q \in Players \ {p} : late'[q] = late[q] /\ page'[q] = page[q]
      /\ UNCHANGED <<turn, stored, sock, greeting, inbox, outbox, astray, patchy, asks>>
  BY <1>1, Clearing
<1>3. page'[p].id = page[p].id /\ page'[p].received = 0 /\ page'[p].waiting = page[p].waiting
  BY <1>1, <1>2 DEF Typed, Pages
<1>4. (\A b, v : QuestionBy(b, v)' <=> QuestionBy(b, v)) /\ (\A v : Known(v)' <=> Known(v))
  BY <1>2, StoredSame
<1>7. FramesSound(p)'
  BY <1>1, <1>2, <1>4 DEF Sound, FramesSound
<1>8. SocketSound(p)'
  BY <1>1, <1>2, <1>3 DEF Sound, SocketSound
<1>9. PageSound(p)' /\ GreetingSound(p)'
  BY <1>1, <1>2, <1>3, <1>4 DEF Sound, PageSound, GreetingSound
<1>10. (\A i \in DOMAIN inbox[p] : MessageSound(p, inbox[p][i]))'
  BY <1>1, <1>2, <1>3, <1>4, MessagesStay
<1>11. Sound(p)'
  BY <1>7, <1>8, <1>9, <1>10 DEF Sound
<1>12. \A q \in Players \ {p} : Same(q)
  BY <1>2 DEF Same
<1> QED BY <1>1, <1>2, <1>11, <1>12, BaseQuiet

LEMMA BaseOpened == ASSUME Base, [Next]_vars, NEW p \in Players, Opened(p) PROVE Base'
<1>1. Typed /\ Sound(p) /\ asks \in Nat
  BY DEF Base, Typed
<1>2. /\ sock[p] = "connecting" /\ sock'[p] = "open" /\ greeting'[p].at = "due"
      /\ \A q \in Players \ {p} : sock'[q] = sock[q] /\ greeting'[q] = greeting[q]
      /\ UNCHANGED <<turn, stored, page, inbox, outbox, late, astray, patchy, asks>>
  BY <1>1, Opening
<1>4. (\A b, v : QuestionBy(b, v)' <=> QuestionBy(b, v)) /\ (\A v : Known(v)' <=> Known(v))
  BY <1>2, StoredSame
<1>7. FramesSound(p)' /\ SocketSound(p)'
  BY <1>1, <1>2, <1>4 DEF Sound, FramesSound, SocketSound
<1>9. PageSound(p)' /\ GreetingSound(p)'
  BY <1>1, <1>2, <1>4 DEF Sound, PageSound, GreetingSound
<1>10. (\A i \in DOMAIN inbox[p] : MessageSound(p, inbox[p][i]))'
  BY <1>1, <1>2, <1>4, MessagesStay
<1>11. Sound(p)'
  BY <1>7, <1>9, <1>10 DEF Sound
<1>12. \A q \in Players \ {p} : Same(q)
  BY <1>2 DEF Same
<1> QED BY <1>1, <1>2, <1>11, <1>12, BaseQuiet

LEMMA BaseDialling == ASSUME Base, [Next]_vars, NEW p \in Players, Closed(p) \/ Redial(p) PROVE Base'
<1>1. Typed /\ Sound(p) /\ asks \in Nat
  BY DEF Base, Typed
<1>2. /\ sock[p] \in {"dead", "none"} /\ sock'[p] \in {"none", "connecting"}
      /\ sock'[p] = "connecting" => late[p] = 0
      /\ \A q \in Players \ {p} : sock'[q] = sock[q]
      /\ UNCHANGED <<turn, stored, page, greeting, inbox, outbox, late, astray, patchy, asks>>
  BY <1>1, Dialling
<1>4. (\A b, v : QuestionBy(b, v)' <=> QuestionBy(b, v)) /\ (\A v : Known(v)' <=> Known(v))
  BY <1>2, StoredSame
<1>7. FramesSound(p)' /\ SocketSound(p)'
  BY <1>1, <1>2, <1>4 DEF Sound, FramesSound, SocketSound
<1>9. PageSound(p)' /\ GreetingSound(p)'
  BY <1>1, <1>2, <1>4 DEF Sound, PageSound, GreetingSound
<1>10. (\A i \in DOMAIN inbox[p] : MessageSound(p, inbox[p][i]))'
  BY <1>1, <1>2, <1>4, MessagesStay
<1>11. Sound(p)'
  BY <1>7, <1>9, <1>10 DEF Sound
<1>12. \A q \in Players \ {p} : Same(q)
  BY <1>2 DEF Same
<1> QED BY <1>1, <1>2, <1>11, <1>12, BaseQuiet

\* A socket that is lost or replaced, whatever the page keeps.
LEMMA BaseCutOff ==
  ASSUME Base, [Next]_vars, NEW p \in Players, NEW state \in {"dead", "connecting"}, CutOff(p, state),
         \A q \in Players \ {p} : page'[q] = page[q] /\ late'[q] = late[q],
         state = "connecting" => late'[p] = 0,
         page'[p].id \in {p, NoOne},
         page'[p].id = NoOne => ~page'[p].waiting /\ late'[p] = 0,
         page'[p].received \in {0, page[p].received}
  PROVE  Base'
<1>1. Typed /\ Sound(p) /\ asks \in Nat
  BY DEF Base, Typed
<1>2. /\ sock'[p] = state /\ greeting'[p].at = "idle" /\ inbox'[p] = <<>> /\ outbox'[p] = <<>>
      /\ \A q \in Players \ {p} : Same(q)
      /\ UNCHANGED <<turn, stored, asks>>
  BY DEF CutOff, Same
<1>4. (\A b, v : QuestionBy(b, v)' <=> QuestionBy(b, v)) /\ (\A v : Known(v)' <=> Known(v))
  BY <1>2, StoredSame
<1>7. FramesSound(p)' /\ SocketSound(p)'
  BY <1>2 DEF FramesSound, SocketSound
<1>9. PageSound(p)' /\ GreetingSound(p)'
  BY <1>1, <1>2, <1>4 DEF Sound, PageSound, GreetingSound
<1>11. Sound(p)'
  BY <1>2, <1>7, <1>9 DEF Sound
<1> QED BY <1>1, <1>2, <1>11, BaseQuiet

LEMMA BaseLose == ASSUME Base, [Next]_vars, NEW p \in Players, Lose(p) PROVE Base'
<1>1. Typed /\ Sound(p)
  BY DEF Base
<1>2. CutOff(p, "dead") /\ UNCHANGED <<page, late>>
  BY <1>1, Losing
<1> QED BY <1>1, <1>2, BaseCutOff DEF Sound, SocketSound

LEMMA BaseIdentify == ASSUME Base, [Next]_vars, NEW p \in Players, Identify(p) PROVE Base'
<1>1. Typed /\ Sound(p)
  BY DEF Base
<1>2. /\ CutOff(p, "connecting") /\ page[p].id = NoOne
      /\ page'[p] = [page[p] EXCEPT !.id = p, !.turn = (page[p].lobby = p)]
      /\ \A q \in Players \ {p} : page'[q] = page[q]
      /\ UNCHANGED <<late, astray, patchy>>
  BY <1>1, Identifying
<1>3. page'[p].id = p /\ page'[p].received = page[p].received
  BY <1>1, <1>2 DEF Typed, Pages
<1>4. late[p] = 0
  BY <1>1, <1>2 DEF Sound, SocketSound
<1> QED BY <1>2, <1>3, <1>4, BaseCutOff, IdsDiffer

LEMMA BaseReload == ASSUME Base, [Next]_vars, NEW p \in Players, Reload(p) PROVE Base'
<1>1. /\ CutOff(p, "connecting")
      /\ page'[p] = FreshPage /\ late'[p] = 0
      /\ \A q \in Players \ {p} : page'[q] = page[q] /\ late'[q] = late[q]
  BY Reloading DEF Base
<1> QED BY <1>1, BaseCutOff DEF FreshPage

LEMMA BaseGreetRead == ASSUME Base, [Next]_vars, NEW p \in Players, GreetRead(p) PROVE Base'
<1>1. Typed /\ Typed' /\ Numbered /\ asks \in Nat
  BY TypedStep DEF Base, Typed
<1>2. /\ sock[p] = "open" /\ greeting[p].at = "due"
      /\ greeting'[p].at = IF Pending THEN "found" ELSE "idle"
      /\ Pending => greeting'[p].found[1] = Last
      /\ \A q \in Players \ {p} : greeting'[q] = greeting[q]
      /\ \A r \in Players : IF sock[r] = "open" THEN Grown(inbox'[r], inbox[r], UpdateMsg(turn))
                                               ELSE inbox'[r] = inbox[r]
      /\ UNCHANGED <<turn, stored, page, sock, outbox, late, astray, patchy, asks>>
  BY <1>1, Greeted
<1>3. (\A b, v : QuestionBy(b, v)' <=> QuestionBy(b, v)) /\ (\A v : Known(v)' <=> Known(v))
  BY <1>2, StoredSame
<1>4. ASSUME NEW r \in Players PROVE Sound(r)'
  <2>1. Sound(r)
    BY DEF Base
  <2>2. \A i \in DOMAIN inbox'[r] : \/ i \in DOMAIN inbox[r] /\ inbox'[r][i] = inbox[r][i]
                                    \/ inbox'[r][i].channel = "lobby_update"
    <3>1. UpdateMsg(turn).channel = "lobby_update"
      BY DEF UpdateMsg
    <3>2. CASE sock[r] = "open"
      <4>1. Grown(inbox'[r], inbox[r], UpdateMsg(turn))
        BY <1>2, <3>2
      <4> QED BY <3>1, <4>1 DEF Grown
    <3>3. CASE sock[r] # "open"
      BY <1>2, <3>3
    <3> QED BY <3>2, <3>3
  <2>3. (\A i \in DOMAIN inbox[r] : MessageSound(r, inbox[r][i]))'
    BY <1>2, <1>3, <2>1, <2>2, MessagesStay
  <2>4. FramesSound(r)' /\ PageSound(r)'
    BY <1>2, <1>3, <2>1 DEF Sound, FramesSound, PageSound
  <2>5. GreetingSound(r)'
    <3>1. CASE r = p
      BY <1>1, <1>2, <1>3, <3>1, PendingKnown DEF GreetingSound
    <3>2. CASE r # p
      BY <1>2, <1>3, <2>1, <3>2 DEF Sound, GreetingSound
    <3> QED BY <3>1, <3>2
  <2>6. SocketSound(r)'
    <3>1. sock[r] # "open" => r # p /\ inbox'[r] = inbox[r] /\ greeting'[r] = greeting[r]
      BY <1>2
    <3> QED BY <1>2, <2>1, <2>2, <3>1 DEF Sound, SocketSound
  <2> QED BY <2>3, <2>4, <2>5, <2>6 DEF Sound
<1>5. Numbered'
  BY <1>1, <1>2, NumberedStays
<1>6. Different'
  BY <1>2 DEF Base, Different
<1> QED BY <1>1, <1>4, <1>5, <1>6 DEF Base

LEMMA BaseGreetSend == ASSUME Base, [Next]_vars, NEW p \in Players, GreetSend(p) PROVE Base'
<1>1. Typed /\ Sound(p) /\ asks \in Nat
  BY DEF Base, Typed
<1>2. /\ sock[p] = "open" /\ greeting[p].at = "found" /\ greeting[p].found # <<>> /\ greeting[p].found[1] \in Rows
      /\ greeting'[p].at = "idle"
      /\ \A q \in Players \ {p} : greeting'[q] = greeting[q] /\ inbox'[q] = inbox[q]
      /\ Grown(inbox'[p], inbox[p], PendingMsg(page[p].id, greeting[p].found[1]))
      /\ UNCHANGED <<turn, stored, page, sock, outbox, late, astray, patchy, asks>>
  BY <1>1, Replayed
<1> DEFINE row == greeting[p].found[1]
<1> DEFINE m == PendingMsg(page[p].id, row)
<1>3. (\A b, v : QuestionBy(b, v)' <=> QuestionBy(b, v)) /\ (\A v : Known(v)' <=> Known(v))
  BY <1>2, StoredSame
<1>4. QuestionBy(row.by, row.val) /\ row.by \in Players
  BY <1>1, <1>2 DEF Sound, GreetingSound, Rows
<1>5. page[p].id \in {p, NoOne}
  BY <1>1 DEF Sound, SocketSound
<1>6. m.val = row.val /\ m.channel = IF row.by = page[p].id THEN "pending_waiting" ELSE "pending_question"
  BY DEF PendingMsg
<1>7. MessageSound(p, m)
  <2>1. CASE row.by = page[p].id
    <3>1. row.by = p
      BY <1>4, <1>5, <2>1, IdsDiffer
    <3> QED BY <1>4, <1>6, <2>1, <3>1 DEF MessageSound
  <2>2. CASE row.by # page[p].id
    <3>1. page[p].id = p => row.by = Other(p)
      BY <1>4, <2>2, OtherPlayer
    <3> QED BY <1>4, <1>6, <2>2, <3>1 DEF MessageSound, Known
  <2> QED BY <2>1, <2>2
<1>8. \A i \in DOMAIN inbox'[p] : \/ i \in DOMAIN inbox[p] /\ inbox'[p][i] = inbox[p][i]
                                  \/ inbox'[p][i] = m
  BY <1>2 DEF Grown
<1> HIDE DEF m, row
<1>10. (\A i \in DOMAIN inbox[p] : MessageSound(p, inbox[p][i]))'
  <2> SUFFICES ASSUME NEW i \in DOMAIN inbox'[p] PROVE MessageSound(p, inbox[p][i])'
    OBVIOUS
  <2>1. CASE i \in DOMAIN inbox[p] /\ inbox'[p][i] = inbox[p][i]
    <3>1. MessageSound(p, inbox[p][i])
      BY <1>1, <2>1 DEF Sound
    <3> QED BY <1>2, <1>3, <2>1, <3>1 DEF MessageSound
  <2>2. CASE inbox'[p][i] = m
    BY <1>2, <1>3, <1>7, <2>2 DEF MessageSound
  <2> QED BY <1>8, <2>1, <2>2
<1>11. FramesSound(p)' /\ PageSound(p)' /\ GreetingSound(p)'
  BY <1>1, <1>2, <1>3 DEF Sound, FramesSound, PageSound, GreetingSound
<1>12. SocketSound(p)'
  <2>1. page[p].id = NoOne => m.channel # "pending_waiting"
    BY <1>4, <1>6, IdsDiffer DEF m, row
  <2> QED BY <1>1, <1>2, <1>8, <2>1 DEF Sound, SocketSound
<1>13. Sound(p)' /\ \A q \in Players \ {p} : Same(q)
  BY <1>2, <1>10, <1>11, <1>12 DEF Sound, Same
<1> QED BY <1>1, <1>2, <1>13, BaseQuiet

\* Page s has taken in message m and is t.
TakesIn(t, s, m) ==
  /\ t.id = s.id
  /\ m.channel = "game" => /\ t.waiting = s.waiting /\ t.turn = (m.turn = s.id)
                           /\ t.received = IF m.by = s.id THEN s.received ELSE m.val
                           /\ t.log = IF m.by = s.id THEN Append(s.log, [question |-> m.val, answer |-> 0])
                                                     ELSE s.log
  /\ m.channel = "response" => /\ t.turn = (m.turn = s.id)
                               /\ m.by = s.id => t.waiting = s.waiting /\ t.received = s.received /\ t.log = s.log
                               /\ m.by # s.id => ~t.waiting /\ t.received = 0 /\ t.log = Answered(s.log, m.val)
  /\ m.channel = "lobby_update" => /\ t.waiting = s.waiting /\ t.received = s.received /\ t.log = s.log
                                   /\ t.turn = IF s.id = NoOne THEN s.turn ELSE (m.turn = s.id)
  /\ m.channel = "pending_question" => /\ t.waiting = s.waiting /\ t.turn = s.turn
                                       /\ t.received = m.val /\ t.log = s.log
  /\ m.channel = "pending_waiting" => t.waiting /\ t.turn = s.turn /\ t.received = s.received /\ t.log = s.log

LEMMA PageAfter ==
  ASSUME NEW s \in Pages, NEW m \in Messages PROVE TakesIn(OnMessage(s, m), s, m)
<1> USE DEF TakesIn
<1>1. CASE m.channel = "game"
  BY <1>1 DEF OnMessage, OnGame, Pages
<1>2. CASE m.channel = "response"
  BY <1>2 DEF OnMessage, OnResponse, Pages
<1>3. CASE m.channel = "lobby_update"
  BY <1>3 DEF OnMessage, OnLobbyUpdate, Pages
<1>4. CASE m.channel = "pending_question"
  BY <1>4 DEF OnMessage, Pages
<1>5. CASE m.channel = "pending_waiting"
  BY <1>5 DEF OnMessage, Pages
<1>6. m.channel \in {"game", "response", "lobby_update", "pending_question", "pending_waiting"}
  BY DEF Messages, Kinds
<1> QED BY <1>1, <1>2, <1>3, <1>4, <1>5, <1>6

LEMMA BaseReceive == ASSUME Base, [Next]_vars, NEW p \in Players, Receive(p) PROVE Base'
<1> DEFINE m == inbox[p][1]
<1>1. Typed /\ Sound(p) /\ asks \in Nat /\ page[p] \in Pages
  BY DEF Base, Typed
<1>2. /\ sock[p] = "open" /\ m \in Messages /\ Shrunk(inbox'[p], inbox[p])
      /\ page'[p] = OnMessage(page[p], m)
      /\ \A q \in Players \ {p} : page'[q] = page[q] /\ inbox'[q] = inbox[q]
      /\ UNCHANGED <<turn, stored, sock, greeting, outbox, late, patchy, asks>>
  BY <1>1, Received
<1>3. (\A b, v : QuestionBy(b, v)' <=> QuestionBy(b, v)) /\ (\A v : Known(v)' <=> Known(v))
  BY <1>2, StoredSame
<1>4. \A i \in DOMAIN inbox'[p] : i + 1 \in DOMAIN inbox[p] /\ inbox'[p][i] = inbox[p][i + 1]
  BY <1>2 DEF Shrunk
<1>5. 1 \in DOMAIN inbox[p]
  BY <1>2 DEF Shrunk
<1> HIDE DEF m
<1>0. TakesIn(page'[p], page[p], m)
  BY <1>1, <1>2, PageAfter
<1>6. page'[p].id = page[p].id
  BY <1>0 DEF TakesIn
<1>7. (\A i \in DOMAIN inbox[p] : MessageSound(p, inbox[p][i]))'
  BY <1>1, <1>3, <1>4, <1>6, MessagesStay
<1>8. MessageSound(p, m)
  BY <1>1, <1>5 DEF Sound, m
<1>9. FramesSound(p)' /\ GreetingSound(p)'
  BY <1>1, <1>2, <1>3 DEF Sound, FramesSound, GreetingSound
<1>10. m.channel \in {"game", "response", "lobby_update", "pending_question", "pending_waiting"}
  BY <1>2 DEF Messages, Kinds
<1>11. m.channel = "game" => m.by \in Players
  BY <1>2 DEF Messages
<1>12. PageSound(p)'
  <2>1. m.channel = "game" => Known(m.val)
    BY <1>8, <1>11 DEF MessageSound, Known
  <2>2. m.channel = "pending_question" => Known(m.val)
    BY <1>8 DEF MessageSound
  <2>3. page'[p].received \in {0, page[p].received} \/ (page'[p].received = m.val /\ Known(m.val))
    BY <1>0, <1>10, <2>1, <2>2 DEF TakesIn
  <2> QED BY <1>1, <1>3, <2>3 DEF Sound, PageSound
<1>13. SocketSound(p)'
  <2>1. page[p].id = NoOne => m.channel # "pending_waiting"
    BY <1>1, <1>5 DEF Sound, SocketSound, m
  <2>2. page'[p].id = NoOne => ~page'[p].waiting
    <3>1. page[p].id = NoOne => ~page[p].waiting
      BY <1>1 DEF Sound, SocketSound
    <3> QED BY <1>0, <1>10, <2>1, <3>1 DEF TakesIn
  <2> QED BY <1>1, <1>2, <1>4, <1>6, <2>2 DEF Sound, SocketSound
<1>14. Sound(p)'
  BY <1>7, <1>9, <1>12, <1>13 DEF Sound
<1>15. \A q \in Players \ {p} : Same(q)
  BY <1>2 DEF Same
<1> QED BY <1>1, <1>2, <1>14, <1>15, BaseQuiet

LEMMA BaseHandleFrame == ASSUME Base, [Next]_vars, NEW p \in Players, HandleFrame(p) PROVE Base'
<1> DEFINE frame == outbox[p][1]
<1>1. Typed /\ Typed' /\ Numbered /\ Different /\ Sound(p) /\ asks \in Nat
  BY TypedStep DEF Base, Typed
<1>2. /\ outbox[p] # <<>> /\ frame \in Frames /\ Shrunk(outbox'[p], outbox[p])
      /\ \A q \in Players \ {p} : outbox'[q] = outbox[q]
      /\ UNCHANGED <<page, sock, greeting, late, patchy, asks>>
      /\ Dropped(p, frame) \/ Asked(p, frame) \/ Replied(p, frame)
  BY <1>1, Handled
<1>3. 1 \in DOMAIN outbox[p] /\ \A i \in DOMAIN outbox'[p] :
        i + 1 \in DOMAIN outbox[p] /\ i + 1 # 1 /\ outbox'[p][i] = outbox[p][i + 1]
  BY <1>2 DEF Shrunk
<1>4. \A i \in DOMAIN outbox'[p] : outbox'[p][i].channel # "game"
  BY <1>1, <1>3 DEF Sound, FramesSound
<1>5. frame.channel = "game" => 0 < frame.val /\ frame.val <= asks /\ ~Known(frame.val) /\ frame.val \in Nat
  BY <1>1, <1>2, <1>3 DEF Sound, FramesSound, Frames
<1>6. sock[p] = "open"
  BY <1>1, <1>2 DEF Sound, SocketSound
<1> HIDE DEF frame
<1>7. Different'
  <2>1. \A q \in Players : \A i \in DOMAIN outbox'[q] : outbox'[q][i].channel = "game" =>
           \E j \in DOMAIN outbox[q] : outbox[q][j] = outbox'[q][i]
    BY <1>2, <1>4
  <2> QED BY <1>1, <2>1, DifferentStays
<1>8. /\ \A b, v : QuestionBy(b, v)' <=> (QuestionBy(b, v) \/ (Asked(p, frame) /\ b = p /\ v = frame.val))
      /\ \A v : Known(v)' <=> (Known(v) \/ (Asked(p, frame) /\ v = frame.val))
  <2>1. CASE Dropped(p, frame)
    <3>1. ~Asked(p, frame)
      BY <2>1 DEF Dropped, Asked
    <3> QED BY <2>1, <3>1, StoredSame DEF Dropped, serverVars
  <2>2. CASE Asked(p, frame)
    <3> DEFINE row == [channel |-> "game", by |-> p, val |-> frame.val]
    <3>1. Grown(stored', stored, row)
      BY <2>2 DEF Asked
    <3>2. row.channel = "game" /\ row.by = p /\ row.val = frame.val
      OBVIOUS
    <3> HIDE DEF row
    <3>3. \A b, v : QuestionBy(b, v)' <=> (QuestionBy(b, v) \/ (b = p /\ v = frame.val))
      BY <3>1, <3>2, StoredGrown
    <3> QED BY <2>2, <3>3 DEF Known
  <2>3. CASE Replied(p, frame)
    <3> DEFINE row == [channel |-> "response", by |-> p, val |-> frame.val]
    <3>1. Grown(stored', stored, row) /\ ~Asked(p, frame)
      BY <2>3 DEF Replied, Asked
    <3>2. row.channel # "game"
      OBVIOUS
    <3> HIDE DEF row
    <3>3. \A b, v : QuestionBy(b, v)' <=> QuestionBy(b, v)
      BY <3>1, <3>2, StoredGrown
    <3> QED BY <3>1, <3>3 DEF Known
  <2> QED BY <1>2, <2>1, <2>2, <2>3
<1>9. Numbered'
  <2>1. Pending' => Last'.by = turn'
    <3>1. CASE Dropped(p, frame)
      <4>1. stored' = stored /\ turn' = turn
        BY <3>1 DEF Dropped, serverVars
      <4> QED BY <1>1, <4>1, StoredSame DEF Numbered
    <3>2. CASE Asked(p, frame)
      <4>1. Last' = [channel |-> "game", by |-> p, val |-> frame.val] /\ turn' = p
        BY <3>2, StoredGrown DEF Asked
      <4> QED BY <4>1
    <3>3. CASE Replied(p, frame)
      <4>1. ~Pending'
        BY <3>3, StoredGrown DEF Replied
      <4> QED BY <4>1
    <3> QED BY <1>2, <3>1, <3>2, <3>3
  <2>2. \A b \in Players, v \in Nat : QuestionBy(b, v)' => 0 < v /\ v <= asks'
    BY <1>1, <1>2, <1>5, <1>8 DEF Numbered, Asked
  <2>3. \A b, c \in Players, v \in Nat : QuestionBy(b, v)' /\ QuestionBy(c, v)' => b = c
    BY <1>1, <1>5, <1>8 DEF Numbered, Asked, Known
  <2> QED BY <2>1, <2>2, <2>3 DEF Numbered
<1>10. ASSUME NEW r \in Players PROVE Sound(r)'
  <2>1. Sound(r)
    BY DEF Base
  <2>2. \A i \in DOMAIN inbox'[r] : \/ i \in DOMAIN inbox[r] /\ inbox'[r][i] = inbox[r][i]
                                    \/ inbox'[r][i].channel \in {"response", "lobby_update"}
                                    \/ Asked(p, frame) /\ inbox'[r][i] = GameMsg(p, frame.val)
    <3>1. CASE sock[r] = "open" /\ Asked(p, frame)
      <4>1. Grown(inbox'[r], inbox[r], GameMsg(p, frame.val))
        BY <3>1 DEF Asked
      <4> QED BY <3>1, <4>1 DEF Grown
    <3>2. CASE sock[r] = "open" /\ Replied(p, frame)
      <4>1. Joined(inbox'[r], inbox[r], ResponseMsg(p, frame.val), UpdateMsg(p))
        BY <3>2 DEF Replied
      <4>2. ResponseMsg(p, frame.val).channel = "response" /\ UpdateMsg(p).channel = "lobby_update"
        BY DEF ResponseMsg, UpdateMsg
      <4> QED BY <4>1, <4>2 DEF Joined
    <3>3. CASE Dropped(p, frame) \/ sock[r] # "open"
      <4>1. inbox'[r] = inbox[r]
        BY <1>2, <3>3 DEF Asked, Replied, Dropped
      <4> QED BY <4>1
    <3> QED BY <1>2, <3>1, <3>2, <3>3
  <2>3. (\A i \in DOMAIN inbox[r] : MessageSound(r, inbox[r][i]))'
    <3>1. ASSUME NEW i \in DOMAIN inbox'[r], Asked(p, frame), inbox'[r][i] = GameMsg(p, frame.val)
          PROVE  MessageSound(r, inbox[r][i])'
      <4>1. inbox'[r][i].channel = "game" /\ inbox'[r][i].by = p /\ inbox'[r][i].val = frame.val
        BY <3>1 DEF GameMsg
      <4> QED BY <1>8, <3>1, <4>1 DEF MessageSound
    <3> QED BY <1>2, <1>8, <2>1, <2>2, <3>1, MessagesStay
  <2>4. PageSound(r)' /\ GreetingSound(r)'
    BY <1>2, <1>8, <2>1 DEF Sound, PageSound, GreetingSound
  <2>5. FramesSound(r)'
    <3>1. CASE r = p
      BY <1>2, <1>3, <1>4, <1>8, <2>1, <3>1 DEF Sound, FramesSound
    <3>2. CASE r # p
      <4>1. outbox'[r] = outbox[r]
        BY <1>2, <3>2
      <4>2. ASSUME NEW i \in DOMAIN outbox[r], outbox[r][i].channel = "game", Asked(p, frame)
            PROVE  outbox[r][i].val # frame.val
        BY <1>1, <1>3, <3>2, <4>2 DEF Different, Asked, frame
      <4> QED BY <1>2, <1>8, <2>1, <4>1, <4>2 DEF Sound, FramesSound
    <3> QED BY <3>1, <3>2
  <2>6. SocketSound(r)'
    <3>1. sock[r] # "open" => inbox'[r] = inbox[r] /\ outbox'[r] = outbox[r]
      BY <1>2, <1>6 DEF Dropped, Asked, Replied
    <3>2. page[r].id = NoOne => r # p
      BY <1>1, <1>2 DEF Sound, SocketSound
    <3>3. page[r].id = NoOne => \A i \in DOMAIN inbox'[r] : inbox'[r][i].channel # "pending_waiting"
      <4>1. GameMsg(p, frame.val).channel = "game"
        BY DEF GameMsg
      <4> QED BY <2>1, <2>2, <4>1 DEF Sound, SocketSound
    <3> QED BY <1>2, <2>1, <3>1, <3>2, <3>3 DEF Sound, SocketSound
  <2> QED BY <2>3, <2>4, <2>5, <2>6 DEF Sound
<1> QED BY <1>1, <1>7, <1>9, <1>10 DEF Base

LEMMA BaseStep == ASSUME Base, [Next]_vars PROVE Base'
<1>1. CASE UNCHANGED vars
  <2>1. Typed' /\ UNCHANGED vars
    BY <1>1, TypedStep DEF Base
  <2>2. \A p \in Players : Same(p)
    BY <1>1 DEF vars, Same
  <2>3. UNCHANGED <<turn, stored, outbox, asks>> /\ asks \in Nat
    BY <1>1 DEF vars, serverVars, countVars, Base, Typed
  <2>4. \A p \in Players : Sound(p)'
    BY <2>2, <2>3, SoundStays DEF Base
  <2>5. Numbered'
    BY <2>3, NumberedStays DEF Base
  <2>6. Different'
    BY <2>3 DEF Base, Different
  <2> QED BY <2>1, <2>4, <2>5, <2>6 DEF Base
<1>2. CASE Next
  BY <1>2, BaseAsk, BaseAnswer, BaseClear, BaseHandleFrame, BaseGreetRead, BaseGreetSend, BaseOpened,
     BaseLose, BaseDialling, BaseIdentify, BaseReload, BaseReceive DEF Next
<1> QED BY <1>1, <1>2

----------------------------------------------------------------------------
(* What is on its way, as a function of the sequences that carry it *)

HasGame(s)      == \E i \in DOMAIN s : s[i].channel = "game"
HasReply(s)     == \E i \in DOMAIN s : s[i].channel = "response"
ReplyWith(s, v) == \E i \in DOMAIN s : s[i].channel = "response" /\ s[i].val = v

IsAnswer(p, m)  == m.channel = "response" /\ m.by # p
IsOffer(p, m)   == (m.channel = "game" /\ m.by # p) \/ m.channel = "pending_question"
Tells(m)        == m.channel \in {"game", "response", "lobby_update"}

HasAnswer(p, s)    == \E i \in DOMAIN s : IsAnswer(p, s[i])
Offers(p, s, v)    == \E i \in DOMAIN s : IsOffer(p, s[i]) /\ s[i].val = v
HasWait(s)         == \E i \in DOMAIN s : s[i].channel = "pending_waiting"
\* No answer comes after question v is offered.
AnswersFirst(p, s, v) ==
  \A i, j \in DOMAIN s : i < j /\ IsOffer(p, s[i]) /\ s[i].val = v => ~IsAnswer(p, s[j])
\* The last message that says whose turn it is says t; none does.
Told(s, t)      == \E i \in DOMAIN s : /\ Tells(s[i]) /\ s[i].turn = t
                                       /\ \A j \in DOMAIN s : j > i => ~Tells(s[j])
Untold(s)       == \A i \in DOMAIN s : ~Tells(s[i])

LEMMA FramesGrown ==
  ASSUME NEW s, NEW t, NEW m, Grown(t, s, m)
  PROVE  /\ HasGame(t) <=> (HasGame(s) \/ m.channel = "game")
         /\ HasReply(t) <=> (HasReply(s) \/ m.channel = "response")
         /\ \A v : ReplyWith(t, v) <=> (ReplyWith(s, v) \/ (m.channel = "response" /\ m.val = v))
<1> USE DEF Grown
<1>1. HasGame(t) <=> (HasGame(s) \/ m.channel = "game")
  BY DEF HasGame
<1>2. HasReply(t) <=> (HasReply(s) \/ m.channel = "response")
  BY DEF HasReply
<1>3. \A v : ReplyWith(t, v) <=> (ReplyWith(s, v) \/ (m.channel = "response" /\ m.val = v))
  BY DEF ReplyWith
<1> QED BY <1>1, <1>2, <1>3

LEMMA FramesShrunk ==
  ASSUME NEW s, NEW t, Shrunk(t, s)
  PROVE  /\ HasGame(s) <=> (HasGame(t) \/ s[1].channel = "game")
         /\ HasReply(s) <=> (HasReply(t) \/ s[1].channel = "response")
         /\ \A v : ReplyWith(s, v) <=> (ReplyWith(t, v) \/ (s[1].channel = "response" /\ s[1].val = v))
<1> USE DEF Shrunk
<1>0. \A i \in DOMAIN s : i = 1 \/ (i - 1 \in DOMAIN t /\ t[i - 1] = s[i])
  OBVIOUS
<1>1. HasGame(s) <=> (HasGame(t) \/ s[1].channel = "game")
  BY <1>0 DEF HasGame
<1>2. HasReply(s) <=> (HasReply(t) \/ s[1].channel = "response")
  BY <1>0 DEF HasReply
<1>3. \A v : ReplyWith(s, v) <=> (ReplyWith(t, v) \/ (s[1].channel = "response" /\ s[1].val = v))
  BY <1>0 DEF ReplyWith
<1> QED BY <1>1, <1>2, <1>3

LEMMA InboxGrown ==
  ASSUME NEW p, NEW s, NEW t, NEW m, Grown(t, s, m)
  PROVE  /\ HasAnswer(p, t) <=> (HasAnswer(p, s) \/ IsAnswer(p, m))
         /\ \A v : Offers(p, t, v) <=> (Offers(p, s, v) \/ (IsOffer(p, m) /\ m.val = v))
         /\ HasWait(t) <=> (HasWait(s) \/ m.channel = "pending_waiting")
         /\ \A v : AnswersFirst(p, t, v) <=> (AnswersFirst(p, s, v) /\ ~(Offers(p, s, v) /\ IsAnswer(p, m)))
         /\ Tells(m) => Told(t, m.turn) /\ ~Untold(t)
         /\ ~Tells(m) => (Untold(t) <=> Untold(s)) /\ \A u : Told(t, u) <=> Told(s, u)
<1> USE DEF Grown
<1>1. HasAnswer(p, t) <=> (HasAnswer(p, s) \/ IsAnswer(p, m))
  BY DEF HasAnswer
<1>2. \A v : Offers(p, t, v) <=> (Offers(p, s, v) \/ (IsOffer(p, m) /\ m.val = v))
  BY DEF Offers
<1>3. HasWait(t) <=> (HasWait(s) \/ m.channel = "pending_waiting")
  BY DEF HasWait
<1>4. ASSUME NEW v
      PROVE  AnswersFirst(p, t, v) <=> (AnswersFirst(p, s, v) /\ ~(Offers(p, s, v) /\ IsAnswer(p, m)))
  BY DEF AnswersFirst, Offers
<1>5. Tells(m) => Told(t, m.turn) /\ ~Untold(t)
  BY DEF Told, Untold
<1>6. ASSUME ~Tells(m) PROVE (Untold(t) <=> Untold(s)) /\ \A u : Told(t, u) <=> Told(s, u)
  <2>1. Untold(t) <=> Untold(s)
    BY <1>6 DEF Untold
  <2>2. ASSUME NEW u PROVE Told(t, u) <=> Told(s, u)
    BY <1>6 DEF Told
  <2> QED BY <2>1, <2>2
<1> QED BY <1>1, <1>2, <1>3, <1>4, <1>5, <1>6

LEMMA InboxShrunk ==
  ASSUME NEW p, NEW s, NEW t, Shrunk(t, s)
  PROVE  /\ HasAnswer(p, s) <=> (HasAnswer(p, t) \/ IsAnswer(p, s[1]))
         /\ \A v : Offers(p, s, v) <=> (Offers(p, t, v) \/ (IsOffer(p, s[1]) /\ s[1].val = v))
         /\ HasWait(s) <=> (HasWait(t) \/ s[1].channel = "pending_waiting")
         /\ \A v : AnswersFirst(p, s, v)
              <=> (AnswersFirst(p, t, v) /\ ~(IsOffer(p, s[1]) /\ s[1].val = v /\ HasAnswer(p, t)))
         /\ \A u : Told(s, u) <=> (Told(t, u) \/ (Untold(t) /\ Tells(s[1]) /\ s[1].turn = u))
         /\ Untold(s) <=> (Untold(t) /\ ~Tells(s[1]))
<1> USE DEF Shrunk
<1>0. /\ \A i \in DOMAIN s : i = 1 \/ (i - 1 \in DOMAIN t /\ t[i - 1] = s[i])
      /\ \A i \in DOMAIN t : i + 1 \in DOMAIN s /\ s[i + 1] = t[i] /\ i + 1 > 1 /\ i \in Nat
      /\ 1 \in DOMAIN s /\ DOMAIN s \subseteq Nat
  OBVIOUS
<1>1. HasAnswer(p, s) <=> (HasAnswer(p, t) \/ IsAnswer(p, s[1]))
  BY <1>0 DEF HasAnswer
<1>2. \A v : Offers(p, s, v) <=> (Offers(p, t, v) \/ (IsOffer(p, s[1]) /\ s[1].val = v))
  BY <1>0 DEF Offers
<1>3. HasWait(s) <=> (HasWait(t) \/ s[1].channel = "pending_waiting")
  BY <1>0 DEF HasWait
<1>4. ASSUME NEW v
      PROVE  AnswersFirst(p, s, v)
               <=> (AnswersFirst(p, t, v) /\ ~(IsOffer(p, s[1]) /\ s[1].val = v /\ HasAnswer(p, t)))
  <2>1. ASSUME AnswersFirst(p, s, v) PROVE AnswersFirst(p, t, v)
    <3> SUFFICES ASSUME NEW i \in DOMAIN t, NEW j \in DOMAIN t, i < j, IsOffer(p, t[i]), t[i].val = v
                 PROVE  ~IsAnswer(p, t[j])
      BY DEF AnswersFirst
    <3>1. i + 1 \in DOMAIN s /\ j + 1 \in DOMAIN s /\ i + 1 < j + 1 /\ s[i + 1] = t[i] /\ s[j + 1] = t[j]
      BY <1>0
    <3> QED BY <2>1, <3>1 DEF AnswersFirst
  <2>2. ASSUME AnswersFirst(p, s, v), IsOffer(p, s[1]), s[1].val = v PROVE ~HasAnswer(p, t)
    <3> SUFFICES ASSUME NEW j \in DOMAIN t PROVE ~IsAnswer(p, t[j])
      BY DEF HasAnswer
    <3>1. j + 1 \in DOMAIN s /\ 1 < j + 1 /\ s[j + 1] = t[j]
      BY <1>0
    <3> QED BY <1>0, <2>2, <3>1 DEF AnswersFirst
  <2>3. ASSUME AnswersFirst(p, t, v), ~(IsOffer(p, s[1]) /\ s[1].val = v /\ HasAnswer(p, t))
        PROVE  AnswersFirst(p, s, v)
    <3> SUFFICES ASSUME NEW i \in DOMAIN s, NEW j \in DOMAIN s, i < j, IsOffer(p, s[i]), s[i].val = v
                 PROVE  ~IsAnswer(p, s[j])
      BY DEF AnswersFirst
    <3>1. j # 1 /\ j - 1 \in DOMAIN t /\ t[j - 1] = s[j]
      BY <1>0
    <3>2. CASE i = 1
      BY <2>3, <3>1, <3>2 DEF HasAnswer
    <3>3. CASE i # 1
      <4>1. i - 1 \in DOMAIN t /\ t[i - 1] = s[i] /\ i - 1 < j - 1
        BY <1>0, <3>3
      <4> QED BY <2>3, <3>1, <4>1 DEF AnswersFirst
    <3> QED BY <3>2, <3>3
  <2> QED BY <2>1, <2>2, <2>3
<1>5. Untold(s) <=> (Untold(t) /\ ~Tells(s[1]))
  BY <1>0 DEF Untold
<1>6. ASSUME NEW u
      PROVE  Told(s, u) <=> (Told(t, u) \/ (Untold(t) /\ Tells(s[1]) /\ s[1].turn = u))
  <2>1. ASSUME Told(s, u) PROVE Told(t, u) \/ (Untold(t) /\ Tells(s[1]) /\ s[1].turn = u)
    <3>1. PICK i \in DOMAIN s : Tells(s[i]) /\ s[i].turn = u /\ \A j \in DOMAIN s : j > i => ~Tells(s[j])
      BY <2>1 DEF Told
    <3>2. CASE i = 1
      BY <1>0, <3>1, <3>2 DEF Untold
    <3>3. CASE i # 1
      <4>1. i - 1 \in DOMAIN t /\ t[i - 1] = s[i]
        BY <1>0, <3>3
      <4>2. \A j \in DOMAIN t : j > i - 1 => ~Tells(t[j])
        BY <1>0, <3>1
      <4> QED BY <3>1, <4>1, <4>2 DEF Told
    <3> QED BY <3>2, <3>3
  <2>2. ASSUME Told(t, u) PROVE Told(s, u)
    <3>1. PICK i \in DOMAIN t : Tells(t[i]) /\ t[i].turn = u /\ \A j \in DOMAIN t : j > i => ~Tells(t[j])
      BY <2>2 DEF Told
    <3>2. i + 1 \in DOMAIN s /\ s[i + 1] = t[i]
      BY <1>0
    <3>3. \A j \in DOMAIN s : j > i + 1 => ~Tells(s[j])
      <4> SUFFICES ASSUME NEW j \in DOMAIN s, j > i + 1 PROVE ~Tells(s[j])
        OBVIOUS
      <4>1. j - 1 \in DOMAIN t /\ t[j - 1] = s[j] /\ j - 1 > i
        OBVIOUS
      <4> QED BY <3>1, <4>1
    <3> QED BY <3>1, <3>2, <3>3 DEF Told
  <2>3. ASSUME Untold(t), Tells(s[1]), s[1].turn = u PROVE Told(s, u)
    <3>1. \A j \in DOMAIN s : j > 1 => ~Tells(s[j])
      BY <1>0, <2>3 DEF Untold
    <3> QED BY <1>0, <2>3, <3>1 DEF Told
  <2> QED BY <2>1, <2>2, <2>3
<1> QED BY <1>1, <1>2, <1>3, <1>4, <1>5, <1>6

LEMMA Nothing ==
  /\ ~HasGame(<<>>) /\ ~HasReply(<<>>) /\ \A v : ~ReplyWith(<<>>, v)
  /\ ~HasWait(<<>>) /\ Untold(<<>>) /\ \A u : ~Told(<<>>, u)
  /\ \A p : ~HasAnswer(p, <<>>) /\ \A v : ~Offers(p, <<>>, v) /\ AnswersFirst(p, <<>>, v)
BY DEF HasGame, HasReply, ReplyWith, HasWait, Untold, Told, HasAnswer, Offers, AnswersFirst

----------------------------------------------------------------------------
(* What a page that has not gone astray shows *)

Open(p)   == Pending /\ turn = p    \* its own question is open,
Facing(p) == Pending /\ turn # p    \* or that of the opponent

\* A page that sends a question out of turn goes astray as soon as the server sees it.
Good(p) == p \notin astray /\ (HasGame(outbox[p]) => turn = p)

Here(p) == sock[p] = "open" /\ page[p].id = p
Replays(p) == greeting[p].at = "found" /\ greeting[p].found[1] = Last

\* The page waits exactly while its question, or the answer to it, is somewhere.
Waits(p) ==
  /\ page[p].waiting => Open(p) \/ HasGame(outbox[p]) \/ HasAnswer(p, inbox[p])
  /\ HasGame(outbox[p]) => page[p].waiting /\ page[p].received = 0 /\ late[p] = 0 /\ ~HasReply(outbox[p])
  /\ Open(p) /\ Here(p) => \/ page[p].waiting \/ HasWait(inbox[p])
                           \/ greeting[p].at = "due" \/ Replays(p)

\* No answer of the opponent comes when it would be taken for something else.
InPlace(p) ==
  /\ turn = p => ~HasAnswer(p, inbox[p])
  /\ Facing(p) /\ (page[p].received # 0 \/ HasReply(outbox[p])) => ~HasAnswer(p, inbox[p])
  /\ Facing(p) => AnswersFirst(p, inbox[p], Last.val)

\* The page offers an answer exactly while the opponent's question is open.
Shows(p) ==
  /\ page[p].received # 0 => \/ Facing(p)
                             \/ turn = p /\ ~Pending /\ late[p] > 0
  /\ Facing(p) /\ Here(p) => \/ greeting[p].at = "due" \/ Replays(p)
                             \/ Offers(p, inbox[p], Last.val)
                             \/ page[p].received # 0 /\ ~HasAnswer(p, inbox[p])
                             \/ HasReply(outbox[p])

\* An answer on its way to the server is to the open question, or the second of a double click.
Replies(p) ==
  /\ HasReply(outbox[p]) => Facing(p) \/ (turn = p /\ ~Pending)
  /\ Pending /\ ReplyWith(outbox[p], Last.val) /\ late[p] = 0 => page[p].received = 0
  /\ late[p] > 0 /\ sock[p] = "open" /\ turn # p => HasReply(outbox[p])
  /\ turn = p /\ (Pending \/ HasGame(outbox[p])) => late[p] = 0

\* The page knows whose turn it is, or will be told; its own answer makes it think so early.
Knows(p) ==
  Here(p) /\ greeting[p].at # "due" =>
    \/ Told(inbox[p], turn)
    \/ Untold(inbox[p]) /\ ((page[p].turn <=> turn = p) \/ (turn # p /\ HasReply(outbox[p])))

PageInv(p) == Good(p) => Waits(p) /\ InPlace(p) /\ Shows(p) /\ Replies(p) /\ Knows(p)

LEMMA PageStays ==
  ASSUME NEW p \in Players, PageInv(p), Same(p), UNCHANGED <<turn, stored>>, p \in astray' <=> p \in astray
  PROVE  PageInv(p)'
<1>1. Last' = Last /\ (Pending' <=> Pending)
  BY StoredSame
<1>2. (Open(p)' <=> Open(p)) /\ (Facing(p)' <=> Facing(p)) /\ (Good(p)' <=> Good(p))
      /\ (Here(p)' <=> Here(p)) /\ (Replays(p)' <=> Replays(p))
  BY <1>1 DEF Open, Facing, Good, Here, Replays, Same
<1>3. (Waits(p)' <=> Waits(p)) /\ (InPlace(p)' <=> InPlace(p))
  BY <1>1, <1>2 DEF Same, Waits, InPlace
<1>4. (Shows(p)' <=> Shows(p)) /\ (Replies(p)' <=> Replies(p)) /\ (Knows(p)' <=> Knows(p))
  BY <1>1, <1>2 DEF Same, Shows, Replies, Knows
<1> QED BY <1>2, <1>3, <1>4 DEF PageInv

LEMMA PageAsk ==
  ASSUME Base, NEW p \in Players, PageInv(p), Ask(p) PROVE PageInv(p)'
<1> DEFINE frame == [channel |-> "game", val |-> asks + 1]
<1>1. Typed /\ Sound(p) /\ page[p] \in Pages
  BY DEF Base, Typed
<1>2. /\ page[p].id = p /\ page[p].turn /\ ~page[p].waiting
      /\ outbox[p] = <<>> /\ late[p] = 0
      /\ Sent(p, frame)
      /\ page'[p] = [page[p] EXCEPT !.waiting = TRUE]
      /\ UNCHANGED <<turn, stored, sock, greeting, inbox, late, patchy>>
  BY <1>1, Asking
<1>3. page'[p].id = page[p].id /\ page'[p].received = page[p].received /\ page'[p].turn = page[p].turn /\ page'[p].waiting
  BY <1>1, <1>2 DEF Pages
<1>4. Last' = Last /\ (Pending' <=> Pending)
  BY <1>2, StoredSame
<1> SUFFICES ASSUME Good(p)' PROVE (Waits(p) /\ InPlace(p) /\ Shows(p) /\ Replies(p) /\ Knows(p))'
  BY DEF PageInv
<1>5. sock[p] = "open" /\ Grown(outbox'[p], outbox[p], frame) /\ astray' = astray
  BY <1>2 DEF Good, Sent
<1>6. HasGame(outbox'[p]) /\ ~HasReply(outbox'[p]) /\ \A v : ~ReplyWith(outbox'[p], v)
  <2>1. frame.channel = "game"
    OBVIOUS
  <2> HIDE DEF frame
  <2> QED BY <1>2, <1>5, <2>1, FramesGrown, Nothing
<1>7. turn = p
  BY <1>2, <1>6 DEF Good
<1>8. Good(p)
  BY <1>5, <1>7 DEF Good
<1>9. Waits(p) /\ InPlace(p) /\ Shows(p) /\ Replies(p) /\ Knows(p)
  BY <1>8 DEF PageInv
<1> HIDE DEF frame
<1>10. page[p].received = 0
  BY <1>2, <1>7, <1>9 DEF Shows, Facing
<1>11. Waits(p)'
  BY <1>2, <1>3, <1>4, <1>6, <1>10 DEF Waits
<1>12. InPlace(p)' /\ Shows(p)' /\ Replies(p)'
  BY <1>2, <1>3, <1>4, <1>6, <1>7, <1>9, <1>10 DEF InPlace, Shows, Replies, Facing
<1>13. Knows(p)'
  BY <1>2, <1>3, <1>4, <1>6, <1>7, <1>9 DEF Knows, Here
<1> QED BY <1>11, <1>12, <1>13

LEMMA PageAnswer ==
  ASSUME Base, NEW p \in Players, PageInv(p), Answer(p) PROVE PageInv(p)'
<1> DEFINE frame == [channel |-> "response", val |-> page[p].received]
<1>1. Typed /\ Sound(p) /\ page[p] \in Pages
  BY DEF Base, Typed
<1>2. /\ page[p].id = p /\ ~page[p].turn /\ page[p].received # 0
      /\ Sent(p, frame)
      /\ late'[p] = late[p] + 1 /\ late[p] \in Nat
      /\ UNCHANGED <<turn, stored, page, sock, greeting, inbox, patchy, asks>>
  BY <1>1, Answering
<1>3. frame.channel = "response" /\ frame.val = page[p].received
  OBVIOUS
<1> HIDE DEF frame
<1>4. Last' = Last /\ (Pending' <=> Pending)
  BY <1>2, StoredSame
<1> SUFFICES ASSUME Good(p)' PROVE (Waits(p) /\ InPlace(p) /\ Shows(p) /\ Replies(p) /\ Knows(p))'
  BY DEF PageInv
<1>5. \/ sock[p] = "open" /\ Grown(outbox'[p], outbox[p], frame)
      \/ sock[p] = "dead" /\ outbox'[p] = outbox[p]
  BY <1>2 DEF Sent
<1>6. astray' = astray
  BY <1>2, <1>3 DEF Sent
<1>7. HasGame(outbox'[p]) <=> HasGame(outbox[p])
  BY <1>3, <1>5, FramesGrown
<1>8. Good(p)
  BY <1>2, <1>6, <1>7 DEF Good
<1>9. Waits(p) /\ InPlace(p) /\ Shows(p) /\ Replies(p) /\ Knows(p)
  BY <1>8 DEF PageInv
<1>10. ~HasGame(outbox[p])
  BY <1>2, <1>9 DEF Waits
<1>11. HasReply(outbox'[p]) <=> (HasReply(outbox[p]) \/ sock[p] = "open")
  BY <1>3, <1>5, FramesGrown
<1>12. sock[p] # "open" => outbox[p] = <<>> /\ inbox[p] = <<>>
  BY <1>1 DEF Sound, SocketSound
<1>13. late'[p] > 0 /\ late'[p] # 0
  BY <1>2
<1>14. Waits(p)'
  BY <1>2, <1>4, <1>7, <1>9, <1>10 DEF Waits, Open, Here, Replays
<1>15. InPlace(p)'
  BY <1>2, <1>4, <1>9 DEF InPlace, Facing
<1>16. Shows(p)'
  BY <1>2, <1>4, <1>9, <1>11, <1>13 DEF Shows, Facing, Here, Replays
<1>17. Facing(p) \/ (turn = p /\ ~Pending)
  BY <1>2, <1>9 DEF Shows
<1>18. Replies(p)'
  BY <1>2, <1>4, <1>7, <1>10, <1>11, <1>13, <1>17 DEF Replies, Facing
<1>19. Knows(p)'
  BY <1>2, <1>4, <1>9, <1>11 DEF Knows, Here
<1> QED BY <1>14, <1>15, <1>16, <1>18, <1>19

LEMMA PageClear ==
  ASSUME Base, NEW p \in Players, PageInv(p), ClearAnswered(p) PROVE PageInv(p)'
<1>1. Typed /\ Sound(p) /\ page[p] \in Pages
  BY DEF Base, Typed
<1>2. /\ late[p] \in Nat \ {0} /\ late'[p] = late[p] - 1
      /\ page'[p] = [page[p] EXCEPT !.received = 0, !.turn = TRUE]
      /\ UNCHANGED <<turn, stored, sock, greeting, inbox, outbox, astray, patchy, asks>>
  BY <1>1, Clearing
<1>3. page'[p].id = page[p].id /\ page'[p].received = 0 /\ page'[p].turn /\ page'[p].waiting = page[p].waiting
  BY <1>1, <1>2 DEF Pages
<1>4. Last' = Last /\ (Pending' <=> Pending)
  BY <1>2, StoredSame
<1> SUFFICES ASSUME Good(p)' PROVE (Waits(p) /\ InPlace(p) /\ Shows(p) /\ Replies(p) /\ Knows(p))'
  BY DEF PageInv
<1>5. Good(p)
  BY <1>2 DEF Good
<1>6. Waits(p) /\ InPlace(p) /\ Shows(p) /\ Replies(p) /\ Knows(p)
  BY <1>5 DEF PageInv
<1>7. late[p] > 0 /\ late[p] # 0 /\ (late'[p] > 0 => late[p] > 0)
  BY <1>2
<1>8. ~HasGame(outbox[p])
  BY <1>6, <1>7 DEF Waits
<1>9. Waits(p)'
  BY <1>2, <1>3, <1>4, <1>6, <1>8 DEF Waits, Open, Here, Replays
<1>10. InPlace(p)'
  BY <1>2, <1>3, <1>4, <1>6 DEF InPlace, Facing
<1>11. Shows(p)'
  BY <1>2, <1>3, <1>4, <1>6, <1>7 DEF Shows, Facing, Here, Replays, Replies
<1>12. Replies(p)'
  BY <1>2, <1>3, <1>4, <1>6, <1>7, <1>8 DEF Replies, Facing
<1>13. Knows(p)'
  BY <1>2, <1>3, <1>4, <1>6, <1>7 DEF Knows, Here, Replies
<1> QED BY <1>9, <1>10, <1>11, <1>12, <1>13

LEMMA PageOpened ==
  ASSUME Base, NEW p \in Players, PageInv(p), Opened(p) PROVE PageInv(p)'
<1>1. Typed /\ Sound(p)
  BY DEF Base
<1>2. /\ sock[p] = "connecting" /\ sock'[p] = "open" /\ greeting'[p].at = "due"
      /\ UNCHANGED <<turn, stored, page, inbox, outbox, late, astray, patchy, asks>>
  BY <1>1, Opening
<1>3. inbox[p] = <<>> /\ outbox[p] = <<>> /\ late[p] = 0
  BY <1>1, <1>2 DEF Sound, SocketSound
<1>4. Last' = Last /\ (Pending' <=> Pending)
  BY <1>2, StoredSame
<1> SUFFICES ASSUME Good(p)' PROVE (Waits(p) /\ InPlace(p) /\ Shows(p) /\ Replies(p) /\ Knows(p))'
  BY DEF PageInv
<1>5. Good(p)
  BY <1>2 DEF Good
<1>6. Waits(p) /\ InPlace(p) /\ Shows(p) /\ Replies(p)
  BY <1>5 DEF PageInv
<1>7. Waits(p)' /\ InPlace(p)' /\ Shows(p)'
  BY <1>2, <1>4, <1>6 DEF Waits, InPlace, Shows, Open, Facing
<1>8. ~(late[p] > 0)
  BY <1>3
<1>9. Replies(p)' /\ Knows(p)'
  BY <1>2, <1>3, <1>4, <1>6, <1>8, Nothing DEF Replies, Knows, Facing
<1> QED BY <1>7, <1>9

LEMMA PageDialling ==
  ASSUME Base, NEW p \in Players, PageInv(p), Closed(p) \/ Redial(p) PROVE PageInv(p)'
<1>1. Typed /\ Sound(p)
  BY DEF Base
<1>2. /\ sock[p] \in {"dead", "none"} /\ sock'[p] \in {"none", "connecting"}
      /\ UNCHANGED <<turn, stored, page, greeting, inbox, outbox, late, astray, patchy, asks>>
  BY <1>1, Dialling
<1>3. sock[p] # "open" /\ sock'[p] # "open"
  BY <1>2
<1>4. Last' = Last /\ (Pending' <=> Pending)
  BY <1>2, StoredSame
<1> SUFFICES ASSUME Good(p)' PROVE (Waits(p) /\ InPlace(p) /\ Shows(p) /\ Replies(p) /\ Knows(p))'
  BY DEF PageInv
<1>5. Good(p)
  BY <1>2 DEF Good
<1>6. Waits(p) /\ InPlace(p) /\ Shows(p) /\ Replies(p)
  BY <1>5 DEF PageInv
<1>7. Waits(p)' /\ InPlace(p)'
  BY <1>2, <1>3, <1>4, <1>6 DEF Waits, InPlace, Open, Facing, Here
<1>8. Shows(p)' /\ Replies(p)' /\ Knows(p)'
  BY <1>2, <1>3, <1>4, <1>6 DEF Shows, Replies, Knows, Facing, Here
<1> QED BY <1>7, <1>8

\* A page that keeps what it shows when its socket goes.
LEMMA PageCutOff ==
  ASSUME Base, NEW p \in Players, PageInv(p), NEW state \in {"dead", "connecting"}, CutOff(p, state),
         late'[p] = late[p], page'[p].received = page[p].received, page'[p].waiting = page[p].waiting,
         p \notin astray' => /\ p \notin astray /\ ~HasGame(outbox[p])
                             /\ ~(page[p].waiting /\ HasAnswer(p, inbox[p]))
  PROVE  PageInv(p)'
<1>1. Typed /\ Sound(p)
  BY DEF Base
<1>2. /\ sock'[p] = state /\ state # "open" /\ inbox'[p] = <<>> /\ outbox'[p] = <<>>
      /\ UNCHANGED <<turn, stored>>
  BY DEF CutOff
<1>3. Last' = Last /\ (Pending' <=> Pending)
  BY <1>2, StoredSame
<1> SUFFICES ASSUME Good(p)' PROVE (Waits(p) /\ InPlace(p) /\ Shows(p) /\ Replies(p) /\ Knows(p))'
  BY DEF PageInv
<1>4. Good(p) /\ ~HasGame(outbox[p]) /\ ~(page[p].waiting /\ HasAnswer(p, inbox[p]))
  BY DEF Good
<1>5. Waits(p) /\ InPlace(p) /\ Shows(p) /\ Replies(p)
  BY <1>4 DEF PageInv
<1>6. Waits(p)' /\ InPlace(p)'
  BY <1>2, <1>3, <1>4, <1>5, Nothing DEF Waits, InPlace, Open, Facing, Here
<1>7. Shows(p)' /\ Replies(p)' /\ Knows(p)'
  BY <1>2, <1>3, <1>4, <1>5, Nothing DEF Shows, Replies, Knows, Facing, Here
<1> QED BY <1>6, <1>7

LEMMA PageLose ==
  ASSUME Base, NEW p \in Players, PageInv(p), Lose(p) PROVE PageInv(p)'
<1>1. /\ CutOff(p, "dead")
      /\ astray' = IF LosesQuestion(p) \/ LosesAnswer(p) THEN astray \cup {p} ELSE astray
      /\ UNCHANGED <<page, late>>
  BY Losing DEF Base
<1>2. (LosesQuestion(p) <=> HasGame(outbox[p])) /\ (LosesAnswer(p) <=> page[p].waiting /\ HasAnswer(p, inbox[p]))
  BY DEF LosesQuestion, LosesAnswer, HasGame, HasAnswer, IsAnswer
<1> QED BY <1>1, <1>2, PageCutOff

LEMMA PageIdentify ==
  ASSUME Base, NEW p \in Players, PageInv(p), Identify(p) PROVE PageInv(p)'
<1>1. Typed /\ Sound(p) /\ page[p] \in Pages
  BY DEF Base, Typed
<1>2. /\ CutOff(p, "connecting") /\ page[p].id = NoOne
      /\ page'[p] = [page[p] EXCEPT !.id = p, !.turn = (page[p].lobby = p)]
      /\ UNCHANGED <<late, astray, patchy>>
  BY <1>1, Identifying
<1>3. page'[p].received = page[p].received /\ page'[p].waiting = page[p].waiting
  BY <1>1, <1>2 DEF Pages
<1>4. outbox[p] = <<>> /\ ~page[p].waiting
  BY <1>1, <1>2 DEF Sound, SocketSound
<1> QED BY <1>2, <1>3, <1>4, PageCutOff, Nothing

\* A new page.
LEMMA PageReload ==
  ASSUME Base, NEW p \in Players, Reload(p) PROVE PageInv(p)'
<1>1. CutOff(p, "connecting") /\ page'[p] = FreshPage /\ late'[p] = 0
  BY Reloading DEF Base
<1>2. /\ sock'[p] # "open" /\ inbox'[p] = <<>> /\ outbox'[p] = <<>>
      /\ page'[p].received = 0 /\ ~page'[p].waiting /\ ~(late'[p] > 0)
  BY <1>1 DEF CutOff, FreshPage
<1>3. Waits(p)' /\ InPlace(p)'
  BY <1>2, Nothing DEF Waits, InPlace, Here
<1>4. Shows(p)' /\ Replies(p)' /\ Knows(p)'
  BY <1>1, <1>2, Nothing DEF Shows, Replies, Knows, Here
<1> QED BY <1>3, <1>4 DEF PageInv

\* The state of the lobby, which every page is told when one connects.
LEMMA PageGreetRead ==
  ASSUME Base, NEW p \in Players, NEW c \in Players, PageInv(p), GreetRead(c) PROVE PageInv(p)'
<1>1. Typed /\ Sound(p)
  BY DEF Base
<1>2. /\ greeting[c].at = "due"
      /\ greeting'[c].at = IF Pending THEN "found" ELSE "idle"
      /\ Pending => greeting'[c].found[1] = Last
      /\ \A q \in Players \ {c} : greeting'[q] = greeting[q]
      /\ IF sock[p] = "open" THEN Grown(inbox'[p], inbox[p], UpdateMsg(turn)) ELSE inbox'[p] = inbox[p]
      /\ UNCHANGED <<turn, stored, page, sock, outbox, late, astray, patchy, asks>>
  BY <1>1, Greeted
<1>3. Last' = Last /\ (Pending' <=> Pending)
  BY <1>2, StoredSame
<1> DEFINE m == UpdateMsg(turn)
<1>4. m.channel = "lobby_update" /\ m.turn = turn
  BY DEF UpdateMsg
<1> HIDE DEF m
<1>5. sock[p] = "open" => Grown(inbox'[p], inbox[p], m)
  BY <1>2 DEF m
<1>6. ~IsAnswer(p, m) /\ ~IsOffer(p, m) /\ Tells(m) /\ m.channel # "pending_waiting"
  BY <1>4 DEF IsAnswer, IsOffer, Tells
<1>7. /\ HasAnswer(p, inbox'[p]) <=> HasAnswer(p, inbox[p])
      /\ \A v : Offers(p, inbox'[p], v) <=> Offers(p, inbox[p], v)
      /\ HasWait(inbox'[p]) <=> HasWait(inbox[p])
      /\ \A v : AnswersFirst(p, inbox'[p], v) <=> AnswersFirst(p, inbox[p], v)
      /\ sock[p] = "open" => Told(inbox'[p], turn)
  <2>1. CASE sock[p] = "open"
    BY <1>4, <1>5, <1>6, <2>1, InboxGrown
  <2>2. CASE sock[p] # "open"
    BY <1>2, <2>2
  <2> QED BY <2>1, <2>2
<1> SUFFICES ASSUME Good(p)' PROVE (Waits(p) /\ InPlace(p) /\ Shows(p) /\ Replies(p) /\ Knows(p))'
  BY DEF PageInv
<1>8. Good(p)
  BY <1>2 DEF Good
<1>9. Waits(p) /\ InPlace(p) /\ Shows(p) /\ Replies(p) /\ Knows(p)
  BY <1>8 DEF PageInv
<1>10. \/ greeting[p].at = "due" /\ (Pending => Replays(p)')
       \/ greeting'[p] = greeting[p]
  BY <1>2, <1>3 DEF Replays
<1>11. Pending /\ (greeting[p].at = "due" \/ Replays(p)) => greeting'[p].at = "due" \/ Replays(p)'
  BY <1>3, <1>10 DEF Replays
<1>12. Waits(p)'
  BY <1>2, <1>3, <1>7, <1>9, <1>11 DEF Waits, Open, Here
<1>13. InPlace(p)' /\ Replies(p)' /\ Knows(p)'
  BY <1>2, <1>3, <1>7, <1>9 DEF InPlace, Replies, Knows, Facing, Here
<1>14. Shows(p)'
  BY <1>2, <1>3, <1>7, <1>9, <1>11 DEF Shows, Facing, Here
<1> QED BY <1>12, <1>13, <1>14

\* The question that the greeting found, open or not by now.
LEMMA PageGreetSend ==
  ASSUME Base, NEW p \in Players, PageInv(p), GreetSend(p) PROVE PageInv(p)'
<1>1. Typed /\ Sound(p) /\ Numbered
  BY DEF Base
<1>2. /\ sock[p] = "open" /\ greeting[p].at = "found" /\ greeting[p].found[1] \in Rows
      /\ greeting'[p].at = "idle"
      /\ Grown(inbox'[p], inbox[p], PendingMsg(page[p].id, greeting[p].found[1]))
      /\ UNCHANGED <<turn, stored, page, sock, outbox, late, astray, patchy, asks>>
  BY <1>1, Replayed
<1>3. Last' = Last /\ (Pending' <=> Pending)
  BY <1>2, StoredSame
<1> DEFINE row == greeting[p].found[1]
<1> DEFINE m == PendingMsg(page[p].id, row)
<1>4. m.val = row.val /\ m.channel = IF row.by = page[p].id THEN "pending_waiting" ELSE "pending_question"
  BY DEF PendingMsg
<1>5. Replays(p) <=> row = Last
  BY <1>2 DEF Replays
<1>6. Grown(inbox'[p], inbox[p], m)
  BY <1>2
<1> HIDE DEF m, row
<1>7. ~IsAnswer(p, m) /\ ~Tells(m) /\ (IsOffer(p, m) <=> m.channel = "pending_question")
  BY <1>4 DEF IsAnswer, IsOffer, Tells
<1>8. /\ HasAnswer(p, inbox'[p]) <=> HasAnswer(p, inbox[p])
      /\ \A v : Offers(p, inbox[p], v) => Offers(p, inbox'[p], v)
      /\ m.channel = "pending_question" => Offers(p, inbox'[p], m.val)
      /\ HasWait(inbox[p]) => HasWait(inbox'[p])
      /\ m.channel = "pending_waiting" => HasWait(inbox'[p])
      /\ \A v : AnswersFirst(p, inbox'[p], v) <=> AnswersFirst(p, inbox[p], v)
      /\ Untold(inbox'[p]) <=> Untold(inbox[p])
      /\ \A u : Told(inbox'[p], u) <=> Told(inbox[p], u)
  BY <1>6, <1>7, InboxGrown
<1>9. Pending /\ Replays(p) /\ page[p].id = p =>
        IF turn = p THEN HasWait(inbox'[p]) ELSE Offers(p, inbox'[p], Last.val)
  BY <1>1, <1>4, <1>5, <1>8 DEF Numbered
<1> SUFFICES ASSUME Good(p)' PROVE (Waits(p) /\ InPlace(p) /\ Shows(p) /\ Replies(p) /\ Knows(p))'
  BY DEF PageInv
<1>10. Good(p)
  BY <1>2 DEF Good
<1>11. Waits(p) /\ InPlace(p) /\ Shows(p) /\ Replies(p) /\ Knows(p)
  BY <1>10 DEF PageInv
<1>12. Waits(p)'
  BY <1>2, <1>3, <1>8, <1>9, <1>11 DEF Waits, Open, Here
<1>13. InPlace(p)' /\ Replies(p)' /\ Knows(p)'
  BY <1>2, <1>3, <1>8, <1>11 DEF InPlace, Replies, Knows, Facing, Here
<1>14. Shows(p)'
  BY <1>2, <1>3, <1>8, <1>9, <1>11 DEF Shows, Facing, Here
<1> QED BY <1>12, <1>13, <1>14

LEMMA OvertakenIs ==
  ASSUME NEW p, NEW m
  PROVE  Overtaken(p, m) <=> /\ \/ m.channel \in {"pending_waiting", "pending_question"}
                                \/ m.channel = "game" /\ m.by # p
                             /\ \/ ~(Pending /\ Last.val = m.val)
                                \/ \E i \in DOMAIN outbox[p] : outbox[p][i] = [channel |-> "response", val |-> m.val]
<1>1. (\A i \in DOMAIN PendingQuestion : PendingQuestion[i].val # m.val) <=> ~(Pending /\ Last.val = m.val)
  BY MisplacedIs DEF Misplaced
<1> QED BY <1>1 DEF Overtaken

\* A question that reaches the page, by broadcast or by replay, is the open one.
LEMMA OfferIsOpen ==
  ASSUME Base, NEW p \in Players, inbox[p] # <<>>, IsOffer(p, inbox[p][1]),
         ~Overtaken(p, inbox[p][1]), ~TakesItsOwn(p, inbox[p][1])
  PROVE  /\ Facing(p) /\ inbox[p][1].val = Last.val /\ inbox[p][1].val # 0
         /\ ~ReplyWith(outbox[p], Last.val)
<1> DEFINE m == inbox[p][1]
<1>1. Typed /\ Sound(p) /\ Numbered
  BY DEF Base
<1>2. 1 \in DOMAIN inbox[p] /\ m \in Messages /\ outbox[p] \in Seq(Frames)
  BY <1>1 DEF Typed
<1>3. MessageSound(p, m)
  BY <1>1, <1>2 DEF Sound
<1> HIDE DEF m
<1>4. IsOffer(p, m) /\ ~Overtaken(p, m) /\ ~TakesItsOwn(p, m)
  BY DEF m
<1>5. \/ m.channel = "game" /\ m.by # p /\ m.by \in Players
      \/ m.channel = "pending_question"
  BY <1>2, <1>4 DEF IsOffer, Messages
<1>6. m.val \in Nat
  BY <1>2, <1>5 DEF Messages, Kinds
<1>7. /\ Pending /\ Last.val = m.val
      /\ ~\E i \in DOMAIN outbox[p] : outbox[p][i] = [channel |-> "response", val |-> m.val]
  BY <1>4, <1>5, OvertakenIs
<1>8. QuestionBy(Last.by, Last.val) /\ Last.by \in Players
  BY <1>1, <1>7, PendingKnown DEF Rows
<1>9. Last.by # p
  <2>1. CASE m.channel = "game" /\ m.by # p /\ m.by \in Players
    BY <1>1, <1>3, <1>6, <1>7, <1>8, <2>1 DEF MessageSound, Numbered
  <2>2. CASE m.channel = "pending_question" /\ page[p].id = p
    <3>1. Last.by = Other(p)
      BY <1>1, <1>3, <1>6, <1>7, <1>8, <2>2, OtherPlayer DEF MessageSound, Numbered
    <3> QED BY <3>1, OtherPlayer
  <2>3. CASE m.channel = "pending_question" /\ page[p].id # p
    <3>1. page[p].id = NoOne
      BY <1>1, <2>3 DEF Sound, SocketSound
    <3>2. ~\E i \in DOMAIN stored : stored[i].by = p /\ stored[i].val = m.val
      BY <1>4, <2>3, <3>1 DEF TakesItsOwn
    <3>3. Len(stored) \in DOMAIN stored
      BY <1>1, <1>7, LastTyped DEF Pending
    <3> QED BY <1>7, <3>2, <3>3 DEF Last
  <2> QED BY <1>5, <2>1, <2>2, <2>3
<1>10. Facing(p)
  BY <1>1, <1>7, <1>9 DEF Facing, Numbered
<1>11. m.val # 0
  BY <1>1, <1>6, <1>7, <1>8 DEF Numbered
<1>12. ~ReplyWith(outbox[p], Last.val)
  <2>1. ASSUME NEW i \in DOMAIN outbox[p], outbox[p][i].channel = "response", outbox[p][i].val = Last.val PROVE FALSE
    <3>1. outbox[p][i] \in Frames
      BY <1>2
    <3>2. outbox[p][i] = [channel |-> "response", val |-> m.val]
      BY <1>7, <2>1, <3>1 DEF Frames
    <3> QED BY <1>7, <3>2
  <2> QED BY <2>1 DEF ReplyWith
<1> QED BY <1>7, <1>10, <1>11, <1>12 DEF m

LEMMA PageReceive ==
  ASSUME Base, NEW p \in Players, PageInv(p), Receive(p) PROVE PageInv(p)'
<1> DEFINE m == inbox[p][1]
<1>1. Typed /\ Sound(p) /\ Numbered /\ page[p] \in Pages
  BY DEF Base, Typed
<1>2. /\ sock[p] = "open" /\ inbox[p] # <<>> /\ m \in Messages /\ Shrunk(inbox'[p], inbox[p])
      /\ page'[p] = OnMessage(page[p], m)
      /\ astray' = IF Overtaken(p, m) \/ TakesItsOwn(p, m) THEN astray \cup {p} ELSE astray
      /\ UNCHANGED <<turn, stored, sock, greeting, outbox, late, patchy, asks>>
  BY <1>1, Received
<1>3. TakesIn(page'[p], page[p], m)
  BY <1>1, <1>2, PageAfter
<1>4. Last' = Last /\ (Pending' <=> Pending)
  BY <1>2, StoredSame
<1>5. MessageSound(p, m) /\ 1 \in DOMAIN inbox[p]
  BY <1>1, <1>2 DEF Sound, Shrunk
<1>6. /\ HasAnswer(p, inbox[p]) <=> (HasAnswer(p, inbox'[p]) \/ IsAnswer(p, m))
      /\ \A v : Offers(p, inbox[p], v) <=> (Offers(p, inbox'[p], v) \/ (IsOffer(p, m) /\ m.val = v))
      /\ HasWait(inbox[p]) <=> (HasWait(inbox'[p]) \/ m.channel = "pending_waiting")
      /\ \A v : AnswersFirst(p, inbox[p], v)
              <=> (AnswersFirst(p, inbox'[p], v) /\ ~(IsOffer(p, m) /\ m.val = v /\ HasAnswer(p, inbox'[p])))
      /\ \A u : Told(inbox[p], u) <=> (Told(inbox'[p], u) \/ (Untold(inbox'[p]) /\ Tells(m) /\ m.turn = u))
      /\ Untold(inbox[p]) <=> (Untold(inbox'[p]) /\ ~Tells(m))
  BY <1>2, InboxShrunk
<1>7. page[p].id \in {p, NoOne} /\ (page[p].id = NoOne => ~page[p].waiting)
  BY <1>1 DEF Sound, SocketSound
<1>8. page[p].id = NoOne => m.channel # "pending_waiting"
  BY <1>1, <1>5 DEF Sound, SocketSound
<1> SUFFICES ASSUME Good(p)' PROVE (Waits(p) /\ InPlace(p) /\ Shows(p) /\ Replies(p) /\ Knows(p))'
  BY DEF PageInv
<1>9. Good(p) /\ ~Overtaken(p, m) /\ ~TakesItsOwn(p, m)
  BY <1>2 DEF Good
<1>10. Waits(p) /\ InPlace(p) /\ Shows(p) /\ Replies(p) /\ Knows(p)
  BY <1>9 DEF PageInv
<1>11. IsOffer(p, m) => Facing(p) /\ m.val = Last.val /\ m.val # 0 /\ ~ReplyWith(outbox[p], Last.val)
  BY <1>2, <1>9, OfferIsOpen
<1> HIDE DEF m
<1>12. p # NoOne
  BY IdsDiffer
<1>13. page'[p].id = page[p].id
  BY <1>3 DEF TakesIn
<1>14. m.channel \in {"game", "response", "lobby_update", "pending_question", "pending_waiting"}
  BY <1>2 DEF Messages, Kinds
<1>15. m.channel \in {"game", "response"} => m.by \in Players
  BY <1>2 DEF Messages
<1>16. Knows(p)'
  <2> SUFFICES ASSUME Here(p), greeting[p].at # "due"
               PROVE  \/ Told(inbox'[p], turn)
                      \/ Untold(inbox'[p]) /\ ((page'[p].turn <=> turn = p) \/ (turn # p /\ HasReply(outbox[p])))
    BY <1>2, <1>13 DEF Knows, Here
  <2>1. \/ Told(inbox[p], turn)
        \/ Untold(inbox[p]) /\ ((page[p].turn <=> turn = p) \/ (turn # p /\ HasReply(outbox[p])))
    BY <1>10 DEF Knows
  <2>2. CASE Tells(m)
    <3>1. Told(inbox[p], turn)
      BY <1>6, <2>1, <2>2
    <3>2. page'[p].turn = (m.turn = p)
      BY <1>3, <1>12, <2>2 DEF TakesIn, Tells, Here
    <3> QED BY <1>6, <3>1, <3>2
  <2>3. CASE ~Tells(m)
    <3>1. page'[p].turn = page[p].turn
      BY <1>3, <1>14, <2>3 DEF TakesIn, Tells
    <3> QED BY <1>6, <2>1, <2>3, <3>1
  <2> QED BY <2>2, <2>3
<1>17. CASE IsOffer(p, m)
  <2>1. /\ page'[p].received = m.val /\ page'[p].waiting = page[p].waiting
        /\ ~IsAnswer(p, m) /\ m.channel # "pending_waiting"
    <3>1. CASE m.channel = "game" /\ m.by # p
      <4>1. m.by # page[p].id
        BY <1>7, <1>15, <3>1, IdsDiffer
      <4> QED BY <1>3, <3>1, <4>1 DEF TakesIn, IsAnswer
    <3>2. CASE m.channel = "pending_question"
      BY <1>3, <3>2 DEF TakesIn, IsAnswer
    <3> QED BY <1>17, <3>1, <3>2 DEF IsOffer
  <2>2. ~HasAnswer(p, inbox'[p])
    BY <1>6, <1>10, <1>11, <1>17 DEF InPlace
  <2>3. turn # p /\ ~HasGame(outbox[p])
    BY <1>9, <1>11, <1>17 DEF Facing, Good
  <2>4. Waits(p)' /\ InPlace(p)'
    BY <1>2, <1>4, <1>6, <1>10, <2>1, <2>2, <2>3 DEF Waits, InPlace, Open, Facing, Here, Replays
  <2>5. Shows(p)' /\ Replies(p)'
    BY <1>2, <1>4, <1>10, <1>11, <1>17, <2>1, <2>2, <2>3 DEF Shows, Replies, Facing
  <2> QED BY <1>16, <2>4, <2>5
<1>18. CASE IsAnswer(p, m)
  <2>1. /\ page'[p].received = 0 /\ ~page'[p].waiting
        /\ ~IsOffer(p, m) /\ m.channel # "pending_waiting"
    <3>1. m.channel = "response" /\ m.by # p
      BY <1>18 DEF IsAnswer
    <3>2. m.by # page[p].id
      BY <1>7, <1>15, <3>1, IdsDiffer
    <3> QED BY <1>3, <3>1, <3>2 DEF TakesIn, IsOffer
  <2>2. HasAnswer(p, inbox[p])
    BY <1>6, <1>18
  <2>3. turn # p /\ ~HasGame(outbox[p])
    BY <1>9, <1>10, <2>2 DEF InPlace, Good
  <2>4. Waits(p)' /\ InPlace(p)'
    BY <1>2, <1>4, <1>6, <1>10, <2>1, <2>2, <2>3 DEF Waits, InPlace, Open, Facing
  <2>5. Shows(p)' /\ Replies(p)'
    BY <1>2, <1>4, <1>6, <1>10, <1>13, <2>1, <2>2, <2>3 DEF Shows, Replies, Facing, Here, Replays
  <2> QED BY <1>16, <2>4, <2>5
<1>19. CASE m.channel = "pending_waiting"
  <2>1. /\ page'[p].received = page[p].received /\ page'[p].waiting
        /\ ~IsOffer(p, m) /\ ~IsAnswer(p, m)
    BY <1>3, <1>19 DEF IsOffer, TakesIn, IsAnswer
  <2>2. Pending /\ Last.val = m.val
    BY <1>9, <1>19, OvertakenIs
  <2>3. turn = p
    <3>1. QuestionBy(p, m.val)
      BY <1>5, <1>19 DEF MessageSound
    <3>2. QuestionBy(Last.by, Last.val) /\ Last.by \in Players /\ Last.val \in Nat
      BY <1>1, <2>2, PendingKnown DEF Rows
    <3> QED BY <1>1, <2>2, <3>1, <3>2 DEF Numbered
  <2>4. Waits(p)' /\ InPlace(p)'
    BY <1>2, <1>4, <1>6, <1>10, <2>1, <2>2, <2>3 DEF Waits, InPlace, Open, Facing
  <2>5. Shows(p)' /\ Replies(p)'
    BY <1>2, <1>4, <1>6, <1>10, <1>13, <2>1, <2>2, <2>3 DEF Shows, Replies, Facing, Here, Replays
  <2> QED BY <1>16, <2>4, <2>5
<1>20. CASE ~IsOffer(p, m) /\ ~IsAnswer(p, m) /\ m.channel # "pending_waiting"
  <2>1. page'[p].waiting = page[p].waiting
        /\ (page'[p].received = page[p].received \/ (page'[p].received = 0 /\ page[p].id = NoOne))
    <3>1. CASE m.channel = "game"
      <4>1. m.by = p /\ page[p].id = p
        BY <1>7, <1>9, <1>20, <3>1 DEF IsOffer, TakesItsOwn
      <4> QED BY <1>3, <3>1, <4>1 DEF TakesIn
    <3>2. CASE m.channel = "response"
      <4>1. m.by = p
        BY <1>20, <3>2 DEF IsAnswer
      <4>2. CASE page[p].id = p
        BY <1>3, <3>2, <4>1, <4>2 DEF TakesIn
      <4>3. CASE page[p].id # p
        <5>1. page'[p].received = 0 /\ ~page'[p].waiting /\ page[p].id = NoOne /\ ~page[p].waiting
          BY <1>3, <1>7, <3>2, <4>1, <4>3 DEF TakesIn
        <5>2. page'[p].waiting \in BOOLEAN /\ page[p].waiting \in BOOLEAN
          <6>1. page'[p] \in Pages
            BY <1>1, <1>2, PageTyped
          <6> QED BY <1>1, <6>1 DEF Pages
        <5> QED BY <5>1, <5>2
      <4> QED BY <4>2, <4>3
    <3>3. CASE m.channel = "lobby_update"
      BY <1>3, <3>3 DEF TakesIn
    <3> QED BY <1>14, <1>20, <3>1, <3>2, <3>3 DEF IsOffer
  <2>2. /\ HasAnswer(p, inbox[p]) <=> HasAnswer(p, inbox'[p])
        /\ \A v : Offers(p, inbox[p], v) <=> Offers(p, inbox'[p], v)
        /\ HasWait(inbox[p]) <=> HasWait(inbox'[p])
        /\ \A v : AnswersFirst(p, inbox[p], v) <=> AnswersFirst(p, inbox'[p], v)
    BY <1>6, <1>20
  <2>3. Waits(p)' /\ InPlace(p)'
    BY <1>2, <1>4, <1>10, <1>13, <2>1, <2>2 DEF Waits, InPlace, Open, Facing, Here, Replays
  <2>4. Shows(p)' /\ Replies(p)'
    BY <1>2, <1>4, <1>10, <1>12, <1>13, <2>1, <2>2 DEF Shows, Replies, Facing, Here, Replays
  <2> QED BY <1>16, <2>3, <2>4
<1> QED BY <1>17, <1>18, <1>19, <1>20

\* An answer and the state of the lobby arrive together.
LEMMA InboxJoined ==
  ASSUME NEW p, NEW s, NEW t, NEW m, NEW n, Joined(t, s, m, n), ~IsAnswer(p, n), ~IsOffer(p, m), ~IsOffer(p, n),
         Tells(n), m.channel # "pending_waiting", n.channel # "pending_waiting"
  PROVE  /\ HasAnswer(p, t) <=> (HasAnswer(p, s) \/ IsAnswer(p, m))
         /\ Told(t, n.turn)
<1> USE DEF Joined
<1>1. HasAnswer(p, t) <=> (HasAnswer(p, s) \/ IsAnswer(p, m))
  BY DEF HasAnswer
<1>2. Told(t, n.turn)
  BY DEF Told
<1> QED BY <1>1, <1>2

\* Of a page that handles its own frame.
LEMMA PageHandleOwn ==
  ASSUME Base, NEW p \in Players, PageInv(p), HandleFrame(p) PROVE PageInv(p)'
<1> DEFINE frame == outbox[p][1]
<1>1. Typed /\ Sound(p) /\ late[p] \in Nat
  BY DEF Base, Typed
<1>2. /\ outbox[p] # <<>> /\ frame \in Frames /\ Shrunk(outbox'[p], outbox[p])
      /\ UNCHANGED <<page, sock, greeting, late, patchy, asks>>
      /\ Dropped(p, frame) \/ Asked(p, frame) \/ Replied(p, frame)
  BY <1>1, Handled
<1>3. /\ HasGame(outbox[p]) <=> frame.channel = "game"
      /\ ~HasGame(outbox'[p])
      /\ HasReply(outbox[p]) <=> (HasReply(outbox'[p]) \/ frame.channel = "response")
      /\ \A v : ReplyWith(outbox[p], v) <=> (ReplyWith(outbox'[p], v) \/ (frame.channel = "response" /\ frame.val = v))
  <2>1. \A i \in DOMAIN outbox[p] : outbox[p][i].channel = "game" => i = 1
    BY <1>1 DEF Sound, FramesSound
  <2>2. \A i \in DOMAIN outbox'[p] : i + 1 \in DOMAIN outbox[p] /\ i + 1 # 1 /\ outbox'[p][i] = outbox[p][i + 1]
    BY <1>2 DEF Shrunk
  <2>3. ~HasGame(outbox'[p])
    BY <2>1, <2>2 DEF HasGame
  <2> QED BY <1>2, <2>3, FramesShrunk
<1>4. sock[p] = "open"
  BY <1>1, <1>2 DEF Sound, SocketSound
<1> HIDE DEF frame
<1> SUFFICES ASSUME Good(p)' PROVE (Waits(p) /\ InPlace(p) /\ Shows(p) /\ Replies(p) /\ Knows(p))'
  BY DEF PageInv
<1>5. CASE Dropped(p, frame)
  <2>1. frame.channel # "game" /\ turn = p /\ astray' = astray /\ UNCHANGED <<turn, stored, inbox>>
    BY <1>5 DEF Dropped, Good, serverVars
  <2>2. Last' = Last /\ (Pending' <=> Pending)
    BY <2>1, StoredSame
  <2>3. Good(p) /\ ~HasGame(outbox[p])
    BY <1>3, <2>1 DEF Good
  <2>4. Waits(p) /\ InPlace(p) /\ Shows(p) /\ Replies(p) /\ Knows(p)
    BY <2>3 DEF PageInv
  <2>5. Waits(p)' /\ InPlace(p)' /\ Shows(p)'
    BY <1>2, <1>3, <2>1, <2>2, <2>3, <2>4 DEF Waits, InPlace, Shows, Open, Facing, Here, Replays
  <2>6. Replies(p)' /\ Knows(p)'
    BY <1>2, <1>3, <2>1, <2>2, <2>3, <2>4 DEF Replies, Knows, Facing, Here
  <2> QED BY <2>5, <2>6
<1>6. CASE Asked(p, frame)
  <2> DEFINE m == GameMsg(p, frame.val)
  <2>1. /\ frame.channel = "game" /\ turn = p /\ turn' = p /\ astray' = astray
        /\ Grown(inbox'[p], inbox[p], m)
        /\ Pending'
    BY <1>4, <1>6, StoredGrown DEF Asked
  <2>2. m.channel = "game" /\ m.by = p /\ m.turn = p
    BY <2>1 DEF GameMsg
  <2> HIDE DEF m
  <2>3. ~IsAnswer(p, m) /\ Tells(m)
    BY <2>2 DEF IsAnswer, Tells
  <2>4. (HasAnswer(p, inbox'[p]) <=> HasAnswer(p, inbox[p])) /\ Told(inbox'[p], p)
    BY <2>1, <2>2, <2>3, InboxGrown
  <2>5. Good(p) /\ HasGame(outbox[p])
    BY <1>3, <2>1 DEF Good
  <2>6. Waits(p) /\ InPlace(p) /\ Shows(p) /\ Replies(p) /\ Knows(p)
    BY <2>5 DEF PageInv
  <2>7. page[p].waiting /\ page[p].received = 0 /\ late[p] = 0 /\ ~HasReply(outbox'[p])
    BY <1>3, <2>5, <2>6 DEF Waits
  <2>8. ~HasAnswer(p, inbox'[p])
    BY <2>1, <2>4, <2>6 DEF InPlace
  <2>9. Waits(p)' /\ InPlace(p)' /\ Shows(p)'
    BY <1>2, <1>3, <2>1, <2>7, <2>8 DEF Waits, InPlace, Shows, Open, Facing
  <2>10. Replies(p)' /\ Knows(p)'
    BY <1>2, <1>3, <2>1, <2>4, <2>7 DEF Replies, Knows
  <2> QED BY <2>9, <2>10
<1>7. CASE Replied(p, frame)
  <2> DEFINE m == ResponseMsg(p, frame.val)
  <2> DEFINE n == UpdateMsg(p)
  <2>1. /\ frame.channel = "response" /\ turn # p /\ turn' = p /\ p \notin astray
        /\ Joined(inbox'[p], inbox[p], m, n)
        /\ ~Pending' /\ ~Misplaced(frame)
    BY <1>4, <1>7, StoredGrown DEF Replied, Good
  <2>2. m.channel = "response" /\ m.by = p /\ n.channel = "lobby_update" /\ n.turn = p
    BY DEF ResponseMsg, UpdateMsg
  <2> HIDE DEF m, n
  <2>3. ~IsAnswer(p, m) /\ ~IsAnswer(p, n) /\ ~IsOffer(p, m) /\ ~IsOffer(p, n) /\ Tells(n)
    BY <2>2 DEF IsAnswer, IsOffer, Tells
  <2>4. (HasAnswer(p, inbox'[p]) <=> HasAnswer(p, inbox[p])) /\ Told(inbox'[p], p)
    BY <2>1, <2>2, <2>3, InboxJoined
  <2>5. Pending /\ Last.val = frame.val
    BY <2>1, MisplacedIs
  <2>6. Good(p) /\ ~HasGame(outbox[p]) /\ HasReply(outbox[p]) /\ ReplyWith(outbox[p], Last.val)
    BY <1>3, <2>1, <2>5 DEF Good
  <2>7. Waits(p) /\ InPlace(p) /\ Shows(p) /\ Replies(p) /\ Knows(p)
    BY <2>6 DEF PageInv
  <2>8. ~HasAnswer(p, inbox[p])
    BY <2>1, <2>5, <2>6, <2>7 DEF InPlace, Facing
  <2>9. ~page[p].waiting
    BY <2>1, <2>6, <2>7, <2>8 DEF Waits, Open
  <2>10. page[p].received # 0 => late[p] > 0
    BY <1>1, <2>5, <2>6, <2>7 DEF Replies
  <2>11. Waits(p)' /\ InPlace(p)' /\ Shows(p)'
    BY <1>2, <1>3, <2>1, <2>4, <2>8, <2>9, <2>10 DEF Waits, InPlace, Shows, Open, Facing
  <2>12. Replies(p)' /\ Knows(p)'
    BY <1>2, <1>3, <2>1, <2>4 DEF Replies, Knows
  <2> QED BY <2>11, <2>12
<1> QED BY <1>2, <1>5, <1>6, <1>7

\* Of the other page.
LEMMA PageHandleOther ==
  ASSUME Base, NEW p \in Players, NEW c \in Players, c # p, PageInv(p), HandleFrame(c) PROVE PageInv(p)'
<1> DEFINE frame == outbox[c][1]
<1>1. Typed /\ Sound(p) /\ Sound(c)
  BY DEF Base
<1>2. /\ frame \in Frames /\ outbox[c] # <<>> /\ outbox[c] \in Seq(Frames)
      /\ outbox'[p] = outbox[p]
      /\ UNCHANGED <<page, sock, greeting, late, patchy, asks>>
      /\ Dropped(c, frame) \/ Asked(c, frame) \/ Replied(c, frame)
  BY <1>1, Handled DEF Typed
<1>3. frame.channel = "game" => ~Known(frame.val)
  <2>1. 1 \in DOMAIN outbox[c]
    BY <1>2
  <2> QED BY <1>1, <2>1 DEF Sound, FramesSound
<1> HIDE DEF frame
<1>4. CASE Dropped(c, frame)
  <2>1. UNCHANGED <<turn, stored, inbox>> /\ (p \in astray' <=> p \in astray)
    BY <1>4 DEF Dropped, serverVars
  <2> QED BY <1>2, <2>1, PageStays DEF Same
<1>5. CASE Asked(c, frame)
  <2> DEFINE m == GameMsg(c, frame.val)
  <2>1. /\ frame.channel = "game" /\ turn = c /\ turn' = c /\ astray' = astray
        /\ IF sock[p] = "open" THEN Grown(inbox'[p], inbox[p], m) ELSE inbox'[p] = inbox[p]
        /\ Pending' /\ Last'.val = frame.val
    BY <1>5, StoredGrown DEF Asked
  <2>2. m.channel = "game" /\ m.by = c /\ m.turn = c /\ m.val = frame.val
    BY <2>1 DEF GameMsg
  <2> HIDE DEF m
  <2>3. ~IsAnswer(p, m) /\ Tells(m) /\ IsOffer(p, m)
    BY <2>2 DEF IsAnswer, Tells, IsOffer
  <2>4. ~Offers(p, inbox[p], frame.val)
    <3>1. ASSUME NEW i \in DOMAIN inbox[p], IsOffer(p, inbox[p][i]) PROVE Known(inbox[p][i].val)
      <4>1. MessageSound(p, inbox[p][i]) /\ inbox[p][i] \in Messages
        BY <1>1 DEF Sound, Typed
      <4>2. CASE inbox[p][i].channel = "game"
        <5>1. inbox[p][i].by \in Players
          BY <4>1, <4>2 DEF Messages
        <5> QED BY <4>1, <4>2, <5>1 DEF MessageSound, Known
      <4>3. CASE inbox[p][i].channel = "pending_question"
        BY <4>1, <4>3 DEF MessageSound
      <4> QED BY <3>1, <4>2, <4>3 DEF IsOffer
    <3> QED BY <1>3, <2>1, <3>1 DEF Offers
  <2>5. AnswersFirst(p, inbox[p], frame.val)
    BY <2>4 DEF Offers, AnswersFirst
  <2>6. /\ HasAnswer(p, inbox'[p]) <=> HasAnswer(p, inbox[p])
        /\ AnswersFirst(p, inbox'[p], frame.val)
        /\ sock[p] = "open" => Told(inbox'[p], c) /\ Offers(p, inbox'[p], frame.val)
    <3>1. CASE sock[p] = "open"
      BY <2>1, <2>2, <2>3, <2>5, <3>1, InboxGrown
    <3>2. CASE sock[p] # "open"
      BY <2>1, <2>5, <3>2
    <3> QED BY <3>1, <3>2
  <2>7. ~ReplyWith(outbox[p], frame.val)
    BY <1>1, <1>3, <2>1 DEF Sound, FramesSound, ReplyWith
  <2> SUFFICES ASSUME Good(p)' PROVE (Waits(p) /\ InPlace(p) /\ Shows(p) /\ Replies(p) /\ Knows(p))'
    BY DEF PageInv
  <2>8. Good(p) /\ ~HasGame(outbox[p])
    BY <1>2, <2>1 DEF Good
  <2>9. Waits(p) /\ InPlace(p) /\ Shows(p) /\ Replies(p) /\ Knows(p)
    BY <2>8 DEF PageInv
  <2>10. page[p].received # 0 \/ HasReply(outbox[p]) => ~HasAnswer(p, inbox[p])
    BY <2>1, <2>9 DEF InPlace, Shows, Replies, Facing
  <2>11. Waits(p)' /\ InPlace(p)'
    BY <1>2, <2>1, <2>6, <2>8, <2>9, <2>10 DEF Waits, InPlace, Open, Facing
  <2>12. Shows(p)' /\ Replies(p)' /\ Knows(p)'
    BY <1>2, <2>1, <2>6, <2>7, <2>8, <2>9 DEF Shows, Replies, Knows, Facing, Here
  <2> QED BY <2>11, <2>12
<1>6. CASE Replied(c, frame)
  <2> DEFINE m == ResponseMsg(c, frame.val)
  <2> DEFINE n == UpdateMsg(c)
  <2>1. /\ turn # c /\ turn' = c /\ turn \in Players
        /\ IF sock[p] = "open" THEN Joined(inbox'[p], inbox[p], m, n) ELSE inbox'[p] = inbox[p]
        /\ ~Pending'
    BY <1>1, <1>6, StoredGrown DEF Replied, Typed
  <2>2. m.channel = "response" /\ m.by = c /\ n.channel = "lobby_update" /\ n.turn = c
    BY DEF ResponseMsg, UpdateMsg
  <2> HIDE DEF m, n
  <2>3. IsAnswer(p, m) /\ ~IsAnswer(p, n) /\ ~IsOffer(p, m) /\ ~IsOffer(p, n) /\ Tells(n)
    BY <2>2 DEF IsAnswer, IsOffer, Tells
  <2>4. sock[p] = "open" => HasAnswer(p, inbox'[p]) /\ Told(inbox'[p], c)
    BY <2>1, <2>2, <2>3, InboxJoined
  <2>5. turn = p
    BY <2>1, OtherPlayer
  <2> SUFFICES ASSUME Good(p)' PROVE (Waits(p) /\ InPlace(p) /\ Shows(p) /\ Replies(p) /\ Knows(p))'
    BY DEF PageInv
  <2>6. p \notin astray /\ ~Misplaced(frame) /\ ~MissesAnswer(p)
    BY <1>6 DEF Replied, Good
  <2>7. Good(p) /\ ~HasGame(outbox[p]) /\ Pending
    BY <1>2, <2>1, <2>5, <2>6, MisplacedIs DEF Good
  <2>8. Waits(p) /\ InPlace(p) /\ Shows(p) /\ Replies(p) /\ Knows(p)
    BY <2>7 DEF PageInv
  <2>9. page[p].received = 0 /\ ~HasReply(outbox[p]) /\ late[p] = 0
    BY <2>5, <2>7, <2>8 DEF Shows, Replies, Facing
  <2>10. page[p].waiting => sock[p] = "open"
    BY <2>6 DEF MissesAnswer, Reached
  <2>11. ~(late[p] > 0)
    BY <2>9
  <2>12. Waits(p)' /\ InPlace(p)' /\ Shows(p)'
    BY <1>2, <2>1, <2>4, <2>7, <2>9, <2>10 DEF Waits, InPlace, Shows, Open, Facing
  <2>13. Replies(p)' /\ Knows(p)'
    BY <1>2, <2>1, <2>4, <2>5, <2>7, <2>9, <2>11 DEF Replies, Knows, Here
  <2> QED BY <2>12, <2>13
<1> QED BY <1>2, <1>4, <1>5, <1>6

LEMMA PageInvStep ==
  ASSUME Base, \A p \in Players : PageInv(p), [Next]_vars PROVE \A p \in Players : PageInv(p)'
<1> SUFFICES ASSUME NEW p \in Players PROVE PageInv(p)'
  OBVIOUS
<1> DEFINE Others == UNCHANGED <<turn, stored>> /\ (p \in astray' <=> p \in astray) /\ Same(p)
<1>1. Typed /\ PageInv(p)
  BY DEF Base
<1>2. ASSUME NEW c \in Players, Ask(c) PROVE PageInv(p)'
  <2>1. CASE c = p
    BY <1>1, <1>2, <2>1, PageAsk
  <2>2. CASE c # p
    <3>1. Others
      <4>1. /\ Sent(c, [channel |-> "game", val |-> asks + 1])
            /\ page'[p] = page[p] /\ outbox'[p] = outbox[p]
            /\ UNCHANGED <<turn, stored, sock, greeting, inbox, late>>
        <5>1. /\ Sent(c, [channel |-> "game", val |-> asks + 1])
              /\ UNCHANGED <<turn, stored, sock, greeting, inbox, late>>
          BY <1>1, <1>2, Asking
        <5>2. \A q \in Players \ {c} : page'[q] = page[q] /\ outbox'[q] = outbox[q]
          BY <1>1, <1>2, Asking
        <5> QED BY <2>2, <5>1, <5>2
      <4>2. astray' = astray \/ astray' = astray \cup {c}
        BY <4>1 DEF Sent
      <4> QED BY <2>2, <4>1, <4>2 DEF Same
    <3> QED BY <1>1, <3>1, PageStays
  <2> QED BY <2>1, <2>2
<1>3. ASSUME NEW c \in Players, Answer(c) PROVE PageInv(p)'
  <2>1. CASE c = p
    BY <1>1, <1>3, <2>1, PageAnswer
  <2>2. CASE c # p
    <3>1. Others
      <4>1. /\ Sent(c, [channel |-> "response", val |-> page[c].received])
            /\ late'[p] = late[p] /\ outbox'[p] = outbox[p]
            /\ UNCHANGED <<turn, stored, page, sock, greeting, inbox>>
        BY <1>1, <1>3, <2>2, Answering
      <4>2. astray' = astray \/ astray' = astray \cup {c}
        BY <4>1 DEF Sent
      <4> QED BY <2>2, <4>1, <4>2 DEF Same
    <3> QED BY <1>1, <3>1, PageStays
  <2> QED BY <2>1, <2>2
<1>4. ASSUME NEW c \in Players, ClearAnswered(c) PROVE PageInv(p)'
  <2>1. CASE c = p
    BY <1>1, <1>4, <2>1, PageClear
  <2>2. CASE c # p
    <3>1. Others
      BY <1>1, <1>4, <2>2, Clearing DEF Same
    <3> QED BY <1>1, <3>1, PageStays
  <2> QED BY <2>1, <2>2
<1>5. ASSUME NEW c \in Players, HandleFrame(c) PROVE PageInv(p)'
  BY <1>1, <1>5, PageHandleOwn, PageHandleOther
<1>6. ASSUME NEW c \in Players, GreetRead(c) PROVE PageInv(p)'
  BY <1>1, <1>6, PageGreetRead
<1>7. ASSUME NEW c \in Players, GreetSend(c) PROVE PageInv(p)'
  <2>1. CASE c = p
    BY <1>1, <1>7, <2>1, PageGreetSend
  <2>2. CASE c # p
    <3>1. Others
      BY <1>1, <1>7, <2>2, Replayed DEF Same
    <3> QED BY <1>1, <3>1, PageStays
  <2> QED BY <2>1, <2>2
<1>8. ASSUME NEW c \in Players, Opened(c) PROVE PageInv(p)'
  <2>1. CASE c = p
    BY <1>1, <1>8, <2>1, PageOpened
  <2>2. CASE c # p
    <3>1. Others
      BY <1>1, <1>8, <2>2, Opening DEF Same
    <3> QED BY <1>1, <3>1, PageStays
  <2> QED BY <2>1, <2>2
<1>9. ASSUME NEW c \in Players, Lose(c) PROVE PageInv(p)'
  <2>1. CASE c = p
    BY <1>1, <1>9, <2>1, PageLose
  <2>2. CASE c # p
    <3>1. Others
      BY <1>1, <1>9, <2>2, Losing DEF Same, CutOff
    <3> QED BY <1>1, <3>1, PageStays
  <2> QED BY <2>1, <2>2
<1>10. ASSUME NEW c \in Players, Closed(c) \/ Redial(c) PROVE PageInv(p)'
  <2>1. CASE c = p
    BY <1>1, <1>10, <2>1, PageDialling
  <2>2. CASE c # p
    <3>1. Others
      BY <1>1, <1>10, <2>2, Dialling DEF Same
    <3> QED BY <1>1, <3>1, PageStays
  <2> QED BY <2>1, <2>2
<1>11. ASSUME NEW c \in Players, Identify(c) PROVE PageInv(p)'
  <2>1. CASE c = p
    BY <1>1, <1>11, <2>1, PageIdentify
  <2>2. CASE c # p
    <3>1. Others
      <4>1. CutOff(c, "connecting") /\ page'[p] = page[p] /\ UNCHANGED <<late, astray>>
        BY <1>1, <1>11, <2>2, Identifying
      <4> QED BY <2>2, <4>1 DEF Same, CutOff
    <3> QED BY <1>1, <3>1, PageStays
  <2> QED BY <2>1, <2>2
<1>12. ASSUME NEW c \in Players, Reload(c) PROVE PageInv(p)'
  <2>1. CASE c = p
    BY <1>12, <2>1, PageReload
  <2>2. CASE c # p
    <3>1. Others
      <4>1. CutOff(c, "connecting") /\ page'[p] = page[p] /\ late'[p] = late[p] /\ astray' = astray \ {c}
        BY <1>1, <1>12, <2>2, Reloading
      <4>2. p \in astray' <=> p \in astray
        BY <2>2, <4>1
      <4> QED BY <2>2, <4>1, <4>2 DEF Same, CutOff
    <3> QED BY <1>1, <3>1, PageStays
  <2> QED BY <2>1, <2>2
<1>13. ASSUME NEW c \in Players, Receive(c) PROVE PageInv(p)'
  <2>1. CASE c = p
    BY <1>1, <1>13, <2>1, PageReceive
  <2>2. CASE c # p
    <3>1. Others
      <4>1. /\ page'[p] = page[p] /\ inbox'[p] = inbox[p]
            /\ UNCHANGED <<turn, stored, sock, greeting, outbox, late>>
            /\ astray' = astray \/ astray' = astray \cup {c}
        BY <1>1, <1>13, <2>2, Received
      <4>2. p \in astray' <=> p \in astray
        BY <2>2, <4>1
      <4> QED BY <4>1, <4>2 DEF Same
    <3> QED BY <1>1, <3>1, PageStays
  <2> QED BY <2>1, <2>2
<1>14. CASE UNCHANGED vars
  BY <1>1, <1>14, PageStays DEF vars, serverVars, Same
<1> QED BY <1>2, <1>3, <1>4, <1>5, <1>6, <1>7, <1>8, <1>9, <1>10, <1>11, <1>12, <1>13, <1>14 DEF Next

LEMMA NewPage ==
  FreshPage \in Pages /\ FreshPage.waiting = FALSE /\ FreshPage.received = 0 /\ FreshPage.log = <<>>
BY DEF FreshPage, Pages

LEMMA Begins ==
  ASSUME Init
  PROVE  /\ turn \in Players /\ stored = <<>> /\ asks = 0 /\ patchy = {} /\ astray = {}
         /\ sock = [p \in Players |-> "open"] /\ greeting = [p \in Players |-> Idle]
         /\ inbox = [p \in Players |-> <<>>] /\ outbox = [p \in Players |-> <<>>]
         /\ late = [p \in Players |-> 0]
         /\ page \in [Players -> Pages]
         /\ \A p \in Players : /\ page[p].id = p /\ (page[p].turn <=> turn = p) /\ ~page[p].waiting
                               /\ page[p].received = 0 /\ page[p].log = <<>>
<1>1. /\ turn \in Players /\ stored = <<>> /\ asks = 0 /\ patchy = {} /\ astray = {}
      /\ sock = [p \in Players |-> "open"] /\ greeting = [p \in Players |-> Idle]
      /\ inbox = [p \in Players |-> <<>>] /\ outbox = [p \in Players |-> <<>>]
      /\ late = [p \in Players |-> 0]
  BY Zenon DEF Init
<1> DEFINE mine(p) == turn = p
<1> DEFINE new(p) == [FreshPage EXCEPT !.lobby = turn, !.id = p, !.turn = mine(p)]
<1>2. page = [p \in Players |-> new(p)]
  BY Zenon DEF Init
<1>3. \A p \in Players : mine(p) \in BOOLEAN
  OBVIOUS
<1> HIDE DEF mine
<1>4. ASSUME NEW p \in Players
      PROVE  /\ page[p] \in Pages /\ page[p].id = p /\ page[p].turn = mine(p) /\ page[p].waiting = FALSE
             /\ page[p].received = 0 /\ page[p].log = <<>>
  <2>1. page[p] = new(p)
    BY <1>2
  <2>2. PICK b \in BOOLEAN : b = mine(p)
    BY <1>3
  <2>3. page[p] = [FreshPage EXCEPT !.lobby = turn, !.id = p, !.turn = b]
    BY <2>1, <2>2
  <2>4. turn \in Players
    BY <1>1
  <2>5. page[p] \in Pages /\ page[p].id = p /\ page[p].turn = b /\ page[p].waiting = FALSE
    BY <2>3, <2>4, NewPage DEF Pages
  <2>6. page[p].received = 0 /\ page[p].log = <<>>
    BY <2>3, <2>4, NewPage DEF Pages
  <2> QED BY <2>2, <2>5, <2>6
<1> HIDE DEF new
<1>5. page \in [Players -> Pages]
  BY <1>2, <1>4
<1>6. \A p \in Players : page[p].turn <=> turn = p
  BY <1>4 DEF mine
<1> QED BY <1>1, <1>4, <1>5, <1>6

LEMMA BaseInit == Init => Base
<1> SUFFICES ASSUME Init PROVE Base
  OBVIOUS
<1>1. Typed
  <2>1. Idle \in [at : {"idle", "due", "found"}, found : Seq(Rows)] /\ Idle.at = "idle"
    BY DEF Idle
  <2>2. turn \in Players /\ stored \in Seq(Rows) /\ page \in [Players -> Pages] /\ asks \in Nat
    BY Begins
  <2>3. sock \in [Players -> {"open", "connecting", "dead", "none"}] /\ late \in [Players -> Nat]
    BY Begins
  <2>4. greeting \in [Players -> [at : {"idle", "due", "found"}, found : Seq(Rows)]]
        /\ \A p \in Players : greeting[p].at = "idle"
    BY <2>1, Begins
  <2>5. inbox \in [Players -> Seq(Messages)] /\ outbox \in [Players -> Seq(Frames)]
    <3>1. \A S : <<>> \in Seq(S)
      OBVIOUS
    <3>2. inbox = [p \in Players |-> <<>>] /\ outbox = [p \in Players |-> <<>>]
      BY Begins
    <3> QED BY <3>1, <3>2, Zenon
  <2> QED BY <2>2, <2>3, <2>4, <2>5 DEF Typed
<1>2. \A b, v : ~QuestionBy(b, v)
  BY Begins DEF QuestionBy
<1>3. Numbered
  BY <1>2, Begins DEF Numbered, Pending
<1>4. ASSUME NEW p \in Players PROVE Sound(p)
  BY <1>2, Begins, IdsDiffer DEF Sound, SocketSound, FramesSound, PageSound, GreetingSound, Idle
<1>5. Different
  BY Begins DEF Different
<1> QED BY <1>1, <1>3, <1>4, <1>5 DEF Base

LEMMA PageInit == Init => \A p \in Players : PageInv(p)
<1> SUFFICES ASSUME Init, NEW p \in Players PROVE PageInv(p)
  OBVIOUS
<1>1. /\ stored = <<>> /\ inbox[p] = <<>> /\ outbox[p] = <<>> /\ late[p] = 0
      /\ ~page[p].waiting /\ page[p].received = 0 /\ (page[p].turn <=> turn = p)
  BY Begins
<1>2. ~Pending /\ ~(late[p] > 0)
  BY <1>1 DEF Pending
<1>3. Waits(p) /\ InPlace(p) /\ Shows(p)
  BY <1>1, <1>2, Nothing DEF Waits, InPlace, Shows, Open, Facing
<1>4. Replies(p) /\ Knows(p)
  BY <1>1, <1>2, Nothing DEF Replies, Knows
<1> QED BY <1>3, <1>4 DEF PageInv

LEMMA PagesInvariant == Spec => [](Base /\ \A p \in Players : PageInv(p))
<1> DEFINE IInv == Base /\ \A p \in Players : PageInv(p)
<1>1. Init => IInv
  BY BaseInit, PageInit
<1>2. IInv /\ [Next]_vars => IInv'
  BY BaseStep, PageInvStep
<1> QED BY <1>1, <1>2, PTL DEF Spec

\* The shape of the state in every reachable state.
THEOREM RoomTypeCorrect == Spec => []Typed
<1>1. Base => Typed
  BY DEF Base
<1> QED BY <1>1, PagesInvariant, PTL

\* When everything has arrived, the panel of exactly one page offers something, and
\* it is the page of the player that ReadPump's turn check would let through.
THEOREM OneActsHolds == Spec => []OneActs
<1>1. Base /\ (\A p \in Players : PageInv(p)) => OneActs
  <2> SUFFICES ASSUME Base, \A r \in Players : PageInv(r), Settled, astray = {}, NEW p \in Players
               PROVE  NeedsAction(p) <=> p = Expected
    BY DEF OneActs
  <2>1. /\ sock[p] = "open" /\ page[p].id = p /\ inbox[p] = <<>> /\ outbox[p] = <<>>
        /\ greeting[p].at = "idle" /\ turn \in Players
    BY DEF Settled, Idle, Base, Typed
  <2>2. Good(p) /\ Here(p) /\ ~Replays(p)
    BY <2>1, Nothing DEF Good, Here, Replays
  <2>3. Waits(p) /\ Shows(p) /\ Knows(p)
    BY <2>2 DEF PageInv
  <2>4. page[p].turn <=> turn = p
    BY <2>1, <2>2, <2>3, Nothing DEF Knows
  <2>5. late[p] = 0 /\ ~(late[p] > 0)
    BY DEF Settled
  <2>6. page[p].waiting <=> Open(p)
    BY <2>1, <2>2, <2>3, Nothing DEF Waits
  <2>7. page[p].received # 0 <=> Facing(p)
    BY <2>1, <2>2, <2>3, <2>5, Nothing DEF Shows
  <2>8. Expected = IF Pending THEN Other(turn) ELSE turn
    BY PendingIs DEF Expected
  <2>9. turn # p => Other(turn) = p
    BY <2>1, OtherOne
  <2>10. Other(turn) # turn
    BY <2>1, OtherPlayer
  <2>11. NeedsAction(p) <=> (page[p].turn /\ ~page[p].waiting) \/ (~page[p].turn /\ page[p].received # 0)
    BY <2>1 DEF NeedsAction, PanelShown, Body
  <2> QED BY <2>4, <2>6, <2>7, <2>8, <2>9, <2>10, <2>11 DEF Open, Facing
<1> QED BY <1>1, PagesInvariant, PTL

----------------------------------------------------------------------------
(* The log *)

IsEcho(p, m)     == m.channel = "game" /\ m.by = p
NoEcho(p, s)     == \A i \in DOMAIN s : ~IsEcho(p, s[i])
EchoIs(p, s, v)  == \E i \in DOMAIN s : /\ IsEcho(p, s[i]) /\ s[i].val = v
                                        /\ \A j \in DOMAIN s : j > i => ~IsEcho(p, s[j])
\* The answer at k is to the question of p that the page has last seen by then; v is the last one in its log.
Fitting(p, s, v, k) ==
  \/ \E i \in DOMAIN s : /\ i < k /\ IsEcho(p, s[i]) /\ s[i].val = s[k].val
                         /\ \A j \in DOMAIN s : i < j /\ j < k => ~IsEcho(p, s[j])
  \/ (\A i \in DOMAIN s : i < k => ~IsEcho(p, s[i])) /\ s[k].val = v
Fits(p, s, v) == \A k \in DOMAIN s : IsAnswer(p, s[k]) => Fitting(p, s, v, k)

LogEnd(log) == IF log = <<>> THEN 0 ELSE log[Len(log)].question

LEMMA EchoGrown ==
  ASSUME NEW p, NEW s, NEW t, NEW m, Grown(t, s, m)
  PROVE  /\ IsEcho(p, m) => EchoIs(p, t, m.val)
         /\ ~IsEcho(p, m) => (NoEcho(p, t) <=> NoEcho(p, s)) /\ \A v : EchoIs(p, t, v) <=> EchoIs(p, s, v)
         /\ \A v : /\ Fits(p, s, v)
                   /\ IsAnswer(p, m) => EchoIs(p, s, m.val) \/ (NoEcho(p, s) /\ m.val = v)
                   => Fits(p, t, v)
<1> USE DEF Grown
<1>1. IsEcho(p, m) => EchoIs(p, t, m.val)
  BY DEF EchoIs
<1>2. ASSUME ~IsEcho(p, m) PROVE (NoEcho(p, t) <=> NoEcho(p, s)) /\ \A v : EchoIs(p, t, v) <=> EchoIs(p, s, v)
  <2>1. NoEcho(p, t) <=> NoEcho(p, s)
    BY <1>2 DEF NoEcho
  <2>2. ASSUME NEW v PROVE EchoIs(p, t, v) <=> EchoIs(p, s, v)
    BY <1>2 DEF EchoIs
  <2> QED BY <2>1, <2>2
<1>3. ASSUME NEW v, Fits(p, s, v), IsAnswer(p, m) => EchoIs(p, s, m.val) \/ (NoEcho(p, s) /\ m.val = v)
      PROVE  Fits(p, t, v)
  <2> SUFFICES ASSUME NEW k \in DOMAIN t, IsAnswer(p, t[k]) PROVE Fitting(p, t, v, k)
    BY DEF Fits
  <2>1. CASE k = Len(s) + 1
    <3>1. EchoIs(p, s, m.val) \/ (NoEcho(p, s) /\ m.val = v)
      BY <1>3, <2>1
    <3>2. CASE EchoIs(p, s, m.val)
      BY <2>1, <3>2 DEF EchoIs, Fitting
    <3>3. CASE NoEcho(p, s) /\ m.val = v
      BY <2>1, <3>3 DEF NoEcho, Fitting
    <3> QED BY <3>1, <3>2, <3>3
  <2>2. CASE k # Len(s) + 1
    <3>1. k \in DOMAIN s /\ t[k] = s[k]
      BY <2>2
    <3>2. Fitting(p, s, v, k)
      BY <1>3, <3>1 DEF Fits
    <3> QED BY <3>1, <3>2 DEF Fitting
  <2> QED BY <2>1, <2>2
<1> QED BY <1>1, <1>2, <1>3

LEMMA EchoShrunk ==
  ASSUME NEW p, NEW s, NEW t, Shrunk(t, s)
  PROVE  /\ \A v : EchoIs(p, s, v) <=> (EchoIs(p, t, v) \/ (NoEcho(p, t) /\ IsEcho(p, s[1]) /\ s[1].val = v))
         /\ NoEcho(p, s) <=> (NoEcho(p, t) /\ ~IsEcho(p, s[1]))
         /\ \A v : Fits(p, s, v) => /\ IsAnswer(p, s[1]) => s[1].val = v
                                    /\ Fits(p, t, IF IsEcho(p, s[1]) THEN s[1].val ELSE v)
<1> USE DEF Shrunk
<1>0. /\ \A i \in DOMAIN s : i = 1 \/ (i - 1 \in DOMAIN t /\ t[i - 1] = s[i])
      /\ \A i \in DOMAIN t : i + 1 \in DOMAIN s /\ s[i + 1] = t[i] /\ i + 1 > 1 /\ i \in Nat
      /\ 1 \in DOMAIN s /\ DOMAIN s \subseteq Nat
  OBVIOUS
<1>1. ASSUME NEW v
      PROVE  EchoIs(p, s, v) <=> (EchoIs(p, t, v) \/ (NoEcho(p, t) /\ IsEcho(p, s[1]) /\ s[1].val = v))
  <2>1. ASSUME EchoIs(p, s, v) PROVE EchoIs(p, t, v) \/ (NoEcho(p, t) /\ IsEcho(p, s[1]) /\ s[1].val = v)
    <3>1. PICK i \in DOMAIN s : IsEcho(p, s[i]) /\ s[i].val = v /\ \A j \in DOMAIN s : j > i => ~IsEcho(p, s[j])
      BY <2>1 DEF EchoIs
    <3>2. CASE i = 1
      BY <1>0, <3>1, <3>2 DEF NoEcho
    <3>3. CASE i # 1
      <4>1. i - 1 \in DOMAIN t /\ t[i - 1] = s[i]
        BY <1>0, <3>3
      <4>2. \A j \in DOMAIN t : j > i - 1 => ~IsEcho(p, t[j])
        BY <1>0, <3>1
      <4> QED BY <3>1, <4>1, <4>2 DEF EchoIs
    <3> QED BY <3>2, <3>3
  <2>2. ASSUME EchoIs(p, t, v) PROVE EchoIs(p, s, v)
    <3>1. PICK i \in DOMAIN t : IsEcho(p, t[i]) /\ t[i].val = v /\ \A j \in DOMAIN t : j > i => ~IsEcho(p, t[j])
      BY <2>2 DEF EchoIs
    <3>2. i + 1 \in DOMAIN s /\ s[i + 1] = t[i]
      BY <1>0
    <3>3. \A j \in DOMAIN s : j > i + 1 => ~IsEcho(p, s[j])
      <4> SUFFICES ASSUME NEW j \in DOMAIN s, j > i + 1 PROVE ~IsEcho(p, s[j])
        OBVIOUS
      <4>1. j - 1 \in DOMAIN t /\ t[j - 1] = s[j] /\ j - 1 > i
        OBVIOUS
      <4> QED BY <3>1, <4>1
    <3> QED BY <3>1, <3>2, <3>3 DEF EchoIs
  <2>3. ASSUME NoEcho(p, t), IsEcho(p, s[1]), s[1].val = v PROVE EchoIs(p, s, v)
    <3>1. \A j \in DOMAIN s : j > 1 => ~IsEcho(p, s[j])
      BY <1>0, <2>3 DEF NoEcho
    <3> QED BY <1>0, <2>3, <3>1 DEF EchoIs
  <2> QED BY <2>1, <2>2, <2>3
<1>2. NoEcho(p, s) <=> (NoEcho(p, t) /\ ~IsEcho(p, s[1]))
  BY <1>0 DEF NoEcho
<1>3. ASSUME NEW v, Fits(p, s, v), IsAnswer(p, s[1]) PROVE s[1].val = v
  <2>1. Fitting(p, s, v, 1)
    BY <1>0, <1>3 DEF Fits
  <2> QED BY <1>0, <2>1 DEF Fitting
<1>4. ASSUME NEW v, Fits(p, s, v) PROVE Fits(p, t, IF IsEcho(p, s[1]) THEN s[1].val ELSE v)
  <2> SUFFICES ASSUME NEW k \in DOMAIN t, IsAnswer(p, t[k])
               PROVE  Fitting(p, t, IF IsEcho(p, s[1]) THEN s[1].val ELSE v, k)
    BY DEF Fits
  <2>1. k + 1 \in DOMAIN s /\ s[k + 1] = t[k]
    BY <1>0
  <2>2. Fitting(p, s, v, k + 1)
    BY <1>4, <2>1 DEF Fits
  <2>3. CASE \E i \in DOMAIN s : /\ i < k + 1 /\ IsEcho(p, s[i]) /\ s[i].val = s[k + 1].val
                                 /\ \A j \in DOMAIN s : i < j /\ j < k + 1 => ~IsEcho(p, s[j])
    <3>1. PICK i \in DOMAIN s : /\ i < k + 1 /\ IsEcho(p, s[i]) /\ s[i].val = s[k + 1].val
                                /\ \A j \in DOMAIN s : i < j /\ j < k + 1 => ~IsEcho(p, s[j])
      BY <2>3
    <3>2. \A j \in DOMAIN t : i < j + 1 /\ j + 1 < k + 1 => ~IsEcho(p, t[j])
      BY <1>0, <3>1
    <3>3. CASE i = 1
      <4>1. \A j \in DOMAIN t : j < k => ~IsEcho(p, t[j])
        BY <3>2, <3>3
      <4> QED BY <2>1, <3>1, <3>3, <4>1 DEF Fitting
    <3>4. CASE i # 1
      <4>1. i - 1 \in DOMAIN t /\ t[i - 1] = s[i] /\ i - 1 < k
        BY <1>0, <3>1, <3>4
      <4>2. \A j \in DOMAIN t : i - 1 < j /\ j < k => ~IsEcho(p, t[j])
        BY <3>2
      <4> QED BY <2>1, <3>1, <4>1, <4>2 DEF Fitting
    <3> QED BY <3>3, <3>4
  <2>4. CASE (\A i \in DOMAIN s : i < k + 1 => ~IsEcho(p, s[i])) /\ s[k + 1].val = v
    <3>1. ~IsEcho(p, s[1])
      BY <1>0, <2>4
    <3>2. \A j \in DOMAIN t : j < k => ~IsEcho(p, t[j])
      BY <1>0, <2>4
    <3> QED BY <2>1, <2>4, <3>1, <3>2 DEF Fitting
  <2> QED BY <2>2, <2>3, <2>4 DEF Fitting
<1> QED BY <1>1, <1>2, <1>3, <1>4

LEMMA EchoJoined ==
  ASSUME NEW p, NEW s, NEW t, NEW m, NEW n, Joined(t, s, m, n),
         ~IsEcho(p, m), ~IsEcho(p, n), ~IsAnswer(p, n)
  PROVE  /\ (NoEcho(p, t) <=> NoEcho(p, s)) /\ \A v : EchoIs(p, t, v) <=> EchoIs(p, s, v)
         /\ \A v : /\ Fits(p, s, v)
                   /\ IsAnswer(p, m) => EchoIs(p, s, m.val) \/ (NoEcho(p, s) /\ m.val = v)
                   => Fits(p, t, v)
<1> USE DEF Joined
<1>1. NoEcho(p, t) <=> NoEcho(p, s)
  BY DEF NoEcho
<1>2. ASSUME NEW v PROVE EchoIs(p, t, v) <=> EchoIs(p, s, v)
  BY DEF EchoIs
<1>3. ASSUME NEW v, Fits(p, s, v), IsAnswer(p, m) => EchoIs(p, s, m.val) \/ (NoEcho(p, s) /\ m.val = v)
      PROVE  Fits(p, t, v)
  <2> SUFFICES ASSUME NEW k \in DOMAIN t, IsAnswer(p, t[k]) PROVE Fitting(p, t, v, k)
    BY DEF Fits
  <2>1. CASE k = Len(s) + 1
    <3>1. EchoIs(p, s, m.val) \/ (NoEcho(p, s) /\ m.val = v)
      BY <1>3, <2>1
    <3>2. CASE EchoIs(p, s, m.val)
      BY <2>1, <3>2 DEF EchoIs, Fitting
    <3>3. CASE NoEcho(p, s) /\ m.val = v
      BY <2>1, <3>3 DEF NoEcho, Fitting
    <3> QED BY <3>1, <3>2, <3>3
  <2>2. CASE k # Len(s) + 1
    <3>1. k \in DOMAIN s /\ t[k] = s[k]
      BY <2>2
    <3>2. Fitting(p, s, v, k)
      BY <1>3, <3>1 DEF Fits
    <3> QED BY <3>1, <3>2 DEF Fitting
  <2> QED BY <2>1, <2>2
<1> QED BY <1>1, <1>2, <1>3

\* Every answer of the log is to its question.
Right(log) == \A i \in DOMAIN log : log[i].answer \in {0, log[i].question}

LEMMA LogAppended ==
  ASSUME NEW log \in Seq(Entries), NEW v
  PROVE  /\ LogEnd(Append(log, [question |-> v, answer |-> 0])) = v
         /\ Right(log) => Right(Append(log, [question |-> v, answer |-> 0]))
<1> DEFINE e == [question |-> v, answer |-> 0]
<1>1. e.question = v /\ e.answer = 0
  OBVIOUS
<1> HIDE DEF e
<1>2. LogEnd(Append(log, e)) = v
  BY <1>1 DEF LogEnd
<1>3. Right(log) => Right(Append(log, e))
  BY <1>1 DEF Right
<1> QED BY <1>2, <1>3 DEF e

LEMMA LogAnswered ==
  ASSUME NEW log \in Seq(Entries), NEW v \in Nat
  PROVE  /\ LogEnd(Answered(log, v)) = LogEnd(log)
         /\ Right(log) /\ v = LogEnd(log) => Right(Answered(log, v))
<1>1. CASE log = <<>>
  BY <1>1 DEF Answered
<1>2. CASE log # <<>>
  <2>1. Len(log) \in DOMAIN log /\ \A i \in DOMAIN log : log[i] \in Entries
    BY <1>2
  <2> DEFINE e == [log[Len(log)] EXCEPT !.answer = v]
  <2>2. e.question = log[Len(log)].question /\ e.answer = v
    BY <2>1 DEF Entries
  <2>3. Answered(log, v) = [log EXCEPT ![Len(log)] = e]
    BY <1>2 DEF Answered
  <2> HIDE DEF e
  <2> DEFINE new == [log EXCEPT ![Len(log)] = e]
  <2>4. /\ new # <<>> /\ Len(new) = Len(log) /\ DOMAIN new = DOMAIN log
        /\ new[Len(log)] = e /\ \A i \in DOMAIN log : i # Len(log) => new[i] = log[i]
    BY <1>2, <2>1
  <2> HIDE DEF new
  <2>5. LogEnd(new) = LogEnd(log)
    BY <1>2, <2>2, <2>4 DEF LogEnd
  <2>6. ASSUME Right(log), v = LogEnd(log) PROVE Right(new)
    <3> SUFFICES ASSUME NEW i \in DOMAIN new PROVE new[i].answer \in {0, new[i].question}
      BY DEF Right
    <3>1. CASE i = Len(log)
      BY <1>2, <2>2, <2>4, <2>6, <3>1 DEF LogEnd
    <3>2. CASE i # Len(log)
      BY <2>4, <2>6, <3>2 DEF Right
    <3> QED BY <3>1, <3>2
  <2> QED BY <2>3, <2>5, <2>6 DEF new
<1> QED BY <1>1, <1>2

\* The last question of p that has come back, or is coming back, is the one that is open;
\* the answers on their way are to what is the last question of the log when they arrive.
LogInv(p) ==
  p \notin patchy =>
    /\ page[p].id = p
    /\ Open(p) => \/ EchoIs(p, inbox[p], Last.val)
                  \/ NoEcho(p, inbox[p]) /\ LogEnd(page[p].log) = Last.val
    /\ p \notin astray => Fits(p, inbox[p], LogEnd(page[p].log)) /\ Right(page[p].log)

\* What reaches the page is neither its question nor an answer.
LEMMA LogStays ==
  ASSUME NEW p \in Players, LogInv(p), UNCHANGED <<turn, stored>>, p \in astray => p \in astray',
         p \in patchy => p \in patchy', page'[p].id = page[p].id, page'[p].log = page[p].log,
         \/ inbox'[p] = inbox[p]
         \/ \E m : Grown(inbox'[p], inbox[p], m) /\ ~IsEcho(p, m) /\ ~IsAnswer(p, m)
  PROVE  LogInv(p)'
<1>1. Last' = Last /\ (Pending' <=> Pending) /\ (Open(p)' <=> Open(p))
  BY StoredSame DEF Open
<1>2. /\ NoEcho(p, inbox'[p]) <=> NoEcho(p, inbox[p])
      /\ \A v : EchoIs(p, inbox'[p], v) <=> EchoIs(p, inbox[p], v)
      /\ \A v : Fits(p, inbox[p], v) => Fits(p, inbox'[p], v)
  <2>1. CASE inbox'[p] = inbox[p]
    BY <2>1
  <2>2. CASE \E m : Grown(inbox'[p], inbox[p], m) /\ ~IsEcho(p, m) /\ ~IsAnswer(p, m)
    BY <2>2, EchoGrown
  <2> QED BY <2>1, <2>2
<1> QED BY <1>1, <1>2 DEF LogInv

LEMMA NoEchoes ==
  ASSUME NEW p PROVE NoEcho(p, <<>>) /\ (\A v : Fits(p, <<>>, v)) /\ \A v : ~EchoIs(p, <<>>, v)
BY DEF NoEcho, Fits, EchoIs

LEMMA LogLose ==
  ASSUME Base, NEW p \in Players, LogInv(p), Lose(p) PROVE LogInv(p)'
<1>1. /\ Typed /\ inbox'[p] = <<>> /\ UNCHANGED <<turn, stored, page>>
      /\ patchy' = IF LosesEcho(p) THEN patchy \cup {p} ELSE patchy
      /\ p \in astray => p \in astray'
  BY Losing DEF Base, CutOff
<1>2. Last' = Last /\ (Pending' <=> Pending) /\ (Open(p)' <=> Open(p))
  BY <1>1, StoredSame DEF Open
<1> SUFFICES ASSUME p \notin patchy'
             PROVE  /\ page[p].id = p
                    /\ Open(p) => LogEnd(page[p].log) = Last.val
                    /\ p \notin astray => Right(page[p].log)
  BY <1>1, <1>2, NoEchoes DEF LogInv
<1>3. p \notin patchy /\ ~LosesEcho(p)
  BY <1>1
<1>4. NoEcho(p, inbox[p])
  BY <1>3 DEF LosesEcho, NoEcho, IsEcho
<1>5. \A v : ~EchoIs(p, inbox[p], v)
  BY <1>4 DEF NoEcho, EchoIs
<1> QED BY <1>3, <1>5 DEF LogInv

LEMMA LogReceive ==
  ASSUME Base, NEW p \in Players, LogInv(p), Receive(p) PROVE LogInv(p)'
<1> DEFINE m == inbox[p][1]
<1>1. Typed /\ page[p] \in Pages
  BY DEF Base, Typed
<1>2. /\ m \in Messages /\ Shrunk(inbox'[p], inbox[p])
      /\ page'[p] = OnMessage(page[p], m)
      /\ p \in astray => p \in astray'
      /\ UNCHANGED <<turn, stored, patchy>>
  BY <1>1, Received
<1>3. TakesIn(page'[p], page[p], m)
  BY <1>1, <1>2, PageAfter
<1>4. Last' = Last /\ (Pending' <=> Pending) /\ (Open(p)' <=> Open(p))
  BY <1>2, StoredSame DEF Open
<1>5. /\ \A v : EchoIs(p, inbox[p], v) <=> (EchoIs(p, inbox'[p], v) \/ (NoEcho(p, inbox'[p]) /\ IsEcho(p, m) /\ m.val = v))
      /\ NoEcho(p, inbox[p]) <=> (NoEcho(p, inbox'[p]) /\ ~IsEcho(p, m))
      /\ \A v : Fits(p, inbox[p], v) => /\ IsAnswer(p, m) => m.val = v
                                        /\ Fits(p, inbox'[p], IF IsEcho(p, m) THEN m.val ELSE v)
  BY <1>2, EchoShrunk
<1>6. m.channel \in {"game", "response", "lobby_update", "pending_question", "pending_waiting"}
  BY <1>2 DEF Messages, Kinds
<1>7. m.channel = "response" => m.val \in Nat
  BY <1>2 DEF Messages
<1>8. page[p].log \in Seq(Entries)
  BY <1>1 DEF Pages
<1> HIDE DEF m
<1> SUFFICES ASSUME p \notin patchy
             PROVE  /\ page'[p].id = p
                    /\ Open(p) => \/ EchoIs(p, inbox'[p], Last.val)
                                  \/ NoEcho(p, inbox'[p]) /\ LogEnd(page'[p].log) = Last.val
                    /\ p \notin astray => Fits(p, inbox'[p], LogEnd(page'[p].log)) /\ Right(page'[p].log)
  BY <1>2, <1>4 DEF LogInv
<1>9. /\ page[p].id = p
      /\ Open(p) => \/ EchoIs(p, inbox[p], Last.val)
                    \/ NoEcho(p, inbox[p]) /\ LogEnd(page[p].log) = Last.val
      /\ p \notin astray => Fits(p, inbox[p], LogEnd(page[p].log)) /\ Right(page[p].log)
  BY DEF LogInv
<1>10. page'[p].id = p
  BY <1>3, <1>9 DEF TakesIn
<1>11. CASE IsEcho(p, m)
  <2>1. page'[p].log = Append(page[p].log, [question |-> m.val, answer |-> 0])
    BY <1>3, <1>9, <1>11 DEF IsEcho, TakesIn
  <2>2. LogEnd(page'[p].log) = m.val /\ (Right(page[p].log) => Right(page'[p].log))
    BY <1>8, <2>1, LogAppended
  <2> QED BY <1>5, <1>9, <1>10, <1>11, <2>2
<1>12. CASE IsAnswer(p, m)
  <2>1. page'[p].log = Answered(page[p].log, m.val) /\ m.val \in Nat /\ ~IsEcho(p, m)
    BY <1>3, <1>7, <1>9, <1>12 DEF IsAnswer, IsEcho, TakesIn
  <2>2. /\ LogEnd(page'[p].log) = LogEnd(page[p].log)
        /\ Right(page[p].log) /\ m.val = LogEnd(page[p].log) => Right(page'[p].log)
    BY <1>8, <2>1, LogAnswered
  <2> QED BY <1>5, <1>9, <1>10, <1>12, <2>1, <2>2
<1>13. CASE ~IsEcho(p, m) /\ ~IsAnswer(p, m)
  <2>1. page'[p].log = page[p].log
    BY <1>3, <1>6, <1>9, <1>13 DEF IsAnswer, IsEcho, TakesIn
  <2> QED BY <1>5, <1>9, <1>10, <1>13, <2>1
<1> QED BY <1>11, <1>12, <1>13

LEMMA LogHandleFrame ==
  ASSUME Base, NEW p \in Players, NEW c \in Players, LogInv(p), HandleFrame(c) PROVE LogInv(p)'
<1> DEFINE frame == outbox[c][1]
<1>1. Typed /\ Sound(c)
  BY DEF Base
<1>2. /\ frame \in Frames /\ outbox[c] # <<>>
      /\ UNCHANGED <<page, sock, greeting, late, patchy, asks>>
      /\ Dropped(c, frame) \/ Asked(c, frame) \/ Replied(c, frame)
  BY <1>1, Handled
<1>3. sock[c] = "open"
  BY <1>1, <1>2 DEF Sound, SocketSound
<1> HIDE DEF frame
<1>4. CASE Dropped(c, frame)
  <2>1. UNCHANGED <<turn, stored, inbox>> /\ (p \in astray => p \in astray')
    BY <1>4 DEF Dropped, serverVars
  <2> QED BY <1>2, <2>1, LogStays
<1>5. CASE Asked(c, frame)
  <2> DEFINE m == GameMsg(c, frame.val)
  <2>1. /\ turn = c /\ turn' = c /\ astray' = astray /\ Last'.val = frame.val
        /\ IF sock[p] = "open" THEN Grown(inbox'[p], inbox[p], m) ELSE inbox'[p] = inbox[p]
    BY <1>5, StoredGrown DEF Asked
  <2>2. m.channel = "game" /\ m.by = c /\ m.val = frame.val
    BY DEF GameMsg
  <2> HIDE DEF m
  <2>3. ~IsAnswer(p, m) /\ (IsEcho(p, m) <=> c = p)
    BY <2>2 DEF IsAnswer, IsEcho
  <2>4. \A v : Fits(p, inbox[p], v) => Fits(p, inbox'[p], v)
    <3>1. CASE sock[p] = "open"
      BY <2>1, <2>3, <3>1, EchoGrown
    <3>2. CASE sock[p] # "open"
      BY <2>1, <3>2
    <3> QED BY <3>1, <3>2
  <2>5. Open(p)' => EchoIs(p, inbox'[p], Last'.val)
    <3>1. CASE c = p
      BY <1>3, <2>1, <2>2, <2>3, <3>1, EchoGrown
    <3>2. CASE c # p
      BY <2>1, <3>2 DEF Open
    <3> QED BY <3>1, <3>2
  <2> QED BY <1>2, <2>1, <2>4, <2>5 DEF LogInv
<1>6. CASE Replied(c, frame)
  <2> DEFINE m == ResponseMsg(c, frame.val)
  <2> DEFINE n == UpdateMsg(c)
  <2>1. /\ turn # c /\ turn' = c /\ turn \in Players /\ ~Pending'
        /\ IF sock[p] = "open" THEN Joined(inbox'[p], inbox[p], m, n) ELSE inbox'[p] = inbox[p]
        /\ p \in astray => p \in astray'
        /\ p \notin astray' => ~Misplaced(frame)
    BY <1>1, <1>6, StoredGrown DEF Replied, Typed
  <2>2. /\ m.channel = "response" /\ m.by = c /\ m.val = frame.val
        /\ n.channel = "lobby_update"
    BY DEF ResponseMsg, UpdateMsg
  <2> HIDE DEF m, n
  <2>3. (IsAnswer(p, m) <=> c # p) /\ ~IsEcho(p, m) /\ ~IsEcho(p, n) /\ ~IsAnswer(p, n)
    BY <2>2 DEF IsAnswer, IsEcho
  <2>4. ~Open(p)'
    BY <2>1 DEF Open
  <2> SUFFICES ASSUME p \notin patchy, p \notin astray' PROVE Fits(p, inbox'[p], LogEnd(page[p].log))
    BY <1>2, <2>1, <2>4 DEF LogInv
  <2>5. Fits(p, inbox[p], LogEnd(page[p].log))
    BY <2>1 DEF LogInv
  <2>6. IsAnswer(p, m) => \/ EchoIs(p, inbox[p], m.val)
                          \/ NoEcho(p, inbox[p]) /\ m.val = LogEnd(page[p].log)
    <3> SUFFICES ASSUME c # p PROVE \/ EchoIs(p, inbox[p], m.val)
                                    \/ NoEcho(p, inbox[p]) /\ m.val = LogEnd(page[p].log)
      BY <2>3
    <3>1. Pending /\ Last.val = frame.val
      BY <2>1, MisplacedIs
    <3>2. turn = p
      BY <2>1, OtherPlayer, OtherOne
    <3> QED BY <2>2, <3>1, <3>2 DEF LogInv, Open
  <2>7. CASE sock[p] = "open"
    <3>1. Joined(inbox'[p], inbox[p], m, n)
      BY <2>1, <2>7
    <3> QED BY <2>3, <2>5, <2>6, <3>1, EchoJoined
  <2>8. CASE sock[p] # "open"
    BY <2>1, <2>5, <2>8
  <2> QED BY <2>7, <2>8
<1> QED BY <1>2, <1>4, <1>5, <1>6

LEMMA LogInvStep ==
  ASSUME Base, NEW p \in Players, LogInv(p), [Next]_vars PROVE LogInv(p)'
<1>1. Typed /\ Sound(p)
  BY DEF Base
<1>2. ASSUME NEW c \in Players, Ask(c) PROVE LogInv(p)'
  <2>1. /\ UNCHANGED <<turn, stored, inbox, patchy>>
        /\ Sent(c, [channel |-> "game", val |-> asks + 1])
        /\ page'[c] = [page[c] EXCEPT !.waiting = TRUE]
        /\ \A q \in Players \ {c} : page'[q] = page[q]
    BY <1>1, <1>2, Asking
  <2>2. p \in astray => p \in astray'
    BY <2>1 DEF Sent
  <2>3. page'[p].id = page[p].id /\ page'[p].log = page[p].log
    <3>1. page[p] \in Pages
      BY <1>1 DEF Typed
    <3>2. CASE c = p
      BY <2>1, <3>1, <3>2 DEF Pages
    <3>3. CASE c # p
      BY <2>1, <3>3
    <3> QED BY <3>2, <3>3
  <2> QED BY <2>1, <2>2, <2>3, LogStays
<1>3. ASSUME NEW c \in Players, Answer(c) PROVE LogInv(p)'
  <2>1. /\ UNCHANGED <<turn, stored, page, inbox, patchy>>
        /\ Sent(c, [channel |-> "response", val |-> page[c].received])
    BY <1>1, <1>3, Answering
  <2>2. p \in astray => p \in astray'
    BY <2>1 DEF Sent
  <2> QED BY <2>1, <2>2, LogStays
<1>4. ASSUME NEW c \in Players, ClearAnswered(c) PROVE LogInv(p)'
  <2>1. /\ UNCHANGED <<turn, stored, inbox, astray, patchy>>
        /\ page'[c] = [page[c] EXCEPT !.received = 0, !.turn = TRUE]
        /\ \A q \in Players \ {c} : page'[q] = page[q]
    BY <1>1, <1>4, Clearing
  <2>2. page'[p].id = page[p].id /\ page'[p].log = page[p].log
    <3>1. page[p] \in Pages
      BY <1>1 DEF Typed
    <3>2. CASE c = p
      BY <2>1, <3>1, <3>2 DEF Pages
    <3>3. CASE c # p
      BY <2>1, <3>3
    <3> QED BY <3>2, <3>3
  <2> QED BY <2>1, <2>2, LogStays
<1>5. ASSUME NEW c \in Players, HandleFrame(c) PROVE LogInv(p)'
  BY <1>5, LogHandleFrame
<1>6. ASSUME NEW c \in Players, GreetRead(c) PROVE LogInv(p)'
  <2> DEFINE m == UpdateMsg(turn)
  <2>1. /\ UNCHANGED <<turn, stored, page, astray, patchy>>
        /\ Grown(inbox'[p], inbox[p], m) \/ inbox'[p] = inbox[p]
    BY <1>1, <1>6, Greeted
  <2>2. ~IsEcho(p, m) /\ ~IsAnswer(p, m)
    BY DEF UpdateMsg, IsEcho, IsAnswer
  <2> HIDE DEF m
  <2> QED BY <2>1, <2>2, LogStays
<1>7. ASSUME NEW c \in Players, GreetSend(c) PROVE LogInv(p)'
  <2> DEFINE m == PendingMsg(page[c].id, greeting[c].found[1])
  <2>1. /\ UNCHANGED <<turn, stored, page, astray, patchy>>
        /\ Grown(inbox'[p], inbox[p], m) \/ inbox'[p] = inbox[p]
    BY <1>1, <1>7, Replayed
  <2>2. ~IsEcho(p, m) /\ ~IsAnswer(p, m)
    BY DEF PendingMsg, IsEcho, IsAnswer
  <2> HIDE DEF m
  <2> QED BY <2>1, <2>2, LogStays
<1>8. ASSUME NEW c \in Players, Opened(c) PROVE LogInv(p)'
  BY <1>1, <1>8, Opening, LogStays
<1>9. ASSUME NEW c \in Players, Lose(c) PROVE LogInv(p)'
  <2>1. CASE c = p
    BY <1>9, <2>1, LogLose
  <2>2. CASE c # p
    <3>1. /\ UNCHANGED <<turn, stored, page>> /\ inbox'[p] = inbox[p]
          /\ p \in astray => p \in astray'
          /\ p \in patchy => p \in patchy'
      BY <1>1, <1>9, <2>2, Losing DEF CutOff
    <3> QED BY <3>1, LogStays
  <2> QED BY <2>1, <2>2
<1>10. ASSUME NEW c \in Players, Closed(c) \/ Redial(c) PROVE LogInv(p)'
  BY <1>1, <1>10, Dialling, LogStays
<1>11. ASSUME NEW c \in Players, Identify(c) PROVE LogInv(p)'
  <2>1. /\ CutOff(c, "connecting") /\ page[c].id = NoOne
        /\ \A q \in Players \ {c} : page'[q] = page[q]
        /\ UNCHANGED <<late, astray, patchy>>
    BY <1>1, <1>11, Identifying
  <2>2. CASE c = p
    <3>1. p \in patchy
      BY <2>1, <2>2, IdsDiffer DEF LogInv
    <3> QED BY <2>1, <3>1 DEF LogInv
  <2>3. CASE c # p
    <3>1. UNCHANGED <<turn, stored>> /\ inbox'[p] = inbox[p] /\ page'[p] = page[p]
      BY <2>1, <2>3 DEF CutOff
    <3> QED BY <2>1, <3>1, LogStays
  <2> QED BY <2>2, <2>3
<1>12. ASSUME NEW c \in Players, Reload(c) PROVE LogInv(p)'
  <2>1. /\ CutOff(c, "connecting") /\ patchy' = patchy \cup {c} /\ astray' = astray \ {c}
        /\ \A q \in Players \ {c} : page'[q] = page[q]
    BY <1>1, <1>12, Reloading
  <2>2. CASE c = p
    BY <2>1, <2>2 DEF LogInv
  <2>3. CASE c # p
    <3>1. /\ UNCHANGED <<turn, stored>> /\ inbox'[p] = inbox[p] /\ page'[p] = page[p]
          /\ p \in astray => p \in astray'
          /\ p \in patchy => p \in patchy'
      BY <2>1, <2>3 DEF CutOff
    <3> QED BY <3>1, LogStays
  <2> QED BY <2>2, <2>3
<1>13. ASSUME NEW c \in Players, Receive(c) PROVE LogInv(p)'
  <2>1. CASE c = p
    BY <1>13, <2>1, LogReceive
  <2>2. CASE c # p
    <3>1. /\ UNCHANGED <<turn, stored, patchy>> /\ inbox'[p] = inbox[p] /\ page'[p] = page[p]
          /\ p \in astray => p \in astray'
      BY <1>1, <1>13, <2>2, Received
    <3> QED BY <3>1, LogStays
  <2> QED BY <2>1, <2>2
<1>14. CASE UNCHANGED vars
  BY <1>14, LogStays DEF vars, serverVars
<1> QED BY <1>2, <1>3, <1>4, <1>5, <1>6, <1>7, <1>8, <1>9, <1>10, <1>11, <1>12, <1>13, <1>14 DEF Next

LEMMA LogInit == Init => \A p \in Players : LogInv(p)
<1> SUFFICES ASSUME Init, NEW p \in Players PROVE LogInv(p)
  OBVIOUS
<1>1. stored = <<>> /\ inbox[p] = <<>> /\ page[p].id = p /\ page[p].log = <<>>
  BY Begins
<1>2. ~Open(p)
  BY <1>1 DEF Open, Pending
<1>3. Right(<<>>)
  BY DEF Right
<1> QED BY <1>1, <1>2, <1>3, NoEchoes DEF LogInv

\* The log of a page shows beside a question the answer that was given to it, however
\* connections were lost and whatever was replayed, as long as no page has gone astray
\* and no message has passed the log by.
THEOREM LogTrueHolds == Spec => []LogTrue
<1> DEFINE IInv == Base /\ \A p \in Players : LogInv(p)
<1>1. Init => IInv
  BY BaseInit, LogInit
<1>2. IInv /\ [Next]_vars => IInv'
  BY BaseStep, LogInvStep
<1>3. IInv => LogTrue
  BY DEF LogInv, LogTrue, LogPanel, Right
<1> QED BY <1>1, <1>2, <1>3, PTL DEF Spec
=============================================================================
