----------------------------- MODULE EntryProofs ----------------------------
(***************************************************************************)
(* What holds of a user's way to a table and away from it for every number *)
(* of lobbies, sets and requests, whatever is clicked, in whatever order   *)
(* the requests are handled and answered.                                  *)
(*                                                                         *)
(* Most steps are of one of three kinds: the page changes and stays the    *)
(* one it is (Edited), it does so and sends a request, or the user moves   *)
(* to another page (Moved), whose requests are nobody's any more.  What    *)
(* the properties need is proved to be kept by each kind once, and then by *)
(* the handlers and by the answers one by one.                             *)
(***************************************************************************)
EXTENDS Entry, FiniteSetTheorems, TLAPS

----------------------------------------------------------------------------
(* Types *)

Seats == {"host", "joiner"}
Chars == UNION {Pool[s] : s \in Sets}
Made == {l \in Lobbies : lobby[l].made}

RowType ==
  [made : BOOLEAN, guestHost : BOOLEAN, mine : SUBSET Seats, other : SUBSET Seats,
   started : BOOLEAN, over : BOOLEAN, cast : SUBSET Chars, ids : SUBSET Chars,
   chat : BOOLEAN, timer : BOOLEAN]

FormType ==
  [set : Sets \cup {None}, copy : SUBSET Chars, mode : {"all", "random", "manual"}, count : Int,
   preview : SUBSET Chars, manual : SUBSET Chars, chat : BOOLEAN, timer : BOOLEAN]

ViewType ==
  [known : BOOLEAN, count : Int, self : BOOLEAN, mine : BOOLEAN, started : BOOLEAN, over : BOOLEAN]

TabType ==
  [path : Entrances \cup Lobbies, nav : Lobbies \cup {None}, asking : BOOLEAN,
   list : SUBSET Lobbies, busy : BOOLEAN, conflict : Lobbies \cup {None}, form : FormType,
   loading : SUBSET Sets, view : ViewType, game : BOOLEAN, leaving : BOOLEAN]

CallType ==
  [op : {"none", "join", "create", "forfeit"}, on : Lobbies \cup Sets \cup {None},
   then : {"none", "home", "browse", "auto", "create", "gallery", "forget", "clear", "again",
           "rejoin", "exit", "cancel"},
   room : Lobbies \cup Sets \cup {None}, ids : SUBSET Chars, chat : BOOLEAN, timer : BOOLEAN,
   page : {"mounted", "unmounted", "gone"},
   at : {"none", "sent", "ok", "conflict", "refused", "failed"}, got : Lobbies \cup {None}]

TypeOK ==
  /\ guest \in BOOLEAN /\ redirect \in BOOLEAN /\ crossed \in BOOLEAN /\ astray \in BOOLEAN
  /\ lobby \in [Lobbies -> RowType]
  /\ cast \in [Sets -> SUBSET Chars]
  /\ tab \in TabType
  /\ call \in [Slots -> CallType]
  /\ left \in SUBSET Lobbies

----------------------------------------------------------------------------
(* What always holds *)

\* Nobody has a seat in a lobby that was not made, and a game has two players.
RowsOK ==
  \A l \in Lobbies : /\ lobby[l].mine # {} => lobby[l].made
                     /\ lobby[l].started => Count(l) = 2

\* A set has enough characters at any time.
SetsOK == \A s \in Sets : cast[s] \subseteq Pool[s] /\ Cardinality(cast[s]) >= Min

\* The page knows lobbies that exist, and the modal of the gallery covers a form.
TabOK ==
  /\ tab.path \in Entrances \cup Made
  /\ tab.nav \in Made \cup {None} /\ tab.conflict \in Made \cup {None} /\ tab.list \subseteq Made
  /\ tab.path = "gallery" /\ tab.conflict # None => tab.form.set # None
  /\ tab.asking => tab.nav = None
  /\ tab.view.known => InRoom
  /\ tab.view.started => InRoom /\ lobby[tab.path].started

\* What a request is about, and what follows its answer.
About(c, made) ==
  CASE c.op = "none" -> c = NoCall
    [] c.op = "join" -> c.then \in {"home", "browse", "auto"} /\ c.on \in made
    [] c.op = "create" -> c.then \in {"create", "gallery"} /\ c.on \in Sets
    [] OTHER -> /\ c.on \in made
                /\ c.then \in {"forget", "clear", "again", "rejoin", "exit", "cancel"}
                /\ c.then = "again" => c.room \in Sets
                /\ c.then = "rejoin" => c.room \in made

CallOK(c, made) ==
  /\ About(c, made)
  /\ c.op # "none" => c.at # "none"
  /\ c.at = "ok" /\ c.op \in {"join", "create"} => c.got \in made
  /\ c.at = "conflict" => c.got \in made
  /\ c.page = "gone" => c.at = "sent"

\* The page of a mounted request is the one that is shown.
OnPage(c, t) ==
  c.op # "none" /\ c.page = "mounted" =>
    /\ c.then = "home" => t.path = "home"
    /\ c.then = "browse" => t.path = "browse"
    /\ c.then \in {"create", "clear"} => t.path = "create"
    /\ c.then \in {"gallery", "again"} => t.path = "gallery" /\ t.form.set # None
    /\ c.then \in {"auto", "exit", "cancel"} => t.path = c.on
    /\ c.then = "rejoin" => t.path = c.room
    /\ c.then = "forget" => t.path \in Entrances

CallsOK == \A s \in Slots : CallOK(call[s], Made) /\ OnPage(call[s], tab)

\* Nobody is found in two games: a seat is given to whoever has none.
OneSeat == \A k, l \in GetPlayerByUser : k = l

BaseInv == TypeOK /\ RowsOK /\ SetsOK /\ TabOK /\ CallsOK /\ OneSeat

----------------------------------------------------------------------------
(* The kinds of steps *)

\* A request whose page is left goes on for nobody.
Unmounted(c, d) ==
  /\ d \in CallType /\ d.page # "mounted" /\ c.op # "none"
  /\ d.page = "gone" => d.at = "sent"
  /\ d.op = c.op /\ d.on = c.on /\ d.then = c.then /\ d.room = c.room /\ d.ids = c.ids
  /\ d.chat = c.chat /\ d.timer = c.timer /\ d.at = c.at /\ d.got = c.got

\* The page is the one it was, and what is asked of it is still asked.
Edited(t) ==
  /\ t \in TabType
  /\ t.path = tab.path /\ t.nav = tab.nav /\ t.asking = tab.asking
  /\ t.conflict \in {tab.conflict, None}
  /\ t.list \subseteq Made
  /\ t.view.known => InRoom
  /\ t.view.started => InRoom /\ lobby[tab.path].started
  /\ tab.leaving => t.leaving

EditStep ==
  /\ Edited(tab')
  /\ call' \in [Slots -> CallType]
  /\ \A s \in Slots : call'[s] = call[s] \/ Unmounted(call[s], call'[s])
  /\ (tab.form.set # None /\ tab'.form.set = None) =>
       /\ tab'.conflict = None
       /\ \A s \in Slots : call'[s].then \in {"gallery", "again"} => call'[s].page # "mounted"
  /\ cast' \in [Sets -> SUBSET Chars] /\ SetsOK'
  /\ UNCHANGED <<guest, lobby, redirect, ghosts>>

\* What a page may ask for.
Sendable(c) ==
  /\ c \in CallType /\ c.op # "none" /\ c.at = "sent" /\ c.page = "mounted"
  /\ CallOK(c, Made) /\ OnPage(c, tab')
  /\ c.then = "auto" => /\ c.on \in Lobbies /\ ~tab.leaving /\ ~lobby[c.on].started
                        /\ ~guest => lobby[c.on].mine = {}
  /\ c.then = "exit" => tab'.leaving \/ lobby[c.on].started
  /\ c.then = "forget" => c.on = tab.nav /\ ~tab.asking

SendStep(c) ==
  /\ Edited(tab') /\ (tab.form.set # None => tab'.form.set # None)
  /\ Sendable(c)
  /\ \E s \in Slots : call[s].op = "none" /\ call' = [call EXCEPT ![s] = c]
  /\ crossed' = (crossed \/ Overtakes(c))
  /\ left' = IF c.op = "join" /\ c.then # "auto" THEN left \ {c.on} ELSE left
  /\ UNCHANGED <<guest, lobby, cast, redirect, astray>>

\* The user is on another page now, or on the same one, mounted again.
MoveStep(to) ==
  /\ to \in Entrances \cup Made
  /\ tab' = Mounted(to)
  /\ call' \in [Slots -> CallType]
  /\ \A s \in Slots : call'[s] = NoCall \/ Unmounted(call[s], call'[s])
  /\ left' = left \ {to}
  /\ redirect' \in BOOLEAN
  /\ UNCHANGED <<guest, lobby, cast, crossed, astray>>

\* The user is taken to where they are; perhaps by an answer.
StayStep ==
  /\ tab' = tab
  /\ call' \in [Slots -> CallType]
  /\ \A s \in Slots : \/ call'[s] = call[s]
                      \/ call'[s] = NoCall /\ (InRoom \/ call[s].op = "forfeit")
  /\ left' = left \ {tab.path}
  /\ redirect' \in BOOLEAN
  /\ UNCHANGED <<guest, lobby, cast, crossed, astray>>

\* The others change the rows, but not those of the user.
OtherStep ==
  /\ lobby' \in [Lobbies -> RowType]
  /\ \A l \in Lobbies :
       /\ lobby'[l].made = lobby[l].made /\ lobby'[l].mine = lobby[l].mine
       /\ lobby[l].over => lobby'[l].over
       /\ lobby[l].started => lobby'[l].started
       /\ lobby'[l].cast = lobby[l].cast /\ lobby'[l].ids = lobby[l].ids
       /\ lobby'[l].chat = lobby[l].chat /\ lobby'[l].timer = lobby[l].timer
       /\ lobby'[l].started => Count(l)' = 2
  /\ redirect' \in BOOLEAN
  /\ UNCHANGED <<guest, cast, tab, call, ghosts>>

\* The answer of a request that leads nowhere.
HereStep(s) ==
  /\ Answered(s) /\ Destination(call[s]) = None

Asked == ActiveLobbyFails \/ \E l \in Lobbies \cup {None} : ActiveLobby(l)

Handled(s) == JoinLobby(s) \/ CreateLobby(s) \/ ForfeitLobby(s) \/ Fail(s)

Kinds ==
  \/ EditStep \/ (\E c : SendStep(c)) \/ (\E to : MoveStep(to)) \/ StayStep \/ OtherStep
  \/ Asked \/ \E s \in Slots : Handled(s) \/ HereStep(s)

----------------------------------------------------------------------------
(* Facts about the operators *)

LEMMA CountIs ==
  ASSUME TypeOK, NEW l \in Lobbies
  PROVE  Count(l) \in Nat
<1>1. IsFiniteSet(Seats)
  <2>1. IsFiniteSet({} \cup {"host"})
    BY FS_EmptySet, FS_AddElement
  <2>2. IsFiniteSet(({} \cup {"host"}) \cup {"joiner"})
    BY <2>1, FS_AddElement
  <2>3. Seats = ({} \cup {"host"}) \cup {"joiner"}
    BY DEF Seats
  <2> QED BY <2>2, <2>3
<1>2. lobby[l].mine \subseteq Seats /\ lobby[l].other \subseteq Seats
  BY DEF TypeOK, RowType
<1> QED
  BY <1>1, <1>2, FS_Subset, FS_CardinalityType DEF Count

LEMMA NoCallType == NoCall \in CallType /\ NoCall.op = "none" /\ NoCall.page = "mounted"
                    /\ NoCall.then = "none" /\ NoCall.at = "none"
BY DEF NoCall, CallType

LEMMA NoCallOK == \A made, t : CallOK(NoCall, made) /\ OnPage(NoCall, t)
BY DEF NoCall, CallOK, About, OnPage

\* One request changes, the others do not.
LEMMA CallSet ==
  ASSUME NEW s \in Slots, NEW d \in CallType, call \in [Slots -> CallType],
         call' = [call EXCEPT ![s] = d]
  PROVE  /\ call' \in [Slots -> CallType] /\ call'[s] = d
         /\ \A r \in Slots : r # s => call'[r] = call[r]
OBVIOUS

\* A mounted page.
LEMMA MountedIs ==
  ASSUME NEW to \in Entrances \cup Lobbies
  PROVE  LET t == Mounted(to) IN
         /\ t \in TabType /\ t.path = to /\ t.nav = None /\ t.conflict = None /\ t.list = {}
         /\ t.asking = (to \in Entrances)
         /\ ~t.view.known /\ ~t.view.started /\ ~t.leaving /\ t.form.set = None
BY DEF Mounted, NoForm, NoView, TabType, FormType, ViewType

\* What is made stays made.
LEMMA MoreMade ==
  ASSUME NEW c \in CallType, NEW made, NEW more, made \subseteq more, CallOK(c, made)
  PROVE  CallOK(c, more)
BY DEF CallOK, About

LEMMA UnmountedOK ==
  ASSUME NEW c \in CallType, NEW d, NEW made, NEW t, CallOK(c, made), Unmounted(c, d)
  PROVE  CallOK(d, made) /\ OnPage(d, t)
BY DEF CallOK, About, Unmounted, OnPage, CallType

----------------------------------------------------------------------------
(* What always holds is kept by each kind *)

LEMMA EditBase == ASSUME BaseInv, EditStep PROVE BaseInv'
<1> USE DEF BaseInv
<1>1. TypeOK'
  BY DEF TypeOK, EditStep, Edited, ghosts
<1>2. Made' = Made /\ GetPlayerByUser' = GetPlayerByUser /\ InRoom' = InRoom
  BY DEF Made, GetPlayerByUser, EditStep, Edited, InRoom
<1>3. RowsOK' /\ SetsOK' /\ OneSeat'
  BY <1>2 DEF RowsOK, EditStep, OneSeat, Count
<1>4. TabOK'
  BY <1>2 DEF TabOK, EditStep, Edited
<1>5. CallsOK'
  <2> SUFFICES ASSUME NEW s \in Slots PROVE CallOK(call'[s], Made) /\ OnPage(call'[s], tab')
    BY <1>2 DEF CallsOK
  <2>1. call[s] \in CallType /\ CallOK(call[s], Made) /\ OnPage(call[s], tab)
    BY DEF CallsOK, TypeOK
  <2>2. CASE call'[s] = call[s]
    <3>1. tab'.path = tab.path
      BY DEF EditStep, Edited
    <3>2. call[s].then \in {"gallery", "again"} /\ call[s].op # "none" /\ call[s].page = "mounted"
            => tab'.form.set # None
      BY <2>1, <2>2 DEF EditStep, OnPage
    <3> QED BY <2>1, <2>2, <3>1, <3>2 DEF OnPage
  <2>3. CASE Unmounted(call[s], call'[s])
    BY <2>1, <2>3, UnmountedOK
  <2> QED BY <2>2, <2>3 DEF EditStep
<1> QED BY <1>1, <1>3, <1>4, <1>5

LEMMA SendBase == ASSUME BaseInv, NEW c, SendStep(c) PROVE BaseInv'
<1> USE DEF BaseInv
<1>0. c \in CallType /\ c.op # "none"
  BY DEF SendStep, Sendable
<1>1. PICK s \in Slots : call[s].op = "none" /\ call' = [call EXCEPT ![s] = c]
  BY DEF SendStep
<1>2. call' \in [Slots -> CallType] /\ call'[s] = c /\ \A r \in Slots : r # s => call'[r] = call[r]
  BY <1>0, <1>1, CallSet DEF TypeOK
<1>3. crossed' \in BOOLEAN
  BY DEF SendStep, TypeOK, Overtakes
<1>4. TypeOK'
  BY <1>2, <1>3 DEF TypeOK, SendStep, Edited
<1>5. Made' = Made /\ GetPlayerByUser' = GetPlayerByUser /\ InRoom' = InRoom
  BY DEF Made, GetPlayerByUser, SendStep, Edited, InRoom
<1>6. RowsOK' /\ SetsOK' /\ OneSeat'
  BY <1>5 DEF RowsOK, SendStep, OneSeat, Count, SetsOK
<1>7. TabOK'
  BY <1>5 DEF TabOK, SendStep, Edited
<1>8. CallsOK'
  <2> SUFFICES ASSUME NEW r \in Slots PROVE CallOK(call'[r], Made) /\ OnPage(call'[r], tab')
    BY <1>5 DEF CallsOK
  <2>1. CASE r = s
    BY <1>2, <2>1 DEF SendStep, Sendable
  <2>2. CASE r # s
    <3>1. CallOK(call[r], Made) /\ OnPage(call[r], tab)
      BY DEF CallsOK
    <3>2. tab'.path = tab.path /\ (tab.form.set # None => tab'.form.set # None)
      BY DEF SendStep, Edited
    <3> QED BY <1>2, <2>2, <3>1, <3>2 DEF OnPage
  <2> QED BY <2>1, <2>2
<1> QED BY <1>4, <1>6, <1>7, <1>8

LEMMA MoveBase == ASSUME BaseInv, NEW to, MoveStep(to) PROVE BaseInv'
<1> USE DEF BaseInv
<1>1. Made' = Made /\ GetPlayerByUser' = GetPlayerByUser /\ Made \subseteq Lobbies
  BY DEF Made, GetPlayerByUser, MoveStep
<1>2. to \in Entrances \cup Lobbies /\ to \in Entrances \cup Made /\ tab' = Mounted(to)
  BY <1>1 DEF MoveStep
<1>3. /\ tab' \in TabType /\ tab'.path = to /\ tab'.nav = None /\ tab'.conflict = None /\ tab'.list = {}
      /\ ~tab'.view.known /\ ~tab'.view.started
  BY <1>2, MountedIs
<1>4. TypeOK'
  BY <1>3 DEF TypeOK, MoveStep
<1>5. RowsOK' /\ SetsOK' /\ OneSeat'
  BY <1>1 DEF RowsOK, MoveStep, OneSeat, Count, SetsOK
<1>6. TabOK'
  BY <1>1, <1>2, <1>3 DEF TabOK
<1>7. CallsOK'
  <2> SUFFICES ASSUME NEW s \in Slots PROVE CallOK(call'[s], Made) /\ OnPage(call'[s], tab')
    BY <1>1 DEF CallsOK
  <2>1. call[s] \in CallType /\ CallOK(call[s], Made)
    BY DEF CallsOK, TypeOK
  <2> QED BY <2>1, UnmountedOK, NoCallOK DEF MoveStep
<1> QED BY <1>4, <1>5, <1>6, <1>7

LEMMA StayBase == ASSUME BaseInv, StayStep PROVE BaseInv'
<1> USE DEF BaseInv
<1>1. Made' = Made /\ GetPlayerByUser' = GetPlayerByUser /\ InRoom' = InRoom
  BY DEF Made, GetPlayerByUser, StayStep, InRoom
<1>2. TypeOK' /\ RowsOK' /\ SetsOK' /\ OneSeat' /\ TabOK'
  BY <1>1 DEF TypeOK, RowsOK, StayStep, OneSeat, Count, SetsOK, TabOK
<1>3. CallsOK'
  BY <1>1, NoCallOK DEF CallsOK, StayStep
<1> QED BY <1>2, <1>3

LEMMA OtherBase == ASSUME BaseInv, OtherStep PROVE BaseInv'
<1> USE DEF BaseInv
<1>1. Made' = Made /\ InRoom' = InRoom
  BY DEF Made, OtherStep, InRoom
<1>2. GetPlayerByUser' \subseteq GetPlayerByUser
  BY DEF GetPlayerByUser, OtherStep
<1>3. TypeOK' /\ RowsOK' /\ SetsOK' /\ OneSeat'
  BY <1>2 DEF TypeOK, RowsOK, OtherStep, OneSeat, SetsOK, ghosts
<1>4. TabOK'
  BY <1>1 DEF TabOK, OtherStep, InRoom
<1>5. CallsOK'
  BY <1>1 DEF CallsOK, OtherStep
<1> QED BY <1>3, <1>4, <1>5

LEMMA AskedBase == ASSUME BaseInv, Asked PROVE BaseInv'
<1> USE DEF BaseInv
<1>1. UNCHANGED <<guest, lobby, cast, call, redirect, left, crossed>> /\ astray' \in BOOLEAN
  BY DEF Asked, ActiveLobbyFails, ActiveLobby, Only, ghosts, TypeOK
<1>2. Made' = Made /\ GetPlayerByUser' = GetPlayerByUser
  BY <1>1 DEF Made, GetPlayerByUser
<1>3. GetPlayerByUser \subseteq Made
  BY DEF GetPlayerByUser, Made, RowsOK
<1>4. \E l \in Made \cup {None} : tab' = [tab EXCEPT !.nav = l, !.asking = FALSE]
  <2>1. CASE ActiveLobbyFails
    <3>1. tab.asking /\ tab' = [tab EXCEPT !.asking = FALSE]
      BY <2>1 DEF ActiveLobbyFails
    <3>2. tab.nav = None /\ tab \in TabType
      BY <3>1 DEF TabOK, TypeOK
    <3>3. tab' = [tab EXCEPT !.nav = None, !.asking = FALSE]
      BY <3>1, <3>2 DEF TabType
    <3> QED BY <3>3
  <2>2. CASE \E l \in Lobbies \cup {None} : ActiveLobby(l)
    BY <2>2, <1>3 DEF ActiveLobby, Only
  <2> QED BY <2>1, <2>2 DEF Asked
<1>5. PICK l \in Made \cup {None} : tab' = [tab EXCEPT !.nav = l, !.asking = FALSE]
  BY <1>4
<1>6. /\ tab' \in TabType /\ tab'.path = tab.path /\ tab'.nav = l /\ ~tab'.asking
      /\ tab'.conflict = tab.conflict /\ tab'.form = tab.form /\ tab'.view = tab.view /\ tab'.list = tab.list
  BY <1>5 DEF TypeOK, TabType, Made
<1>7. TypeOK' /\ RowsOK' /\ SetsOK' /\ OneSeat'
  BY <1>1, <1>2, <1>6 DEF TypeOK, RowsOK, OneSeat, Count, SetsOK
<1>8. TabOK'
  BY <1>1, <1>2, <1>6 DEF TabOK, InRoom
<1>9. CallsOK'
  BY <1>1, <1>2, <1>6 DEF CallsOK, OnPage
<1> QED BY <1>7, <1>8, <1>9

\* A request is answered; nobody waits for the answer to a page that was closed.
LEMMA ToldIs ==
  ASSUME TypeOK, NEW s \in Slots, NEW at \in {"ok", "conflict", "refused", "failed"},
         NEW l \in Lobbies \cup {None}, Answer(s, at, l)
  PROVE  /\ call' \in [Slots -> CallType]
         /\ \A r \in Slots : r # s => call'[r] = call[r]
         /\ call[s].page = "gone" => call'[s] = NoCall
         /\ call[s].page # "gone" =>
              /\ call'[s].at = at /\ call'[s].got = l
              /\ call'[s].op = call[s].op /\ call'[s].on = call[s].on /\ call'[s].then = call[s].then
              /\ call'[s].room = call[s].room /\ call'[s].page = call[s].page
<1> DEFINE d == IF call[s].page = "gone" THEN NoCall ELSE [call[s] EXCEPT !.at = at, !.got = l]
<1>1. call[s] \in CallType
  BY DEF TypeOK
<1>2. d \in CallType
  <2>1. CASE call[s].page = "gone"
    BY <2>1, NoCallType
  <2>2. CASE call[s].page # "gone"
    <3>1. d = [call[s] EXCEPT !.at = at, !.got = l]
      BY <2>2
    <3> HIDE DEF d
    <3> QED BY <1>1, <3>1 DEF CallType
  <2> QED BY <2>1, <2>2
<1>3. call' = [call EXCEPT ![s] = d]
  BY DEF Answer
<1>4. /\ call[s].page = "gone" => d = NoCall
      /\ call[s].page # "gone" =>
           /\ d.at = at /\ d.got = l
           /\ d.op = call[s].op /\ d.on = call[s].on /\ d.then = call[s].then
           /\ d.room = call[s].room /\ d.page = call[s].page
  BY <1>1 DEF CallType
<1> HIDE DEF d
<1> QED BY <1>2, <1>3, <1>4, CallSet DEF TypeOK

LEMMA ToldCalls ==
  ASSUME BaseInv, NEW s \in Slots, NEW at \in {"ok", "conflict", "refused", "failed"},
         NEW l \in Lobbies \cup {None}, Answer(s, at, l), call[s].op # "none",
         tab' = tab, Made \subseteq Made',
         at = "conflict" => l \in Made',
         at = "ok" /\ call[s].op \in {"join", "create"} => l \in Made'
  PROVE  CallsOK'
<1> USE DEF BaseInv
<1> SUFFICES ASSUME NEW r \in Slots PROVE CallOK(call'[r], Made') /\ OnPage(call'[r], tab)
  BY DEF CallsOK
<1>1. call[r] \in CallType /\ CallOK(call[r], Made) /\ OnPage(call[r], tab)
  BY DEF CallsOK, TypeOK
<1>2. CallOK(call[r], Made')
  BY <1>1, MoreMade
<1>3. CASE r # s
  BY <1>1, <1>2, <1>3, ToldIs
<1>4. CASE r = s /\ call[s].page = "gone"
  BY <1>4, ToldIs, NoCallOK
<1>5. CASE r = s /\ call[s].page # "gone"
  BY <1>1, <1>2, <1>5, ToldIs DEF CallOK, About, OnPage
<1> QED BY <1>3, <1>4, <1>5

LEMMA MadeIsKept ==
  ASSUME BaseInv, tab' = tab, lobby' \in [Lobbies -> RowType],
         \A l \in Made : lobby'[l].made /\ (lobby[l].started => lobby'[l].started)
  PROVE  Made \subseteq Made' /\ TabOK'
<1>1. Made \subseteq Made'
  BY DEF Made
<1>2. InRoom => tab.path \in Made
  BY EntryAssumption DEF BaseInv, TabOK, InRoom
<1>3. TabOK'
  BY <1>1, <1>2 DEF BaseInv, TabOK, InRoom
<1> QED BY <1>1, <1>3

\* A seat in a game is found, and nobody has more than one.
LEMMA FoundIsMade == ASSUME BaseInv, NEW l \in GetPlayerByUser PROVE l \in Made /\ lobby[l].mine # {}
BY DEF BaseInv, RowsOK, GetPlayerByUser, Made

LEMMA AlreadyBase ==
  ASSUME BaseInv, NEW s \in Slots, call[s].op # "none", AlreadyInGame(s),
         UNCHANGED <<guest, cast, tab, redirect, left>>, crossed' \in BOOLEAN
  PROVE  BaseInv'
<1> USE DEF BaseInv
<1>1. PICK l \in GetPlayerByUser : Answer(s, "conflict", l)
  BY DEF AlreadyInGame
<1>2. l \in Made /\ l \in Lobbies
  BY <1>1, FoundIsMade DEF Made
<1>3. lobby' = lobby /\ astray' = astray
  BY DEF AlreadyInGame
<1>4. Made' = Made /\ GetPlayerByUser' = GetPlayerByUser /\ InRoom' = InRoom
  BY <1>3 DEF Made, GetPlayerByUser, InRoom
<1>5. CallsOK'
  BY <1>1, <1>2, <1>4, ToldCalls
<1>6. call' \in [Slots -> CallType]
  BY <1>1, <1>2, ToldIs
<1>7. TypeOK' /\ RowsOK' /\ SetsOK' /\ OneSeat' /\ TabOK'
  BY <1>3, <1>4, <1>6 DEF TypeOK, RowsOK, OneSeat, Count, SetsOK, TabOK
<1> QED BY <1>5, <1>7

LEMMA RefuseBase ==
  ASSUME BaseInv, NEW s \in Slots, NEW at \in {"refused", "failed"}, call[s].op # "none",
         Answer(s, at, None), UNCHANGED <<guest, lobby, cast, tab, redirect, left>>,
         crossed' \in BOOLEAN, astray' \in BOOLEAN
  PROVE  BaseInv'
<1> USE DEF BaseInv
<1>1. Made' = Made /\ GetPlayerByUser' = GetPlayerByUser /\ InRoom' = InRoom
  BY DEF Made, GetPlayerByUser, InRoom
<1>2. CallsOK'
  BY <1>1, ToldCalls
<1>3. call' \in [Slots -> CallType]
  BY ToldIs
<1>4. TypeOK' /\ RowsOK' /\ SetsOK' /\ OneSeat' /\ TabOK'
  BY <1>1, <1>3 DEF TypeOK, RowsOK, OneSeat, Count, SetsOK, TabOK
<1> QED BY <1>2, <1>4

\* The step of a join that gives a seat.
Seated(s) ==
  /\ GetPlayerByUser = {} /\ Count(call[s].on) < 2
  /\ lobby' = [lobby EXCEPT ![call[s].on].mine = @ \cup {"joiner"}]
  /\ Answer(s, "ok", call[s].on)
  /\ astray' = (astray \/ Unseen(s) \/ SitsTwice(s))

LEMMA SeatedRows ==
  ASSUME BaseInv, NEW s \in Slots, call[s].op = "join", Seated(s), guest' = guest
  PROVE  /\ call[s].on \in Made
         /\ lobby' \in [Lobbies -> RowType]
         /\ lobby'[call[s].on].mine = lobby[call[s].on].mine \cup {"joiner"}
         /\ ~lobby[call[s].on].started
         /\ \A l \in Lobbies : l # call[s].on => lobby'[l] = lobby[l]
         /\ \A l \in Lobbies : /\ lobby'[l].made = lobby[l].made /\ lobby'[l].over = lobby[l].over
                               /\ lobby'[l].started = lobby[l].started
                               /\ lobby'[l].cast = lobby[l].cast /\ lobby'[l].ids = lobby[l].ids
                               /\ lobby'[l].chat = lobby[l].chat /\ lobby'[l].timer = lobby[l].timer
         /\ GetPlayerByUser' \subseteq {call[s].on}
<1> DEFINE k == call[s].on
<1> DEFINE row == [lobby[k] EXCEPT !.mine = @ \cup {"joiner"}]
<1>1. k \in Made /\ k \in Lobbies
  BY DEF BaseInv, CallsOK, CallOK, About, Made
<1>2. lobby[k] \in RowType
  BY <1>1 DEF BaseInv, TypeOK
<1>3. /\ row \in RowType /\ row.mine = lobby[k].mine \cup {"joiner"}
      /\ row.made = lobby[k].made /\ row.over = lobby[k].over /\ row.started = lobby[k].started
      /\ row.cast = lobby[k].cast /\ row.ids = lobby[k].ids
      /\ row.chat = lobby[k].chat /\ row.timer = lobby[k].timer
  BY <1>2 DEF RowType, Seats
<1>4. lobby' = [lobby EXCEPT ![k] = row]
  BY DEF Seated
<1>5. ~lobby[k].started
  BY <1>1 DEF Seated, BaseInv, RowsOK
<1> HIDE DEF row
<1>6. lobby' \in [Lobbies -> RowType] /\ lobby'[k] = row /\ \A l \in Lobbies : l # k => lobby'[l] = lobby[l]
  BY <1>1, <1>3, <1>4 DEF BaseInv, TypeOK
<1>7. \A l \in Lobbies : /\ lobby'[l].made = lobby[l].made /\ lobby'[l].over = lobby[l].over
                         /\ lobby'[l].started = lobby[l].started
                         /\ lobby'[l].cast = lobby[l].cast /\ lobby'[l].ids = lobby[l].ids
                         /\ lobby'[l].chat = lobby[l].chat /\ lobby'[l].timer = lobby[l].timer
  BY <1>3, <1>6
<1>8. GetPlayerByUser' \subseteq {k}
  BY <1>6, GetPlayerByUser = {} DEF GetPlayerByUser, Seated
<1> QED BY <1>1, <1>3, <1>5, <1>6, <1>7, <1>8

LEMMA JoinBase == ASSUME BaseInv, NEW s \in Slots, JoinLobby(s) PROVE BaseInv'
<1> USE DEF BaseInv
<1>0. call[s].op = "join" /\ UNCHANGED <<guest, cast, tab, redirect, left>> /\ crossed' \in BOOLEAN
  BY DEF JoinLobby, TypeOK, SitsTwice
<1>1. CASE GetPlayerByUser # {}
  BY <1>0, <1>1, AlreadyBase DEF JoinLobby
<1>2. CASE GetPlayerByUser = {} /\ Count(call[s].on) >= 2
  BY <1>0, <1>2, RefuseBase DEF JoinLobby, Refuse, TypeOK
<1>3. CASE GetPlayerByUser = {} /\ ~(Count(call[s].on) >= 2)
  <2>1. call[s].on \in Made /\ call[s].on \in Lobbies
    BY <1>0 DEF CallsOK, CallOK, About, Made
  <2>2. Count(call[s].on) < 2
    BY <1>3, <2>1, CountIs
  <2>3. Seated(s)
    BY <1>3, <2>2 DEF JoinLobby, Seated
  <2>4. Made \subseteq Made' /\ TabOK'
    <3>1. lobby' \in [Lobbies -> RowType] /\ \A l \in Lobbies : lobby'[l].made = lobby[l].made /\ lobby'[l].started = lobby[l].started
      BY <1>0, <2>3, SeatedRows
    <3> QED BY <1>0, <3>1, MadeIsKept DEF Made
  <2>5. CallsOK'
    BY <1>0, <2>1, <2>3, <2>4, ToldCalls DEF Seated
  <2>6. call' \in [Slots -> CallType] /\ astray' \in BOOLEAN
    BY <2>1, <2>3, ToldIs DEF Seated, TypeOK, Unseen, SitsTwice, InRoom
  <2>7. TypeOK'
    BY <1>0, <2>3, <2>6, SeatedRows DEF TypeOK
  <2>8. RowsOK'
    <3> SUFFICES ASSUME NEW l \in Lobbies
                 PROVE  /\ lobby'[l].mine # {} => lobby'[l].made
                        /\ lobby'[l].started => Count(l)' = 2
      BY DEF RowsOK
    <3>1. CASE l = call[s].on
      BY <1>0, <2>1, <2>3, <3>1, SeatedRows DEF Made
    <3>2. CASE l # call[s].on
      BY <1>0, <2>3, <3>2, SeatedRows DEF RowsOK, Count
    <3> QED BY <3>1, <3>2
  <2>9. SetsOK' /\ OneSeat'
    BY <1>0, <2>3, SeatedRows DEF SetsOK, OneSeat
  <2> QED BY <2>4, <2>5, <2>7, <2>8, <2>9
<1> QED BY <1>1, <1>2, <1>3

\* The step of a creation that makes a lobby.
MadeBy(s, l) ==
  /\ GetPlayerByUser = {} /\ ~TooFew(call[s]) /\ l \in Lobbies /\ ~lobby[l].made
  /\ lobby' = [lobby EXCEPT ![l] = NewLobby(call[s])]
  /\ Answer(s, "ok", l)
  /\ astray' = (astray \/ Unseen(s))

LEMMA NewLobbyIs ==
  ASSUME BaseInv, NEW s \in Slots, call[s].op = "create"
  PROVE  LET row == NewLobby(call[s]) IN
         /\ row \in RowType /\ row.made /\ row.mine = {"host"} /\ ~row.over /\ ~row.started
         /\ row.cast = IF call[s].ids = {} THEN cast[call[s].on] ELSE cast[call[s].on] \cap call[s].ids
         /\ row.ids = call[s].ids /\ row.chat = call[s].chat
         /\ row.timer = (call[s].timer /\ call[s].chat)
<1>1. call[s] \in CallType /\ call[s].on \in Sets
  BY DEF BaseInv, TypeOK, CallsOK, CallOK, About
<1>2. cast[call[s].on] \subseteq Chars
  BY <1>1 DEF BaseInv, TypeOK
<1> DEFINE c == call[s]
<1> DEFINE cs == IF c.ids = {} THEN cast[c.on] ELSE cast[c.on] \cap c.ids
<1> DEFINE timed == c.timer /\ c.chat
<1>3. cs \in SUBSET Chars /\ c.ids \in SUBSET Chars /\ c.chat \in BOOLEAN /\ timed \in BOOLEAN /\ guest \in BOOLEAN
  BY <1>1, <1>2 DEF CallType, BaseInv, TypeOK
<1>4. NewLobby(c) = [NoLobby EXCEPT !.made = TRUE, !.guestHost = guest, !.mine = {"host"}, !.cast = cs,
                                    !.ids = c.ids, !.chat = c.chat, !.timer = timed]
  BY DEF NewLobby
<1> HIDE DEF cs, timed
<1>5. NewLobby(c) = [made |-> TRUE, guestHost |-> guest, mine |-> {"host"}, other |-> {}, started |-> FALSE,
                     over |-> FALSE, cast |-> cs, ids |-> c.ids, chat |-> c.chat, timer |-> timed]
  BY <1>4 DEF NoLobby
<1>6. /\ NewLobby(c) \in RowType /\ NewLobby(c).made /\ NewLobby(c).mine = {"host"} /\ ~NewLobby(c).over
      /\ ~NewLobby(c).started /\ NewLobby(c).cast = cs /\ NewLobby(c).ids = c.ids
      /\ NewLobby(c).chat = c.chat /\ NewLobby(c).timer = timed
  BY <1>3, <1>5 DEF RowType, Seats
<1> QED BY <1>6 DEF cs, timed

LEMMA MadeByRows ==
  ASSUME BaseInv, NEW s \in Slots, NEW l, call[s].op = "create", MadeBy(s, l), guest' = guest
  PROVE  /\ l \in Lobbies /\ l \notin Made
         /\ lobby' \in [Lobbies -> RowType] /\ lobby'[l] = NewLobby(call[s])
         /\ \A k \in Lobbies : k # l => lobby'[k] = lobby[k]
         /\ GetPlayerByUser' \subseteq {l}
         /\ guest => GetPlayerByUser' = {}
<1>1. l \in Lobbies /\ l \notin Made
  BY DEF MadeBy, Made
<1>2. NewLobby(call[s]) \in RowType /\ NewLobby(call[s]).mine = {"host"}
  BY NewLobbyIs
<1>3. lobby' \in [Lobbies -> RowType] /\ lobby'[l] = NewLobby(call[s]) /\ \A k \in Lobbies : k # l => lobby'[k] = lobby[k]
  BY <1>1, <1>2 DEF MadeBy, BaseInv, TypeOK
<1>4. GetPlayerByUser' \subseteq {l} /\ (guest => GetPlayerByUser' = {})
  BY <1>2, <1>3 DEF GetPlayerByUser, MadeBy
<1> QED BY <1>1, <1>3, <1>4

LEMMA CreateBase == ASSUME BaseInv, NEW s \in Slots, CreateLobby(s) PROVE BaseInv'
<1> USE DEF BaseInv
<1>0. call[s].op = "create" /\ UNCHANGED <<guest, cast, tab, redirect, left, crossed>> /\ crossed' \in BOOLEAN
  BY DEF CreateLobby, TypeOK
<1>1. CASE GetPlayerByUser # {}
  BY <1>0, <1>1, AlreadyBase DEF CreateLobby
<1>2. CASE GetPlayerByUser = {} /\ TooFew(call[s])
  BY <1>0, <1>2, RefuseBase DEF CreateLobby, Refuse, TypeOK
<1>3. CASE GetPlayerByUser = {} /\ ~TooFew(call[s])
  <2>1. PICK l \in Lobbies : MadeBy(s, l)
    BY <1>3 DEF CreateLobby, MadeBy
  <2>2. \A k \in Made : lobby'[k].made /\ (lobby[k].started => lobby'[k].started)
    BY <1>0, <2>1, MadeByRows DEF Made
  <2>3. Made \subseteq Made' /\ TabOK' /\ l \in Made'
    <3>1. lobby' \in [Lobbies -> RowType] /\ l \in Lobbies /\ lobby'[l].made
      BY <1>0, <2>1, MadeByRows, NewLobbyIs
    <3>2. Made \subseteq Made' /\ TabOK'
      BY <1>0, <2>2, <3>1, MadeIsKept
    <3> QED BY <3>1, <3>2 DEF Made
  <2>4. CallsOK'
    BY <1>0, <2>1, <2>3, ToldCalls DEF MadeBy
  <2>5. call' \in [Slots -> CallType] /\ astray' \in BOOLEAN
    BY <2>1, ToldIs DEF MadeBy, TypeOK, Unseen, InRoom
  <2>6. TypeOK'
    BY <1>0, <2>1, <2>5, MadeByRows DEF TypeOK
  <2>7. RowsOK'
    <3> SUFFICES ASSUME NEW k \in Lobbies
                 PROVE  /\ lobby'[k].mine # {} => lobby'[k].made
                        /\ lobby'[k].started => Count(k)' = 2
      BY DEF RowsOK
    <3>1. CASE k = l
      <4>1. lobby'[l] = NewLobby(call[s])
        BY <1>0, <2>1, MadeByRows
      <4> QED BY <1>0, <3>1, <4>1, NewLobbyIs
    <3>2. CASE k # l
      BY <1>0, <2>1, <3>2, MadeByRows DEF RowsOK, Count
    <3> QED BY <3>1, <3>2
  <2>8. SetsOK' /\ OneSeat'
    BY <1>0, <2>1, MadeByRows DEF SetsOK, OneSeat
  <2> QED BY <2>3, <2>4, <2>6, <2>7, <2>8
<1> QED BY <1>1, <1>2, <1>3

\* A row of the user's is given up.
LEMMA LeavesRows ==
  ASSUME BaseInv, NEW l \in Made, NEW seat \in lobby[l].mine, Leaves(l, "mine", seat, guest), guest' = guest
  PROVE  /\ lobby' \in [Lobbies -> RowType]
         /\ \A k \in Lobbies : k # l => lobby'[k] = lobby[k]
         /\ lobby'[l].mine \subseteq lobby[l].mine
         /\ lobby'[l].over \/ (~lobby[l].started /\ lobby'[l].mine = lobby[l].mine \ {seat})
         /\ lobby[l].started => Count(l)' = Count(l)
         /\ \A k \in Lobbies : /\ lobby'[k].made = lobby[k].made /\ (lobby[k].over => lobby'[k].over)
                               /\ lobby'[k].started = lobby[k].started
                               /\ lobby'[k].cast = lobby[k].cast /\ lobby'[k].ids = lobby[k].ids
                               /\ lobby'[k].chat = lobby[k].chat /\ lobby'[k].timer = lobby[k].timer
         /\ GetPlayerByUser' \subseteq GetPlayerByUser
<1>1. l \in Lobbies /\ lobby[l] \in RowType
  BY DEF Made, BaseInv, TypeOK
<1> DEFINE ends == lobby[l].started \/ IsCreator(seat, guest, l)
<1> DEFINE row == IF ends THEN [lobby[l] EXCEPT !.over = TRUE] ELSE [lobby[l] EXCEPT !.mine = @ \ {seat}]
<1>2. lobby' = [lobby EXCEPT ![l] = row]
  BY DEF Leaves, Without
<1>3. /\ row \in RowType /\ row.mine \subseteq lobby[l].mine /\ row.made = lobby[l].made
      /\ row.over \/ (~lobby[l].started /\ row.mine = lobby[l].mine \ {seat})
      /\ lobby[l].started => row.mine = lobby[l].mine
      /\ row.other = lobby[l].other /\ row.started = lobby[l].started /\ (lobby[l].over => row.over)
      /\ row.cast = lobby[l].cast /\ row.ids = lobby[l].ids
      /\ row.chat = lobby[l].chat /\ row.timer = lobby[l].timer
  <2>1. CASE ends
    <3>1. row = [lobby[l] EXCEPT !.over = TRUE]
      BY <2>1
    <3> HIDE DEF row
    <3> QED BY <3>1, <1>1 DEF RowType
  <2>2. CASE ~ends
    <3>1. row = [lobby[l] EXCEPT !.mine = @ \ {seat}] /\ ~lobby[l].started
      BY <2>2
    <3> HIDE DEF row
    <3> QED BY <3>1, <1>1 DEF RowType
  <2> QED BY <2>1, <2>2
<1> HIDE DEF row
<1>4. lobby' \in [Lobbies -> RowType] /\ lobby'[l] = row /\ \A k \in Lobbies : k # l => lobby'[k] = lobby[k]
  BY <1>1, <1>2, <1>3 DEF BaseInv, TypeOK
<1>5. lobby[l].started => Count(l)' = Count(l)
  BY <1>3, <1>4 DEF Count
<1>6. GetPlayerByUser' \subseteq GetPlayerByUser
  BY <1>1, <1>3, <1>4 DEF GetPlayerByUser
<1> QED BY <1>1, <1>3, <1>4, <1>5, <1>6

LEMMA ForfeitBase == ASSUME BaseInv, NEW s \in Slots, ForfeitLobby(s) PROVE BaseInv'
<1> USE DEF BaseInv
<1>0. /\ call[s].op = "forfeit" /\ UNCHANGED <<guest, cast, tab, crossed>> /\ crossed' \in BOOLEAN
      /\ call[s].on \in Made /\ call[s].on \in Lobbies
  BY DEF ForfeitLobby, TypeOK, CallsOK, CallOK, About, Made
<1>1. CASE lobby[call[s].on].mine = {}
  BY <1>0, <1>1, RefuseBase DEF ForfeitLobby, Refuse, TypeOK
<1>2. CASE lobby[call[s].on].mine # {}
  <2> DEFINE l == call[s].on
  <2>1. PICK seat \in lobby[l].mine : Leaves(l, "mine", seat, guest)
    BY <1>2 DEF ForfeitLobby
  <2>2. /\ Answer(s, "ok", None) /\ astray' = astray /\ left' \in SUBSET Lobbies /\ redirect' \in BOOLEAN
    BY <1>0, <1>2 DEF ForfeitLobby, TypeOK, Leaves
  <2>3. Made \subseteq Made' /\ TabOK'
    BY <1>0, <2>1, LeavesRows, MadeIsKept DEF Made
  <2>4. CallsOK'
    BY <1>0, <2>2, <2>3, ToldCalls
  <2>5. call' \in [Slots -> CallType]
    BY <2>2, ToldIs
  <2>6. TypeOK'
    BY <1>0, <2>1, <2>2, <2>5, LeavesRows DEF TypeOK
  <2>7. RowsOK'
    <3> SUFFICES ASSUME NEW k \in Lobbies
                 PROVE  /\ lobby'[k].mine # {} => lobby'[k].made
                        /\ lobby'[k].started => Count(k)' = 2
      BY DEF RowsOK
    <3>1. CASE k = l
      BY <1>0, <2>1, <3>1, LeavesRows DEF RowsOK, Made
    <3>2. CASE k # l
      BY <1>0, <2>1, <3>2, LeavesRows DEF RowsOK, Count
    <3> QED BY <3>1, <3>2
  <2>8. SetsOK' /\ OneSeat'
    BY <1>0, <2>1, LeavesRows DEF SetsOK, OneSeat
  <2> QED BY <2>3, <2>4, <2>6, <2>7, <2>8
<1> QED BY <1>1, <1>2

LEMMA FailBase == ASSUME BaseInv, NEW s \in Slots, Fail(s) PROVE BaseInv'
<1>1. call[s].op # "none"
  BY DEF Fail, BaseInv, CallsOK, CallOK, About, NoCall
<1>2. UNCHANGED <<guest, lobby, cast, tab, redirect, left, crossed>> /\ crossed' \in BOOLEAN /\ astray' \in BOOLEAN
  BY DEF Fail, BaseInv, TypeOK, InRoom
<1> QED BY <1>1, <1>2, RefuseBase DEF Fail

\* The request that an answer is followed by.
LEMMA FollowedIs ==
  ASSUME BaseInv, NEW s \in Slots, call[s].at \in {"ok", "conflict", "refused", "failed"}
  PROVE  LET c == call[s]
             d == Followed(c) IN
         \/ d = NoCall /\ (c.then \notin {"again", "rejoin"} \/ c.at = "failed")
         \/ /\ d \in CallType /\ d.at = "sent" /\ d.page = c.page /\ c.at # "failed" /\ c.op = "forfeit"
            /\ d.on = c.room
            /\ \/ c.then = "again" /\ d.op = "create" /\ d.then = "gallery"
               \/ c.then = "rejoin" /\ d.op = "join" /\ d.then = "auto"
<1> DEFINE c == call[s]
<1>1. c \in CallType /\ CallOK(c, Made)
  BY DEF BaseInv, TypeOK, CallsOK
<1>2. CASE c.at # "failed" /\ c.then = "again"
  <2>1. Followed(c) = [[c EXCEPT !.on = c.room, !.room = None, !.at = "sent", !.got = None] EXCEPT !.op = "create", !.then = "gallery"]
    BY <1>2 DEF Followed
  <2>2. c.op = "forfeit"
    BY <1>1, <1>2, NoCallType DEF CallOK, About, CallType
  <2> HIDE DEF c
  <2>3. /\ Followed(c) \in CallType /\ Followed(c).at = "sent" /\ Followed(c).page = c.page /\ Followed(c).on = c.room
        /\ Followed(c).op = "create" /\ Followed(c).then = "gallery"
    BY <1>1, <2>1 DEF CallType
  <2> QED BY <1>2, <2>2, <2>3 DEF c
<1>3. CASE c.at # "failed" /\ c.then = "rejoin"
  <2>1. Followed(c) = [[c EXCEPT !.on = c.room, !.room = None, !.at = "sent", !.got = None] EXCEPT !.op = "join", !.then = "auto"]
    BY <1>3 DEF Followed
  <2>2. c.op = "forfeit"
    BY <1>1, <1>3, NoCallType DEF CallOK, About, CallType
  <2> HIDE DEF c
  <2>3. /\ Followed(c) \in CallType /\ Followed(c).at = "sent" /\ Followed(c).page = c.page /\ Followed(c).on = c.room
        /\ Followed(c).op = "join" /\ Followed(c).then = "auto"
    BY <1>1, <2>1 DEF CallType
  <2> QED BY <1>3, <2>2, <2>3 DEF c
<1>4. CASE ~(c.at # "failed" /\ c.then = "again") /\ ~(c.at # "failed" /\ c.then = "rejoin")
  <2>1. Followed(c) = NoCall
    BY <1>4 DEF Followed
  <2> QED BY <1>4, <2>1
<1> QED BY <1>2, <1>3, <1>4

\* An answer that leads nowhere.
LEMMA HereIs ==
  ASSUME BaseInv, NEW s \in Slots, HereStep(s)
  PROVE  LET c == call[s] IN
         /\ c.op # "none" /\ c.at \in {"ok", "conflict", "refused", "failed"}
         /\ c.page \in {"mounted", "unmounted"}
         /\ UNCHANGED <<guest, lobby, cast, redirect, astray, left>>
         /\ crossed' = (crossed \/ Overtakes(Followed(c)) \/ ComesTooLate(Followed(c)))
         /\ call' \in [Slots -> CallType] /\ call'[s] = Followed(c)
         /\ \A r \in Slots : r # s => call'[r] = call[r]
         /\ tab' \in TabType /\ tab'.path = tab.path /\ tab'.asking = tab.asking /\ tab'.list = tab.list
         /\ tab'.form = tab.form /\ tab'.view = tab.view /\ tab'.leaving = tab.leaving
         /\ \/ tab'.nav = tab.nav
            \/ tab'.nav = None /\ c.then = "forget" /\ c.page = "mounted"
         /\ \/ tab'.conflict \in {tab.conflict, None}
            \/ /\ tab'.conflict = c.got /\ c.at = "conflict" /\ c.page = "mounted"
               /\ c.then \in {"create", "gallery", "auto"}
<1> DEFINE c == call[s]
<1>1. c \in CallType /\ CallOK(c, Made) /\ c.at \in {"ok", "conflict", "refused", "failed"}
  BY DEF BaseInv, TypeOK, CallsOK, HereStep, Answered
<1>2. c.op # "none" /\ c.page \in {"mounted", "unmounted"}
  BY <1>1, NoCallType DEF CallOK, About, CallType
<1>3. UNCHANGED <<guest, lobby, cast, redirect, astray>>
      /\ crossed' = (crossed \/ Overtakes(Followed(c)) \/ ComesTooLate(Followed(c)))
  BY DEF HereStep, Answered
<1>4. left' = left
  <2>1. left' = left \ {None}
    BY DEF HereStep, Answered
  <2> QED BY <2>1, EntryAssumption DEF BaseInv, TypeOK
<1>5. call' = [r \in Slots |-> IF r = s THEN Followed(c) ELSE call[r]]
  BY DEF HereStep, Answered
<1>6. Followed(c) \in CallType
  BY <1>1, FollowedIs, NoCallType
<1>7. call' \in [Slots -> CallType] /\ call'[s] = Followed(c) /\ \A r \in Slots : r # s => call'[r] = call[r]
  BY <1>5, <1>6 DEF BaseInv, TypeOK
<1>8. tab' = IF c.page = "mounted" THEN OnAnswer(c) ELSE tab
  BY DEF HereStep, Answered
<1>9. tab \in TabType
  BY DEF BaseInv, TypeOK
<1>10. c.at = "conflict" => c.got \in Lobbies
  BY <1>1 DEF CallOK, Made
<1> HIDE DEF c
<1>11. /\ tab' \in TabType /\ tab'.path = tab.path /\ tab'.asking = tab.asking /\ tab'.list = tab.list
       /\ tab'.form = tab.form /\ tab'.view = tab.view /\ tab'.leaving = tab.leaving
       /\ \/ tab'.nav = tab.nav
          \/ tab'.nav = None /\ c.then = "forget" /\ c.page = "mounted"
       /\ \/ tab'.conflict \in {tab.conflict, None}
          \/ /\ tab'.conflict = c.got /\ c.at = "conflict" /\ c.page = "mounted"
             /\ c.then \in {"create", "gallery", "auto"}
  <2> DEFINE told == IF c.at = "conflict" THEN c.got ELSE tab.conflict
  <2>1. told \in Lobbies \cup {None} /\ (told = tab.conflict \/ (told = c.got /\ c.at = "conflict"))
    BY <1>9, <1>10 DEF TabType
  <2>2. \/ tab' = tab
        \/ tab' = [tab EXCEPT !.busy = FALSE]
        \/ c.then \in {"create", "gallery"} /\ c.page = "mounted" /\ tab' = [tab EXCEPT !.busy = FALSE, !.conflict = told]
        \/ c.then = "auto" /\ c.page = "mounted" /\ tab' = [tab EXCEPT !.conflict = told]
        \/ c.then = "forget" /\ c.page = "mounted" /\ tab' = [tab EXCEPT !.nav = None]
        \/ tab' = [tab EXCEPT !.conflict = None]
    BY <1>8 DEF OnAnswer
  <2> HIDE DEF told
  <2>3. CASE tab' = tab
    BY <1>9, <2>3
  <2>4. CASE tab' = [tab EXCEPT !.busy = FALSE]
    BY <1>9, <2>4 DEF TabType
  <2>5. CASE c.then \in {"create", "gallery"} /\ c.page = "mounted" /\ tab' = [tab EXCEPT !.busy = FALSE, !.conflict = told]
    BY <1>9, <2>1, <2>5 DEF TabType
  <2>6. CASE c.then = "auto" /\ c.page = "mounted" /\ tab' = [tab EXCEPT !.conflict = told]
    BY <1>9, <2>1, <2>6 DEF TabType
  <2>7. CASE c.then = "forget" /\ c.page = "mounted" /\ tab' = [tab EXCEPT !.nav = None]
    BY <1>9, <2>7 DEF TabType
  <2>8. CASE tab' = [tab EXCEPT !.conflict = None]
    BY <1>9, <2>8 DEF TabType
  <2> QED BY <2>2, <2>3, <2>4, <2>5, <2>6, <2>7, <2>8
<1> QED BY <1>1, <1>2, <1>3, <1>4, <1>7, <1>11 DEF c

LEMMA HereBase == ASSUME BaseInv, NEW s \in Slots, HereStep(s) PROVE BaseInv'
<1> USE DEF BaseInv
<1> DEFINE c == call[s]
<1>1. Made' = Made /\ GetPlayerByUser' = GetPlayerByUser /\ InRoom' = InRoom
  BY HereIs DEF Made, GetPlayerByUser, InRoom
<1>2. crossed' \in BOOLEAN
  BY HereIs DEF TypeOK, Overtakes, ComesTooLate
<1>3. TypeOK'
  BY HereIs, <1>2 DEF TypeOK
<1>4. RowsOK' /\ SetsOK' /\ OneSeat'
  BY HereIs, <1>1 DEF RowsOK, OneSeat, Count, SetsOK
<1>5. CallOK(c, Made) /\ OnPage(c, tab) /\ c \in CallType
  BY DEF CallsOK, TypeOK
<1>6. TabOK'
  <2>1. tab'.conflict \in Made \cup {None}
    BY HereIs, <1>5 DEF CallOK, TabOK
  <2>2. tab.path = "gallery" /\ tab'.conflict # None => tab.form.set # None
    <3>1. CASE tab'.conflict \in {tab.conflict, None}
      BY <3>1 DEF TabOK
    <3>2. CASE c.page = "mounted" /\ c.then \in {"create", "gallery", "auto"}
      <4>1. c.then = "auto" => c.on \in Lobbies
        BY <1>5, HereIs DEF CallOK, About, Made
      <4> QED BY <1>5, <3>2, <4>1, HereIs, EntryAssumption DEF OnPage, Entrances
    <3> QED BY <3>1, <3>2, HereIs
  <2> QED BY <1>1, <2>1, <2>2, HereIs DEF TabOK, InRoom
<1>7. CallsOK'
  <2> SUFFICES ASSUME NEW r \in Slots PROVE CallOK(call'[r], Made) /\ OnPage(call'[r], tab')
    BY <1>1 DEF CallsOK
  <2>1. CASE r # s
    BY HereIs, <2>1 DEF CallsOK, OnPage
  <2>2. CASE r = s
    <3>1. call'[s] = Followed(c) /\ c.page # "gone" /\ tab'.path = tab.path /\ tab'.form = tab.form
      BY HereIs
    <3>2. CASE Followed(c) = NoCall
      BY <2>2, <3>1, <3>2, NoCallOK
    <3>3. CASE /\ Followed(c) \in CallType /\ Followed(c).at = "sent" /\ Followed(c).page = c.page /\ c.op = "forfeit"
               /\ Followed(c).on = c.room
               /\ \/ c.then = "again" /\ Followed(c).op = "create" /\ Followed(c).then = "gallery"
                  \/ c.then = "rejoin" /\ Followed(c).op = "join" /\ Followed(c).then = "auto"
      <4> HIDE DEF c
      <4>1. CallOK(Followed(c), Made)
        BY <1>5, <3>1, <3>3 DEF CallOK, About
      <4>2. OnPage(Followed(c), tab')
        BY <1>5, <3>1, <3>3 DEF OnPage
      <4> QED BY <2>2, <3>1, <4>1, <4>2
    <3> QED BY <3>2, <3>3, HereIs, FollowedIs
  <2> QED BY <2>1, <2>2
<1> QED BY <1>3, <1>4, <1>6, <1>7

----------------------------------------------------------------------------
(* Every step is of one of the kinds *)

LEMMA OnlyEdits ==
  ASSUME BaseInv, NEW t, Only(t), Edited(t), tab.form.set # None => t.form.set # None
  PROVE  EditStep
BY DEF EditStep, Only, BaseInv, TypeOK, SetsOK

LEMMA FormEdits ==
  ASSUME BaseInv, NEW f \in FormType, Only([tab EXCEPT !.form = f]), tab.form.set # None => f.set # None
  PROVE  EditStep
<1> DEFINE t == [tab EXCEPT !.form = f]
<1>1. t \in TabType /\ t.path = tab.path /\ t.nav = tab.nav /\ t.asking = tab.asking /\ t.conflict = tab.conflict
      /\ t.list = tab.list /\ t.view = tab.view /\ t.leaving = tab.leaving /\ t.form = f
  BY DEF BaseInv, TypeOK, TabType
<1> HIDE DEF t
<1>2. Edited(t)
  BY <1>1 DEF Edited, BaseInv, TabOK
<1> QED BY <1>1, <1>2, OnlyEdits DEF t

\* A set that is selected over a form.
LEMMA SelectSetType ==
  ASSUME BaseInv, NEW s \in Sets, NEW f \in FormType
  PROVE  SelectSet(f, s) \in FormType /\ SelectSet(f, s).set = s
<1>1. cast[s] \in SUBSET Chars /\ IsFiniteSet(cast[s]) /\ Cardinality(cast[s]) \in Nat
  <2>1. cast[s] \subseteq Pool[s] /\ IsFiniteSet(Pool[s])
    BY EntryAssumption DEF BaseInv, SetsOK
  <2> QED BY <2>1, FS_Subset, FS_CardinalityType DEF Chars
<1> DEFINE n == Larger(Min, Cardinality(cast[s]))
<1>2. n \in Int
  BY <1>1, EntryAssumption DEF Larger
<1> DEFINE g == SelectSet(f, s)
<1>3. \/ f.set = s /\ g = [f EXCEPT !.copy = cast[s]]
      \/ g = [f EXCEPT !.set = s, !.copy = cast[s], !.mode = "all", !.manual = cast[s], !.count = n, !.preview = {}]
  BY DEF SelectSet
<1> HIDE DEF n, g
<1>4. g \in FormType /\ g.set = s
  <2>1. CASE f.set = s /\ g = [f EXCEPT !.copy = cast[s]]
    BY <1>1, <2>1 DEF FormType
  <2>2. CASE g = [f EXCEPT !.set = s, !.copy = cast[s], !.mode = "all", !.manual = cast[s], !.count = n, !.preview = {}]
    BY <1>1, <1>2, <2>2 DEF FormType
  <2> QED BY <1>3, <2>1, <2>2
<1> QED BY <1>4 DEF g

LEMMA NoFormType == NoForm \in FormType /\ NoForm.set = None
BY DEF NoForm, FormType

LEMMA FormKinds ==
  ASSUME BaseInv,
         \/ \E s \in Sets : HandleSelectSet(s) \/ FullSetFetched(s) \/ PlaySet(s)
         \/ CloseModal \/ CharacterMode \/ RandomCount \/ ToggleCharacter \/ ToggleChat \/ TurnTimer
  PROVE  EditStep
<1> USE DEF BaseInv
<1>0. tab \in TabType /\ tab.form \in FormType
  BY DEF TypeOK, TabType
<1>1. ASSUME NEW s \in Sets, HandleSelectSet(s) PROVE EditStep
  <2> DEFINE t == [tab EXCEPT !.loading = @ \cup {s}]
  <2>1. t \in TabType /\ t.path = tab.path /\ t.nav = tab.nav /\ t.asking = tab.asking /\ t.conflict = tab.conflict
        /\ t.list = tab.list /\ t.view = tab.view /\ t.leaving = tab.leaving /\ t.form = tab.form
    BY <1>0 DEF TabType
  <2>2. Only(t)
    BY <1>1 DEF HandleSelectSet
  <2> HIDE DEF t
  <2>3. Edited(t)
    BY <2>1 DEF Edited, TabOK
  <2> QED BY <2>1, <2>2, <2>3, OnlyEdits
<1>2. ASSUME NEW s \in Sets, FullSetFetched(s) PROVE EditStep
  <2> DEFINE f == SelectSet(tab.form, s)
  <2> DEFINE t == [tab EXCEPT !.loading = @ \ {s}, !.form = f]
  <2>1. Only(t)
    BY <1>2 DEF FullSetFetched
  <2>2. f \in FormType /\ f.set = s /\ s # None
    BY <1>0, SelectSetType, EntryAssumption
  <2> HIDE DEF f
  <2>3. t \in TabType /\ t.path = tab.path /\ t.nav = tab.nav /\ t.asking = tab.asking /\ t.conflict = tab.conflict
        /\ t.list = tab.list /\ t.view = tab.view /\ t.leaving = tab.leaving /\ t.form = f
    BY <1>0, <2>2 DEF TabType
  <2> HIDE DEF t
  <2>4. Edited(t)
    BY <2>3 DEF Edited, TabOK
  <2> QED BY <2>1, <2>2, <2>3, <2>4, OnlyEdits
<1>3. ASSUME NEW s \in Sets, PlaySet(s) PROVE EditStep
  <2>1. SelectSet(NoForm, s) \in FormType /\ SelectSet(NoForm, s).set = s
    BY SelectSetType, NoFormType
  <2> QED BY <1>3, <2>1, FormEdits DEF PlaySet
<1>4. CASE CloseModal
  <2>1. tab' \in TabType /\ tab'.path = tab.path /\ tab'.nav = tab.nav /\ tab'.asking = tab.asking /\ tab'.conflict = None
        /\ tab'.list = tab.list /\ tab'.view = tab.view /\ tab'.leaving = tab.leaving
    BY <1>0, <1>4, NoFormType DEF CloseModal, TabType
  <2>2. Edited(tab')
    BY <2>1 DEF Edited, TabOK
  <2>3. /\ call' = [s \in Slots |-> IF call[s].then \in {"gallery", "again"} THEN Unmount(call[s], None) ELSE call[s]]
        /\ UNCHANGED <<guest, lobby, cast, redirect, ghosts>>
    BY <1>4 DEF CloseModal
  <2>4. ASSUME NEW s \in Slots
        PROVE  /\ call'[s] \in CallType
               /\ call'[s] = call[s] \/ Unmounted(call[s], call'[s])
               /\ call'[s].then \in {"gallery", "again"} => call'[s].page # "mounted"
    <3>1. call[s] \in CallType /\ (call[s].op = "none" => call[s] = NoCall)
      BY DEF TypeOK, CallsOK, CallOK, About
    <3>2. CASE call[s].then \notin {"gallery", "again"}
      BY <2>3, <3>1, <3>2
    <3>3. CASE call[s].then \in {"gallery", "again"} /\ call[s].page = "gone"
      BY <2>3, <3>1, <3>3 DEF Unmount
    <3>4. CASE call[s].then \in {"gallery", "again"} /\ call[s].page # "gone"
      <4>1. call[s].op # "none" /\ tab.path # None
        BY <3>1, <3>4, EntryAssumption, NoCallType DEF TabOK, Made
      <4>2. call'[s] = [call[s] EXCEPT !.page = "unmounted"]
        BY <2>3, <3>4, <4>1 DEF Unmount
      <4> QED BY <3>1, <4>1, <4>2 DEF Unmounted, CallType
    <3> QED BY <3>2, <3>3, <3>4
  <2> QED BY <2>1, <2>2, <2>3, <2>4 DEF EditStep, TypeOK, SetsOK
<1>5. ASSUME NEW f \in FormType, EditForm(f), f.set = tab.form.set PROVE EditStep
  BY <1>5, FormEdits DEF EditForm
<1>6. CASE CharacterMode
  <2>1. ASSUME NEW mode \in {"all", "manual"}, EditForm([tab.form EXCEPT !.mode = mode]) PROVE EditStep
    <3>1. [tab.form EXCEPT !.mode = mode] \in FormType /\ [tab.form EXCEPT !.mode = mode].set = tab.form.set
      BY <1>0 DEF FormType
    <3> QED BY <1>5, <2>1, <3>1
  <2>2. ASSUME NEW p \in Previews(tab.form, tab.form.count), EditForm([tab.form EXCEPT !.mode = "random", !.preview = p]) PROVE EditStep
    <3>1. p \in SUBSET Chars
      BY <1>0 DEF Previews, FormType
    <3>2. /\ [tab.form EXCEPT !.mode = "random", !.preview = p] \in FormType
          /\ [tab.form EXCEPT !.mode = "random", !.preview = p].set = tab.form.set
      BY <1>0, <3>1 DEF FormType
    <3> QED BY <1>5, <2>2, <3>2
  <2> QED BY <1>6, <2>1, <2>2 DEF CharacterMode
<1>7. CASE RandomCount
  <2>1. PICK n \in Min..Cardinality(tab.form.copy) : \E p \in Previews(tab.form, n) \ {tab.form.preview} :
          EditForm([tab.form EXCEPT !.count = n, !.preview = p])
    BY <1>7 DEF RandomCount
  <2>2. PICK p \in Previews(tab.form, n) : EditForm([tab.form EXCEPT !.count = n, !.preview = p])
    BY <2>1
  <2>3. p \in SUBSET Chars /\ n \in Int
    BY <1>0 DEF Previews, FormType
  <2>4. /\ [tab.form EXCEPT !.count = n, !.preview = p] \in FormType
        /\ [tab.form EXCEPT !.count = n, !.preview = p].set = tab.form.set
    BY <1>0, <2>3 DEF FormType
  <2> QED BY <1>5, <2>2, <2>4
<1>8. CASE ToggleCharacter
  <2>1. PICK c \in tab.form.copy : \/ EditForm([tab.form EXCEPT !.manual = @ \cup {c}])
                                   \/ EditForm([tab.form EXCEPT !.manual = @ \ {c}])
    BY <1>8 DEF ToggleCharacter
  <2>2. /\ [tab.form EXCEPT !.manual = @ \cup {c}] \in FormType /\ [tab.form EXCEPT !.manual = @ \cup {c}].set = tab.form.set
        /\ [tab.form EXCEPT !.manual = @ \ {c}] \in FormType /\ [tab.form EXCEPT !.manual = @ \ {c}].set = tab.form.set
    BY <1>0 DEF FormType
  <2> QED BY <1>5, <2>1, <2>2
<1>9. CASE ToggleChat
  <2> DEFINE timed == tab.form.timer /\ ~tab.form.chat
  <2> DEFINE f == [tab.form EXCEPT !.chat = ~@, !.timer = timed]
  <2>1. EditForm(f)
    BY <1>9 DEF ToggleChat
  <2>2. timed \in BOOLEAN
    BY <1>0 DEF FormType
  <2> HIDE DEF timed
  <2>3. f \in FormType /\ f.set = tab.form.set
    BY <1>0, <2>2 DEF FormType
  <2> HIDE DEF f
  <2> QED BY <1>5, <2>1, <2>3
<1>10. CASE TurnTimer
  <2>1. [tab.form EXCEPT !.timer = ~@] \in FormType /\ [tab.form EXCEPT !.timer = ~@].set = tab.form.set
    BY <1>0 DEF FormType
  <2> QED BY <1>5, <1>10, <2>1 DEF TurnTimer
<1> QED BY <1>1, <1>2, <1>3, <1>4, <1>6, <1>7, <1>8, <1>9, <1>10

\* What a button sends.
LEMMA SentIs ==
  ASSUME NEW op \in {"join", "create", "forfeit"}, NEW l \in Lobbies \cup Sets,
         NEW then \in {"home", "browse", "auto", "create", "gallery", "forget", "clear", "again", "rejoin", "exit", "cancel"}
  PROVE  LET c == Sent(op, l, then) IN
         /\ c \in CallType /\ c.op = op /\ c.on = l /\ c.then = then /\ c.at = "sent" /\ c.page = "mounted"
BY DEF Sent, NoCall, CallType

LEMMA ButtonSends ==
  ASSUME BaseInv, NEW c, NEW t, Send(c, t), Edited(t), tab.form.set # None => t.form.set # None,
         Sendable(c), c.then # "auto"
  PROVE  SendStep(c)
BY DEF SendStep, Send

LEMMA ForfeitSends ==
  ASSUME BaseInv, NEW l \in Made, NEW t, NEW then \in {"forget", "clear", "exit", "cancel"},
         Send(Sent("forfeit", l, then), t), t \in {tab, [tab EXCEPT !.leaving = TRUE]},
         then = "forget" => l = tab.nav /\ tab.path \in Entrances,
         then = "clear" => tab.path = "create",
         then \in {"exit", "cancel"} => tab.path = l,
         then = "exit" => t.leaving \/ lobby[l].started
  PROVE  \E c : SendStep(c)
<1> DEFINE c == Sent("forfeit", l, then)
<1>1. l \in Lobbies
  BY DEF Made
<1>2. c \in CallType /\ c.op = "forfeit" /\ c.on = l /\ c.then = then /\ c.at = "sent" /\ c.page = "mounted"
  BY <1>1, SentIs
<1>3. t \in TabType /\ t.path = tab.path /\ t.nav = tab.nav /\ t.asking = tab.asking /\ t.conflict = tab.conflict
      /\ t.list = tab.list /\ t.view = tab.view /\ t.form = tab.form /\ (tab.leaving => t.leaving)
  BY DEF BaseInv, TypeOK, TabType
<1>4. tab' = t
  BY DEF Send
<1>5. Send(c, t)
  OBVIOUS
<1> HIDE DEF c
<1>6. Edited(t)
  BY <1>3 DEF Edited, BaseInv, TabOK
<1>7. CallOK(c, Made) /\ OnPage(c, tab')
  BY <1>2, <1>3, <1>4 DEF CallOK, About, OnPage
<1>8. then = "forget" => ~tab.asking
  BY <1>1, EntryAssumption DEF BaseInv, TabOK
<1>9. Sendable(c)
  BY <1>2, <1>4, <1>7, <1>8 DEF Sendable
<1> QED BY <1>2, <1>3, <1>5, <1>6, <1>9, ButtonSends

LEMMA JoinSends ==
  ASSUME BaseInv, NEW l \in Made, NEW then \in {"home", "browse"}, tab.path = then,
         Send(Sent("join", l, then), [tab EXCEPT !.busy = TRUE])
  PROVE  \E c : SendStep(c)
<1> DEFINE c == Sent("join", l, then)
<1> DEFINE t == [tab EXCEPT !.busy = TRUE]
<1>1. l \in Lobbies
  BY DEF Made
<1>2. c \in CallType /\ c.op = "join" /\ c.on = l /\ c.then = then /\ c.at = "sent" /\ c.page = "mounted"
  BY <1>1, SentIs
<1>3. t \in TabType /\ t.path = tab.path /\ t.nav = tab.nav /\ t.asking = tab.asking /\ t.conflict = tab.conflict
      /\ t.list = tab.list /\ t.view = tab.view /\ t.form = tab.form /\ t.leaving = tab.leaving
  BY DEF BaseInv, TypeOK, TabType
<1>4. tab' = t /\ Send(c, t)
  BY DEF Send
<1> HIDE DEF c, t
<1>5. Edited(t)
  BY <1>3 DEF Edited, BaseInv, TabOK
<1>6. CallOK(c, Made) /\ OnPage(c, tab')
  BY <1>2, <1>3, <1>4 DEF CallOK, About, OnPage
<1>7. Sendable(c)
  BY <1>2, <1>6 DEF Sendable
<1> QED BY <1>2, <1>3, <1>4, <1>5, <1>7, ButtonSends

\* What a form asks for.
LEMMA CreateCallIs ==
  ASSUME BaseInv, tab.form.set # None, NEW then \in {"create", "gallery", "again"}
  PROVE  LET c == CreateCall(then) IN
         /\ c \in CallType /\ c.op = "create" /\ c.on \in Sets /\ c.then = then /\ c.at = "sent" /\ c.page = "mounted"
<1>1. tab.form \in FormType /\ tab.form.set \in Sets
  BY DEF BaseInv, TypeOK, TabType, FormType
<1> DEFINE ids == GetCharacterIds(tab.form)
<1> DEFINE s == Sent("create", tab.form.set, then)
<1>2. ids \in SUBSET Chars /\ tab.form.chat \in BOOLEAN /\ tab.form.timer \in BOOLEAN
  <2>1. ids \in {{}, tab.form.preview, tab.form.manual}
    BY DEF GetCharacterIds
  <2> QED BY <1>1, <2>1 DEF FormType
<1>3. s \in CallType /\ s.op = "create" /\ s.on \in Sets /\ s.then = then /\ s.at = "sent" /\ s.page = "mounted"
  BY <1>1, SentIs
<1>4. CreateCall(then) = [s EXCEPT !.ids = ids, !.chat = tab.form.chat, !.timer = tab.form.timer]
  BY DEF CreateCall
<1> HIDE DEF ids, s
<1> QED BY <1>2, <1>3, <1>4 DEF CallType

LEMMA CreateSends == ASSUME BaseInv, HandleCreateLobby PROVE \E c : SendStep(c)
<1> DEFINE c == CreateCall(tab.path)
<1> DEFINE t == [tab EXCEPT !.busy = TRUE]
<1>1. tab.path \in {"create", "gallery"} /\ tab.form.set # None /\ Send(c, t) /\ tab' = t
  BY DEF HandleCreateLobby, CreateDisabled, Send
<1>2. c \in CallType /\ c.op = "create" /\ c.on \in Sets /\ c.then = tab.path /\ c.at = "sent" /\ c.page = "mounted"
  BY <1>1, CreateCallIs
<1>3. t \in TabType /\ t.path = tab.path /\ t.nav = tab.nav /\ t.asking = tab.asking /\ t.conflict = tab.conflict
      /\ t.list = tab.list /\ t.view = tab.view /\ t.form = tab.form /\ t.leaving = tab.leaving
  BY DEF BaseInv, TypeOK, TabType
<1> HIDE DEF c, t
<1>4. Edited(t)
  BY <1>3 DEF Edited, BaseInv, TabOK
<1>5. CallOK(c, Made) /\ OnPage(c, tab')
  BY <1>1, <1>2, <1>3 DEF CallOK, About, OnPage
<1>6. Sendable(c)
  BY <1>1, <1>2, <1>5 DEF Sendable
<1> QED BY <1>1, <1>2, <1>3, <1>4, <1>6, ButtonSends

LEMMA ConflictSends == ASSUME BaseInv, ForfeitAndStart PROVE \E c : SendStep(c)
<1>1. tab.conflict \in Made /\ tab.conflict \in Lobbies
  BY DEF ForfeitAndStart, ConflictShown, BaseInv, TabOK, Made
<1>2. tab \in TabType
  BY DEF BaseInv, TypeOK
<1>3. CASE tab.path = "create" /\ Send(Sent("forfeit", tab.conflict, "clear"), tab)
  BY <1>1, <1>3, ForfeitSends
<1>4. CASE /\ tab.path = "gallery"
           /\ Send([CreateCall("again") EXCEPT !.op = "forfeit", !.on = tab.conflict, !.room = tab.form.set],
                   [tab EXCEPT !.busy = TRUE])
  <2> DEFINE a == CreateCall("again")
  <2> DEFINE c == [a EXCEPT !.op = "forfeit", !.on = tab.conflict, !.room = tab.form.set]
  <2> DEFINE t == [tab EXCEPT !.busy = TRUE]
  <2>1. tab.form.set # None /\ tab.form.set \in Sets
    BY <1>1, <1>2, <1>4, EntryAssumption DEF BaseInv, TabOK, TabType, FormType
  <2>2. a \in CallType /\ a.then = "again" /\ a.at = "sent" /\ a.page = "mounted"
    BY <2>1, CreateCallIs
  <2>3. Send(c, t) /\ tab' = t
    BY <1>4 DEF Send
  <2>4. t \in TabType /\ t.path = tab.path /\ t.nav = tab.nav /\ t.asking = tab.asking /\ t.conflict = tab.conflict
        /\ t.list = tab.list /\ t.view = tab.view /\ t.form = tab.form /\ t.leaving = tab.leaving
    BY <1>2 DEF TabType
  <2> HIDE DEF a, t
  <2>5. c \in CallType /\ c.op = "forfeit" /\ c.on = tab.conflict /\ c.room = tab.form.set /\ c.then = "again"
        /\ c.at = "sent" /\ c.page = "mounted"
    BY <1>1, <2>1, <2>2 DEF CallType
  <2> HIDE DEF c
  <2>6. Edited(t)
    BY <2>4 DEF Edited, BaseInv, TabOK
  <2>7. CallOK(c, Made) /\ OnPage(c, tab')
    BY <1>1, <1>4, <2>1, <2>3, <2>4, <2>5 DEF CallOK, About, OnPage
  <2>8. Sendable(c)
    BY <2>5, <2>7 DEF Sendable
  <2> QED BY <2>3, <2>4, <2>5, <2>6, <2>8, ButtonSends
<1>5. CASE InRoom /\ Send([Sent("forfeit", tab.conflict, "rejoin") EXCEPT !.room = tab.path], tab)
  <2> DEFINE a == Sent("forfeit", tab.conflict, "rejoin")
  <2> DEFINE c == [a EXCEPT !.room = tab.path]
  <2>1. a \in CallType /\ a.op = "forfeit" /\ a.on = tab.conflict /\ a.then = "rejoin" /\ a.at = "sent" /\ a.page = "mounted"
    BY <1>1, SentIs
  <2>2. Send(c, tab) /\ tab' = tab
    BY <1>5 DEF Send
  <2>3. tab.path \in Made /\ tab.path \in Lobbies
    BY <1>5, EntryAssumption DEF InRoom, BaseInv, TabOK
  <2> HIDE DEF a
  <2>4. c \in CallType /\ c.op = "forfeit" /\ c.on = tab.conflict /\ c.room = tab.path /\ c.then = "rejoin"
        /\ c.at = "sent" /\ c.page = "mounted"
    BY <2>1, <2>3 DEF CallType
  <2> HIDE DEF c
  <2>5. Edited(tab)
    BY <1>2 DEF Edited, BaseInv, TabOK
  <2>6. CallOK(c, Made) /\ OnPage(c, tab')
    BY <1>1, <2>2, <2>3, <2>4 DEF CallOK, About, OnPage
  <2>7. Sendable(c)
    BY <2>4, <2>6 DEF Sendable
  <2> QED BY <2>2, <2>4, <2>5, <2>7, ButtonSends
<1> QED BY <1>3, <1>4, <1>5 DEF ForfeitAndStart

\* The page that is shown when the user goes to another one.
LEMMA UnmountIs ==
  ASSUME BaseInv, NEW s \in Slots, NEW to, to # tab.path
  PROVE  LET d == Unmount(call[s], to) IN
         d \in CallType /\ (d = NoCall \/ Unmounted(call[s], d))
<1>1. call[s] \in CallType /\ CallOK(call[s], Made)
  BY DEF BaseInv, TypeOK, CallsOK
<1>2. CASE call[s].op = "none"
  BY <1>1, <1>2, NoCallType DEF CallOK, About, Unmount
<1>3. CASE call[s].op # "none" /\ call[s].page = "gone"
  BY <1>1, <1>3 DEF CallOK, Unmount, Unmounted
<1>4. CASE call[s].op # "none" /\ call[s].page # "gone"
  <2>1. Unmount(call[s], to) = [call[s] EXCEPT !.page = "unmounted"]
    BY <1>4 DEF Unmount
  <2> QED BY <1>1, <1>4, <2>1 DEF Unmounted, CallType
<1> QED BY <1>2, <1>3, <1>4

LEMMA PushedMoves ==
  ASSUME BaseInv, NEW to \in Entrances \cup Made, tab' = Pushed(to),
         call' = [s \in Slots |-> Unmount(call[s], to)],
         left' = left \ {to}, redirect' \in BOOLEAN, UNCHANGED <<guest, lobby, cast, crossed, astray>>
  PROVE  MoveStep(to) \/ StayStep
<1>1. CASE tab.path = to
  <2>1. tab' = tab /\ \A s \in Slots : Unmount(call[s], to) = call[s]
    BY <1>1 DEF Pushed, Unmount
  <2>2. call' = [s \in Slots |-> call[s]] /\ call \in [Slots -> CallType]
    BY <2>1 DEF BaseInv, TypeOK
  <2>3. call' \in [Slots -> CallType] /\ \A s \in Slots : call'[s] = call[s]
    BY <2>2
  <2> QED BY <1>1, <2>1, <2>3 DEF StayStep
<1>2. CASE tab.path # to
  <2>1. tab' = Mounted(to)
    BY <1>2 DEF Pushed
  <2>2. call' \in [Slots -> CallType] /\ \A s \in Slots : call'[s] = NoCall \/ Unmounted(call[s], call'[s])
    BY <1>2, UnmountIs
  <2> QED BY <2>1, <2>2 DEF MoveStep
<1> QED BY <1>1, <1>2

LEMMA GotoMoves == ASSUME BaseInv, NEW to \in Entrances \cup Made, Goto(to) PROVE MoveStep(to) \/ StayStep
<1>1. redirect' \in BOOLEAN
  BY DEF Goto, BaseInv, TypeOK
<1> QED BY <1>1, PushedMoves DEF Goto

LEMMA OpenLinkMoves == ASSUME BaseInv, NEW l \in Lobbies, OpenLink(l) PROVE MoveStep(l)
<1>1. l \in Made /\ tab' = Mounted(l) /\ left' = left \ {l} /\ redirect' \in BOOLEAN
      /\ UNCHANGED <<guest, lobby, cast, crossed, astray>>
  BY DEF OpenLink, Made
<1>2. ASSUME NEW s \in Slots
      PROVE  call'[s] \in CallType /\ (call'[s] = NoCall \/ Unmounted(call[s], call'[s]))
  <2>1. call[s] \in CallType /\ CallOK(call[s], Made)
    BY DEF BaseInv, TypeOK, CallsOK
  <2>2. CASE call[s].at # "sent"
    BY <2>2, NoCallType DEF OpenLink
  <2>3. CASE call[s].at = "sent"
    <3>1. call[s].op # "none"
      BY <2>1, <2>3, NoCallType DEF CallOK, About
    <3>2. call'[s] = [call[s] EXCEPT !.page = "gone"]
      BY <2>3 DEF OpenLink
    <3> QED BY <2>1, <2>3, <3>1, <3>2 DEF Unmounted, CallType
  <2> QED BY <2>2, <2>3
<1>3. call' \in [Slots -> CallType]
  BY <1>2 DEF OpenLink
<1> QED BY <1>1, <1>2, <1>3 DEF MoveStep

\* The update of a lobby: the page shows it, and joins if the user has no seat there.
LEMMA ViewIs ==
  ASSUME BaseInv, NEW l \in Lobbies
  PROVE  /\ View(l) \in ViewType /\ View(l).started = lobby[l].started /\ View(l).count = Count(l)
         /\ View(l).self = ByUserId(l) /\ View(l).over = lobby[l].over
<1>1. lobby[l] \in RowType /\ Count(l) \in Int
  BY CountIs DEF BaseInv, TypeOK
<1> DEFINE self == ByUserId(l)
<1> DEFINE mine == lobby[l].mine # {}
<1>2. self \in BOOLEAN /\ mine \in BOOLEAN /\ lobby[l].started \in BOOLEAN /\ lobby[l].over \in BOOLEAN
  BY <1>1 DEF RowType, ByUserId
<1>3. View(l) = [known |-> TRUE, count |-> Count(l), self |-> self, mine |-> mine,
                 started |-> lobby[l].started, over |-> lobby[l].over]
  BY DEF View
<1>4. self = ByUserId(l)
  OBVIOUS
<1> HIDE DEF self, mine
<1> QED BY <1>1, <1>2, <1>3, <1>4 DEF ViewType

LEMMA UpdateKinds == ASSUME BaseInv, LobbyUpdate PROVE EditStep \/ \E c : SendStep(c)
<1> DEFINE l == tab.path
<1> DEFINE v == View(l)
<1> DEFINE game == tab.game \/ v.mine \/ v.over
<1> DEFINE c == Sent("join", l, "auto")
<1>1. l \in Lobbies /\ l \in Made /\ tab \in TabType
  BY EntryAssumption DEF LobbyUpdate, InRoom, BaseInv, TabOK, TypeOK
<1>2. v \in ViewType /\ v.started = lobby[l].started /\ v.count = Count(l) /\ v.self = ByUserId(l)
  BY <1>1, ViewIs
<1>3. tab' = [tab EXCEPT !.view = v, !.game = game] /\ InRoom
  BY DEF LobbyUpdate
<1>4. game \in BOOLEAN
  BY <1>1, <1>2 DEF TabType, ViewType
<1>5. UNCHANGED <<guest, lobby, cast, redirect, left, astray>>
  BY DEF LobbyUpdate
<1>6. \/ UNCHANGED <<call, crossed>>
      \/ /\ AutoJoins(v)
         /\ \E s \in Slots : call[s].op = "none" /\ call' = [call EXCEPT ![s] = c]
         /\ crossed' = (crossed \/ Overtakes(c))
  BY DEF LobbyUpdate
<1>7. c \in CallType /\ c.op = "join" /\ c.on = l /\ c.then = "auto" /\ c.at = "sent" /\ c.page = "mounted"
  BY <1>1, SentIs
<1>8. AutoJoins(v) => v.count < 2 /\ ~v.self /\ ~tab.leaving
  BY DEF AutoJoins
<1> HIDE DEF v, game, c
<1>9. tab' \in TabType /\ tab'.path = tab.path /\ tab'.nav = tab.nav /\ tab'.asking = tab.asking /\ tab'.conflict = tab.conflict
      /\ tab'.list = tab.list /\ tab'.view = v /\ tab'.form = tab.form /\ tab'.leaving = tab.leaving
  BY <1>1, <1>2, <1>3, <1>4 DEF TabType
<1>10. Edited(tab')
  BY <1>2, <1>3, <1>9 DEF Edited, BaseInv, TabOK
<1>11. CASE UNCHANGED <<call, crossed>>
  BY <1>5, <1>9, <1>10, <1>11 DEF EditStep, BaseInv, TypeOK, SetsOK, ghosts
<1>12. CASE /\ AutoJoins(v)
            /\ \E s \in Slots : call[s].op = "none" /\ call' = [call EXCEPT ![s] = c]
            /\ crossed' = (crossed \/ Overtakes(c))
  <2>1. ~tab.leaving /\ Count(l) < 2 /\ ~ByUserId(l)
    BY <1>2, <1>8, <1>12
  <2>2. ~lobby[l].started /\ (~guest => lobby[l].mine = {})
    BY <1>1, <2>1 DEF BaseInv, RowsOK, ByUserId
  <2>3. CallOK(c, Made) /\ OnPage(c, tab')
    BY <1>1, <1>7, <1>9 DEF CallOK, About, OnPage
  <2>4. Sendable(c)
    BY <1>1, <1>7, <2>1, <2>2, <2>3 DEF Sendable
  <2> QED BY <1>5, <1>7, <1>9, <1>10, <1>12, <2>4 DEF SendStep
<1> QED BY <1>6, <1>11, <1>12

\* A page that shows a lobby is that lobby's.
LEMMA ShownIs == ASSUME BaseInv, Screen \in {"table", "waiting"}
                 PROVE  tab.path \in Made /\ InRoom
<1>1. tab.view.known
  BY DEF Screen
<1> QED BY <1>1, EntryAssumption DEF BaseInv, TabOK, InRoom

LEMMA RoomKinds == ASSUME BaseInv, Room PROVE Kinds
<1> USE DEF BaseInv
<1>1. CASE LobbyUpdate
  BY <1>1, UpdateKinds DEF Kinds
<1>2. CASE ConfirmLeave
  <2>1. Screen = "table" /\ Send(Sent("forfeit", tab.path, "exit"), [tab EXCEPT !.leaving = TRUE])
    BY <1>2 DEF ConfirmLeave, Exit
  <2>2. [tab EXCEPT !.leaving = TRUE].leaving
    BY DEF TypeOK, TabType
  <2> QED BY <2>1, <2>2, ShownIs, ForfeitSends DEF Kinds
<1>3. CASE CancelAndExit
  <2>1. Screen = "waiting" /\ Send(Sent("forfeit", tab.path, "cancel"), tab)
    BY <1>3 DEF CancelAndExit, Exit
  <2> QED BY <2>1, ShownIs, ForfeitSends DEF Kinds
<1>4. CASE LeaveGame
  <2>1. Screen = "table" /\ Send(Sent("forfeit", tab.path, "exit"), tab) /\ tab.view.started
    BY <1>4 DEF LeaveGame, Exit
  <2>2. lobby[tab.path].started
    BY <2>1 DEF TabOK
  <2> QED BY <2>1, <2>2, ShownIs, ForfeitSends DEF Kinds
<1>5. CASE BackToHome
  BY <1>5, GotoMoves DEF BackToHome, Entrances, Kinds
<1>6. CASE Redirect
  <2>1. left' = left \ {"home"}
    BY <1>6, EntryAssumption DEF Redirect, ghosts, TypeOK, Entrances
  <2>2. redirect' \in BOOLEAN
    BY <1>6 DEF Redirect
  <2> QED BY <1>6, <2>1, <2>2, PushedMoves DEF Redirect, ghosts, Entrances, Kinds
<1> QED BY <1>1, <1>2, <1>3, <1>4, <1>5, <1>6 DEF Room

LEMMA NavigationKinds == ASSUME BaseInv, Navigation PROVE Kinds
<1> USE DEF BaseInv
<1>0. tab \in TabType /\ (~InRoom => tab.path \in Entrances)
  BY DEF TypeOK, TabType, InRoom
<1>1. CASE Browse
  BY <1>1, GotoMoves DEF Browse, Kinds
<1>2. CASE RejoinGame
  <2>1. tab.nav \in Entrances \cup Made /\ Goto(tab.nav)
    BY <1>2 DEF RejoinGame, TabOK
  <2> QED BY <2>1, GotoMoves DEF Kinds
<1>3. CASE ForgetGame
  <2>1. tab.nav \in Made /\ tab.path \in Entrances /\ Send(Sent("forfeit", tab.nav, "forget"), tab)
    BY <1>0, <1>3 DEF ForgetGame, TabOK
  <2> QED BY <2>1, ForfeitSends DEF Kinds
<1>4. CASE ActiveLobbyFails \/ \E l \in Lobbies \cup {None} : ActiveLobby(l)
  BY <1>4 DEF Asked, Kinds
<1>5. CASE GetLobbies
  <2> DEFINE t == [tab EXCEPT !.list = FindLobby]
  <2>1. FindLobby \subseteq Made /\ FindLobby \subseteq Lobbies
    BY DEF FindLobby, Made
  <2>2. t \in TabType /\ t.path = tab.path /\ t.nav = tab.nav /\ t.asking = tab.asking /\ t.conflict = tab.conflict
        /\ t.list = FindLobby /\ t.view = tab.view /\ t.leaving = tab.leaving /\ t.form = tab.form
    BY <1>0, <2>1 DEF TabType
  <2>3. Only(t)
    BY <1>5 DEF GetLobbies
  <2> HIDE DEF t
  <2>4. Edited(t)
    BY <2>1, <2>2 DEF Edited, TabOK
  <2> QED BY <2>2, <2>3, <2>4, OnlyEdits DEF Kinds
<1>6. CASE BackToMyGame
  <2>1. tab.conflict \in Entrances \cup Made /\ Goto(tab.conflict)
    BY <1>6 DEF BackToMyGame, ConflictShown, TabOK
  <2> QED BY <2>1, GotoMoves DEF Kinds
<1>7. CASE CancelConflict
  <2> DEFINE t == [tab EXCEPT !.conflict = None]
  <2>1. t \in TabType /\ t.path = tab.path /\ t.nav = tab.nav /\ t.asking = tab.asking /\ t.conflict = None
        /\ t.list = tab.list /\ t.view = tab.view /\ t.leaving = tab.leaving /\ t.form = tab.form
    BY <1>0 DEF TabType
  <2>2. Only(t)
    BY <1>7 DEF CancelConflict
  <2> HIDE DEF t
  <2>3. Edited(t)
    BY <2>1 DEF Edited, TabOK
  <2> QED BY <2>1, <2>2, <2>3, OnlyEdits DEF Kinds
<1>8. CASE ForfeitAndStart
  BY <1>8, ConflictSends DEF Kinds
<1>9. ASSUME NEW l \in Lobbies, OpenLink(l) PROVE Kinds
  BY <1>9, OpenLinkMoves DEF Kinds
<1>10. ASSUME NEW l \in Lobbies, JoinWithCode(l) PROVE Kinds
  <2>1. l \in Made /\ tab.path = "home" /\ Send(Sent("join", l, "home"), [tab EXCEPT !.busy = TRUE])
    BY <1>10 DEF JoinWithCode, Made
  <2> QED BY <2>1, JoinSends DEF Kinds
<1>11. ASSUME NEW l \in Lobbies, JoinListed(l) PROVE Kinds
  <2>1. l \in Made /\ tab.path = "browse" /\ Send(Sent("join", l, "browse"), [tab EXCEPT !.busy = TRUE])
    BY <1>11 DEF JoinListed, TabOK
  <2> QED BY <2>1, JoinSends DEF Kinds
<1> QED BY <1>1, <1>2, <1>3, <1>4, <1>5, <1>6, <1>7, <1>8, <1>9, <1>10, <1>11 DEF Navigation

\* An answer that takes the user somewhere.
LEMMA AnsweredMoves ==
  ASSUME BaseInv, NEW s \in Slots, Answered(s), Destination(call[s]) # None
  PROVE  Kinds
<1> USE DEF BaseInv
<1> DEFINE c == call[s]
<1> DEFINE to == Destination(c)
<1>1. c \in CallType /\ CallOK(c, Made) /\ c.at \in {"ok", "conflict", "refused", "failed"}
  BY DEF TypeOK, CallsOK, Answered
<1>2. \/ to = c.got /\ c.then \in {"home", "create", "gallery"} /\ c.at = "ok"
      \/ to = c.on /\ c.then = "browse"
      \/ to = "home" /\ c.then \in {"exit", "cancel"}
  BY DEF Destination
<1>3. c.op # "none" /\ (c.then \in {"home", "browse"} => c.op = "join") /\ (c.then \in {"create", "gallery"} => c.op = "create")
      /\ (c.then \in {"exit", "cancel"} => c.op = "forfeit")
  BY <1>1, <1>2, NoCallType DEF CallOK, About, CallType
<1>4. \/ to \in Made
      \/ to = "home" /\ c.op = "forfeit"
  BY <1>1, <1>2, <1>3 DEF CallOK, About
<1>5. Followed(c) = NoCall
  BY <1>2 DEF Followed
<1>6. ~Overtakes(NoCall) /\ ~ComesTooLate(NoCall)
  BY NoCallType DEF Overtakes, ComesTooLate
<1>7. /\ tab' = Pushed(to) /\ left' = left \ {to} /\ redirect' = redirect
      /\ call' = [r \in Slots |-> IF r = s THEN NoCall ELSE Unmount(call[r], to)]
      /\ UNCHANGED <<guest, lobby, cast, astray>> /\ crossed' = (crossed \/ FALSE \/ FALSE)
  BY <1>5, <1>6 DEF Answered
<1>8. crossed' = crossed /\ redirect' \in BOOLEAN /\ to \in Entrances \cup Made
  BY <1>4, <1>7 DEF TypeOK, Entrances
<1>9. CASE tab.path = to
  <2>1. tab' = tab /\ \A r \in Slots : Unmount(call[r], to) = call[r]
    BY <1>7, <1>9 DEF Pushed, Unmount
  <2>2. \A r \in Slots : call'[r] = IF r = s THEN NoCall ELSE call[r]
    BY <1>7, <2>1
  <2>3. call' \in [Slots -> CallType]
    BY <1>7, <2>1, NoCallType DEF TypeOK
  <2>4. InRoom \/ c.op = "forfeit"
    BY <1>4, <1>9 DEF InRoom, Made
  <2>5. StayStep
    BY <1>7, <1>8, <1>9, <2>1, <2>2, <2>3, <2>4 DEF StayStep
  <2> QED BY <2>5 DEF Kinds
<1>10. CASE tab.path # to
  <2>1. tab' = Mounted(to)
    BY <1>7, <1>10 DEF Pushed
  <2>2. ASSUME NEW r \in Slots PROVE call'[r] \in CallType /\ (call'[r] = NoCall \/ Unmounted(call[r], call'[r]))
    BY <1>7, <1>10, UnmountIs, NoCallType
  <2>3. call' \in [Slots -> CallType]
    BY <1>7, <2>2
  <2>4. MoveStep(to)
    BY <1>7, <1>8, <2>1, <2>2, <2>3 DEF MoveStep
  <2> QED BY <2>4 DEF Kinds
<1> QED BY <1>9, <1>10

\* What the others do to a row.
LEMMA RowOf ==
  ASSUME BaseInv, NEW l \in Lobbies, NEW row \in RowType, lobby' = [lobby EXCEPT ![l] = row],
         row.made = lobby[l].made, row.mine = lobby[l].mine, lobby[l].over => row.over,
         lobby[l].started => row.started, row.cast = lobby[l].cast, row.ids = lobby[l].ids,
         row.chat = lobby[l].chat, row.timer = lobby[l].timer,
         row.started => Count(l) = 2 /\ row.other = lobby[l].other,
         redirect' \in BOOLEAN, UNCHANGED <<guest, cast, tab, call, ghosts>>
  PROVE  OtherStep
<1>1. lobby' \in [Lobbies -> RowType] /\ lobby'[l] = row /\ \A k \in Lobbies : k # l => lobby'[k] = lobby[k]
  BY DEF BaseInv, TypeOK
<1>2. \A k \in Lobbies : lobby'[k].started => Count(k)' = 2
  BY <1>1 DEF BaseInv, RowsOK, Count
<1>3. \A k \in Lobbies :
        /\ lobby'[k].made = lobby[k].made /\ lobby'[k].mine = lobby[k].mine
        /\ lobby[k].over => lobby'[k].over
        /\ lobby[k].started => lobby'[k].started
        /\ lobby'[k].cast = lobby[k].cast /\ lobby'[k].ids = lobby[k].ids
        /\ lobby'[k].chat = lobby[k].chat /\ lobby'[k].timer = lobby[k].timer
  BY <1>1
<1> QED BY <1>1, <1>2, <1>3 DEF OtherStep

LEMMA OthersKinds == ASSUME BaseInv, Others PROVE EditStep \/ OtherStep
<1> USE DEF BaseInv
<1>0. /\ \A l \in Lobbies : lobby[l] \in RowType /\ (lobby[l].started => Count(l) = 2)
      /\ redirect \in BOOLEAN
  BY DEF TypeOK, RowsOK
<1>1. ASSUME NEW l \in Lobbies, OtherJoins(l) PROVE OtherStep
  <2>1. Count(l) < 2 /\ lobby' = [lobby EXCEPT ![l] = [lobby[l] EXCEPT !.other = @ \cup {"joiner"}]]
        /\ UNCHANGED <<guest, cast, tab, call, redirect, ghosts>>
    BY <1>1 DEF OtherJoins, Rows
  <2> DEFINE row == [lobby[l] EXCEPT !.other = @ \cup {"joiner"}]
  <2>2. ~lobby[l].started
    BY <1>0, <2>1
  <2>3. row \in RowType /\ row.made = lobby[l].made /\ row.mine = lobby[l].mine /\ row.over = lobby[l].over
        /\ row.started = lobby[l].started /\ row.cast = lobby[l].cast /\ row.ids = lobby[l].ids
        /\ row.chat = lobby[l].chat /\ row.timer = lobby[l].timer
    BY <1>0 DEF RowType, Seats
  <2>4. lobby' = [lobby EXCEPT ![l] = row] /\ redirect' \in BOOLEAN
    BY <1>0, <2>1
  <2> HIDE DEF row
  <2> QED BY <2>1, <2>2, <2>3, <2>4, RowOf
<1>2. ASSUME NEW l \in Lobbies, OtherLeaves(l) PROVE OtherStep
  <2>1. PICK seat \in lobby[l].other, isGuest \in BOOLEAN : Leaves(l, "other", seat, isGuest)
    BY <1>2 DEF OtherLeaves
  <2>2. ~lobby[l].started /\ UNCHANGED <<guest, cast, tab, call, ghosts>>
    BY <1>2 DEF OtherLeaves
  <2> DEFINE ends == lobby[l].started \/ IsCreator(seat, isGuest, l)
  <2> DEFINE row == IF ends THEN [lobby[l] EXCEPT !.over = TRUE] ELSE [lobby[l] EXCEPT !.other = @ \ {seat}]
  <2>3. lobby' = [lobby EXCEPT ![l] = row]
    BY <2>1 DEF Leaves, Without
  <2>4. row \in RowType /\ row.made = lobby[l].made /\ row.mine = lobby[l].mine /\ (lobby[l].over => row.over)
        /\ row.started = lobby[l].started /\ row.cast = lobby[l].cast /\ row.ids = lobby[l].ids
        /\ row.chat = lobby[l].chat /\ row.timer = lobby[l].timer
    <3>1. CASE ends
      <4>1. row = [lobby[l] EXCEPT !.over = TRUE]
        BY <3>1
      <4> HIDE DEF row
      <4> QED BY <1>0, <4>1 DEF RowType
    <3>2. CASE ~ends
      <4>1. row = [lobby[l] EXCEPT !.other = @ \ {seat}]
        BY <3>2
      <4> HIDE DEF row
      <4> QED BY <1>0, <4>1 DEF RowType
    <3> QED BY <3>1, <3>2
  <2>5. redirect' \in BOOLEAN
    BY <1>0, <2>1 DEF Leaves
  <2> HIDE DEF row
  <2> QED BY <2>2, <2>3, <2>4, <2>5, RowOf
<1>3. ASSUME NEW l \in Lobbies, GameStarts(l) PROVE OtherStep
  <2> DEFINE row == [lobby[l] EXCEPT !.started = TRUE]
  <2>1. Count(l) = 2 /\ lobby' = [lobby EXCEPT ![l] = row] /\ redirect' \in BOOLEAN
        /\ UNCHANGED <<guest, cast, tab, call, ghosts>>
    BY <1>0, <1>3 DEF GameStarts, Rows
  <2>2. row \in RowType /\ row.made = lobby[l].made /\ row.mine = lobby[l].mine /\ row.over = lobby[l].over
        /\ row.started /\ row.other = lobby[l].other /\ row.cast = lobby[l].cast /\ row.ids = lobby[l].ids
        /\ row.chat = lobby[l].chat /\ row.timer = lobby[l].timer
    BY <1>0 DEF RowType
  <2> HIDE DEF row
  <2> QED BY <2>1, <2>2, RowOf
<1>4. ASSUME NEW l \in Lobbies, GameEnds(l) PROVE OtherStep
  <2> DEFINE row == [lobby[l] EXCEPT !.over = TRUE]
  <2>1. lobby[l].started /\ lobby' = [lobby EXCEPT ![l] = row] /\ redirect' \in BOOLEAN
        /\ UNCHANGED <<guest, cast, tab, call, ghosts>>
    BY <1>0, <1>4 DEF GameEnds, Rows
  <2>2. row \in RowType /\ row.made = lobby[l].made /\ row.mine = lobby[l].mine /\ row.over
        /\ row.started = lobby[l].started /\ row.other = lobby[l].other /\ row.cast = lobby[l].cast /\ row.ids = lobby[l].ids
        /\ row.chat = lobby[l].chat /\ row.timer = lobby[l].timer
    BY <1>0 DEF RowType
  <2> HIDE DEF row
  <2> QED BY <1>0, <2>1, <2>2, RowOf
<1>5. ASSUME NEW s \in Sets, OwnerEdits(s) PROVE EditStep
  <2>1. PICK cs \in SUBSET Pool[s] : Cardinality(cs) >= Min /\ cast' = [cast EXCEPT ![s] = cs]
    BY <1>5 DEF OwnerEdits
  <2>2. cs \in SUBSET Chars
    BY DEF Chars
  <2>3. cast' \in [Sets -> SUBSET Chars] /\ SetsOK'
    BY <2>1, <2>2 DEF TypeOK, SetsOK
  <2>4. UNCHANGED <<guest, lobby, tab, call, redirect, ghosts>>
    BY <1>5 DEF OwnerEdits
  <2>5. Edited(tab')
    BY <2>4 DEF Edited, TypeOK, TabOK
  <2> QED BY <2>3, <2>4, <2>5 DEF EditStep, TypeOK
<1> QED BY <1>1, <1>2, <1>3, <1>4, <1>5 DEF Others

LEMMA KindsHold == ASSUME BaseInv, [Next]_vars PROVE Kinds
<1>1. CASE Form
  <2>1. CASE HandleCreateLobby
    BY <2>1, CreateSends DEF Kinds
  <2>2. CASE ~HandleCreateLobby
    BY <1>1, <2>2, FormKinds DEF Form, Kinds
  <2> QED BY <2>1, <2>2
<1>2. CASE Room
  BY <1>2, RoomKinds
<1>3. CASE Navigation
  BY <1>3, NavigationKinds
<1>4. CASE Requests
  <2>1. PICK s \in Slots : JoinLobby(s) \/ CreateLobby(s) \/ ForfeitLobby(s) \/ Fail(s) \/ Answered(s)
    BY <1>4 DEF Requests
  <2>2. CASE Answered(s)
    <3>1. CASE Destination(call[s]) = None
      BY <2>2, <3>1 DEF HereStep, Kinds
    <3> QED BY <2>2, <3>1, AnsweredMoves
  <2> QED BY <2>1, <2>2 DEF Handled, Kinds
<1>5. CASE Others
  BY <1>5, OthersKinds DEF Kinds
<1>6. CASE UNCHANGED vars
  <2>1. EditStep
    BY <1>6 DEF vars, EditStep, Edited, BaseInv, TypeOK, TabOK, SetsOK, ghosts
  <2> QED BY <2>1 DEF Kinds
<1> QED BY <1>1, <1>2, <1>3, <1>4, <1>5, <1>6 DEF Next

LEMMA BaseKept == ASSUME BaseInv, Kinds PROVE BaseInv'
<1>1. ASSUME NEW s \in Slots, Handled(s) PROVE BaseInv'
  BY <1>1, JoinBase, CreateBase, ForfeitBase, FailBase DEF Handled
<1> QED BY <1>1, EditBase, SendBase, MoveBase, StayBase, OtherBase, AskedBase, HereBase DEF Kinds

LEMMA BaseInit == Init => BaseInv
<1> SUFFICES ASSUME Init PROVE BaseInv
  OBVIOUS
<1>1. PICK made \in SUBSET Lobbies, guestHost \in BOOLEAN : \E joined \in {{}} \cup {{l} : l \in made} :
        lobby = [l \in Lobbies |->
             IF l \notin made THEN NoLobby
             ELSE [NoLobby EXCEPT !.made = TRUE, !.guestHost = guestHost, !.other = {"host"},
                                  !.mine = IF l \in joined THEN {"joiner"} ELSE {}]]
  BY DEF Init
<1>2. PICK joined \in {{}} \cup {{l} : l \in made} :
        lobby = [l \in Lobbies |->
             IF l \notin made THEN NoLobby
             ELSE [NoLobby EXCEPT !.made = TRUE, !.guestHost = guestHost, !.other = {"host"},
                                  !.mine = IF l \in joined THEN {"joiner"} ELSE {}]]
  BY <1>1
<1>3. ASSUME NEW l \in Lobbies
      PROVE  /\ lobby[l] \in RowType /\ ~lobby[l].started
             /\ lobby[l].mine # {} => lobby[l].made /\ l \in joined
  <2>1. CASE l \notin made
    <3>1. lobby[l] = NoLobby
      BY <1>2, <2>1
    <3> QED BY <3>1 DEF NoLobby, RowType
  <2>2. CASE l \in made
    <3> DEFINE mine == IF l \in joined THEN {"joiner"} ELSE {}
    <3>1. lobby[l] = [NoLobby EXCEPT !.made = TRUE, !.guestHost = guestHost, !.other = {"host"}, !.mine = mine]
      BY <1>2, <2>2
    <3>2. mine \subseteq Seats /\ (mine # {} => l \in joined)
      BY DEF Seats
    <3> HIDE DEF mine
    <3>3. lobby[l] = [made |-> TRUE, guestHost |-> guestHost, mine |-> mine, other |-> {"host"}, started |-> FALSE,
                      over |-> FALSE, cast |-> {}, ids |-> {}, chat |-> TRUE, timer |-> FALSE]
      BY <3>1 DEF NoLobby
    <3> QED BY <3>2, <3>3 DEF RowType, Seats
  <2> QED BY <2>1, <2>2
<1>4. lobby \in [Lobbies -> RowType] /\ RowsOK /\ OneSeat
  <2>1. lobby \in [Lobbies -> RowType]
    BY <1>2, <1>3
  <2>2. GetPlayerByUser \subseteq joined
    BY <1>3 DEF GetPlayerByUser
  <2> QED BY <1>2, <1>3, <2>1, <2>2 DEF RowsOK, OneSeat
<1>5. cast \in [Sets -> SUBSET Chars] /\ SetsOK
  <2>1. cast = [s \in Sets |-> First[s]]
    BY EntryAssumption DEF Init
  <2> QED BY <2>1, EntryAssumption DEF Chars, SetsOK
<1>6. PICK path \in Entrances : tab = Mounted(path)
  BY DEF Init
<1>7. tab \in TabType /\ TabOK
  BY <1>6, MountedIs DEF TabOK
<1>8. call \in [Slots -> CallType] /\ CallsOK
  BY NoCallType, NoCallOK DEF Init, CallsOK
<1>9. TypeOK
  BY <1>4, <1>5, <1>7, <1>8 DEF Init, TypeOK
<1> QED BY <1>4, <1>5, <1>7, <1>8, <1>9 DEF BaseInv

----------------------------------------------------------------------------
(* What the handlers do, one by one *)

\* A request is turned down, or it or its answer is lost.
RejectStep(s) ==
  /\ \E at \in {"conflict", "refused", "failed"}, l \in Lobbies \cup {None} :
       /\ Answer(s, at, l)
       /\ at = "conflict" => call[s].at = "sent" /\ call[s].op \in {"join", "create"} /\ l \in GetPlayerByUser
       /\ at = "refused" => /\ call[s].at = "sent"
                            /\ call[s].op = "forfeit" => lobby[call[s].on].mine = {}
       /\ at = "failed" /\ ~InRoom /\ (call[s].at = "ok" \/ call[s].then = "forget") => astray'
  /\ (crossed => crossed') /\ (astray => astray')
  /\ UNCHANGED <<guest, lobby, cast, tab, redirect, left>>

JoinStep(s) ==
  /\ call[s].op = "join" /\ call[s].at = "sent" /\ Seated(s)
  /\ crossed' = (crossed \/ SitsTwice(s))
  /\ UNCHANGED <<guest, cast, tab, redirect, left>>

CreateStep(s, l) ==
  /\ call[s].op = "create" /\ call[s].at = "sent" /\ MadeBy(s, l)
  /\ UNCHANGED <<guest, cast, tab, redirect, left, crossed>>

ForfeitStep(s, seat) ==
  /\ call[s].op = "forfeit" /\ call[s].at = "sent" /\ seat \in lobby[call[s].on].mine
  /\ Leaves(call[s].on, "mine", seat, guest) /\ Answer(s, "ok", None)
  /\ left' = IF call[s].then = "exit" /\ call[s].page = "mounted" THEN left \cup {call[s].on} ELSE left
  /\ UNCHANGED <<guest, cast, tab, crossed, astray>>

LEMMA HandledKinds ==
  ASSUME BaseInv, NEW s \in Slots, Handled(s)
  PROVE  \/ RejectStep(s) \/ JoinStep(s)
         \/ (\E l \in Lobbies : CreateStep(s, l))
         \/ \E seat : ForfeitStep(s, seat)
<1> USE DEF BaseInv
<1>1. CASE JoinLobby(s)
  <2>1. call[s].op = "join" /\ call[s].at = "sent" /\ UNCHANGED <<guest, cast, tab, redirect, left>>
        /\ crossed' = (crossed \/ SitsTwice(s))
    BY <1>1 DEF JoinLobby
  <2>2. CASE GetPlayerByUser # {}
    <3>1. (\E l \in GetPlayerByUser : Answer(s, "conflict", l)) /\ lobby' = lobby /\ astray' = astray
      BY <1>1, <2>2 DEF JoinLobby, AlreadyInGame
    <3> QED BY <2>1, <3>1 DEF RejectStep, GetPlayerByUser
  <2>3. CASE GetPlayerByUser = {} /\ Count(call[s].on) >= 2
    <3>1. Answer(s, "refused", None) /\ lobby' = lobby /\ astray' = astray
      BY <1>1, <2>3 DEF JoinLobby, Refuse
    <3> QED BY <2>1, <3>1 DEF RejectStep
  <2>4. CASE GetPlayerByUser = {} /\ ~(Count(call[s].on) >= 2)
    <3>1. call[s].on \in Lobbies
      BY <2>1 DEF CallsOK, CallOK, About, Made
    <3>2. Count(call[s].on) < 2
      BY <2>4, <3>1, CountIs
    <3>3. Seated(s)
      BY <1>1, <2>4, <3>2 DEF JoinLobby, Seated
    <3> QED BY <2>1, <3>3 DEF JoinStep
  <2> QED BY <2>2, <2>3, <2>4
<1>2. CASE CreateLobby(s)
  <2>1. call[s].op = "create" /\ call[s].at = "sent" /\ UNCHANGED <<guest, cast, tab, redirect, left, crossed>>
    BY <1>2 DEF CreateLobby
  <2>2. CASE GetPlayerByUser # {}
    <3>1. (\E l \in GetPlayerByUser : Answer(s, "conflict", l)) /\ lobby' = lobby /\ astray' = astray
      BY <1>2, <2>2 DEF CreateLobby, AlreadyInGame
    <3> QED BY <2>1, <3>1 DEF RejectStep, GetPlayerByUser
  <2>3. CASE GetPlayerByUser = {} /\ TooFew(call[s])
    <3>1. Answer(s, "refused", None) /\ lobby' = lobby /\ astray' = astray
      BY <1>2, <2>3 DEF CreateLobby, Refuse
    <3> QED BY <2>1, <3>1 DEF RejectStep
  <2>4. CASE GetPlayerByUser = {} /\ ~TooFew(call[s])
    BY <1>2, <2>1, <2>4 DEF CreateLobby, CreateStep, MadeBy
  <2> QED BY <2>2, <2>3, <2>4
<1>3. CASE ForfeitLobby(s)
  <2>1. CASE lobby[call[s].on].mine = {}
    <3>1. Answer(s, "refused", None) /\ call[s].at = "sent" /\ UNCHANGED <<guest, lobby, cast, tab, redirect, left, crossed, astray>>
      BY <1>3, <2>1 DEF ForfeitLobby, Refuse
    <3> QED BY <2>1, <3>1 DEF RejectStep
  <2>2. CASE lobby[call[s].on].mine # {}
    BY <1>3, <2>2 DEF ForfeitLobby, ForfeitStep
  <2> QED BY <2>1, <2>2
<1>4. CASE Fail(s)
  BY <1>4 DEF Fail, RejectStep
<1> QED BY <1>1, <1>2, <1>3, <1>4 DEF Handled

\* The answer to the navigation bar's question, or none.
LEMMA AskedIs ==
  ASSUME BaseInv, Asked
  PROVE  /\ UNCHANGED <<guest, lobby, cast, call, redirect, left, crossed>>
         /\ tab.asking /\ ~tab'.asking /\ (astray => astray')
         /\ tab'.path = tab.path /\ tab'.conflict = tab.conflict /\ tab'.leaving = tab.leaving
         /\ astray' \/ GetPlayerByUser = {} \/ tab'.nav \in GetPlayerByUser
<1>1. tab \in TabType
  BY DEF BaseInv, TypeOK
<1>2. CASE ActiveLobbyFails
  <2>1. tab.asking /\ tab' = [tab EXCEPT !.asking = FALSE] /\ astray' /\ UNCHANGED <<guest, lobby, cast, call, redirect, left, crossed>>
    BY <1>2 DEF ActiveLobbyFails
  <2> QED BY <1>1, <2>1 DEF TabType
<1>3. ASSUME NEW l \in Lobbies \cup {None}, ActiveLobby(l)
      PROVE  /\ UNCHANGED <<guest, lobby, cast, call, redirect, left, crossed>>
             /\ tab.asking /\ ~tab'.asking /\ (astray => astray')
             /\ tab'.path = tab.path /\ tab'.conflict = tab.conflict /\ tab'.leaving = tab.leaving
             /\ astray' \/ GetPlayerByUser = {} \/ tab'.nav \in GetPlayerByUser
  <2>1. /\ tab.asking /\ tab' = [tab EXCEPT !.nav = l, !.asking = FALSE]
        /\ UNCHANGED <<guest, lobby, cast, call, redirect, left, crossed, astray>>
        /\ GetPlayerByUser = {} \/ l \in GetPlayerByUser
    BY <1>3 DEF ActiveLobby, Only, ghosts
  <2>2. tab'.path = tab.path /\ tab'.conflict = tab.conflict /\ tab'.leaving = tab.leaving /\ tab'.nav = l /\ ~tab'.asking
    BY <1>1, <2>1 DEF TabType
  <2> QED BY <2>1, <2>2
<1> QED BY <1>2, <1>3 DEF Asked

\* What becomes of a request that is not the one that is handled.
Goes(c, d) == d = c \/ d = NoCall \/ Unmounted(c, d)

----------------------------------------------------------------------------
(* A game is played with characters that were chosen, and with enough *)

LEMMA ChosenKept ==
  ASSUME BaseInv, CreatedAsChosen,
         \A l \in Lobbies : /\ lobby'[l].cast = lobby[l].cast /\ lobby'[l].ids = lobby[l].ids
                            /\ lobby'[l].chat = lobby[l].chat /\ lobby'[l].timer = lobby[l].timer
  PROVE  CreatedAsChosen'
BY DEF CreatedAsChosen

LEMMA ChosenStep == ASSUME BaseInv, CreatedAsChosen, Kinds PROVE CreatedAsChosen'
<1>1. CASE EditStep \/ (\E c : SendStep(c)) \/ (\E to : MoveStep(to)) \/ StayStep \/ Asked
  <2>1. lobby' = lobby
    BY <1>1 DEF EditStep, SendStep, MoveStep, StayStep, Asked, ActiveLobbyFails, ActiveLobby, Only
  <2> QED BY <2>1, ChosenKept
<1>2. CASE OtherStep
  BY <1>2, ChosenKept DEF OtherStep
<1>3. ASSUME NEW s \in Slots, HereStep(s) PROVE CreatedAsChosen'
  <2>1. lobby' = lobby
    BY <1>3, HereIs
  <2> QED BY <2>1, ChosenKept
<1>4. ASSUME NEW s \in Slots, Handled(s) PROVE CreatedAsChosen'
  <2>1. CASE RejectStep(s)
    BY <2>1, ChosenKept DEF RejectStep
  <2>2. CASE JoinStep(s)
    BY <2>2, SeatedRows, ChosenKept DEF JoinStep
  <2>3. ASSUME NEW l \in Lobbies, CreateStep(s, l) PROVE CreatedAsChosen'
    <3> DEFINE c == call[s]
    <3> DEFINE row == NewLobby(c)
    <3>1. c.op = "create" /\ MadeBy(s, l) /\ guest' = guest /\ c.on \in Sets
      BY <2>3 DEF CreateStep, BaseInv, CallsOK, CallOK, About
    <3>2. lobby'[l] = row /\ \A k \in Lobbies : k # l => lobby'[k] = lobby[k]
      BY <3>1, MadeByRows
    <3>3. /\ row.cast = IF c.ids = {} THEN cast[c.on] ELSE cast[c.on] \cap c.ids
          /\ row.ids = c.ids /\ row.chat = c.chat /\ row.timer = (c.timer /\ c.chat)
      BY <3>1, NewLobbyIs
    <3>4. Cardinality(row.cast) >= Min
      <4>1. cast[c.on] \subseteq Pool[c.on] /\ IsFiniteSet(Pool[c.on]) /\ Cardinality(cast[c.on]) >= Min
        BY <3>1, EntryAssumption DEF BaseInv, SetsOK
      <4>2. Cardinality(row.cast) \in Nat
        BY <3>3, <4>1, FS_Subset, FS_CardinalityType
      <4>3. ~(c.ids # {} /\ Cardinality(row.cast) < Min)
        BY <3>1 DEF MadeBy, TooFew
      <4> QED BY <3>3, <4>1, <4>2, <4>3, EntryAssumption
    <3>5. row.ids # {} => row.cast \subseteq row.ids
      BY <3>3
    <3>6. row.timer => row.chat
      BY <3>3
    <3> HIDE DEF row
    <3> QED BY <3>2, <3>4, <3>5, <3>6 DEF CreatedAsChosen
  <2>4. ASSUME NEW seat, ForfeitStep(s, seat) PROVE CreatedAsChosen'
    <3>1. call[s].on \in Made
      BY <2>4 DEF ForfeitStep, BaseInv, CallsOK, CallOK, About
    <3> QED BY <2>4, <3>1, LeavesRows, ChosenKept DEF ForfeitStep
  <2> QED BY <1>4, <2>1, <2>2, <2>3, <2>4, HandledKinds
<1> QED BY <1>1, <1>2, <1>3, <1>4 DEF Kinds

----------------------------------------------------------------------------
(* Nobody is told, in their own room, that it is in the way *)

JoinSent(c, l) == c.op = "join" /\ c.at = "sent" /\ c.on = l

\* Two joins for one lobby do not run at once.
Apart == \A r, s \in Slots : r # s /\ JoinSent(call[r], call[r].on) => ~JoinSent(call[s], call[r].on)

\* A page that joins by itself has no seat, and is told of another game.
AutoSound ==
  \A s \in Slots : call[s].then = "auto" /\ call[s].page = "mounted" =>
    /\ call[s].at = "sent" => lobby[call[s].on].mine = {}
    /\ call[s].at = "conflict" => call[s].got # call[s].on

SelfInv == ~guest /\ ~crossed => NoSelfConflict /\ Apart /\ AutoSound

\* Requests that are kept, left or forgotten stay apart.
LEMMA ApartKept ==
  ASSUME Apart, \A s \in Slots : Goes(call[s], call'[s])
  PROVE  Apart'
<1> SUFFICES ASSUME NEW r \in Slots, NEW s \in Slots, r # s, JoinSent(call'[r], call'[r].on), JoinSent(call'[s], call'[r].on)
             PROVE  FALSE
  BY DEF Apart
<1>1. \A q \in Slots : JoinSent(call'[q], call'[q].on) => call'[q].on = call[q].on /\ JoinSent(call[q], call[q].on)
  BY NoCallType DEF Goes, JoinSent, Unmounted
<1> QED BY <1>1 DEF Apart, JoinSent

\* One request changes: it is no join under way, or one that overtakes none.
LEMMA ApartOne ==
  ASSUME Apart, NEW s \in Slots, \A r \in Slots : r # s => call'[r] = call[r],
         call'[s].op = "join" /\ call'[s].at = "sent"
           => \A r \in Slots : r # s => ~JoinSent(call[r], call'[s].on)
  PROVE  Apart'
BY DEF Apart, JoinSent

LEMMA AutoKept ==
  ASSUME AutoSound, \A s \in Slots : Goes(call[s], call'[s]),
         \A s \in Slots : call[s].then = "auto" /\ call[s].at = "sent" /\ call[s].page = "mounted" =>
           (lobby[call[s].on].mine = {} => lobby'[call[s].on].mine = {})
  PROVE  AutoSound'
BY NoCallType DEF AutoSound, Goes, Unmounted

LEMMA SelfStep == ASSUME BaseInv, SelfInv, Kinds PROVE SelfInv'
<1> USE DEF BaseInv
<1> SUFFICES ASSUME ~guest', ~crossed' PROVE NoSelfConflict' /\ Apart' /\ AutoSound'
  BY DEF SelfInv
<1>0. tab.path \in Lobbies => tab.path # None
  BY EntryAssumption
<1>1. CASE EditStep
  <2>1. ~guest /\ ~crossed /\ NoSelfConflict /\ Apart /\ AutoSound
    BY <1>1 DEF EditStep, ghosts, SelfInv
  <2>2. \A s \in Slots : Goes(call[s], call'[s])
    BY <1>1 DEF EditStep, Goes
  <2>3. lobby' = lobby /\ tab'.path = tab.path /\ tab'.conflict \in {tab.conflict, None}
    BY <1>1 DEF EditStep, Edited
  <2>4. NoSelfConflict'
    BY <1>0, <2>1, <2>3 DEF NoSelfConflict, InRoom
  <2> QED BY <2>1, <2>2, <2>3, <2>4, ApartKept, AutoKept
<1>2. ASSUME NEW c, SendStep(c) PROVE NoSelfConflict' /\ Apart' /\ AutoSound'
  <2>1. ~guest /\ ~crossed /\ NoSelfConflict /\ Apart /\ AutoSound /\ ~Overtakes(c)
    BY <1>2 DEF SendStep, SelfInv
  <2>2. PICK s \in Slots : call[s].op = "none" /\ call' = [call EXCEPT ![s] = c]
    BY <1>2 DEF SendStep
  <2>3. call'[s] = c /\ \A r \in Slots : r # s => call'[r] = call[r]
    BY <2>2 DEF TypeOK
  <2>4. NoSelfConflict'
    BY <1>0, <1>2, <2>1 DEF SendStep, Edited, NoSelfConflict, InRoom
  <2>5. Apart'
    BY <2>1, <2>3, ApartOne DEF Overtakes, JoinSent
  <2>6. AutoSound'
    BY <1>2, <2>1, <2>3 DEF AutoSound, SendStep, Sendable
  <2> QED BY <2>4, <2>5, <2>6
<1>3. ASSUME NEW to, MoveStep(to) PROVE NoSelfConflict' /\ Apart' /\ AutoSound'
  <2>1. ~guest /\ ~crossed /\ Apart /\ AutoSound
    BY <1>3 DEF MoveStep, SelfInv
  <2>2. \A s \in Slots : Goes(call[s], call'[s])
    BY <1>3 DEF MoveStep, Goes
  <2>3. lobby' = lobby /\ tab' = Mounted(to) /\ to \in Entrances \cup Lobbies
    BY <1>3 DEF MoveStep, Made
  <2>4. tab'.path = to /\ tab'.conflict = None
    BY <2>3, MountedIs
  <2>5. NoSelfConflict'
    BY <2>3, <2>4, EntryAssumption DEF NoSelfConflict, InRoom
  <2> QED BY <2>1, <2>2, <2>3, <2>5, ApartKept, AutoKept
<1>4. CASE StayStep \/ OtherStep \/ Asked
  <2>1. /\ UNCHANGED <<guest, crossed>> /\ tab'.path = tab.path /\ tab'.conflict = tab.conflict
        /\ \A l \in Lobbies : lobby'[l].mine = lobby[l].mine
        /\ \A s \in Slots : Goes(call[s], call'[s])
    BY <1>4, AskedIs DEF StayStep, OtherStep, ghosts, Goes
  <2>2. ~guest /\ ~crossed /\ NoSelfConflict /\ Apart /\ AutoSound
    BY <2>1 DEF SelfInv
  <2>3. \A s \in Slots : call[s].then = "auto" /\ call[s].at = "sent" => call[s].on \in Lobbies
    BY NoCallType DEF CallsOK, CallOK, About, Made, TypeOK, CallType
  <2>4. NoSelfConflict'
    BY <2>1, <2>2 DEF NoSelfConflict, InRoom
  <2> QED BY <2>1, <2>2, <2>3, <2>4, ApartKept, AutoKept
<1>5. ASSUME NEW s \in Slots, HereStep(s) PROVE NoSelfConflict' /\ Apart' /\ AutoSound'
  <2> DEFINE c == call[s]
  <2>1. ~guest /\ ~crossed /\ NoSelfConflict /\ Apart /\ AutoSound /\ ~Overtakes(Followed(c)) /\ ~ComesTooLate(Followed(c))
    BY <1>5, HereIs DEF SelfInv
  <2>2. CallOK(c, Made) /\ OnPage(c, tab) /\ c.op # "none" /\ c.at \in {"ok", "conflict", "refused", "failed"}
    BY <1>5, HereIs DEF CallsOK
  <2>3. call'[s] = Followed(c) /\ lobby' = lobby /\ \A r \in Slots : r # s => call'[r] = call[r]
    BY <1>5, HereIs
  <2>4. \/ tab'.conflict \in {tab.conflict, None}
        \/ /\ tab'.conflict = c.got /\ c.at = "conflict" /\ c.page = "mounted"
           /\ c.then \in {"create", "gallery", "auto"}
    BY <1>5, HereIs
  <2>5. NoSelfConflict'
    <3>1. tab'.path = tab.path
      BY <1>5, HereIs
    <3>2. CASE tab'.conflict \in {tab.conflict, None}
      BY <1>0, <2>1, <3>1, <3>2 DEF NoSelfConflict, InRoom
    <3>3. CASE /\ tab'.conflict = c.got /\ c.at = "conflict" /\ c.page = "mounted" /\ c.then \in {"create", "gallery"}
      <4>1. tab.path \in Entrances
        BY <2>2, <3>3 DEF OnPage, Entrances
      <4> QED BY <3>1, <4>1, EntryAssumption DEF NoSelfConflict, InRoom
    <3>4. CASE /\ tab'.conflict = c.got /\ c.at = "conflict" /\ c.page = "mounted" /\ c.then = "auto"
      BY <2>1, <2>2, <3>1, <3>4 DEF OnPage, AutoSound, NoSelfConflict
    <3> QED BY <2>4, <3>2, <3>3, <3>4
  <2>6. \/ Followed(c) = NoCall
        \/ Followed(c).op = "join" /\ Followed(c).then = "auto" /\ Followed(c).at = "sent"
        \/ Followed(c).op = "create" /\ Followed(c).then = "gallery"
    BY <2>2, FollowedIs
  <2>7. Apart'
    BY <2>1, <2>3, ApartOne DEF Overtakes, JoinSent
  <2>8. AutoSound'
    <3>1. Followed(c).op = "join" => lobby[Followed(c).on].mine = {}
      BY <2>1 DEF ComesTooLate
    <3> QED BY <2>1, <2>3, <2>6, <3>1, NoCallType DEF AutoSound
  <2> QED BY <2>5, <2>7, <2>8
<1>6. ASSUME NEW s \in Slots, Handled(s) PROVE NoSelfConflict' /\ Apart' /\ AutoSound'
  <2> DEFINE c == call[s]
  <2>0. c \in CallType /\ CallOK(c, Made)
    BY DEF TypeOK, CallsOK
  <2>1. CASE RejectStep(s)
    <3>1. ~guest /\ ~crossed /\ NoSelfConflict /\ Apart /\ AutoSound /\ lobby' = lobby /\ tab' = tab
      BY <2>1 DEF RejectStep, SelfInv
    <3>2. PICK at \in {"conflict", "refused", "failed"}, l \in Lobbies \cup {None} :
            /\ Answer(s, at, l)
            /\ at = "conflict" => call[s].at = "sent" /\ l \in GetPlayerByUser
      BY <2>1 DEF RejectStep
    <3>3. /\ \A r \in Slots : r # s => call'[r] = call[r]
          /\ call'[s] = NoCall \/ (call'[s].at = at /\ call'[s].got = l /\ call'[s].on = c.on /\ call'[s].then = c.then /\ call'[s].page = c.page)
      BY <3>2, ToldIs
    <3>4. call'[s].at # "sent"
      BY <3>3, NoCallType
    <3>5. AutoSound'
      <4>1. c.at = "sent" /\ c.then = "auto" /\ c.page = "mounted" /\ l \in GetPlayerByUser => l # c.on
        BY <3>1 DEF AutoSound, GetPlayerByUser
      <4> QED BY <3>1, <3>2, <3>3, <3>4, <4>1, NoCallType DEF AutoSound
    <3> QED BY <3>1, <3>3, <3>4, <3>5, ApartOne DEF NoSelfConflict, InRoom
  <2>2. CASE JoinStep(s)
    <3>1. ~guest /\ ~crossed /\ NoSelfConflict /\ Apart /\ AutoSound /\ tab' = tab
      BY <2>2 DEF JoinStep, SelfInv
    <3>2. Answer(s, "ok", c.on) /\ c.on \in Lobbies /\ \A l \in Lobbies : l # c.on => lobby'[l] = lobby[l]
      BY <2>2, SeatedRows DEF JoinStep, Seated, Made
    <3>3. /\ \A r \in Slots : r # s => call'[r] = call[r]
          /\ call'[s] = NoCall \/ call'[s].at = "ok"
      BY <3>2, ToldIs
    <3>4. AutoSound'
      <4> SUFFICES ASSUME NEW r \in Slots, call'[r].then = "auto", call'[r].page = "mounted"
                   PROVE  /\ call'[r].at = "sent" => lobby'[call'[r].on].mine = {}
                          /\ call'[r].at = "conflict" => call'[r].got # call'[r].on
        BY DEF AutoSound
      <4>1. CASE r = s
        BY <3>3, <4>1, NoCallType
      <4>2. CASE r # s
        <5>1. call[r].at = "sent" => call[r].op = "join" /\ call[r].on \in Lobbies /\ call[r].on # c.on
          <6>1. call[r].at = "sent" => call[r].op = "join" /\ call[r].on \in Lobbies
            BY <3>3, <4>2, NoCallType DEF CallsOK, CallOK, About, Made, TypeOK, CallType
          <6>2. JoinSent(c, c.on)
            BY <2>2 DEF JoinStep, JoinSent
          <6> QED BY <3>1, <4>2, <6>1, <6>2 DEF Apart, JoinSent
        <5> QED BY <3>1, <3>2, <3>3, <4>2, <5>1 DEF AutoSound
      <4> QED BY <4>1, <4>2
    <3> QED BY <3>1, <3>3, <3>4, NoCallType, ApartOne DEF NoSelfConflict, InRoom
  <2>3. ASSUME NEW l \in Lobbies, CreateStep(s, l) PROVE NoSelfConflict' /\ Apart' /\ AutoSound'
    <3>1. ~guest /\ ~crossed /\ NoSelfConflict /\ Apart /\ AutoSound /\ tab' = tab
      BY <2>3 DEF CreateStep, SelfInv
    <3>2. Answer(s, "ok", l) /\ l \notin Made /\ \A k \in Lobbies : k # l => lobby'[k] = lobby[k]
      BY <2>3, MadeByRows DEF CreateStep, MadeBy
    <3>3. /\ \A r \in Slots : r # s => call'[r] = call[r]
          /\ call'[s] = NoCall \/ call'[s].at = "ok"
      BY <3>2, ToldIs
    <3>4. AutoSound'
      <4>1. \A r \in Slots : call[r].then = "auto" => call[r].op = "join" /\ call[r].on \in Made
        BY NoCallType DEF CallsOK, CallOK, About, TypeOK, CallType
      <4>2. \A k \in Made : lobby'[k] = lobby[k]
        BY <3>2 DEF Made
      <4> QED BY <3>1, <3>3, <4>1, <4>2, NoCallType DEF AutoSound
    <3> QED BY <3>1, <3>3, <3>4, NoCallType, ApartOne DEF NoSelfConflict, InRoom
  <2>4. ASSUME NEW seat, ForfeitStep(s, seat) PROVE NoSelfConflict' /\ Apart' /\ AutoSound'
    <3>1. ~guest /\ ~crossed /\ NoSelfConflict /\ Apart /\ AutoSound /\ tab' = tab
      BY <2>4 DEF ForfeitStep, SelfInv
    <3>2. Answer(s, "ok", None) /\ c.on \in Made /\ c.on \in Lobbies
      BY <2>0, <2>4 DEF ForfeitStep, CallOK, About, Made
    <3>3. /\ \A r \in Slots : r # s => call'[r] = call[r]
          /\ call'[s] = NoCall \/ call'[s].at = "ok"
      BY <3>2, ToldIs
    <3>4. lobby'[c.on].mine \subseteq lobby[c.on].mine /\ \A k \in Lobbies : k # c.on => lobby'[k] = lobby[k]
      BY <2>4, <3>2, LeavesRows DEF ForfeitStep
    <3>5. AutoSound'
      <4>1. \A r \in Slots : call[r].then = "auto" => call[r].on \in Lobbies
        BY NoCallType DEF CallsOK, CallOK, About, TypeOK, CallType, Made
      <4> QED BY <3>1, <3>3, <3>4, <4>1, NoCallType DEF AutoSound
    <3> QED BY <3>1, <3>3, <3>5, NoCallType, ApartOne DEF NoSelfConflict, InRoom
  <2> QED BY <1>6, <2>1, <2>2, <2>3, <2>4, HandledKinds
<1> QED BY <1>1, <1>2, <1>3, <1>4, <1>5, <1>6 DEF Kinds

----------------------------------------------------------------------------
(* Who has left a table is not brought back *)

\* A guest may sit at one table twice, and is then not away by leaving once.
Twice == \E l \in Lobbies : lobby[l].mine = Seats /\ ~lobby[l].over

Exits(c, l) == c.op = "forfeit" /\ c.then = "exit" /\ c.page = "mounted" /\ c.at = "sent" /\ c.on = l

\* What keeps a page from joining again, as long as it shows the lobby.
Leaving(l) == tab.leaving \/ lobby[l].started

\* No join is under way to a table that was left, and its page does not join.
LeftSound ==
  \A l \in left : ~lobby[l].over =>
    /\ l \notin GetPlayerByUser
    /\ \A s \in Slots : ~JoinSent(call[s], l)
    /\ tab.path = l => tab.leaving

\* Nor to one that is being left.
ExitSound ==
  \A s \in Slots : \A l \in Lobbies : Exits(call[s], l) =>
    /\ Leaving(l)
    /\ lobby[l].started \/ \A r \in Slots : ~JoinSent(call[r], l)

LeaveInv == left \subseteq Made /\ (~crossed => ~Twice /\ LeftSound /\ ExitSound)

LEMMA GoesIs ==
  ASSUME NEW c, NEW d, Goes(c, d), NEW l
  PROVE  (JoinSent(d, l) => JoinSent(c, l)) /\ (Exits(d, l) => Exits(c, l))
BY NoCallType DEF Goes, JoinSent, Exits, Unmounted

\* The rows change for the better, the requests are the ones they were.
LEMMA LeaveKept ==
  ASSUME ~Twice, LeftSound, ExitSound, \A s \in Slots : Goes(call[s], call'[s]),
         left' \subseteq left, left \subseteq Lobbies, GetPlayerByUser' \subseteq GetPlayerByUser,
         \A l \in Lobbies : /\ lobby'[l].mine = lobby[l].mine
                            /\ lobby[l].over => lobby'[l].over
                            /\ lobby[l].started => lobby'[l].started,
         \/ tab'.path = tab.path /\ (tab.leaving => tab'.leaving)
         \/ tab'.path \notin left' /\ \A s \in Slots : \A l \in Lobbies : ~Exits(call'[s], l)
  PROVE  ~Twice' /\ LeftSound' /\ ExitSound'
<1>1. ~Twice'
  BY DEF Twice
<1>2. LeftSound'
  BY GoesIs DEF LeftSound
<1>3. ExitSound'
  BY GoesIs DEF ExitSound, Leaving
<1> QED BY <1>1, <1>2, <1>3

\* The request that is handled is no longer under way.
LEMMA HandledIs ==
  ASSUME TypeOK, NEW s \in Slots, NEW at \in {"ok", "conflict", "refused", "failed"},
         NEW k \in Lobbies \cup {None}, Answer(s, at, k)
  PROVE  \A r \in Slots : \A l :
           /\ JoinSent(call'[r], l) => r # s /\ JoinSent(call[r], l)
           /\ Exits(call'[r], l) => r # s /\ Exits(call[r], l)
BY ToldIs, NoCallType DEF JoinSent, Exits

LEMMA LeaveEdit == ASSUME BaseInv, LeaveInv, EditStep \/ StayStep \/ OtherStep \/ Asked PROVE LeaveInv'
<1> USE DEF BaseInv
<1>1. /\ UNCHANGED <<guest, crossed>> /\ tab'.path = tab.path /\ (tab.leaving => tab'.leaving)
      /\ \A l \in Lobbies : /\ lobby'[l].mine = lobby[l].mine /\ lobby'[l].made = lobby[l].made
                            /\ lobby[l].over => lobby'[l].over
                            /\ lobby[l].started => lobby'[l].started
      /\ left' \subseteq left
      /\ \A s \in Slots : Goes(call[s], call'[s])
  <2>1. CASE EditStep
    BY <2>1 DEF EditStep, Edited, ghosts, Goes
  <2>2. CASE StayStep
    BY <2>2 DEF StayStep, Goes
  <2>3. CASE OtherStep
    BY <2>3 DEF OtherStep, ghosts, Goes
  <2>4. CASE Asked
    BY <2>4, AskedIs DEF Goes
  <2> QED BY <2>1, <2>2, <2>3, <2>4
<1>2. GetPlayerByUser' \subseteq GetPlayerByUser
  BY <1>1 DEF GetPlayerByUser
<1>3. Made' = Made /\ left \subseteq Lobbies
  BY <1>1 DEF Made, LeaveInv
<1>4. CASE ~crossed
  <2>1. ~Twice' /\ LeftSound' /\ ExitSound'
    BY <1>1, <1>2, <1>3, <1>4, LeaveKept DEF LeaveInv
  <2> QED BY <1>1, <1>3, <2>1 DEF LeaveInv
<1> QED BY <1>1, <1>3, <1>4 DEF LeaveInv

LEMMA LeaveMove == ASSUME BaseInv, LeaveInv, NEW to, MoveStep(to) PROVE LeaveInv'
<1> USE DEF BaseInv
<1>1. UNCHANGED <<guest, lobby, crossed>> /\ left' = left \ {to} /\ tab' = Mounted(to) /\ to \in Entrances \cup Lobbies
      /\ \A s \in Slots : call'[s] = NoCall \/ Unmounted(call[s], call'[s])
  BY DEF MoveStep, Made
<1>2. tab'.path = to
  BY <1>1, MountedIs
<1>3. Made' = Made /\ GetPlayerByUser' = GetPlayerByUser /\ left \subseteq Lobbies
  BY <1>1 DEF Made, GetPlayerByUser, LeaveInv
<1>4. \A s \in Slots : Goes(call[s], call'[s]) /\ \A l \in Lobbies : ~Exits(call'[s], l)
  BY <1>1, NoCallType DEF Goes, Exits, Unmounted
<1>5. CASE ~crossed
  <2>1. ~Twice' /\ LeftSound' /\ ExitSound'
    BY <1>1, <1>2, <1>3, <1>4, <1>5, LeaveKept DEF LeaveInv
  <2> QED BY <1>1, <1>3, <2>1 DEF LeaveInv
<1> QED BY <1>1, <1>3, <1>5 DEF LeaveInv

LEMMA LeaveSend == ASSUME BaseInv, LeaveInv, NEW c, SendStep(c) PROVE LeaveInv'
<1> USE DEF BaseInv
<1>1. PICK s \in Slots : call[s].op = "none" /\ call' = [call EXCEPT ![s] = c]
  BY DEF SendStep
<1>2. call'[s] = c /\ \A r \in Slots : r # s => call'[r] = call[r]
  BY <1>1 DEF TypeOK
<1>3. /\ UNCHANGED <<guest, lobby>> /\ tab'.path = tab.path /\ (tab.leaving => tab'.leaving)
      /\ left' = (IF c.op = "join" /\ c.then # "auto" THEN left \ {c.on} ELSE left)
      /\ crossed' = (crossed \/ Overtakes(c))
  BY DEF SendStep, Edited
<1>4. Made' = Made /\ GetPlayerByUser' = GetPlayerByUser /\ left' \subseteq Made
  BY <1>3 DEF Made, GetPlayerByUser, LeaveInv
<1>5. CASE ~crossed'
  <2>1. ~crossed /\ ~Overtakes(c) /\ ~Twice /\ LeftSound /\ ExitSound
    BY <1>3, <1>5 DEF LeaveInv
  <2>2. ~Twice'
    BY <1>3, <2>1 DEF Twice
  <2>3. c.then = "auto" => c.on \in Lobbies /\ ~tab.leaving /\ ~lobby[c.on].started
    BY DEF SendStep, Sendable
  <2>4. OnPage(c, tab') /\ c.op # "none" /\ c.page = "mounted" /\ c.at = "sent" /\ CallOK(c, Made)
    BY DEF SendStep, Sendable
  <2>5. LeftSound'
    <3> SUFFICES ASSUME NEW l \in left', ~lobby[l].over
                 PROVE  /\ l \notin GetPlayerByUser
                        /\ \A r \in Slots : ~JoinSent(call'[r], l)
                        /\ tab'.path = l => tab'.leaving
      BY <1>3, <1>4 DEF LeftSound
    <3>1. l \in left /\ (c.op = "join" /\ c.then # "auto" => l # c.on)
      BY <1>3
    <3>2. l \notin GetPlayerByUser /\ (\A r \in Slots : ~JoinSent(call[r], l)) /\ (tab.path = l => tab.leaving)
      BY <2>1, <3>1 DEF LeftSound
    <3>3. ~JoinSent(c, l)
      <4>1. c.op = "join" /\ c.then = "auto" => tab.path = c.on
        BY <1>3, <2>4 DEF OnPage
      <4> QED BY <2>3, <3>1, <3>2, <4>1 DEF JoinSent
    <3> QED BY <1>2, <1>3, <3>2, <3>3
  <2>6. ExitSound'
    <3> SUFFICES ASSUME NEW r \in Slots, NEW l \in Lobbies, Exits(call'[r], l)
                 PROVE  /\ tab'.leaving \/ lobby[l].started
                        /\ lobby[l].started \/ \A q \in Slots : ~JoinSent(call'[q], l)
      BY <1>3 DEF ExitSound, Leaving
    <3>1. CASE r = s
      <4>1. c.op = "forfeit" /\ c.then = "exit" /\ c.on = l
        BY <1>2, <3>1 DEF Exits
      <4>2. tab'.leaving \/ lobby[l].started
        BY <4>1 DEF SendStep, Sendable
      <4>3. \A q \in Slots : ~JoinSent(call'[q], l)
        BY <1>2, <2>1, <4>1 DEF Overtakes, JoinSent
      <4> QED BY <4>2, <4>3
    <3>2. CASE r # s
      <4>1. Exits(call[r], l) /\ OnPage(call[r], tab)
        BY <1>2, <3>2 DEF CallsOK
      <4>2. tab.path = l /\ (tab.leaving \/ lobby[l].started) /\ (lobby[l].started \/ \A q \in Slots : ~JoinSent(call[q], l))
        BY <2>1, <4>1 DEF ExitSound, Leaving, Exits, OnPage
      <4>3. ~JoinSent(c, l) \/ lobby[l].started
        <5>1. c.op = "join" => c.then \in {"home", "browse", "auto"}
          BY <2>4 DEF CallOK, About
        <5>2. c.op = "join" => c.then = "auto"
          BY <1>3, <2>4, <4>2, <5>1, EntryAssumption DEF OnPage, Entrances
        <5> QED BY <2>3, <4>2, <5>2 DEF JoinSent
      <4> QED BY <1>2, <1>3, <4>2, <4>3
    <3> QED BY <3>1, <3>2
  <2> QED BY <1>4, <2>2, <2>5, <2>6 DEF LeaveInv
<1> QED BY <1>4, <1>5 DEF LeaveInv

LEMMA LeaveHere == ASSUME BaseInv, LeaveInv, NEW s \in Slots, HereStep(s) PROVE LeaveInv'
<1> USE DEF BaseInv
<1> DEFINE c == call[s]
<1> DEFINE d == Followed(c)
<1>1. /\ UNCHANGED <<guest, lobby, left>> /\ tab'.path = tab.path /\ tab'.leaving = tab.leaving
      /\ crossed' = (crossed \/ Overtakes(d) \/ ComesTooLate(d))
      /\ call'[s] = d /\ \A r \in Slots : r # s => call'[r] = call[r]
  BY HereIs
<1>2. Made' = Made /\ GetPlayerByUser' = GetPlayerByUser
  BY <1>1 DEF Made, GetPlayerByUser
<1>3. d.op # "forfeit"
  BY HereIs, FollowedIs, NoCallType
<1>4. CASE ~crossed'
  <2>1. ~ComesTooLate(d) /\ ~Twice /\ LeftSound /\ ExitSound
    BY <1>1, <1>4 DEF LeaveInv
  <2>2. \A l : JoinSent(d, l) => l \notin left /\ \A r \in Slots : ~Exits(call[r], l)
    BY <2>1 DEF ComesTooLate, JoinSent, Exits
  <2>3. \A r \in Slots : \A l : Exits(call'[r], l) => Exits(call[r], l)
    BY <1>1, <1>3 DEF Exits
  <2>4. \A r \in Slots : \A l : JoinSent(call'[r], l) => JoinSent(call[r], l) \/ JoinSent(d, l)
    BY <1>1
  <2>5. ~Twice' /\ LeftSound'
    BY <1>1, <1>2, <2>1, <2>2, <2>4 DEF Twice, LeftSound
  <2>6. ExitSound'
    BY <1>1, <2>1, <2>2, <2>3, <2>4 DEF ExitSound, Leaving
  <2> QED BY <1>1, <1>2, <2>5, <2>6 DEF LeaveInv
<1> QED BY <1>1, <1>2, <1>4 DEF LeaveInv

LEMMA LeaveHandled == ASSUME BaseInv, LeaveInv, NEW s \in Slots, Handled(s) PROVE LeaveInv'
<1> USE DEF BaseInv
<1> DEFINE c == call[s]
<1>0. CallOK(c, Made) /\ Made \subseteq Lobbies /\ left \subseteq Made
  BY DEF CallsOK, Made, LeaveInv
<1>1. CASE RejectStep(s)
  <2>1. UNCHANGED <<guest, lobby, tab, left>> /\ (crossed => crossed')
    BY <1>1 DEF RejectStep
  <2>2. PICK at \in {"conflict", "refused", "failed"}, k \in Lobbies \cup {None} : Answer(s, at, k)
    BY <1>1 DEF RejectStep
  <2>3. \A r \in Slots : \A l : /\ JoinSent(call'[r], l) => JoinSent(call[r], l)
                                /\ Exits(call'[r], l) => Exits(call[r], l)
    BY <2>2, HandledIs
  <2>4. Made' = Made /\ GetPlayerByUser' = GetPlayerByUser
    BY <2>1 DEF Made, GetPlayerByUser
  <2> QED BY <2>1, <2>3, <2>4 DEF LeaveInv, Twice, LeftSound, ExitSound, Leaving
<1>2. CASE JoinStep(s)
  <2>1. UNCHANGED <<guest, tab, left>> /\ crossed' = (crossed \/ SitsTwice(s)) /\ c.op = "join" /\ c.at = "sent"
        /\ GetPlayerByUser = {} /\ Count(c.on) < 2
    BY <1>2 DEF JoinStep, Seated
  <2>2. /\ c.on \in Made /\ c.on \in Lobbies /\ GetPlayerByUser' \subseteq {c.on}
        /\ lobby'[c.on].mine = lobby[c.on].mine \cup {"joiner"}
        /\ \A l \in Lobbies : l # c.on => lobby'[l] = lobby[l]
        /\ \A l \in Lobbies : /\ lobby'[l].made = lobby[l].made /\ lobby'[l].over = lobby[l].over
                              /\ lobby'[l].started = lobby[l].started
    BY <1>0, <1>2, SeatedRows DEF JoinStep
  <2>3. \A r \in Slots : \A l : /\ JoinSent(call'[r], l) => JoinSent(call[r], l)
                                /\ Exits(call'[r], l) => Exits(call[r], l)
    BY <1>2, <2>2, HandledIs DEF JoinStep, Seated
  <2>4. Made' = Made
    BY <2>2 DEF Made
  <2>5. CASE ~crossed'
    <3>1. ~crossed /\ ~SitsTwice(s) /\ ~Twice /\ LeftSound /\ ExitSound
      BY <2>1, <2>5 DEF LeaveInv
    <3>2. ~Twice'
      <4>1. lobby'[c.on].mine = Seats => lobby'[c.on].over
        BY <2>1, <2>2, <3>1 DEF SitsTwice, Seats
      <4> QED BY <2>2, <3>1, <4>1 DEF Twice
    <3>3. \A l \in left : ~lobby[l].over => l # c.on
      BY <2>1, <3>1 DEF LeftSound, JoinSent
    <3>4. LeftSound'
      BY <1>0, <2>1, <2>2, <2>3, <3>1, <3>3 DEF LeftSound
    <3>5. ExitSound'
      BY <2>1, <2>2, <2>3, <3>1 DEF ExitSound, Leaving
    <3> QED BY <1>0, <2>1, <2>4, <3>2, <3>4, <3>5 DEF LeaveInv
  <2> QED BY <1>0, <2>1, <2>4, <2>5 DEF LeaveInv
<1>3. ASSUME NEW k \in Lobbies, CreateStep(s, k) PROVE LeaveInv'
  <2>1. UNCHANGED <<guest, tab, left, crossed>> /\ c.op = "create" /\ Answer(s, "ok", k) /\ GetPlayerByUser = {}
    BY <1>3 DEF CreateStep, MadeBy
  <2>2. k \notin Made /\ lobby'[k] = NewLobby(c) /\ GetPlayerByUser' \subseteq {k}
        /\ \A l \in Lobbies : l # k => lobby'[l] = lobby[l]
    BY <1>3, <2>1, MadeByRows DEF CreateStep
  <2>3. lobby'[k].made /\ lobby'[k].mine = {"host"}
    BY <2>1, <2>2, NewLobbyIs
  <2>4. \A r \in Slots : \A l : /\ JoinSent(call'[r], l) => JoinSent(call[r], l)
                                /\ Exits(call'[r], l) => Exits(call[r], l)
    BY <2>1, HandledIs
  <2>5. Made \subseteq Made' /\ \A l \in Made : lobby'[l] = lobby[l]
    BY <2>2 DEF Made
  <2>6. CASE ~crossed
    <3>1. ~Twice'
      BY <2>2, <2>3, <2>6 DEF LeaveInv, Twice, Seats
    <3>2. LeftSound'
      BY <1>0, <2>1, <2>2, <2>4, <2>5, <2>6 DEF LeaveInv, LeftSound
    <3>3. ExitSound'
      <4>1. \A r \in Slots : \A l : Exits(call[r], l) => l \in Made
        BY DEF CallsOK, CallOK, About, Exits
      <4> QED BY <2>1, <2>4, <2>5, <2>6, <4>1 DEF LeaveInv, ExitSound, Leaving
    <3> QED BY <1>0, <2>1, <2>5, <3>1, <3>2, <3>3 DEF LeaveInv
  <2> QED BY <1>0, <2>1, <2>5, <2>6 DEF LeaveInv
<1>4. ASSUME NEW seat, ForfeitStep(s, seat) PROVE LeaveInv'
  <2> DEFINE k == c.on
  <2>1. UNCHANGED <<guest, tab, crossed>> /\ c.op = "forfeit" /\ c.at = "sent" /\ Answer(s, "ok", None) /\ seat \in lobby[k].mine
        /\ left' = IF c.then = "exit" /\ c.page = "mounted" THEN left \cup {k} ELSE left
    BY <1>4 DEF ForfeitStep
  <2>2. k \in Made /\ k \in Lobbies
    BY <1>0, <2>1 DEF CallOK, About
  <2>3. /\ \A l \in Lobbies : l # k => lobby'[l] = lobby[l]
        /\ lobby'[k].mine \subseteq lobby[k].mine
        /\ lobby'[k].over \/ (~lobby[k].started /\ lobby'[k].mine = lobby[k].mine \ {seat})
        /\ \A l \in Lobbies : lobby'[l].made = lobby[l].made /\ (lobby[l].over => lobby'[l].over) /\ lobby'[l].started = lobby[l].started
        /\ GetPlayerByUser' \subseteq GetPlayerByUser
    BY <1>4, <2>1, <2>2, LeavesRows DEF ForfeitStep
  <2>4. \A r \in Slots : \A l : /\ JoinSent(call'[r], l) => JoinSent(call[r], l)
                                /\ Exits(call'[r], l) => r # s /\ Exits(call[r], l)
    BY <2>1, HandledIs
  <2>5. Made' = Made /\ left' \subseteq Made
    BY <1>0, <2>1, <2>2, <2>3 DEF Made
  <2>6. CASE ~crossed
    <3>0. ~Twice /\ LeftSound /\ ExitSound
      BY <2>6 DEF LeaveInv
    <3>1. lobby[k].mine \subseteq Seats
      BY <2>2 DEF TypeOK, RowType
    <3>2. lobby'[k].over \/ lobby'[k].mine = {}
      BY <2>1, <2>2, <2>3, <3>0, <3>1 DEF Twice, Seats
    <3>3. ~Twice'
      BY <2>2, <2>3, <3>0, <3>2 DEF Twice, Seats
    <3>4. k \notin GetPlayerByUser'
      BY <3>2 DEF GetPlayerByUser
    <3>5. LeftSound'
      <4> SUFFICES ASSUME NEW l \in left', ~lobby'[l].over
                   PROVE  /\ l \notin GetPlayerByUser'
                          /\ \A r \in Slots : ~JoinSent(call[r], l)
                          /\ tab.path = l => tab.leaving
        BY <2>1, <2>4 DEF LeftSound
      <4>1. CASE l \in left
        BY <1>0, <2>3, <3>0, <4>1 DEF LeftSound
      <4>2. CASE l \notin left
        <5>1. l = k /\ Exits(c, k)
          BY <2>1, <4>2 DEF Exits
        <5>2. ~lobby[k].started
          BY <2>2, <2>3, <5>1
        <5> QED BY <2>2, <3>0, <3>4, <5>1, <5>2 DEF ExitSound, Leaving
      <4> QED BY <4>1, <4>2
    <3>6. ExitSound'
      BY <2>1, <2>3, <2>4, <3>0 DEF ExitSound, Leaving
    <3> QED BY <2>1, <2>5, <3>3, <3>5, <3>6 DEF LeaveInv
  <2> QED BY <2>1, <2>5, <2>6 DEF LeaveInv
<1> QED BY <1>1, <1>2, <1>3, <1>4, HandledKinds

LEMMA LeaveStep == ASSUME BaseInv, LeaveInv, Kinds PROVE LeaveInv'
BY LeaveEdit, LeaveMove, LeaveSend, LeaveHere, LeaveHandled DEF Kinds

----------------------------------------------------------------------------
(* The way back to a game is always offered *)

\* An answer that will take the user to the seat it tells of.
Brings(c) == c.at = "ok" /\ c.then \in {"home", "browse", "create", "gallery"}
Brought == \E s \in Slots : Brings(call[s])

\* The navigation bar shows the game, or is about to be told, or the user is
\* about to be taken there.
Offered == ~InRoom => \A l \in GetPlayerByUser : tab.nav = l \/ tab.asking \/ Brought

\* It forgets a game only when it is one no longer.
ForgetSound ==
  \A s \in Slots : call[s].then = "forget" /\ call[s].page = "mounted" =>
    /\ ~tab.asking
    /\ tab.nav \in {None, call[s].on}
    /\ call[s].at \in {"sent", "ok", "refused"}
    /\ call[s].at # "sent" => call[s].on \notin GetPlayerByUser \/ Brought

SeatInv == ~astray => ~Twice /\ Offered /\ ForgetSound

\* A page that forgets a game is no room.
LEMMA ForgetsOutside ==
  ASSUME BaseInv, NEW s \in Slots, call[s].then = "forget", call[s].page = "mounted"
  PROVE  ~InRoom /\ call[s].op = "forfeit"
<1>1. call[s].op = "forfeit" /\ OnPage(call[s], tab)
  BY NoCallType DEF BaseInv, CallsOK, CallOK, About, TypeOK, CallType
<1> QED BY <1>1, EntryAssumption DEF OnPage, InRoom

\* Nothing is found that was not, and what is on its way stays so.
LEMMA SeatKept ==
  ASSUME Offered, ForgetSound, GetPlayerByUser' \subseteq GetPlayerByUser,
         tab'.path = tab.path, tab'.nav = tab.nav, tab'.asking = tab.asking, InRoom \/ (Brought => Brought'),
         ~InRoom => \A s \in Slots : call'[s].then = "forget" /\ call'[s].page = "mounted" => call'[s] = call[s]
  PROVE  /\ Offered'
         /\ ~InRoom => ForgetSound'
BY DEF Offered, ForgetSound, InRoom

LEMMA SeatEdit == ASSUME BaseInv, SeatInv, EditStep \/ StayStep \/ OtherStep PROVE SeatInv'
<1> USE DEF BaseInv
<1>1. /\ UNCHANGED <<guest, astray>> /\ tab'.path = tab.path /\ tab'.nav = tab.nav /\ tab'.asking = tab.asking
      /\ \A l \in Lobbies : lobby'[l].mine = lobby[l].mine /\ (lobby[l].over => lobby'[l].over)
      /\ \A s \in Slots : \/ call'[s] = call[s] \/ Unmounted(call[s], call'[s])
                          \/ call'[s] = NoCall /\ (InRoom \/ call[s].op = "forfeit")
  BY DEF EditStep, Edited, StayStep, OtherStep, ghosts
<1>2. GetPlayerByUser' \subseteq GetPlayerByUser /\ InRoom' = InRoom
  BY <1>1 DEF GetPlayerByUser, InRoom
<1>3. \A s \in Slots : call[s].op = "forfeit" => ~Brings(call[s])
  BY DEF Brings, CallsOK, CallOK, About
<1>4. InRoom \/ (Brought => Brought')
  BY <1>1, <1>3 DEF Brought, Brings, Unmounted
<1>5. \A s \in Slots : call'[s].then = "forget" /\ call'[s].page = "mounted" => call'[s] = call[s]
  BY <1>1, NoCallType DEF Unmounted
<1>6. CASE ~astray
  <2>1. ~Twice' /\ Offered' /\ (~InRoom => ForgetSound')
    BY <1>1, <1>2, <1>4, <1>5, <1>6, SeatKept DEF SeatInv, Twice
  <2>2. InRoom => ForgetSound'
    BY <1>5, ForgetsOutside DEF ForgetSound
  <2> QED BY <2>1, <2>2 DEF SeatInv
<1> QED BY <1>1, <1>6 DEF SeatInv

LEMMA SeatSend == ASSUME BaseInv, SeatInv, NEW c, SendStep(c) PROVE SeatInv'
<1> USE DEF BaseInv
<1>1. PICK s \in Slots : call[s].op = "none" /\ call' = [call EXCEPT ![s] = c]
  BY DEF SendStep
<1>2. call'[s] = c /\ \A r \in Slots : r # s => call'[r] = call[r]
  BY <1>1 DEF TypeOK
<1>3. /\ UNCHANGED <<guest, lobby, astray>> /\ tab'.path = tab.path /\ tab'.nav = tab.nav /\ tab'.asking = tab.asking
      /\ c.at = "sent" /\ (c.then = "forget" => c.on = tab.nav /\ ~tab.asking)
  BY DEF SendStep, Edited, Sendable
<1>4. GetPlayerByUser' = GetPlayerByUser /\ InRoom' = InRoom
  BY <1>3 DEF GetPlayerByUser, InRoom
<1>5. Brought => Brought'
  <2>1. ~Brings(call[s])
    BY <1>1, NoCallType DEF Brings, CallsOK, CallOK, About
  <2> QED BY <1>2, <2>1 DEF Brought
<1>6. CASE ~astray
  <2>1. ~Twice' /\ Offered'
    BY <1>3, <1>4, <1>5, <1>6 DEF SeatInv, Twice, Offered
  <2>2. ForgetSound'
    BY <1>2, <1>3, <1>4, <1>5, <1>6 DEF SeatInv, ForgetSound
  <2> QED BY <2>1, <2>2 DEF SeatInv
<1> QED BY <1>3, <1>6 DEF SeatInv

LEMMA SeatMove == ASSUME BaseInv, SeatInv, NEW to, MoveStep(to) PROVE SeatInv'
<1> USE DEF BaseInv
<1>1. UNCHANGED <<guest, lobby, astray>> /\ tab' = Mounted(to) /\ to \in Entrances \cup Lobbies
      /\ \A s \in Slots : call'[s] = NoCall \/ Unmounted(call[s], call'[s])
  BY DEF MoveStep, Made
<1>2. tab'.path = to /\ tab'.asking = (to \in Entrances)
  BY <1>1, MountedIs
<1>3. Offered'
  BY <1>1, <1>2 DEF Offered, InRoom
<1>4. ForgetSound'
  BY <1>1, NoCallType DEF ForgetSound, Unmounted
<1> QED BY <1>1, <1>3, <1>4 DEF SeatInv, Twice

LEMMA SeatAsked == ASSUME BaseInv, SeatInv, Asked PROVE SeatInv'
<1> USE DEF BaseInv
<1>1. /\ UNCHANGED <<guest, lobby, call>> /\ tab.asking /\ (astray => astray') /\ tab'.path = tab.path
      /\ astray' \/ GetPlayerByUser = {} \/ tab'.nav \in GetPlayerByUser
  BY AskedIs
<1>2. GetPlayerByUser' = GetPlayerByUser
  BY <1>1 DEF GetPlayerByUser
<1>3. CASE ~astray'
  <2>1. ~Twice' /\ ForgetSound'
    BY <1>1, <1>3 DEF SeatInv, Twice, ForgetSound
  <2>2. Offered'
    BY <1>1, <1>2, <1>3 DEF Offered, OneSeat
  <2> QED BY <2>1, <2>2 DEF SeatInv
<1> QED BY <1>3 DEF SeatInv

LEMMA SeatHere == ASSUME BaseInv, SeatInv, NEW s \in Slots, HereStep(s) PROVE SeatInv'
<1> USE DEF BaseInv
<1> DEFINE c == call[s]
<1>1. /\ UNCHANGED <<guest, lobby, astray>> /\ tab'.path = tab.path /\ tab'.asking = tab.asking
      /\ c.at \in {"ok", "conflict", "refused", "failed"} /\ c.op # "none"
      /\ call'[s] = Followed(c) /\ \A r \in Slots : r # s => call'[r] = call[r]
      /\ tab'.nav = tab.nav \/ (tab'.nav = None /\ c.then = "forget" /\ c.page = "mounted")
  BY HereIs
<1>2. GetPlayerByUser' = GetPlayerByUser /\ InRoom' = InRoom
  BY <1>1 DEF GetPlayerByUser, InRoom
<1>3. ~Brings(c)
  <2> SUFFICES ASSUME Brings(c) PROVE FALSE
    OBVIOUS
  <2>1. c.at = "ok" /\ CallOK(c, Made) /\ c \in CallType
    BY DEF Brings, CallsOK, TypeOK
  <2>2. /\ c.then = "browse" => c.on \in Made
        /\ c.then \in {"home", "create", "gallery"} => c.got \in Made
    BY <1>1, <2>1 DEF CallOK, About, CallType
  <2>3. Destination(c) \in Made
    BY <2>1, <2>2 DEF Brings, Destination
  <2> QED BY <2>3, EntryAssumption DEF HereStep, Made
<1>4. Brought => Brought'
  BY <1>1, <1>3 DEF Brought
<1>5. Followed(c).then # "forget"
  BY <1>1, FollowedIs, NoCallType
<1>6. CASE ~astray
  <2>1. ~Twice' /\ Offered /\ ForgetSound
    BY <1>1, <1>6 DEF SeatInv, Twice
  <2>2. Offered'
    <3>1. CASE tab'.nav = tab.nav
      BY <1>1, <1>2, <1>4, <2>1, <3>1 DEF Offered
    <3>2. CASE c.then = "forget" /\ c.page = "mounted"
      <4>1. tab.nav \in {None, c.on} /\ (c.on \notin GetPlayerByUser \/ Brought)
        BY <1>1, <2>1, <3>2 DEF ForgetSound
      <4>2. \A l \in GetPlayerByUser : l # None
        BY EntryAssumption DEF GetPlayerByUser
      <4> QED BY <1>1, <1>2, <1>4, <2>1, <4>1, <4>2 DEF Offered
    <3> QED BY <1>1, <3>1, <3>2
  <2>3. ForgetSound'
    BY <1>1, <1>2, <1>4, <1>5, <2>1 DEF ForgetSound
  <2> QED BY <2>1, <2>2, <2>3 DEF SeatInv
<1> QED BY <1>1, <1>6 DEF SeatInv

LEMMA SeatHandled == ASSUME BaseInv, SeatInv, NEW s \in Slots, Handled(s) PROVE SeatInv'
<1> USE DEF BaseInv
<1> DEFINE c == call[s]
<1>0. CallOK(c, Made) /\ OnPage(c, tab) /\ c \in CallType /\ Made \subseteq Lobbies
  BY DEF CallsOK, TypeOK, Made
<1>1. CASE RejectStep(s)
  <2>1. UNCHANGED <<guest, lobby, tab>> /\ (astray => astray')
    BY <1>1 DEF RejectStep
  <2>2. PICK at \in {"conflict", "refused", "failed"}, k \in Lobbies \cup {None} :
          /\ Answer(s, at, k)
          /\ at = "conflict" => c.at = "sent" /\ c.op \in {"join", "create"}
          /\ at = "refused" => /\ c.at = "sent"
                               /\ c.op = "forfeit" => lobby[c.on].mine = {}
          /\ at = "failed" /\ ~InRoom /\ (c.at = "ok" \/ c.then = "forget") => astray'
    BY <1>1 DEF RejectStep
  <2>3. /\ \A r \in Slots : r # s => call'[r] = call[r]
        /\ call'[s] = NoCall \/ (call'[s].at = at /\ call'[s].on = c.on /\ call'[s].then = c.then /\ call'[s].page = c.page)
    BY <2>2, ToldIs
  <2>4. GetPlayerByUser' = GetPlayerByUser /\ InRoom' = InRoom
    BY <2>1 DEF GetPlayerByUser, InRoom
  <2>5. CASE ~astray'
    <3>1. ~Twice' /\ Offered /\ ForgetSound
      BY <2>1, <2>5 DEF SeatInv, Twice
    <3>2. InRoom \/ (Brought => Brought')
      <4>1. InRoom \/ ~Brings(c)
        BY <2>2, <2>5 DEF Brings
      <4> QED BY <2>3, <4>1 DEF Brought
    <3>3. Offered'
      BY <2>1, <2>4, <3>1, <3>2 DEF Offered
    <3>4. ForgetSound'
      <4> SUFFICES ASSUME NEW r \in Slots, call'[r].then = "forget", call'[r].page = "mounted"
                   PROVE  /\ ~tab.asking
                          /\ tab.nav \in {None, call'[r].on}
                          /\ call'[r].at \in {"sent", "ok", "refused"}
                          /\ call'[r].at # "sent" => call'[r].on \notin GetPlayerByUser \/ Brought'
        BY <2>1, <2>4 DEF ForgetSound
      <4>1. call[r].then = "forget" /\ call[r].page = "mounted" /\ call'[r].on = call[r].on
        BY <2>3, NoCallType
      <4>2. ~InRoom /\ call[r].op = "forfeit"
        BY <4>1, ForgetsOutside
      <4>3. CASE r # s
        BY <2>3, <3>1, <3>2, <4>2, <4>3 DEF ForgetSound
      <4>4. CASE r = s
        <5>1. at = "refused" /\ call'[s].at = "refused"
          BY <2>2, <2>3, <2>5, <4>1, <4>2, <4>4, NoCallType
        <5>2. c.on \notin GetPlayerByUser
          BY <2>2, <4>2, <4>4, <5>1 DEF GetPlayerByUser
        <5> QED BY <3>1, <4>1, <4>4, <5>1, <5>2 DEF ForgetSound
      <4> QED BY <4>3, <4>4
    <3> QED BY <3>1, <3>3, <3>4 DEF SeatInv
  <2> QED BY <2>5 DEF SeatInv
<1>2. CASE JoinStep(s)
  <2>1. UNCHANGED <<guest, tab>> /\ c.op = "join" /\ c.at = "sent" /\ Answer(s, "ok", c.on)
        /\ GetPlayerByUser = {} /\ Count(c.on) < 2 /\ astray' = (astray \/ Unseen(s) \/ SitsTwice(s))
    BY <1>2 DEF JoinStep, Seated
  <2>2. /\ c.on \in Made /\ c.on \in Lobbies
        /\ lobby'[c.on].mine = lobby[c.on].mine \cup {"joiner"}
        /\ \A l \in Lobbies : l # c.on => lobby'[l] = lobby[l]
        /\ \A l \in Lobbies : lobby'[l].over = lobby[l].over
    BY <1>0, <1>2, SeatedRows DEF JoinStep
  <2>3. /\ \A r \in Slots : r # s => call'[r] = call[r]
        /\ c.page = "gone" => call'[s] = NoCall
        /\ c.page # "gone" => call'[s].at = "ok" /\ call'[s].then = c.then
    BY <2>1, <2>2, ToldIs
  <2>4. CASE ~astray'
    <3>1. ~astray /\ ~Unseen(s) /\ ~SitsTwice(s) /\ ~Twice /\ Offered /\ ForgetSound
      BY <2>1, <2>4 DEF SeatInv
    <3>2. ~Twice'
      <4>1. lobby'[c.on].mine = Seats => lobby'[c.on].over
        BY <2>1, <2>2, <3>1 DEF SitsTwice, Seats
      <4> QED BY <2>2, <3>1, <4>1 DEF Twice
    <3>3. InRoom \/ Brought'
      <4>1. CASE InRoom
        BY <4>1
      <4>2. CASE ~InRoom
        <5>1. c.page # "gone" /\ (c.then = "auto" => c.page = "mounted")
          BY <1>0, <3>1, <4>2 DEF Unseen, CallType
        <5>2. c.then \in {"home", "browse", "auto"}
          BY <1>0, <2>1 DEF CallOK, About
        <5>3. c.then # "auto"
          BY <1>0, <2>1, <2>2, <4>2, <5>1 DEF OnPage, InRoom
        <5> QED BY <2>3, <5>1, <5>2, <5>3 DEF Brought, Brings
      <4> QED BY <4>1, <4>2
    <3>4. Offered'
      BY <2>1, <3>3 DEF Offered, InRoom
    <3>5. ForgetSound'
      <4>1. \A r \in Slots : call'[r].then = "forget" => call'[r] = call[r]
        BY <1>0, <2>1, <2>3, NoCallType DEF CallOK, About
      <4> QED BY <2>1, <3>1, <3>3, <4>1, ForgetsOutside DEF ForgetSound
    <3> QED BY <3>2, <3>4, <3>5 DEF SeatInv
  <2> QED BY <2>4 DEF SeatInv
<1>3. ASSUME NEW k \in Lobbies, CreateStep(s, k) PROVE SeatInv'
  <2>1. UNCHANGED <<guest, tab>> /\ c.op = "create" /\ c.at = "sent" /\ Answer(s, "ok", k) /\ astray' = (astray \/ Unseen(s))
    BY <1>3 DEF CreateStep, MadeBy
  <2>2. lobby'[k] = NewLobby(c) /\ \A l \in Lobbies : l # k => lobby'[l] = lobby[l]
    BY <1>3, <2>1, MadeByRows DEF CreateStep
  <2>3. lobby'[k].mine = {"host"}
    BY <2>1, <2>2, NewLobbyIs
  <2>4. /\ \A r \in Slots : r # s => call'[r] = call[r]
        /\ c.page = "gone" => call'[s] = NoCall
        /\ c.page # "gone" => call'[s].at = "ok" /\ call'[s].then = c.then
    BY <2>1, ToldIs
  <2>5. c.then \in {"create", "gallery"}
    BY <1>0, <2>1 DEF CallOK, About
  <2>6. CASE ~astray'
    <3>1. ~astray /\ ~Unseen(s) /\ ~Twice /\ Offered /\ ForgetSound
      BY <2>1, <2>6 DEF SeatInv
    <3>2. ~Twice'
      BY <2>2, <2>3, <3>1 DEF Twice, Seats
    <3>3. InRoom \/ Brought'
      BY <2>4, <2>5, <3>1 DEF Unseen, Brought, Brings
    <3>4. Offered'
      BY <2>1, <3>3 DEF Offered, InRoom
    <3>5. ForgetSound'
      <4>1. \A r \in Slots : call'[r].then = "forget" => call'[r] = call[r]
        BY <2>4, <2>5, NoCallType
      <4> QED BY <2>1, <3>1, <3>3, <4>1, ForgetsOutside DEF ForgetSound
    <3> QED BY <3>2, <3>4, <3>5 DEF SeatInv
  <2> QED BY <2>6 DEF SeatInv
<1>4. ASSUME NEW seat, ForfeitStep(s, seat) PROVE SeatInv'
  <2> DEFINE k == c.on
  <2>1. UNCHANGED <<guest, tab, astray>> /\ c.op = "forfeit" /\ c.at = "sent" /\ Answer(s, "ok", None) /\ seat \in lobby[k].mine
    BY <1>4 DEF ForfeitStep
  <2>2. k \in Made /\ k \in Lobbies
    BY <1>0, <2>1 DEF CallOK, About
  <2>3. /\ \A l \in Lobbies : l # k => lobby'[l] = lobby[l]
        /\ lobby'[k].over \/ lobby'[k].mine = lobby[k].mine \ {seat}
        /\ GetPlayerByUser' \subseteq GetPlayerByUser
    BY <1>4, <2>1, <2>2, LeavesRows DEF ForfeitStep
  <2>4. /\ \A r \in Slots : r # s => call'[r] = call[r]
        /\ call'[s] = NoCall \/ (call'[s].at = "ok" /\ call'[s].on = k /\ call'[s].then = c.then /\ call'[s].page = c.page)
    BY <2>1, ToldIs
  <2>5. Brought => Brought'
    BY <2>1, <2>4 DEF Brought, Brings
  <2>6. CASE ~astray
    <3>1. ~Twice /\ Offered /\ ForgetSound
      BY <2>6 DEF SeatInv
    <3>2. lobby[k].mine \subseteq Seats
      BY <2>2 DEF TypeOK, RowType
    <3>3. lobby'[k].over \/ lobby'[k].mine = {}
      <4>1. CASE lobby[k].mine = Seats
        <5>1. lobby[k].over
          BY <2>2, <3>1, <4>1 DEF Twice
        <5>2. lobby'[k].over
          BY <1>4, <2>1, <2>2, <5>1, LeavesRows DEF ForfeitStep
        <5> QED BY <5>2
      <4>2. CASE lobby[k].mine # Seats
        BY <2>1, <2>3, <3>2, <4>2 DEF Seats
      <4> QED BY <4>1, <4>2
    <3>4. ~Twice' /\ k \notin GetPlayerByUser'
      BY <2>2, <2>3, <3>1, <3>3 DEF Twice, Seats, GetPlayerByUser
    <3>5. Offered'
      BY <2>1, <2>3, <2>5, <3>1 DEF Offered, InRoom
    <3>6. ForgetSound'
      BY <2>1, <2>3, <2>4, <2>5, <3>1, <3>4, NoCallType DEF ForgetSound
    <3> QED BY <3>4, <3>5, <3>6 DEF SeatInv
  <2> QED BY <2>1, <2>6 DEF SeatInv
<1> QED BY <1>1, <1>2, <1>3, <1>4, HandledKinds

LEMMA SeatStep == ASSUME BaseInv, SeatInv, Kinds PROVE SeatInv'
BY SeatEdit, SeatSend, SeatMove, SeatAsked, SeatHere, SeatHandled DEF Kinds

----------------------------------------------------------------------------
(* The theorems *)

EntryInv == BaseInv /\ CreatedAsChosen /\ SelfInv /\ LeaveInv /\ SeatInv

LEMMA EntryInit == Init => EntryInv
<1> SUFFICES ASSUME Init PROVE EntryInv
  OBVIOUS
<1>1. BaseInv
  BY BaseInit
<1>2. \A s \in Slots : call[s] = NoCall
  BY DEF Init
<1>3. PICK path \in Entrances : tab = Mounted(path)
  BY DEF Init
<1>4. tab.path = path /\ tab.conflict = None /\ tab.asking
  BY <1>3, MountedIs
<1>5. ASSUME NEW l \in Lobbies PROVE lobby[l].mine # Seats /\ lobby[l].cast = {}
  <2>1. PICK mine \in {{}, {"joiner"}}, guestHost \in BOOLEAN :
          \/ lobby[l] = NoLobby
          \/ lobby[l] = [NoLobby EXCEPT !.made = TRUE, !.guestHost = guestHost, !.other = {"host"}, !.mine = mine]
    BY DEF Init
  <2>2. CASE lobby[l] = NoLobby
    BY <2>2 DEF NoLobby, Seats
  <2>3. CASE lobby[l] = [NoLobby EXCEPT !.made = TRUE, !.guestHost = guestHost, !.other = {"host"}, !.mine = mine]
    <3>1. lobby[l].mine = mine /\ lobby[l].cast = {}
      BY <2>3 DEF NoLobby
    <3>2. "host" \in Seats /\ "host" \notin mine
      BY DEF Seats
    <3> QED BY <3>1, <3>2
  <2> QED BY <2>1, <2>2, <2>3
<1>6. CreatedAsChosen
  BY <1>5 DEF CreatedAsChosen
<1>7. SelfInv
  BY <1>2, <1>4, NoCallType, EntryAssumption DEF SelfInv, NoSelfConflict, InRoom, Apart, AutoSound, JoinSent
<1>8. LeaveInv
  BY <1>2, <1>5, NoCallType DEF Init, LeaveInv, Twice, LeftSound, ExitSound, Exits
<1>9. SeatInv
  BY <1>2, <1>4, <1>5, NoCallType DEF SeatInv, Twice, Offered, ForgetSound
<1> QED BY <1>1, <1>6, <1>7, <1>8, <1>9 DEF EntryInv

LEMMA EntryNext == EntryInv /\ [Next]_vars => EntryInv'
<1> SUFFICES ASSUME EntryInv, [Next]_vars PROVE EntryInv'
  OBVIOUS
<1>1. BaseInv /\ Kinds
  BY KindsHold DEF EntryInv
<1> QED BY <1>1, BaseKept, ChosenStep, SelfStep, LeaveStep, SeatStep DEF EntryInv

LEMMA EntryInvHolds == Spec => []EntryInv
BY EntryInit, EntryNext, PTL DEF Spec

\* The types, what a request is about and on which page its answer is awaited,
\* and that nobody is found in two games (JoinLobby and CreateLobby refuse
\* whoever has a seat).
THEOREM BaseHolds == Spec => []BaseInv
<1>1. EntryInv => BaseInv
  BY DEF EntryInv
<1> QED BY <1>1, EntryInvHolds, PTL

\* Whatever the owner of a set does between choosing and creating, the game has
\* enough characters and chosen ones only, and a timer only with chat.
THEOREM CreatedAsChosenHolds == Spec => []CreatedAsChosen
<1>1. EntryInv => CreatedAsChosen
  BY DEF EntryInv
<1> QED BY <1>1, EntryInvHolds, PTL

\* Whoever has an account is never told, in their own room, that this game is in
\* the way, unless joins overtook each other: the page that joins by itself has
\* no seat when it does, and no other join for its room runs.
THEOREM NoSelfConflictHolds == Spec => []NoSelfConflict
<1>1. EntryInv => NoSelfConflict
  BY DEF EntryInv, SelfInv, NoSelfConflict
<1> QED BY <1>1, EntryInvHolds, PTL

\* A table that was left does not get the user back: no join is under way to it,
\* and the page that shows it knows that it is being left.
THEOREM LeaveIsFinalHolds == Spec => []LeaveIsFinal
<1>1. EntryInv => LeaveIsFinal
  BY DEF EntryInv, BaseInv, LeaveInv, LeftSound, LeaveIsFinal, GetPlayerByUser, Made
<1> QED BY <1>1, EntryInvHolds, PTL

\* A user with a seat who is on another page is shown the way back, is about to
\* be told of it or to be taken there, however navigation and answers interleave.
THEOREM SeatIsKnownHolds == Spec => []SeatIsKnown
<1>1. EntryInv => SeatIsKnown
  <2> SUFFICES ASSUME EntryInv, Settled, ~InRoom, ~astray, NEW l \in GetPlayerByUser PROVE tab.nav = l
    BY DEF SeatIsKnown
  <2>1. ~Brought
    BY NoCallType DEF Settled, Brought, Brings, EntryInv, BaseInv, CallsOK, CallOK, About
  <2> QED BY <2>1 DEF Settled, EntryInv, SeatInv, Offered
<1> QED BY <1>1, EntryInvHolds, PTL

=============================================================================
