-------------------------------- MODULE Entry --------------------------------
(***************************************************************************)
(* How one user gets to a table and away from it: the pages that create,   *)
(* list and join lobbies, the navigation bar that leads back to a running  *)
(* game, and the room page until its game is loaded.                       *)
(*                                                                         *)
(* The requests of a page outlive it: a page that has been left can still  *)
(* take the user to a room.  The server's handlers are one step each here, *)
(* how they interleave is the business of Seats; what the other players do *)
(* is seen in the rows only.                                               *)
(***************************************************************************)
EXTENDS Integers, FiniteSets

CONSTANTS
  Lobbies,    \* the lobbies that exist or may be made
  Sets,       \* the character sets
  Pool,       \* the characters that a set may have, at some time
  First,      \* those that it has at first
  Min,        \* how many of them a game needs at least
  Slots,      \* requests that may run at once
  None,       \* no lobby, no set
  MaxClicks,  \* bound on what the user does and on requests that fail
  MaxChanges  \* bound on edits of a set and on others who leave

Entrances == {"home", "browse", "create", "gallery"}

ASSUME EntryAssumption ==
  /\ \A s \in Sets : IsFiniteSet(Pool[s]) /\ First[s] \subseteq Pool[s] /\ Cardinality(First[s]) >= Min
  /\ First = [s \in Sets |-> First[s]]
  /\ None \notin Lobbies \cup Sets \cup Entrances
  /\ Lobbies \cap Entrances = {}
  /\ Min \in Nat \ {0} /\ MaxClicks \in Nat /\ MaxChanges \in Nat

VARIABLES
  guest,    \* the user has no account
  lobby,    \* the rows of the lobbies and their players
  cast,     \* the characters of each set
  tab,      \* the page in the user's browser
  call,     \* the requests of this page and of earlier ones
  redirect, \* the timer of a page whose lobby was cancelled
  left,     \* ghost: rooms the user has left and not entered again
  crossed,  \* ghost: a join and another request for its lobby may overtake each
            \*        other, or a guest has sat down twice at their own table
  astray,   \* ghost: a seat was won or kept that no page was told of, or kept by
            \*        a guest who had two
  clicks, changes

vars == <<guest, lobby, cast, tab, call, redirect, left, crossed, astray, clicks, changes>>
ghosts == <<left, crossed, astray>>

InRoom == tab.path \in Lobbies

----------------------------------------------------------------------------
(* The rows *)

\* mine and other say which rows of the lobby are the user's and somebody else's;
\* the creator's row and the joiner's name their user in different columns.
NoLobby ==
  [made |-> FALSE, guestHost |-> FALSE, mine |-> {}, other |-> {}, started |-> FALSE,
   over |-> FALSE, cast |-> {}, ids |-> {}, chat |-> TRUE, timer |-> FALSE]

Count(l) == Cardinality(lobby[l].mine) + Cardinality(lobby[l].other)

\* GetPlayerByUser looks for a guest in the column of the joiners only.
GetPlayerByUser ==
  {l \in Lobbies : /\ ~lobby[l].over
                   /\ IF guest THEN "joiner" \in lobby[l].mine ELSE lobby[l].mine # {}}

\* Whether a row of the user has their id in the column user_id.
ByUserId(l) == "host" \in lobby[l].mine \/ (~guest /\ lobby[l].mine # {})

FindLobby ==
  {l \in Lobbies : lobby[l].made /\ Count(l) = 1 /\ ~lobby[l].over /\ ~ByUserId(l)}

\* ForfeitLobby compares the columns of the row with those of the lobby; of
\* two users of a kind, both have nothing in the other column.
IsCreator(seat, isGuest, l) ==
  IF seat = "host" THEN ~isGuest ELSE isGuest = lobby[l].guestHost

----------------------------------------------------------------------------
(* The page *)

NoForm == [set |-> None, copy |-> {}, mode |-> "all", count |-> 0, preview |-> {},
           manual |-> {}, chat |-> TRUE, timer |-> FALSE]
NoView == [known |-> FALSE, count |-> 0, self |-> FALSE, mine |-> FALSE,
           started |-> FALSE, over |-> FALSE]

\* A page when it is mounted; its navigation bar asks for the active lobby.
Mounted(path) ==
  [path |-> path, nav |-> None, asking |-> path \in Entrances, list |-> {}, busy |-> FALSE,
   conflict |-> None, form |-> NoForm, loading |-> {}, view |-> NoView,
   game |-> FALSE, leaving |-> FALSE]

NoCall == [op |-> "none", on |-> None, then |-> "none", room |-> None, ids |-> {}, chat |-> TRUE,
           timer |-> FALSE, page |-> "mounted", at |-> "none", got |-> None]

\* Pushing the path of the page that is shown does not mount it again.
Pushed(path) == IF tab.path = path THEN tab ELSE Mounted(path)
Unmount(c, path) == IF tab.path = path \/ c.op = "none" \/ c.page = "gone" THEN c ELSE [c EXCEPT !.page = "unmounted"]

\* The user opens one of the pages and may have a seat at somebody's table.
Init ==
  /\ guest \in BOOLEAN
  /\ \E made \in SUBSET Lobbies, guestHost \in BOOLEAN : \E joined \in {{}} \cup {{l} : l \in made} :
       lobby = [l \in Lobbies |->
                  IF l \notin made THEN NoLobby
                  ELSE [NoLobby EXCEPT !.made = TRUE, !.guestHost = guestHost, !.other = {"host"},
                                       !.mine = IF l \in joined THEN {"joiner"} ELSE {}]]
  /\ cast = First
  /\ \E path \in Entrances : tab = Mounted(path)
  /\ call = [s \in Slots |-> NoCall]
  /\ redirect = FALSE
  /\ left = {} /\ crossed = FALSE /\ astray = FALSE
  /\ clicks = 0 /\ changes = 0

Clicked == clicks < MaxClicks /\ clicks' = clicks + 1

\* A request is sent for a lobby that a join is under way to, or a button whose
\* request is followed by a join is pressed twice.
Overtakes(c) ==
  \/ c.op \in {"join", "forfeit"} /\ \E s \in Slots : call[s].op = "join" /\ call[s].on = c.on /\ call[s].at = "sent"
  \/ c.then = "rejoin" /\ \E s \in Slots : call[s].then = "rejoin"

Sent(op, l, then) == [NoCall EXCEPT !.op = op, !.on = l, !.then = then, !.at = "sent"]

\* A button sends a request, and the page changes as it is pressed.
Send(c, page) ==
  /\ Clicked
  /\ \E s \in Slots : /\ call[s].op = "none"
                      /\ call' = [call EXCEPT ![s] = c]
  /\ tab' = page
  /\ crossed' = (crossed \/ Overtakes(c))
  /\ left' = IF c.op = "join" THEN left \ {c.on} ELSE left
  /\ UNCHANGED <<guest, lobby, cast, redirect, astray, changes>>

\* A link within the site, or the browser's back button.
Goto(path) ==
  /\ Clicked
  /\ tab' = Pushed(path)
  /\ call' = [s \in Slots |-> Unmount(call[s], path)]
  /\ left' = left \ {path}
  /\ UNCHANGED <<guest, lobby, cast, redirect, crossed, astray, changes>>

Browse == \E path \in Entrances \ {tab.path} : Goto(path)

\* A link that was shared, or the page reloaded: nothing of the old page goes on.
OpenLink(l) ==
  /\ Clicked
  /\ lobby[l].made
  /\ tab' = Mounted(l)
  /\ call' = [s \in Slots |-> IF call[s].at # "sent" THEN NoCall ELSE [call[s] EXCEPT !.page = "gone"]]
  /\ redirect' = FALSE
  /\ left' = left \ {l}
  /\ UNCHANGED <<guest, lobby, cast, crossed, astray, changes>>

Only(page) == tab' = page /\ UNCHANGED <<guest, lobby, cast, call, redirect, ghosts, changes>>

----------------------------------------------------------------------------
(* The navigation bar *)

ActiveLobby(l) ==
  /\ tab.asking
  /\ IF GetPlayerByUser = {} THEN l = None ELSE l \in GetPlayerByUser
  /\ Only([tab EXCEPT !.nav = l, !.asking = FALSE])
  /\ UNCHANGED clicks

ActiveLobbyFails ==
  /\ tab.asking /\ Clicked
  /\ tab' = [tab EXCEPT !.asking = FALSE]
  /\ astray' = TRUE
  /\ UNCHANGED <<guest, lobby, cast, call, redirect, left, crossed, changes>>

RejoinGame == ~InRoom /\ tab.nav # None /\ Goto(tab.nav)

\* The cross beside it forgets the game, whatever the answer.
ForgetGame == ~InRoom /\ tab.nav # None /\ Send(Sent("forfeit", tab.nav, "forget"), tab)

----------------------------------------------------------------------------
(* Joining from the home page and from the list *)

JoinWithCode(l) ==
  /\ tab.path = "home" /\ ~tab.busy /\ lobby[l].made
  /\ Send(Sent("join", l, "home"), [tab EXCEPT !.busy = TRUE])

GetLobbies ==
  /\ tab.path = "browse" /\ tab.list # FindLobby
  /\ Clicked
  /\ Only([tab EXCEPT !.list = FindLobby])

\* The list may be old.
JoinListed(l) ==
  /\ tab.path = "browse" /\ ~tab.busy /\ l \in tab.list
  /\ Send(Sent("join", l, "browse"), [tab EXCEPT !.busy = TRUE])

----------------------------------------------------------------------------
(* The form of a new game: on the create page, and over a set of the gallery *)

Larger(a, b) == IF a > b THEN a ELSE b
Previews(f, n) == {p \in SUBSET f.copy : Cardinality(p) = IF n < Cardinality(f.copy) THEN n ELSE Cardinality(f.copy)}

\* Only another set resets what was chosen.
SelectSet(f, s) ==
  IF f.set = s THEN [f EXCEPT !.copy = cast[s]]
  ELSE [f EXCEPT !.set = s, !.copy = cast[s], !.mode = "all", !.manual = cast[s],
                 !.count = Larger(Min, Cardinality(cast[s])), !.preview = {}]

HandleSelectSet(s) ==
  /\ tab.path = "create" /\ tab.conflict = None
  /\ Clicked
  /\ Only([tab EXCEPT !.loading = @ \cup {s}])

\* The answers come in any order, and the last one is selected.
FullSetFetched(s) ==
  /\ s \in tab.loading
  /\ Only([tab EXCEPT !.loading = @ \ {s}, !.form = SelectSet(@, s)])
  /\ UNCHANGED clicks

PlaySet(s) ==
  /\ tab.path = "gallery" /\ tab.form.set = None
  /\ Clicked
  /\ Only([tab EXCEPT !.form = SelectSet(NoForm, s)])

\* The create request goes on, and its answer still leads to the room.
CloseModal ==
  /\ tab.path = "gallery" /\ tab.form.set # None /\ tab.conflict = None
  /\ Clicked
  /\ tab' = [tab EXCEPT !.form = NoForm, !.busy = FALSE]
  /\ call' = [s \in Slots |-> IF call[s].then \in {"gallery", "again"} THEN Unmount(call[s], None) ELSE call[s]]
  /\ UNCHANGED <<guest, lobby, cast, redirect, ghosts, changes>>

EditForm(f) ==
  /\ tab.form.set # None /\ tab.conflict = None
  /\ Clicked
  /\ Only([tab EXCEPT !.form = f])

\* A new choice of random characters is made whenever the mode turns to it.
CharacterMode ==
  \/ \E mode \in {"all", "manual"} \ {tab.form.mode} : EditForm([tab.form EXCEPT !.mode = mode])
  \/ /\ tab.form.mode # "random"
     /\ \E p \in Previews(tab.form, tab.form.count) : EditForm([tab.form EXCEPT !.mode = "random", !.preview = p])

RandomCount ==
  /\ tab.form.mode = "random"
  /\ \E n \in Min..Cardinality(tab.form.copy) : \E p \in Previews(tab.form, n) \ {tab.form.preview} :
       EditForm([tab.form EXCEPT !.count = n, !.preview = p])

ToggleCharacter ==
  /\ tab.form.mode = "manual"
  /\ \E c \in tab.form.copy :
       IF c \notin tab.form.manual THEN EditForm([tab.form EXCEPT !.manual = @ \cup {c}])
       ELSE Cardinality(tab.form.manual) > Min /\ EditForm([tab.form EXCEPT !.manual = @ \ {c}])

ToggleChat ==
  EditForm([tab.form EXCEPT !.chat = ~@, !.timer = @ /\ ~tab.form.chat])

\* Without chat the timer's buttons are grey, but a keyboard still reaches them.
TurnTimer == EditForm([tab.form EXCEPT !.timer = ~@])

GetCharacterIds(f) ==
  CASE f.mode = "all" -> {}
    [] f.mode = "random" -> f.preview
    [] OTHER -> f.manual

CreateDisabled ==
  \/ tab.busy \/ tab.form.set = None
  \/ Cardinality(IF tab.form.mode = "all" THEN tab.form.copy ELSE GetCharacterIds(tab.form)) < Min

CreateCall(then) ==
  [Sent("create", tab.form.set, then) EXCEPT
     !.ids = GetCharacterIds(tab.form), !.chat = tab.form.chat, !.timer = tab.form.timer]

HandleCreateLobby ==
  /\ tab.path \in {"create", "gallery"} /\ tab.conflict = None /\ ~CreateDisabled
  /\ Send(CreateCall(tab.path), [tab EXCEPT !.busy = TRUE])

----------------------------------------------------------------------------
(* Another game is in the way *)

\* The modal covers every page but that of a game which is over.
ConflictShown == tab.conflict # None /\ ~(InRoom /\ tab.view.over)

BackToMyGame == ConflictShown /\ Goto(tab.conflict)
CancelConflict == ConflictShown /\ Clicked /\ Only([tab EXCEPT !.conflict = None])

\* The create page forfeits and stops there; the gallery's form creates the new
\* game, and the room page joins its own.
ForfeitAndStart ==
  /\ ConflictShown
  /\ \/ /\ tab.path = "create"
        /\ Send(Sent("forfeit", tab.conflict, "clear"), tab)
     \/ /\ tab.path = "gallery" /\ ~tab.busy
        /\ Send([CreateCall("again") EXCEPT !.op = "forfeit", !.on = tab.conflict, !.room = tab.form.set],
                [tab EXCEPT !.busy = TRUE])
     \/ /\ InRoom
        /\ Send([Sent("forfeit", tab.conflict, "rejoin") EXCEPT !.room = tab.path], tab)

----------------------------------------------------------------------------
(* The room *)

View(l) ==
  [known |-> TRUE, count |-> Count(l), self |-> ByUserId(l), mine |-> lobby[l].mine # {},
   started |-> lobby[l].started, over |-> lobby[l].over]

\* What the page shows, in the order in which it decides.
Screen ==
  IF tab.view.over THEN "over"
  ELSE IF ~tab.view.known THEN "connecting"
  ELSE IF ~tab.view.mine /\ tab.view.count >= 2 THEN "full"
  ELSE IF tab.view.count < 2 /\ tab.view.self THEN "waiting"
  ELSE IF ~tab.game THEN "loading"
  ELSE "table"

\* Mutant: whether the user has a seat already is not looked at.
MutAutoJoins(v) ==
  /\ ~tab.view.known \/ v.count # tab.view.count
  /\ v.count < 2
  /\ tab.conflict = None /\ ~tab.leaving

\* The effect of a lobby_update: a page whose user has no seat in the lobby joins.
AutoJoins(v) ==
  /\ ~tab.view.known \/ v.count # tab.view.count
  /\ v.count < 2 /\ ~v.self
  /\ tab.conflict = None /\ ~tab.leaving

\* The lobby's status, and the game of whoever has a seat or sees the result, are
\* loaded at once: until then the page offers nothing.
LobbyUpdate ==
  /\ InRoom /\ tab.view # View(tab.path)
  /\ LET v == View(tab.path) IN
       /\ tab' = [tab EXCEPT !.view = v, !.game = @ \/ v.mine \/ v.over]
       /\ IF AutoJoins(v)
          THEN /\ \E s \in Slots : /\ call[s].op = "none"
                                   /\ call' = [call EXCEPT ![s] = Sent("join", tab.path, "auto")]
               /\ crossed' = (crossed \/ Overtakes(Sent("join", tab.path, "auto")))
          ELSE UNCHANGED <<call, crossed>>
  /\ UNCHANGED <<guest, lobby, cast, redirect, left, astray, clicks, changes>>

Exit(then, page) == Send(Sent("forfeit", tab.path, then), page)

\* Mutant: the page may join again while it leaves.
MutConfirmLeave == Screen = "table" /\ ~tab.view.started /\ Exit("exit", tab)

ConfirmLeave == Screen = "table" /\ ~tab.view.started /\ Exit("exit", [tab EXCEPT !.leaving = TRUE])

\* The button of the waiting room, which does not tell the page that it is left.
CancelAndExit == Screen = "waiting" /\ Exit("cancel", tab)

\* The navigation bar in the game.
LeaveGame == Screen = "table" /\ tab.view.started /\ Exit("exit", tab)

BackToHome == InRoom /\ Screen \in {"over", "full"} /\ Goto("home")

\* The timer of a lobby_cancelled outlives the page.
Redirect ==
  /\ redirect
  /\ redirect' = FALSE
  /\ tab' = Pushed("home")
  /\ call' = [s \in Slots |-> Unmount(call[s], "home")]
  /\ UNCHANGED <<guest, lobby, cast, ghosts, clicks, changes>>

----------------------------------------------------------------------------
(* The handlers *)

\* Nobody waits for the answer to a page that was closed.
Answer(s, at, l) ==
  call' = [call EXCEPT ![s] = IF @.page = "gone" THEN NoCall ELSE [@ EXCEPT !.at = at, !.got = l]]

\* The user is given a seat; the page that asked is no longer there to learn of it.
Unseen(s) == ~InRoom /\ (call[s].page = "gone" \/ (call[s].page = "unmounted" /\ call[s].then = "auto"))

AlreadyInGame(s) ==
  /\ \E l \in GetPlayerByUser : Answer(s, "conflict", l)
  /\ UNCHANGED <<lobby, astray>>

Refuse(s) == Answer(s, "refused", None) /\ UNCHANGED <<lobby, astray>>

\* A guest whose row is not found joins the game they have created.
SitsTwice(s) ==
  LET l == call[s].on IN GetPlayerByUser = {} /\ lobby[l].mine # {} /\ Count(l) < 2 /\ ~lobby[l].over

JoinLobby(s) ==
  /\ call[s].op = "join" /\ call[s].at = "sent"
  /\ LET l == call[s].on IN
     IF GetPlayerByUser # {} THEN AlreadyInGame(s)
     ELSE IF Count(l) >= 2 THEN Refuse(s)
     ELSE /\ lobby' = [lobby EXCEPT ![l].mine = @ \cup {"joiner"}]
          /\ Answer(s, "ok", l)
          /\ astray' = (astray \/ Unseen(s) \/ SitsTwice(s))
  /\ crossed' = (crossed \/ SitsTwice(s))
  /\ UNCHANGED <<guest, cast, tab, redirect, left, clicks, changes>>

\* The lobby keeps those of the set's characters that were chosen; without chat
\* there is no timer.
NewLobby(c) ==
  [NoLobby EXCEPT !.made = TRUE, !.guestHost = guest, !.mine = {"host"},
                  !.cast = IF c.ids = {} THEN cast[c.on] ELSE cast[c.on] \cap c.ids,
                  !.ids = c.ids, !.chat = c.chat, !.timer = c.timer /\ c.chat]

\* Mutant: the characters asked for are counted, not those that are left.
MutTooFew(c) == c.ids # {} /\ Cardinality(c.ids) < Min

TooFew(c) == c.ids # {} /\ Cardinality(NewLobby(c).cast) < Min

CreateLobby(s) ==
  /\ call[s].op = "create" /\ call[s].at = "sent"
  /\ IF GetPlayerByUser # {} THEN AlreadyInGame(s)
     ELSE IF TooFew(call[s]) THEN Refuse(s)
     ELSE \E l \in Lobbies :
            /\ ~lobby[l].made
            /\ lobby' = [lobby EXCEPT ![l] = NewLobby(call[s])]
            /\ Answer(s, "ok", l)
            /\ astray' = (astray \/ Unseen(s))
  /\ UNCHANGED <<guest, cast, tab, redirect, left, crossed, clicks, changes>>

Without(row, whose, seat) ==
  IF whose = "mine" THEN [row EXCEPT !.mine = @ \ {seat}] ELSE [row EXCEPT !.other = @ \ {seat}]

\* A row of the creator's ends the lobby before the game and tells everybody;
\* another one is deleted.
Leaves(l, whose, seat, isGuest) ==
  /\ lobby' = [lobby EXCEPT ![l] = IF lobby[l].started \/ IsCreator(seat, isGuest, l)
                                   THEN [lobby[l] EXCEPT !.over = TRUE]
                                   ELSE Without(lobby[l], whose, seat)]
  /\ redirect' = (redirect \/ (/\ ~lobby[l].started /\ IsCreator(seat, isGuest, l)
                               /\ tab.path = l /\ tab.view.known))

ForfeitLobby(s) ==
  /\ call[s].op = "forfeit" /\ call[s].at = "sent"
  /\ LET l == call[s].on IN
     IF lobby[l].mine = {} THEN Refuse(s) /\ UNCHANGED <<redirect, left>>
     ELSE /\ \E seat \in lobby[l].mine : Leaves(l, "mine", seat, guest)
          /\ Answer(s, "ok", None)
          /\ left' = IF call[s].then = "exit" /\ call[s].page = "mounted"
                     THEN left \cup {l} ELSE left
          /\ UNCHANGED astray
  /\ UNCHANGED <<guest, cast, tab, crossed, clicks, changes>>

\* A request is lost, or its answer is.
Fail(s) ==
  /\ call[s].at \in {"sent", "ok"} /\ Clicked
  /\ Answer(s, "failed", None)
  /\ astray' = (astray \/ (~InRoom /\ (call[s].at = "ok" \/ call[s].then = "forget")))
  /\ UNCHANGED <<guest, lobby, cast, tab, redirect, left, crossed, changes>>

----------------------------------------------------------------------------
(* The answers *)

\* Mutant: a game that was created over the gallery is not opened.
MutDestination(c) ==
  CASE c.then \in {"home", "create"} /\ c.at = "ok" -> c.got
    [] c.then = "browse" /\ c.at # "conflict" -> c.on
    [] c.then \in {"exit", "cancel"} -> "home"
    [] OTHER -> None

\* Where an answer takes the user, if it does.  The list cannot read the text
\* of a refusal and opens the room as after a network error.
Destination(c) ==
  CASE c.then \in {"home", "create", "gallery"} /\ c.at = "ok" -> c.got
    [] c.then = "browse" /\ c.at # "conflict" -> c.on
    [] c.then \in {"exit", "cancel"} -> "home"
    [] OTHER -> None

\* What an answer changes on the page that asked.
OnAnswer(c) ==
  CASE c.then \in {"home", "browse"} -> [tab EXCEPT !.busy = FALSE]
    [] c.then \in {"create", "gallery"} ->
         [tab EXCEPT !.busy = FALSE, !.conflict = IF c.at = "conflict" THEN c.got ELSE @]
    [] c.then = "auto" -> [tab EXCEPT !.conflict = IF c.at = "conflict" THEN c.got ELSE @]
    [] c.then = "forget" -> [tab EXCEPT !.nav = None]
    [] c.then = "again" -> IF c.at = "failed" THEN [tab EXCEPT !.busy = FALSE] ELSE [tab EXCEPT !.conflict = None]
    [] c.then \in {"clear", "rejoin"} -> IF c.at = "failed" THEN tab ELSE [tab EXCEPT !.conflict = None]
    [] OTHER -> tab

\* A forfeit that was answered, with whatever status, is followed by the request
\* it made room for, even when its page has been left.
Followed(c) ==
  LET next == [c EXCEPT !.on = c.room, !.room = None, !.at = "sent", !.got = None] IN
  CASE c.at # "failed" /\ c.then = "again"  -> [next EXCEPT !.op = "create", !.then = "gallery"]
    [] c.at # "failed" /\ c.then = "rejoin" -> [next EXCEPT !.op = "join", !.then = "auto"]
    [] OTHER -> NoCall

\* Meanwhile the user may have got a seat in the room the join is for, may be
\* leaving it, or have left it.
ComesTooLate(c) ==
  /\ c.op = "join"
  /\ \/ lobby[c.on].mine # {} \/ c.on \in left
     \/ \E s \in Slots : call[s].op = "forfeit" /\ call[s].on = c.on /\ call[s].at = "sent"

Answered(s) ==
  LET c == call[s]
      to == Destination(c) IN
  /\ c.at \in {"ok", "conflict", "refused", "failed"}
  /\ tab' = IF to # None THEN Pushed(to) ELSE IF c.page = "mounted" THEN OnAnswer(c) ELSE tab
  /\ call' = [r \in Slots |-> IF r = s THEN Followed(c) ELSE IF to = None THEN call[r] ELSE Unmount(call[r], to)]
  /\ crossed' = (crossed \/ Overtakes(Followed(c)) \/ ComesTooLate(Followed(c)))
  /\ left' = left \ {to}
  /\ UNCHANGED <<guest, lobby, cast, redirect, astray, clicks, changes>>

----------------------------------------------------------------------------
(* The others *)

\* What becomes of a lobby that the user has no seat in and does not look at can
\* as well come later.
Concerned(l) == lobby[l].mine # {} \/ (tab.path = l /\ tab.view.known)

Rows(l, row) == lobby' = [lobby EXCEPT ![l] = row] /\ UNCHANGED <<guest, cast, tab, call, redirect, ghosts, clicks, changes>>

OtherJoins(l) ==
  /\ Concerned(l) /\ lobby[l].made /\ ~lobby[l].over /\ Count(l) < 2
  /\ Rows(l, [lobby[l] EXCEPT !.other = @ \cup {"joiner"}])

OtherLeaves(l) ==
  /\ Concerned(l) /\ ~lobby[l].started /\ ~lobby[l].over
  /\ \E seat \in lobby[l].other, isGuest \in BOOLEAN :
       /\ seat = "host" => isGuest = lobby[l].guestHost
       /\ Leaves(l, "other", seat, isGuest)
  /\ changes < MaxChanges /\ changes' = changes + 1
  /\ UNCHANGED <<guest, cast, tab, call, ghosts, clicks>>

GameStarts(l) ==
  /\ Concerned(l) /\ Count(l) = 2 /\ ~lobby[l].started /\ ~lobby[l].over
  /\ Rows(l, [lobby[l] EXCEPT !.started = TRUE])

GameEnds(l) ==
  /\ lobby[l].started /\ ~lobby[l].over
  /\ Rows(l, [lobby[l] EXCEPT !.over = TRUE])

\* The owner of a set changes its characters; a set keeps as many as a game needs.
\* Only what happens while the user chooses makes a difference.
OwnerEdits(s) ==
  /\ tab.form.set = s /\ tab.form.mode # "all"
  /\ changes < MaxChanges /\ changes' = changes + 1
  /\ \E cs \in SUBSET Pool[s] \ {cast[s]} : Cardinality(cs) >= Min /\ cast' = [cast EXCEPT ![s] = cs]
  /\ UNCHANGED <<guest, lobby, tab, call, redirect, ghosts, clicks>>

----------------------------------------------------------------------------
Form ==
  \/ \E s \in Sets : HandleSelectSet(s) \/ FullSetFetched(s) \/ PlaySet(s)
  \/ CloseModal \/ CharacterMode \/ RandomCount \/ ToggleCharacter \/ ToggleChat \/ TurnTimer
  \/ HandleCreateLobby

Room ==
  \/ LobbyUpdate \/ ConfirmLeave \/ CancelAndExit \/ LeaveGame \/ BackToHome \/ Redirect

Navigation ==
  \/ Browse \/ RejoinGame \/ ForgetGame \/ ActiveLobbyFails \/ GetLobbies
  \/ BackToMyGame \/ CancelConflict \/ ForfeitAndStart
  \/ \E l \in Lobbies : OpenLink(l) \/ JoinWithCode(l) \/ JoinListed(l)
  \/ \E l \in Lobbies \cup {None} : ActiveLobby(l)

Requests ==
  \E s \in Slots : JoinLobby(s) \/ CreateLobby(s) \/ ForfeitLobby(s) \/ Fail(s) \/ Answered(s)

Others ==
  \/ \E l \in Lobbies : OtherJoins(l) \/ OtherLeaves(l) \/ GameStarts(l) \/ GameEnds(l)
  \/ \E s \in Sets : OwnerEdits(s)

Next == Form \/ Room \/ Navigation \/ Requests \/ Others

Spec == Init /\ [][Next]_vars

----------------------------------------------------------------------------
(* Properties *)

\* No request runs, and nothing is about to move the user.
Settled == ~redirect /\ ~tab.asking /\ \A s \in Slots : call[s].op = "none"

\* A user with a seat in an open game who is on another page is offered the way
\* back: unless an answer was lost, the page had been left before its join was
\* handled, or a guest has two seats at one table, no sequence of navigation and
\* late answers hides the game.
SeatIsKnown ==
  Settled /\ ~InRoom /\ ~astray => \A l \in GetPlayerByUser : tab.nav = l

\* Whoever has an account is never told, in the room of their own game, that
\* this game is in the way, unless a join was overtaken.
NoSelfConflict ==
  InRoom /\ ~guest /\ ~crossed => tab.conflict # tab.path

\* A table that was left does not get the user back by itself: the page that is
\* leaving reacts to the update it has caused.  (The waiting room does: its button
\* is not covered; and neither are requests that overtake each other, and guests
\* who give up one of two seats.)
LeaveIsFinal ==
  ~crossed => left \cap GetPlayerByUser = {}

\* A game is played with enough characters and with chosen ones only, whatever its
\* owner did to the set between choosing and creating; and a timer needs chat.
CreatedAsChosen ==
  \A l \in Lobbies :
    LET row == lobby[l] IN
    row.cast # {} => /\ Cardinality(row.cast) >= Min
                     /\ row.ids # {} => row.cast \subseteq row.ids
                     /\ row.timer => row.chat
=============================================================================
