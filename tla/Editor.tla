------------------------------- MODULE Editor -------------------------------
(***************************************************************************)
(* The pages on which a set of characters is made and changed: the new-set *)
(* and the edit-set page with the image cropper they share, and the        *)
(* handlers that store what they send.                                     *)
(*                                                                         *)
(* Nearly every button starts something that ends later: a file is read, a *)
(* picture is fetched or cut, a request is answered, while the owner goes  *)
(* on clicking.  What is stored in the end should be what the page showed. *)
(* Texts and categories are left out; of a name it matters whether it is   *)
(* blank, of a picture from which file it was cut.                         *)
(***************************************************************************)
EXTENDS Integers, Sequences, FiniteSets, SequencesExt, Functions

CONSTANTS
  Files,          \* the image files the owner may add
  Nameless,       \* those whose name before the extension is empty
  Olds,           \* the characters of the set that is edited
  MinCharacters, MaxCharacters,
  MinCrop,        \* MIN_CROP, the least side of a crop box
  Canvases,       \* sizes of the cropping canvas, which follows the screen
  Moves,          \* how far the pointer is from where a drag began
  Nil,
  MaxEdits,       \* bound on what the owner does
  MaxDrags,       \* bound on what the owner has done when a drag begins
  MaxFaults       \* bound on requests and statements that fail, and on other tabs

ASSUME EditorAssumption ==
  /\ Nameless \subseteq Files
  /\ IsFiniteSet(Files) /\ IsFiniteSet(Olds) /\ Files \cap Olds = {}
  /\ Nil \notin Files \cup Olds \cup Nat
  /\ "cover" \notin Files \cup Olds
  /\ MinCharacters \in Nat /\ MaxCharacters \in Nat /\ MinCrop \in Nat
  /\ MinCharacters <= Cardinality(Olds) /\ Cardinality(Olds) <= MaxCharacters
  /\ Canvases # {} /\ \A c \in Canvases : c \in Nat /\ 2 * MinCrop <= c
  /\ Moves \subseteq Int
  /\ MaxEdits \in Nat /\ MaxDrags \in Nat /\ MaxFaults \in Nat

VARIABLES
  page,      \* the form, its buttons, and what it is waiting for
  crop,      \* the crop modals: what each is open for, its box, its drag
  call,      \* the requests under way
  shown,     \* history: what the page showed when it was last saved
  stored,    \* the set in the database
  crossed,   \* ghost: another tab has saved the set, or a statement failed half way
  edits, faults

away == <<call, shown, stored, crossed>>
vars == <<page, crop, away, edits, faults>>

Kinds == {"image", "existing", "cover"}
NoPicture == [of |-> "none", cut |-> FALSE]
Picture(f) == [of |-> f, cut |-> FALSE]

NoDrag == [type |-> "none"]
Closed == [at |-> Nil, box |-> [x |-> 0, y |-> 0, side |-> 0], canvas |-> 0, drag |-> NoDrag]

Idle == [at |-> "none"]

Init ==
  /\ \E kind \in {"new", "edit"}, public \in BOOLEAN :
       /\ page = [kind |-> kind, at |-> IF kind = "new" THEN "form" ELSE "loading",
                  named |-> FALSE, public |-> kind = "new",
                  cover |-> [preview |-> NoPicture, file |-> NoPicture, original |-> NoPicture],
                  existing |-> [o \in {} |-> Nil], images |-> <<>>,
                  reading |-> {}, fetching |-> {}, cutting |-> [k \in Kinds |-> Nil],
                  ack |-> FALSE, guidelines |-> FALSE,
                  saving |-> FALSE, confirm |-> FALSE, deleting |-> FALSE]
       /\ stored = IF kind = "new"
                   THEN [exists |-> FALSE, public |-> FALSE, cover |-> NoPicture, rows |-> {}]
                   ELSE [exists |-> TRUE, public |-> public, cover |-> Picture("stored"),
                         rows |-> [row : {"old"}, who : Olds, named : {TRUE}, shows : {"stored"}]]
  /\ crop = [k \in Kinds |-> Closed]
  /\ call = [c \in {"save", "delete"} |-> Idle]
  /\ shown = [public |-> FALSE, cover |-> NoPicture, people |-> {}]
  /\ crossed = FALSE
  /\ edits = 0 /\ faults = 0

----------------------------------------------------------------------------
(* The screen *)

Total == Cardinality(DOMAIN page.existing) + Len(page.images)

\* Modals cover the form.
Bare == ~page.guidelines /\ \A k \in Kinds : crop[k].at = Nil

\* What the owner sees: the cover, and each character's picture and name.
Shown(public) ==
  [public |-> public, cover |-> page.cover.preview,
   people |-> {[who |-> o, named |-> page.existing[o].named, shows |-> page.existing[o].preview] :
                 o \in DOMAIN page.existing}
              \cup {[who |-> img.file, named |-> img.named, shows |-> img.cropped] :
                      img \in ToSet(page.images)}]

\* The owner clicks, not while dragging; something that was begun ends; something fails.
Press == /\ page.at = "form" /\ \A k \in Kinds : crop[k].drag = NoDrag
         /\ edits < MaxEdits /\ edits' = edits + 1
Edit  == Press /\ UNCHANGED <<away, faults>>
End   == page.at = "form" /\ UNCHANGED <<away, edits, faults>>
Fault == faults < MaxFaults /\ faults' = faults + 1

----------------------------------------------------------------------------
(* Details *)

\* The edit page is filled from the server; nothing can be done before.
Load ==
  /\ page.at = "loading"
  /\ \/ /\ page' = [page EXCEPT !.at = "form", !.named = TRUE, !.public = stored.public,
                      !.cover.preview = stored.cover,
                      !.existing = [o \in {r.who : r \in stored.rows} |->
                         [named |-> TRUE, preview |-> "stored", croppedFile |-> "none"]]]
        /\ UNCHANGED faults
     \/ Fault /\ page' = [page EXCEPT !.at = "not found"]
  /\ UNCHANGED <<crop, away, edits>>

TypeName     == Edit /\ Bare /\ page' = [page EXCEPT !.named = ~@] /\ UNCHANGED crop
TogglePublic == Edit /\ Bare /\ page' = [page EXCEPT !.public = ~@] /\ UNCHANGED crop

----------------------------------------------------------------------------
(* The crop modals *)

Least(a, b)    == IF a <= b THEN a ELSE b
Greatest(a, b) == IF a >= b THEN a ELSE b

Corners == {"nw", "ne", "sw", "se"}
West    == {"nw", "sw"}
North   == {"nw", "ne"}

\* The box a modal opens with: 50, 280 (200 for covers) on a canvas of 400.
FreshBox(kind, c) ==
  [x |-> c \div 8, y |-> c \div 8,
   side |-> IF kind = "cover" THEN c \div 2 ELSE (7 * c) \div 10]

\* Mutant: a box larger than the canvas is pulled back over its first edge.
MutClamp(c, side, v) == Least(c - side, Greatest(0, v))

\* A box of this side keeps to the canvas, or to its first edge when it is too large.
Clamp(c, side, v) == Greatest(0, Least(c - side, v))

\* The side follows the pointer's worse coordinate; nothing bounds it from above.
Side(drag, dx, dy) ==
  Greatest(MinCrop, Least(drag.from.side + (IF drag.type \in West THEN -dx ELSE dx),
                          drag.from.side + (IF drag.type \in North THEN -dy ELSE dy)))

\* Mutant: a corner is placed from the box as it is, not as the drag began.
MutDragged(b, c, drag, dx, dy) ==
  LET s == IF drag.type = "move" THEN b.side ELSE Side(drag, dx, dy)
      x == CASE drag.type = "move"   -> drag.from.x + dx
             [] drag.type \in West   -> b.x + (b.side - s)
             [] OTHER                -> b.x
      y == CASE drag.type = "move"   -> drag.from.y + dy
             [] drag.type \in North  -> drag.from.y + (b.side - s)
             [] OTHER                -> b.y
  IN [x |-> Clamp(c, s, x), y |-> Clamp(c, s, y), side |-> s]

\* Where the pointer puts box b: what a corner does not move stays as in b.
Dragged(b, c, drag, dx, dy) ==
  LET s == IF drag.type = "move" THEN b.side ELSE Side(drag, dx, dy)
      x == CASE drag.type = "move"   -> drag.from.x + dx
             [] drag.type \in West   -> drag.from.x + (drag.from.side - s)
             [] OTHER                -> b.x
      y == CASE drag.type = "move"   -> drag.from.y + dy
             [] drag.type \in North  -> drag.from.y + (drag.from.side - s)
             [] OTHER                -> b.y
  IN [x |-> Clamp(c, s, x), y |-> Clamp(c, s, y), side |-> s]

\* Ghost: a side the corner does not move lay past the canvas and was pushed back.
Pushed(c, drag, dx, dy) ==
  /\ drag.type # "move"
  /\ LET s == Side(drag, dx, dy)
     IN \/ drag.type \notin West /\ drag.from.x > 0 /\ drag.from.x + s > c
        \/ drag.type \notin North /\ drag.from.y > 0 /\ drag.from.y + s > c

PointerDown(kind, type) ==
  /\ Edit /\ edits < MaxDrags
  /\ crop[kind].at # Nil
  /\ crop' = [crop EXCEPT ![kind].drag =
                [type |-> type, from |-> crop[kind].box, dx |-> 0, dy |-> 0, pushed |-> FALSE]]
  /\ UNCHANGED page

PointerMove(kind, dx, dy) ==
  LET m == crop[kind] IN
  /\ End
  /\ m.drag # NoDrag
  /\ crop' = [crop EXCEPT
                ![kind].box = Dragged(m.box, m.canvas, m.drag, dx, dy),
                ![kind].drag.dx = dx, ![kind].drag.dy = dy,
                ![kind].drag.pushed = @ \/ Pushed(m.canvas, m.drag, dx, dy)]
  /\ UNCHANGED page

PointerUp(kind) ==
  /\ End
  /\ crop[kind].drag # NoDrag
  /\ crop' = [crop EXCEPT ![kind].drag = NoDrag]
  /\ UNCHANGED page

\* The four places the code says this in.
NewCoverDrag      == page.kind = "new"  /\ \E dx, dy \in Moves : PointerMove("cover", dx, dy)
EditCoverDrag     == page.kind = "edit" /\ \E dx, dy \in Moves : PointerMove("cover", dx, dy)
ExistingDrag      == \E dx, dy \in Moves : PointerMove("existing", dx, dy)
HandlePointerMove == \E dx, dy \in Moves : PointerMove("image", dx, dy)

\* A modal opens for something; the new-set page does not ask for the screen's size.
Opened(kind, at) ==
  \E c \in Canvases :
    /\ page.kind = "new" /\ kind = "cover" => \A d \in Canvases : d <= c
    /\ crop' = [crop EXCEPT ![kind] =
                  [at |-> at, box |-> FreshBox(kind, c), canvas |-> c, drag |-> NoDrag]]

\* What is left of a modal's box and drag is overwritten when it opens again.
CloseModal(kind) == crop' = [crop EXCEPT ![kind] = Closed]

CancelCrop(kind) ==
  Edit /\ crop[kind].at # Nil /\ CloseModal(kind) /\ UNCHANGED page

----------------------------------------------------------------------------
(* The cover *)

ReadCover ==
  /\ Edit /\ Bare
  /\ page.cover.preview = NoPicture
  /\ page' = [page EXCEPT !.reading = @ \cup {"cover"}]
  /\ UNCHANGED crop

HandleCoverChange ==
  /\ End
  /\ "cover" \in page.reading
  /\ page' = [page EXCEPT !.reading = @ \ {"cover"},
                          !.cover = [k \in DOMAIN @ |-> Picture("chosen")]]
  /\ UNCHANGED crop

RemoveCover ==
  /\ Edit /\ Bare
  /\ page.cover.preview # NoPicture
  /\ page' = [page EXCEPT !.cover = [k \in DOMAIN @ |-> NoPicture]]
  /\ UNCHANGED crop

\* The cover of a set that is edited has to be fetched before it can be cut.
OpenCoverCrop ==
  /\ Edit /\ Bare
  /\ page.cover.preview # NoPicture
  /\ IF page.cover.original = NoPicture
     THEN page' = [page EXCEPT !.fetching = @ \cup {"cover"}] /\ UNCHANGED crop
     ELSE Opened("cover", 0) /\ UNCHANGED page

CoverFetched ==
  /\ page.at = "form"
  /\ "cover" \in page.fetching
  /\ \/ /\ page' = [page EXCEPT !.fetching = @ \ {"cover"},
                                !.cover.original = Picture("stored")]
        /\ Opened("cover", 0)
        /\ UNCHANGED faults
     \/ /\ Fault
        /\ page' = [page EXCEPT !.fetching = @ \ {"cover"}]
        /\ UNCHANGED crop
  /\ UNCHANGED <<away, edits>>

\* The picture is loaded and cut while the modal stays open.
ApplyCoverCrop ==
  /\ Edit
  /\ crop["cover"].at # Nil /\ page.cover.original # NoPicture
  /\ page' = [page EXCEPT !.cutting["cover"] = page.cover.original.of]
  /\ UNCHANGED crop

CoverCut ==
  /\ End
  /\ page.cutting["cover"] # Nil
  /\ LET piece == [of |-> page.cutting["cover"], cut |-> TRUE]
     IN page' = [page EXCEPT !.cutting["cover"] = Nil,
                             !.cover.file = piece, !.cover.preview = piece]
  /\ CloseModal("cover")

----------------------------------------------------------------------------
(* Characters that are added *)

\* More may be chosen at once than there is room for; saving is refused then.
HandleFileSelect ==
  /\ Edit /\ Bare
  /\ Total < MaxCharacters
  /\ \E chosen \in SUBSET (Files \ (page.reading \cup {img.file : img \in ToSet(page.images)})) :
       chosen # {} /\ page' = [page EXCEPT !.reading = @ \cup chosen]
  /\ UNCHANGED crop

\* Files are read at their own speed and appended as they come.
ProcessFile(f) ==
  /\ End
  /\ f \in page.reading
  /\ page' = [page EXCEPT
                !.reading = @ \ {f},
                !.images = Append(@, [file |-> f, named |-> f \notin Nameless,
                                      cropped |-> f, croppedFile |-> f])]
  /\ UNCHANGED crop

UpdateName(i) ==
  Edit /\ Bare /\ page' = [page EXCEPT !.images[i].named = ~@] /\ UNCHANGED crop

RemoveImage(i) ==
  Edit /\ Bare /\ page' = [page EXCEPT !.images = RemoveAt(@, i)] /\ UNCHANGED crop

OpenCrop(i) == Edit /\ Bare /\ Opened("image", i) /\ UNCHANGED page

\* The picture is the one now at the index; it is put where the index is later.
ApplyCrop ==
  /\ Edit
  /\ crop["image"].at \in DOMAIN page.images
  /\ page' = [page EXCEPT !.cutting["image"] =
                [at |-> crop["image"].at, file |-> page.images[crop["image"].at].file]]
  /\ UNCHANGED crop

ImageCut ==
  /\ End
  /\ page.cutting["image"] # Nil
  /\ LET job == page.cutting["image"]
     IN page' = [page EXCEPT
                   !.cutting["image"] = Nil,
                   !.images = [i \in DOMAIN @ |->
                      IF i = job.at
                      THEN [@[i] EXCEPT !.cropped = job.file, !.croppedFile = job.file]
                      ELSE @[i]]]
  /\ CloseModal("image")

----------------------------------------------------------------------------
(* Characters the set already has *)

RemoveExisting(o) ==
  /\ Edit /\ Bare
  /\ page' = [page EXCEPT !.existing = Restrict(@, DOMAIN @ \ {o})]
  /\ UNCHANGED crop

RenameExisting(o) ==
  Edit /\ Bare /\ page' = [page EXCEPT !.existing[o].named = ~@] /\ UNCHANGED crop

CropExisting(o) ==
  Edit /\ Bare /\ page' = [page EXCEPT !.fetching = @ \cup {o}] /\ UNCHANGED crop

\* Whatever else is open by now.
ExistingFetched(o) ==
  /\ page.at = "form"
  /\ o \in page.fetching
  /\ page' = [page EXCEPT !.fetching = @ \ {o}]
  /\ \/ Opened("existing", o) /\ UNCHANGED faults
     \/ Fault /\ UNCHANGED crop
  /\ UNCHANGED <<away, edits>>

ApplyExistingCrop ==
  /\ Edit
  /\ crop["existing"].at # Nil
  /\ page' = [page EXCEPT !.cutting["existing"] = crop["existing"].at]
  /\ UNCHANGED crop

ExistingCut ==
  /\ End
  /\ page.cutting["existing"] # Nil
  /\ page' = [page EXCEPT
                !.cutting["existing"] = Nil,
                !.existing = [o \in DOMAIN @ |->
                   IF o = page.cutting["existing"]
                   THEN [@[o] EXCEPT !.preview = "cut", !.croppedFile = "cut"]
                   ELSE @[o]]]
  /\ CloseModal("existing")

----------------------------------------------------------------------------
(* Saving and deleting *)

SaveDisabled ==
  page.saving \/ ~page.named \/ Total < MinCharacters \/ Total > MaxCharacters

BlankName == \/ \E o \in DOMAIN page.existing : ~page.existing[o].named
             \/ \E img \in ToSet(page.images) : ~img.named

\* A request with what stands in the form: the files, not the previews.
Send(public, keep, fresh, form) ==
  /\ call' = [call EXCEPT !["save"] =
                [at |-> "sent", public |-> public, cover |-> page.cover.file,
                 keep |-> keep, fresh |-> fresh]]
  /\ shown' = Shown(public)
  /\ page' = [form EXCEPT !.saving = TRUE]
  /\ UNCHANGED <<crop, stored, crossed, faults>>

Fresh == [i \in DOMAIN page.images |->
            [who |-> page.images[i].file, named |-> page.images[i].named,
             shows |-> page.images[i].croppedFile]]

DoSave(public, form) == Send(public, [o \in {} |-> TRUE], Fresh, form)

\* Publishing takes a confirmation; the check of the names is not repeated after it.
HandleSaveNew ==
  /\ Press /\ Bare /\ page.kind = "new"
  /\ ~SaveDisabled /\ ~BlankName
  /\ IF page.public /\ ~page.ack
     THEN page' = [page EXCEPT !.guidelines = TRUE] /\ UNCHANGED <<crop, away, faults>>
     ELSE DoSave(page.public, page)

Acknowledge ==
  Edit /\ page.guidelines /\ page' = [page EXCEPT !.ack = ~@] /\ UNCHANGED crop

\* Mutant: the request is made of the state of before the click.
MutMakePrivate ==
  /\ Press /\ page.guidelines
  /\ DoSave(page.public, [page EXCEPT !.guidelines = FALSE, !.ack = FALSE, !.public = FALSE])

MakePrivate ==
  /\ Press /\ page.guidelines
  /\ DoSave(FALSE, [page EXCEPT !.guidelines = FALSE, !.ack = FALSE, !.public = FALSE])

Publish ==
  /\ Press /\ page.guidelines /\ page.ack
  /\ DoSave(TRUE, [page EXCEPT !.guidelines = FALSE])

\* Mutant: a character that was cut again is kept as well.
MutHandleSaveEdit ==
  /\ Press /\ Bare /\ page.kind = "edit"
  /\ ~SaveDisabled /\ ~BlankName
  /\ LET replace == {o \in DOMAIN page.existing : page.existing[o].croppedFile # "none"}
         again   == [o \in replace |-> [who |-> o, named |-> page.existing[o].named,
                                        shows |-> page.existing[o].croppedFile]]
     IN \E seq \in SetToSeqs(Range(again)) :
          Send(page.public, [o \in DOMAIN page.existing |-> page.existing[o].named],
               seq \o Fresh, page)

\* A character that was cut again is sent as a new one instead of being kept.
HandleSaveEdit ==
  /\ Press /\ Bare /\ page.kind = "edit"
  /\ ~SaveDisabled /\ ~BlankName
  /\ LET replace == {o \in DOMAIN page.existing : page.existing[o].croppedFile # "none"}
         again   == [o \in replace |-> [who |-> o, named |-> page.existing[o].named,
                                        shows |-> page.existing[o].croppedFile]]
     IN \E seq \in SetToSeqs(Range(again)) :
          Send(page.public, [o \in DOMAIN page.existing \ replace |-> page.existing[o].named],
               seq \o Fresh, page)

\* The first click asks, the second deletes; looking elsewhere takes the first back.
HandleDelete ==
  /\ Press /\ Bare /\ page.kind = "edit"
  /\ ~page.deleting
  /\ IF page.confirm
     THEN /\ page' = [page EXCEPT !.deleting = TRUE]
          /\ call' = [call EXCEPT !["delete"] = [at |-> "sent"]]
     ELSE page' = [page EXCEPT !.confirm = TRUE] /\ UNCHANGED call
  /\ UNCHANGED <<crop, shown, stored, crossed, faults>>

Blur == End /\ page.confirm /\ page' = [page EXCEPT !.confirm = FALSE] /\ UNCHANGED crop

\* Nothing that is under way is stopped by leaving.
Back ==
  /\ page.at \in {"form", "not found"} /\ Bare
  /\ page' = [page EXCEPT !.at = "elsewhere"]
  /\ UNCHANGED <<crop, away, edits, faults>>

----------------------------------------------------------------------------
(* The handlers *)

Answer(c, outcome) == call' = [call EXCEPT ![c].at = outcome]

InBounds(n) == MinCharacters <= n /\ n <= MaxCharacters

\* The characters are read from the request up to the first without a name.
Parsed(fresh) ==
  LET blank == SelectInSeq(fresh, LAMBDA c : ~c.named)
  IN IF blank = 0 THEN fresh ELSE SubSeq(fresh, 1, blank - 1)

Rows(fresh) ==
  {[row |-> "new", who |-> c.who, named |-> TRUE, shows |-> c.shows] : c \in ToSet(fresh)}

CreateSet ==
  LET body == call["save"] IN
  /\ page.kind = "new" /\ body.at = "sent"
  /\ IF InBounds(Len(Parsed(body.fresh)))
     THEN /\ stored' = [exists |-> TRUE, public |-> body.public, cover |-> body.cover,
                        rows |-> Rows(Parsed(body.fresh))]
          /\ Answer("save", "ok")
     ELSE UNCHANGED stored /\ Answer("save", "failed")
  /\ UNCHANGED <<page, crop, shown, crossed, edits, faults>>

\* The rows that stay, under the names sent for them.
Kept(keep) ==
  {[r EXCEPT !.named = keep[r.who]] : r \in {s \in stored.rows : s.row = "old" /\ s.who \in DOMAIN keep}}

\* A cover is replaced, never taken away.
Updated(body) ==
  [stored EXCEPT !.public = body.public,
                 !.cover = IF body.cover = NoPicture THEN @ ELSE body.cover]

\* Mutant: the new rows are written first, and deleted with all that is not kept.
MutUpdateSet ==
  LET body == call["save"] IN
  /\ page.kind = "edit" /\ body.at = "sent"
  /\ stored.exists /\ InBounds(Cardinality(DOMAIN body.keep) + Len(Parsed(body.fresh)))
  /\ stored' = [Updated(body) EXCEPT !.rows = Kept(body.keep)]
  /\ Answer("save", "ok")
  /\ UNCHANGED <<page, crop, shown, crossed, edits, faults>>

\* What is counted are the ids sent, whether their rows are still there or not.
\* The statements are no transaction: one that fails leaves what was done before.
UpdateSet ==
  LET body == call["save"] IN
  /\ page.kind = "edit" /\ body.at = "sent"
  /\ IF stored.exists /\ InBounds(Cardinality(DOMAIN body.keep) + Len(Parsed(body.fresh)))
     THEN \/ /\ stored' = [Updated(body) EXCEPT
                             !.rows = Kept(body.keep) \cup Rows(Parsed(body.fresh))]
             /\ Answer("save", "ok")
             /\ UNCHANGED <<crossed, faults>>
          \/ /\ Fault
             /\ \E rows \in {stored.rows, Kept(body.keep)} :
                  stored' = [Updated(body) EXCEPT !.rows = rows]
             /\ Answer("save", "failed")
             /\ crossed' = TRUE
     ELSE UNCHANGED <<stored, crossed, faults>> /\ Answer("save", "failed")
  /\ UNCHANGED <<page, crop, shown, edits>>

DeleteSet ==
  /\ call["delete"].at = "sent"
  /\ stored' = [stored EXCEPT !.exists = FALSE]
  /\ Answer("delete", IF stored.exists THEN "ok" ELSE "failed")
  /\ UNCHANGED <<page, crop, shown, crossed, edits, faults>>

\* A request gets lost, or its answer does; the page cannot tell which.
Lose(c) ==
  /\ Fault
  /\ call[c].at \in {"sent", "ok"}
  /\ Answer(c, "lost")
  /\ UNCHANGED <<page, crop, shown, stored, crossed, edits>>

\* The same set saved in another tab of the owner, without one of its characters.
OtherTab ==
  /\ Fault
  /\ stored.exists
  /\ \E r \in stored.rows :
       /\ r.row = "old"
       /\ InBounds(Cardinality(stored.rows) - 1)
       /\ stored' = [stored EXCEPT !.rows = @ \ {r}]
  /\ crossed' = TRUE
  /\ UNCHANGED <<page, crop, call, shown, edits>>

\* The page goes back to where it came from, even if its owner is elsewhere.
SaveAnswered ==
  /\ call["save"].at \in {"ok", "failed", "lost"}
  /\ page' = IF call["save"].at = "ok" THEN [page EXCEPT !.at = "saved"]
                                       ELSE [page EXCEPT !.saving = FALSE]
  /\ call' = [call EXCEPT !["save"] = Idle]
  /\ UNCHANGED <<crop, shown, stored, crossed, edits, faults>>

\* So it does when the set could not be deleted, unless there is no answer at all.
DeleteAnswered ==
  /\ call["delete"].at \in {"ok", "failed", "lost"}
  /\ page' = IF call["delete"].at = "lost"
             THEN [page EXCEPT !.deleting = FALSE, !.confirm = FALSE]
             ELSE [page EXCEPT !.at = "deleted"]
  /\ call' = [call EXCEPT !["delete"] = Idle]
  /\ UNCHANGED <<crop, shown, stored, crossed, edits, faults>>

----------------------------------------------------------------------------
Cropping ==
  \/ \E kind \in Kinds :
       \/ \E type \in Corners \cup {"move"} : PointerDown(kind, type)
       \/ PointerUp(kind) \/ CancelCrop(kind)
  \/ NewCoverDrag \/ EditCoverDrag \/ ExistingDrag \/ HandlePointerMove

Editing ==
  \/ TypeName \/ TogglePublic
  \/ ReadCover \/ HandleCoverChange \/ RemoveCover
  \/ OpenCoverCrop \/ CoverFetched \/ ApplyCoverCrop \/ CoverCut
  \/ HandleFileSelect \/ ApplyCrop \/ ImageCut
  \/ \E f \in Files : ProcessFile(f)
  \/ \E i \in DOMAIN page.images : UpdateName(i) \/ RemoveImage(i) \/ OpenCrop(i)
  \/ \E o \in DOMAIN page.existing : RemoveExisting(o) \/ RenameExisting(o) \/ CropExisting(o)
  \/ \E o \in Olds : ExistingFetched(o)
  \/ ApplyExistingCrop \/ ExistingCut

Saving ==
  \/ Load
  \/ HandleSaveNew \/ Acknowledge \/ MakePrivate \/ Publish \/ HandleSaveEdit
  \/ HandleDelete \/ Blur \/ Back
  \/ CreateSet \/ UpdateSet \/ DeleteSet \/ OtherTab
  \/ \E c \in {"save", "delete"} : Lose(c)
  \/ SaveAnswered \/ DeleteAnswered

Next == Cropping \/ Editing \/ Saving

Spec == Init /\ [][Next]_vars

----------------------------------------------------------------------------
\* Shapes of the state, as far as the cropping needs them.
BoxType == [x : Nat, y : Nat, side : Nat]

DragType ==
  {NoDrag} \cup [type : Corners \cup {"move"}, from : BoxType, dx : Int, dy : Int,
                 pushed : BOOLEAN]

TypeOK ==
  /\ crop \in [Kinds -> [at : {Nil} \cup Olds \cup Nat, box : BoxType,
                         canvas : Canvases \cup {0}, drag : DragType]]
  /\ page.kind \in {"new", "edit"}
  /\ page.at \in {"loading", "not found", "form", "elsewhere", "saved", "deleted"}
  /\ DOMAIN page.existing \subseteq Olds
  /\ \A img \in ToSet(page.images) : img.file \in Files
  /\ page.reading \subseteq Files \cup {"cover"}
  /\ page.fetching \subseteq Olds \cup {"cover"}

\* A box lies on its canvas, or at its edge when it is larger.
Fits(b, c) ==
  /\ b.x >= 0 /\ b.y >= 0
  /\ b.x + b.side <= c \/ b.x = 0
  /\ b.y + b.side <= c \/ b.y = 0

\* While a corner or the box is dragged, the box depends on where the pointer is and
\* not on the way it took, unless the way led past the far edges of the canvas
\* (the handlers of the three pages start from the box of the last move for what a
\* corner leaves in place).  It never lies off the canvas where it could fit.
DragHasNoMemory ==
  \A kind \in Kinds :
    LET m == crop[kind] IN
    m.at # Nil =>
      /\ Fits(m.box, m.canvas)
      /\ m.drag # NoDrag /\ ~m.drag.pushed =>
           m.box = Dragged(m.drag.from, m.canvas, m.drag, m.drag.dx, m.drag.dy)

\* When a save has succeeded, the set in the database is the one the page showed when
\* it was sent, name by name and picture by picture, though the request is made of
\* other files than the previews; but a cover that was removed stays, and what comes
\* after a character without a name is lost (doSave, handleSave, the two handlers).
SavedIsShown ==
  page.at = "saved" /\ ~crossed /\ stored.exists /\ call["delete"].at = "none" =>
    /\ stored.public = shown.public
    /\ shown.cover # NoPicture => stored.cover = shown.cover
    /\ LET people == {[who |-> r.who, named |-> r.named, shows |-> r.shows] : r \in stored.rows}
       IN \/ people = shown.people
          \/ people \subseteq shown.people /\ \E c \in shown.people : ~c.named

\* A stored set has as many characters as a game needs and no more than allowed,
\* unless two tabs or a failing statement have interfered (CreateSet, UpdateSet).
EnoughCharacters ==
  stored.exists /\ ~crossed => InBounds(Cardinality(stored.rows))

\* What the new-set page stores as public was confirmed on it (handleSave and the
\* buttons of the guidelines; the edit page asks for no confirmation).
PublicIsAcknowledged ==
  page.kind = "new" /\ stored.exists /\ stored.public => page.ack

=============================================================================
