---------------------------- MODULE EditorProofs ----------------------------
(***************************************************************************)
(* The crop boxes of the editor, for every canvas, every least side and    *)
(* every way of the pointer; and what is stored of a form, for every set   *)
(* of characters, however the owner, the files, the pictures and the       *)
(* server interleave.                                                      *)
(***************************************************************************)
EXTENDS Editor, TLAPS, FiniteSetTheorems, SequenceTheorems, WellFoundedInduction

Box == [x : Int, y : Int, side : Int]

Sound(b, c) == b \in Box /\ b.side >= MinCrop /\ Fits(b, c)

\* A drag that began at a sound box; dx and dy are where the pointer is now.
Dragging(d, c) ==
  /\ d \in [type : Corners \cup {"move"}, from : Box, dx : Int, dy : Int, pushed : BOOLEAN]
  /\ Sound(d.from, c)

\* The invariant: it adds to DragHasNoMemory that a box is never smaller than MinCrop
\* (or it would jump when a corner is touched), and what is known of the box a drag
\* began at.
Held(m) ==
  \/ m.drag = NoDrag
  \/ /\ m.at # Nil
     /\ Dragging(m.drag, m.canvas)
     /\ Pushed(m.canvas, m.drag, m.drag.dx, m.drag.dy) => m.drag.pushed
     /\ ~m.drag.pushed =>
          m.box = Dragged(m.drag.from, m.canvas, m.drag, m.drag.dx, m.drag.dy)

SoundModal(m) ==
  /\ m = [at |-> m.at, box |-> m.box, canvas |-> m.canvas, drag |-> m.drag]
  /\ m.at \in {Nil} \cup Olds \cup Nat
  /\ m.at = Nil => m = Closed
  /\ m.at # Nil => m.canvas \in Canvases /\ Sound(m.box, m.canvas)
  /\ Held(m)

CropInv == DOMAIN crop = Kinds /\ crop = [k \in Kinds |-> crop[k]] /\ \A k \in Kinds : SoundModal(crop[k])

----------------------------------------------------------------------------
\* Every modal opens with a sound box.
LEMMA FreshSound ==
  ASSUME NEW c \in Canvases, NEW kind
  PROVE  Sound(FreshBox(kind, c), c)
<1>1. c \in Int /\ c >= 0 /\ 2 * MinCrop <= c /\ MinCrop \in Int
  BY EditorAssumption
<1>2. /\ c \div 8 \in Int /\ c \div 2 \in Int /\ (7 * c) \div 10 \in Int
      /\ c \div 8 >= 0
      /\ c \div 8 + c \div 2 <= c /\ c \div 8 + (7 * c) \div 10 <= c
      /\ c \div 2 >= MinCrop /\ (7 * c) \div 10 >= MinCrop
  BY <1>1
<1> QED
  BY <1>1, <1>2 DEF FreshBox, Sound, Fits, Box

\* What a canvas does to a coordinate.
LEMMA ClampFits ==
  ASSUME NEW c \in Int, NEW s \in Int, NEW v \in Int
  PROVE  /\ Clamp(c, s, v) \in Int
         /\ Clamp(c, s, v) >= 0
         /\ Clamp(c, s, v) + s <= c \/ Clamp(c, s, v) = 0
         /\ v >= 0 /\ v + s <= c => Clamp(c, s, v) = v
BY DEF Clamp, Least, Greatest

\* A resized side never gets smaller than the smallest one.
LEMMA SideIsBounded ==
  ASSUME NEW d, NEW c, Dragging(d, c), NEW dx \in Int, NEW dy \in Int
  PROVE  Side(d, dx, dy) \in Int /\ Side(d, dx, dy) >= MinCrop
BY EditorAssumption DEF Side, Least, Greatest, Dragging, Sound, Box

\* Wherever the pointer goes the box stays sound.
LEMMA DraggedSound ==
  ASSUME NEW c \in Canvases, NEW b, Sound(b, c), NEW d, Dragging(d, c),
         NEW dx \in Int, NEW dy \in Int
  PROVE  Sound(Dragged(b, c, d, dx, dy), c)
<1> DEFINE s == IF d.type = "move" THEN b.side ELSE Side(d, dx, dy)
           x == CASE d.type = "move"   -> d.from.x + dx
                  [] d.type \in West   -> d.from.x + (d.from.side - s)
                  [] OTHER             -> b.x
           y == CASE d.type = "move"   -> d.from.y + dy
                  [] d.type \in North  -> d.from.y + (d.from.side - s)
                  [] OTHER             -> b.y
<1>1. c \in Int
  BY EditorAssumption
<1>2. s \in Int /\ s >= MinCrop
  BY SideIsBounded DEF Sound, Box
<1>3. x \in Int /\ y \in Int
  <2> HIDE DEF s
  <2> QED
    BY <1>2 DEF Dragging, Sound, Box
<1>4. Dragged(b, c, d, dx, dy) = [x |-> Clamp(c, s, x), y |-> Clamp(c, s, y), side |-> s]
  BY DEF Dragged
<1> HIDE DEF s, x, y
<1> DEFINE X == Clamp(c, s, x)
           Y == Clamp(c, s, y)
<1>5. /\ X \in Int /\ X >= 0 /\ (X + s <= c \/ X = 0)
      /\ Y \in Int /\ Y >= 0 /\ (Y + s <= c \/ Y = 0)
  BY <1>1, <1>2, <1>3, ClampFits
<1>6. Dragged(b, c, d, dx, dy) = [x |-> X, y |-> Y, side |-> s]
  BY <1>4
<1> HIDE DEF X, Y
<1> QED
  BY <1>1, <1>2, <1>5, <1>6 DEF Sound, Box, Fits

\* The box the pointer puts from the last box is the one it would put from the first.
LEMMA NoMemory ==
  ASSUME NEW c \in Canvases, NEW d, Dragging(d, c),
         NEW ox \in Int, NEW oy \in Int, ~Pushed(c, d, ox, oy),
         NEW dx \in Int, NEW dy \in Int
  PROVE  Dragged(Dragged(d.from, c, d, ox, oy), c, d, dx, dy) = Dragged(d.from, c, d, dx, dy)
<1> DEFINE b == Dragged(d.from, c, d, ox, oy)
           s == IF d.type = "move" THEN d.from.side ELSE Side(d, ox, oy)
<1>0. Side(d, ox, oy) \in Int
  BY SideIsBounded
<1>1. c \in Int /\ s \in Int
  BY <1>0, EditorAssumption DEF Dragging, Sound, Box
<1>2. d.type = "move" => b.side = d.from.side
  BY DEF Dragged
<1>3. d.type # "move" /\ d.type \notin West => b.x = d.from.x
  BY <1>1, ClampFits DEF Dragged, Pushed, Dragging, Sound, Box, Fits
<1>4. d.type # "move" /\ d.type \notin North => b.y = d.from.y
  BY <1>1, ClampFits DEF Dragged, Pushed, Dragging, Sound, Box, Fits
<1> SUFFICES Dragged(b, c, d, dx, dy) = Dragged(d.from, c, d, dx, dy)
  OBVIOUS
<1> HIDE DEF b
<1>5. CASE d.type = "move"
  BY <1>2, <1>5 DEF Dragged, West, North
<1>6. CASE d.type # "move" /\ d.type \in West
  BY <1>4, <1>6 DEF Dragged, West, North
<1>7. CASE d.type # "move" /\ d.type \notin West
  BY <1>3, <1>4, <1>7 DEF Dragged, West, North
<1> QED
  BY <1>5, <1>6, <1>7

----------------------------------------------------------------------------
\* A step that replaces one modal by a sound one.
LEMMA OneModal ==
  ASSUME CropInv, NEW kind \in Kinds, NEW m, SoundModal(m),
         crop' = [crop EXCEPT ![kind] = m]
  PROVE  CropInv'
BY DEF CropInv

\* A closed modal has nothing to go wrong.
LEMMA ClosedSound == SoundModal(Closed)
BY DEF SoundModal, Closed, Held

\* No modal is open at first.
LEMMA InitCropInv == Init => CropInv
BY ClosedSound DEF Init, CropInv

\* An image that arrives opens its modal with a fresh box.
LEMMA OpenedKeeps ==
  ASSUME CropInv, NEW kind \in Kinds, NEW at \in Olds \cup Nat, Opened(kind, at)
  PROVE  CropInv'
<1>1. PICK c \in Canvases :
        crop' = [crop EXCEPT ![kind] =
                   [at |-> at, box |-> FreshBox(kind, c), canvas |-> c, drag |-> NoDrag]]
  BY DEF Opened
<1> DEFINE m == [at |-> at, box |-> FreshBox(kind, c), canvas |-> c, drag |-> NoDrag]
<1>2. SoundModal(m)
  BY FreshSound, EditorAssumption DEF SoundModal, Held
<1> QED
  BY <1>1, <1>2, OneModal

\* Cancelling and confirming close a modal.
LEMMA CloseKeeps ==
  ASSUME CropInv, NEW kind \in Kinds, CloseModal(kind)
  PROVE  CropInv'
BY ClosedSound, OneModal DEF CloseModal

\* A press starts a drag from the box as it is.
LEMMA PointerDownKeeps ==
  ASSUME CropInv, NEW kind \in Kinds, NEW type \in Corners \cup {"move"},
         PointerDown(kind, type)
  PROVE  CropInv'
<1> DEFINE old == crop[kind]
           d   == [type |-> type, from |-> old.box, dx |-> 0, dy |-> 0, pushed |-> FALSE]
           m   == [at |-> old.at, box |-> old.box, canvas |-> old.canvas, drag |-> d]
<1>1. SoundModal(old) /\ old.at # Nil
  BY DEF CropInv, PointerDown
<1>2. crop' = [crop EXCEPT ![kind] = m]
  <2>1. old = [at |-> old.at, box |-> old.box, canvas |-> old.canvas, drag |-> old.drag]
    BY <1>1 DEF SoundModal
  <2>2. crop' = [crop EXCEPT ![kind] = [old EXCEPT !.drag = d]]
    BY DEF PointerDown
  <2> HIDE DEF old, d
  <2>3. [old EXCEPT !.drag = d] = m
    BY <2>1
  <2> QED
    BY <2>2, <2>3
<1>3. old.canvas \in Canvases /\ Sound(old.box, old.canvas)
  BY <1>1 DEF SoundModal
<1>4. Dragging(d, old.canvas)
  BY <1>3 DEF Dragging, Sound
<1>5. old.box = Dragged(old.box, old.canvas, d, 0, 0)
  <2> HIDE DEF old
  <2>1. old.canvas \in Int
    BY <1>3, EditorAssumption
  <2>2. PICK x, y, side \in Int : old.box = [x |-> x, y |-> y, side |-> side]
    BY <1>3 DEF Sound, Box
  <2>3. Side(d, 0, 0) = side
    BY <1>3, <2>2, EditorAssumption DEF Side, Least, Greatest, Sound
  <2>4. /\ Clamp(old.canvas, side, x) = x
        /\ Clamp(old.canvas, side, y) = y
    BY <1>3, <2>1, <2>2 DEF Sound, Fits, Clamp, Least, Greatest
  <2> QED
    BY <2>2, <2>3, <2>4 DEF Dragged
<1>6. ~Pushed(old.canvas, d, 0, 0)
  <2> HIDE DEF old
  <2>1. PICK x, y, side \in Int : old.box = [x |-> x, y |-> y, side |-> side]
    BY <1>3 DEF Sound, Box
  <2>2. Side(d, 0, 0) = side
    BY <1>3, <2>1, EditorAssumption DEF Side, Least, Greatest, Sound
  <2> QED
    BY <1>3, <2>1, <2>2, EditorAssumption DEF Pushed, Sound, Fits
<1>7. SoundModal(m)
  BY <1>1, <1>3, <1>4, <1>5, <1>6 DEF SoundModal, Held
<1> QED
  BY <1>2, <1>7, OneModal

\* Letting go ends the drag and leaves the box.
LEMMA PointerUpKeeps ==
  ASSUME CropInv, NEW kind \in Kinds, PointerUp(kind)
  PROVE  CropInv'
<1> DEFINE old == crop[kind]
           m   == [at |-> old.at, box |-> old.box, canvas |-> old.canvas, drag |-> NoDrag]
<1>1. SoundModal(old)
  BY DEF CropInv
<1>2. crop' = [crop EXCEPT ![kind] = m]
  <2>1. old = [at |-> old.at, box |-> old.box, canvas |-> old.canvas, drag |-> old.drag]
    BY <1>1 DEF SoundModal
  <2>2. crop' = [crop EXCEPT ![kind] = [old EXCEPT !.drag = NoDrag]]
    BY DEF PointerUp
  <2> HIDE DEF old
  <2>3. [old EXCEPT !.drag = NoDrag] = m
    BY <2>1
  <2> QED
    BY <2>2, <2>3
<1>3. SoundModal(m)
  BY <1>1 DEF SoundModal, Held
<1> QED
  BY <1>2, <1>3, OneModal

\* A move puts the box where the drag's start and the pointer say.
LEMMA PointerMoveKeeps ==
  ASSUME CropInv, NEW kind \in Kinds, NEW dx \in Moves, NEW dy \in Moves,
         PointerMove(kind, dx, dy)
  PROVE  CropInv'
<1> DEFINE old == crop[kind]
           d   == [old.drag EXCEPT !.dx = dx, !.dy = dy,
                     !.pushed = @ \/ Pushed(old.canvas, old.drag, dx, dy)]
           b   == Dragged(old.box, old.canvas, old.drag, dx, dy)
           m   == [at |-> old.at, box |-> b, canvas |-> old.canvas, drag |-> d]
<1>1. /\ SoundModal(old) /\ old.at # Nil
      /\ old.canvas \in Canvases /\ Sound(old.box, old.canvas)
      /\ Dragging(old.drag, old.canvas)
      /\ Pushed(old.canvas, old.drag, old.drag.dx, old.drag.dy) => old.drag.pushed
      /\ ~old.drag.pushed =>
           old.box = Dragged(old.drag.from, old.canvas, old.drag, old.drag.dx, old.drag.dy)
  BY DEF CropInv, PointerMove, SoundModal, Held
<1>2. dx \in Int /\ dy \in Int
  BY EditorAssumption
<1>3. crop' = [crop EXCEPT ![kind] = m]
  <2>1. old = [at |-> old.at, box |-> old.box, canvas |-> old.canvas, drag |-> old.drag]
    BY <1>1 DEF SoundModal
  <2>2. crop' = [crop EXCEPT ![kind] = [old EXCEPT !.box = b, !.drag = d]]
    BY DEF PointerMove
  <2> HIDE DEF old, b, d
  <2>3. [old EXCEPT !.box = b, !.drag = d] = m
    <3> DEFINE o == [old EXCEPT !.box = b]
    <3>1. [old EXCEPT !.box = b, !.drag = d] = [o EXCEPT !.drag = d]
      OBVIOUS
    <3>2. o = [at |-> old.at, box |-> b, canvas |-> old.canvas, drag |-> old.drag]
      BY <2>1
    <3> HIDE DEF o
    <3>3. [o EXCEPT !.drag = d] = m
      BY <3>2
    <3> QED
      BY <3>1, <3>3
  <2> QED
    BY <2>2, <2>3
<1>4. Sound(b, old.canvas)
  BY <1>1, <1>2, DraggedSound
<1>5. Dragging(d, old.canvas)
  BY <1>1, <1>2 DEF Dragging
<1>6. \A bb, x, y : Dragged(bb, old.canvas, d, x, y) = Dragged(bb, old.canvas, old.drag, x, y)
  BY <1>1 DEF Dragged, Side, Dragging
<1>7. ~d.pushed => b = Dragged(d.from, old.canvas, d, d.dx, d.dy)
  <2> SUFFICES ASSUME ~d.pushed
               PROVE  b = Dragged(d.from, old.canvas, d, dx, dy)
    BY <1>1 DEF Dragging
  <2>1. d.from = old.drag.from /\ ~old.drag.pushed
        /\ ~Pushed(old.canvas, old.drag, old.drag.dx, old.drag.dy)
    BY <1>1 DEF Dragging
  <2> QED
    BY <1>1, <1>2, <1>6, <2>1, NoMemory DEF Dragging
<1>8. Pushed(old.canvas, d, d.dx, d.dy) => d.pushed
  BY <1>1 DEF Pushed, Side, Dragging
<1>9. SoundModal(m)
  BY <1>1, <1>4, <1>5, <1>7, <1>8 DEF SoundModal, Held
<1> QED
  BY <1>3, <1>9, OneModal

----------------------------------------------------------------------------
\* All the pointer does to the three modals.
LEMMA CroppingKeeps ==
  ASSUME CropInv, Cropping
  PROVE  CropInv'
<1> USE DEF Kinds
<1>1. ASSUME NEW kind \in Kinds, NEW type \in Corners \cup {"move"}, PointerDown(kind, type)
      PROVE  CropInv'
  BY <1>1, PointerDownKeeps
<1>2. ASSUME NEW kind \in Kinds, PointerUp(kind)
      PROVE  CropInv'
  BY <1>2, PointerUpKeeps
<1>3. ASSUME NEW kind \in Kinds, CancelCrop(kind)
      PROVE  CropInv'
  BY <1>3, CloseKeeps DEF CancelCrop
<1>4. ASSUME NEW kind \in Kinds, NEW dx \in Moves, NEW dy \in Moves, PointerMove(kind, dx, dy)
      PROVE  CropInv'
  BY <1>4, PointerMoveKeeps
<1> QED
  BY <1>1, <1>2, <1>3, <1>4
     DEF Cropping, NewCoverDrag, EditCoverDrag, ExistingDrag, HandlePointerMove

\* Of the other steps on the page some open a modal and some close one.
LEMMA EditingKeeps ==
  ASSUME CropInv, DOMAIN page.images \subseteq Nat, Editing
  PROVE  CropInv'
<1> USE DEF Kinds
<1>1. ASSUME UNCHANGED crop
      PROVE  CropInv'
  BY <1>1 DEF CropInv
<1>2. CASE \/ TypeName \/ TogglePublic \/ ReadCover \/ HandleCoverChange \/ RemoveCover
           \/ ApplyCoverCrop \/ HandleFileSelect \/ ApplyCrop \/ ApplyExistingCrop
           \/ \E f \in Files : ProcessFile(f)
           \/ \E i \in DOMAIN page.images : UpdateName(i) \/ RemoveImage(i)
           \/ \E o \in DOMAIN page.existing :
                RemoveExisting(o) \/ RenameExisting(o) \/ CropExisting(o)
  BY <1>1, <1>2
     DEF TypeName, TogglePublic, ReadCover, HandleCoverChange, RemoveCover, ApplyCoverCrop,
         HandleFileSelect, ApplyCrop, ApplyExistingCrop, ProcessFile, UpdateName, RemoveImage,
         RemoveExisting, RenameExisting, CropExisting
<1>3. CASE OpenCoverCrop
  BY <1>1, <1>3, OpenedKeeps DEF OpenCoverCrop
<1>4. CASE CoverFetched
  BY <1>1, <1>4, OpenedKeeps DEF CoverFetched
<1>5. CASE \E i \in DOMAIN page.images : OpenCrop(i)
  BY <1>5, OpenedKeeps DEF OpenCrop
<1>6. CASE \E o \in Olds : ExistingFetched(o)
  BY <1>1, <1>6, OpenedKeeps DEF ExistingFetched
<1>7. CASE CoverCut \/ ImageCut \/ ExistingCut
  BY <1>7, CloseKeeps DEF CoverCut, ImageCut, ExistingCut
<1> QED
  BY <1>2, <1>3, <1>4, <1>5, <1>6, <1>7 DEF Editing

\* Requests and answers leave the modals alone.
LEMMA SavingKeeps ==
  ASSUME CropInv, Saving
  PROVE  CropInv'
<1>1. UNCHANGED crop
  BY DEF Saving, Load, HandleSaveNew, Acknowledge, MakePrivate, Publish, HandleSaveEdit, DoSave,
         Send, Edit, End, HandleDelete, Blur, Back, CreateSet, UpdateSet, DeleteSet, OtherTab,
         Lose, SaveAnswered, DeleteAnswered
<1> QED
  BY <1>1 DEF CropInv

\* The invariant holds the promise.
LEMMA CropInvImplies == CropInv => DragHasNoMemory
BY DEF CropInv, SoundModal, Held, Sound, DragHasNoMemory

----------------------------------------------------------------------------
(* The form *)

Sources == {"none", "chosen", "stored"}

Pictures == [of : Sources, cut : BOOLEAN]

Covers == [preview : Pictures, file : Pictures, original : Pictures]

\* A new character shows the file that will be sent for it.
Images ==
  {img \in [file : Files, named : BOOLEAN, cropped : Files, croppedFile : Files] :
     img.cropped = img.croppedFile}

\* One of the set shows what is stored, unless it was cut again.
Existing ==
  {e \in [named : BOOLEAN, preview : {"stored", "cut"}, croppedFile : {"none", "cut"}] :
     e.croppedFile = "none" <=> e.preview = "stored"}

Existings == UNION {[O -> Existing] : O \in SUBSET Olds}

\* What is being cut: of the cover where it is from, of an image which file.
Jobs ==
  {j \in [Kinds -> {Nil} \cup Sources \cup Olds \cup Nat \cup [at : Nat, file : Files]] :
     /\ j["cover"] \in {Nil} \cup Sources
     /\ j["image"] \in {Nil} \cup [at : Nat, file : Files]}

Pages ==
  [kind : {"new", "edit"},
   at : {"loading", "not found", "form", "elsewhere", "saved", "deleted"},
   named : BOOLEAN, public : BOOLEAN, cover : Covers,
   existing : Existings, images : Seq(Images),
   reading : SUBSET (Files \cup {"cover"}), fetching : SUBSET (Olds \cup {"cover"}),
   cutting : Jobs, ack : BOOLEAN, guidelines : BOOLEAN,
   saving : BOOLEAN, confirm : BOOLEAN, deleting : BOOLEAN]

\* The preview of a cover is the file that will be sent, unless there is none to send,
\* which only the edit page can show.
CoverShown(p) ==
  p.cover.preview = p.cover.file \/ (p.kind = "edit" /\ p.cover.file = NoPicture)

\* A file makes one character at most.
OneEach(p) ==
  /\ \A i, j \in DOMAIN p.images : p.images[i].file = p.images[j].file => i = j
  /\ \A i \in DOMAIN p.images : p.images[i].file \notin p.reading

FormOK(p) ==
  /\ p \in Pages
  /\ CoverShown(p)
  /\ OneEach(p)
  /\ p.kind = "new" => DOMAIN p.existing = {}

Uncut(p) == {o \in DOMAIN p.existing : p.existing[o].croppedFile = "none"}

\* A form gets older by what is done to it: it is never again as it was loaded.
Later(p, q) ==
  /\ q.kind = p.kind /\ q.at = p.at /\ q.saving = p.saving
  /\ q.ack = p.ack /\ q.guidelines = p.guidelines
  /\ Uncut(q) \subseteq Uncut(p)
  /\ q.cover.file = NoPicture /\ q.cover.preview # NoPicture =>
       p.cover.file = NoPicture /\ p.cover.preview = q.cover.preview

\* An image is one of the files.
LEMMA ImageIs ==
  ASSUME NEW p \in Pages, NEW i \in DOMAIN p.images
  PROVE  /\ p.images[i] \in Images /\ p.images[i].file \in Files
         /\ i \in Nat /\ i > 0 /\ i <= Len(p.images)
<1>1. p.images \in Seq(Images)
  BY DEF Pages
<1> DEFINE s == p.images
<1>2. s \in [1..Len(s) -> Images] /\ Len(s) \in Nat
  BY <1>1
<1> HIDE DEF s
<1>3. \A j \in DOMAIN s : s[j] \in Images /\ j \in Nat /\ j > 0 /\ j <= Len(s)
  BY <1>2
<1>4. \A x \in Images : x.file \in Files
  BY DEF Images
<1> QED
  BY <1>3, <1>4 DEF s

\* What is left alone.
LEMMA Untouched ==
  ASSUME NEW p, FormOK(p), NEW q \in Pages,
         q.kind = p.kind, q.at = p.at, q.saving = p.saving, q.ack = p.ack,
         q.guidelines = p.guidelines, q.existing = p.existing, q.images = p.images,
         q.reading \subseteq p.reading \cup {"cover"},
         q.cover = p.cover \/ (q.cover.preview = q.cover.file)
  PROVE  FormOK(q) /\ Later(p, q)
<1>1. OneEach(q)
  <2>1. \A i \in DOMAIN p.images : p.images[i].file \in Files
    BY ImageIs DEF FormOK
  <2> QED BY <2>1, EditorAssumption DEF FormOK, OneEach
<1>2. CoverShown(q)
  BY DEF FormOK, CoverShown
<1>3. Later(p, q)
  BY DEF Later, Uncut
<1> QED BY <1>1, <1>2, <1>3 DEF FormOK

\* The pictures there are.
LEMMA PicturesAre ==
  /\ NoPicture \in Pictures
  /\ \A f \in Sources : /\ Picture(f) \in Pictures /\ [of |-> f, cut |-> TRUE] \in Pictures
                        /\ [of |-> f, cut |-> TRUE] # NoPicture
  /\ Picture("chosen") # NoPicture
BY DEF NoPicture, Picture, Pictures, Sources

\* A cover all of whose parts are one picture.
LEMMA WholeCover ==
  ASSUME NEW p \in Pages, NEW v \in Pictures
  PROVE  [k \in DOMAIN p.cover |-> v] = [preview |-> v, file |-> v, original |-> v]
<1>1. PICK a, b, c \in Pictures : p.cover = [preview |-> a, file |-> b, original |-> c]
  BY DEF Pages, Covers
<1>2. DOMAIN p.cover = {"preview", "file", "original"}
  BY <1>1
<1> QED
  BY <1>2

\* What is done to the cover leaves its preview the file that will be sent.
LEMMA CoverEdits ==
  ASSUME FormOK(page),
         \/ ReadCover \/ HandleCoverChange \/ RemoveCover \/ OpenCoverCrop \/ CoverFetched
         \/ ApplyCoverCrop \/ CoverCut
  PROVE  FormOK(page') /\ Later(page, page')
<1>0. page \in Pages
  BY DEF FormOK
<1>1. ASSUME page' = page PROVE FormOK(page') /\ Later(page, page')
  BY <1>1 DEF Later
<1>2. CASE ReadCover
  <2>1. page' \in Pages /\ page'.reading = page.reading \cup {"cover"}
    BY <1>0, <1>2 DEF ReadCover, Pages
  <2> QED BY <1>0, <1>2, <2>1, Untouched DEF ReadCover, Pages
<1>w. ASSUME NEW v \in Pictures, NEW R, R \subseteq page.reading,
             page' = [page EXCEPT !.reading = R, !.cover = [preview |-> v, file |-> v, original |-> v]]
      PROVE  FormOK(page') /\ Later(page, page')
  <2> DEFINE cover == [preview |-> v, file |-> v, original |-> v]
  <2>1. cover \in Covers /\ cover.preview = cover.file
    BY DEF Covers
  <2> HIDE DEF cover
  <2>2. R \in SUBSET (Files \cup {"cover"})
    BY <1>0, <1>w DEF Pages
  <2>3. page' \in Pages /\ page'.cover = cover /\ page'.reading = R
    BY <1>0, <2>1, <2>2, <1>w DEF Pages, cover
  <2>5. /\ page'.kind = page.kind /\ page'.at = page.at /\ page'.saving = page.saving
        /\ page'.ack = page.ack /\ page'.guidelines = page.guidelines
        /\ page'.existing = page.existing /\ page'.images = page.images
    BY <1>0, <1>w DEF Pages
  <2> QED BY <2>1, <2>3, <2>5, <1>w, Untouched
<1>3. CASE HandleCoverChange
  <2> DEFINE v == Picture("chosen")
             R == page.reading \ {"cover"}
  <2>1. v \in Pictures /\ R \subseteq page.reading
    BY PicturesAre DEF Sources
  <2>2. page' = [page EXCEPT !.reading = R, !.cover = [k \in DOMAIN page.cover |-> v]]
    BY <1>3 DEF HandleCoverChange
  <2> HIDE DEF v, R
  <2>3. page' = [page EXCEPT !.reading = R, !.cover = [preview |-> v, file |-> v, original |-> v]]
    BY <1>0, <2>1, <2>2, WholeCover
  <2> QED BY <1>w, <2>1, <2>3
<1>4. CASE RemoveCover
  <2>1. page' = [page EXCEPT !.cover = [preview |-> NoPicture, file |-> NoPicture, original |-> NoPicture]]
    BY <1>0, <1>4, WholeCover, PicturesAre DEF RemoveCover
  <2>2. page' = [page EXCEPT !.reading = page.reading,
                   !.cover = [preview |-> NoPicture, file |-> NoPicture, original |-> NoPicture]]
    BY <1>0, <2>1 DEF Pages
  <2> QED BY <1>w, <2>2, PicturesAre
<1>5. CASE OpenCoverCrop
  <2>1. CASE UNCHANGED page
    BY <1>1, <2>1
  <2>2. CASE page' = [page EXCEPT !.fetching = @ \cup {"cover"}]
    <3>1. page' \in Pages
      BY <1>0, <2>2 DEF Pages
    <3> QED BY <1>0, <2>2, <3>1, Untouched DEF Pages
  <2> QED BY <1>5, <2>1, <2>2 DEF OpenCoverCrop
<1>6. CASE CoverFetched
  <2>1. CASE page' = [page EXCEPT !.fetching = @ \ {"cover"}]
    <3>1. page' \in Pages
      BY <1>0, <2>1 DEF Pages
    <3> QED BY <1>0, <2>1, <3>1, Untouched DEF Pages
  <2>2. CASE page' = [page EXCEPT !.fetching = @ \ {"cover"},
                                !.cover.original = Picture("stored")]
    <3> DEFINE cover == [page.cover EXCEPT !.original = Picture("stored")]
    <3>1. /\ cover \in Covers
          /\ cover.preview = page.cover.preview /\ cover.file = page.cover.file
      BY <1>0, PicturesAre DEF Pages, Covers, Sources
    <3>2. page' = [page EXCEPT !.fetching = @ \ {"cover"}, !.cover = cover]
      BY <2>2
    <3> HIDE DEF cover
    <3>3. page' \in Pages /\ page'.cover = cover
      BY <1>0, <3>1, <3>2 DEF Pages
    <3>4. /\ page'.kind = page.kind /\ page'.at = page.at /\ page'.saving = page.saving
          /\ page'.ack = page.ack /\ page'.guidelines = page.guidelines
          /\ page'.existing = page.existing /\ page'.images = page.images
          /\ page'.reading = page.reading
      BY <1>0, <3>2 DEF Pages
    <3> QED BY <3>1, <3>3, <3>4 DEF FormOK, Later, OneEach, CoverShown, Uncut
  <2> QED BY <1>6, <2>1, <2>2 DEF CoverFetched
<1>7. CASE ApplyCoverCrop
  <2> DEFINE job == [page.cutting EXCEPT !["cover"] = page.cover.original.of]
  <2>1. page.cover.original.of \in Sources
    BY <1>0 DEF Pages, Covers, Pictures
  <2>2. job \in Jobs
    BY <1>0, <2>1 DEF Pages, Jobs, Kinds
  <2>3. page' = [page EXCEPT !.cutting = job]
    BY <1>7 DEF ApplyCoverCrop
  <2> HIDE DEF job
  <2>4. page' \in Pages
    BY <1>0, <2>2, <2>3 DEF Pages
  <2> QED BY <1>0, <2>3, <2>4, Untouched DEF Pages
<1>8. CASE CoverCut
  <2> DEFINE piece == [of |-> page.cutting["cover"], cut |-> TRUE]
             job   == [page.cutting EXCEPT !["cover"] = Nil]
             cover == [page.cover EXCEPT !.file = piece, !.preview = piece]
  <2>1. page.cutting["cover"] \in Sources
    BY <1>0, <1>8 DEF CoverCut, Pages, Jobs
  <2>2. piece \in Pictures
    BY <2>1, PicturesAre
  <2>3. job \in Jobs
    BY <1>0 DEF Pages, Jobs, Kinds
  <2>4. page' = [page EXCEPT !.cutting = job, !.cover = cover]
    BY <1>8 DEF CoverCut
  <2> HIDE DEF job, piece
  <2>5. cover \in Covers /\ cover.file = piece /\ cover.preview = piece
    BY <1>0, <2>2 DEF Pages, Covers
  <2> HIDE DEF cover
  <2>6. page' \in Pages /\ page'.cover = cover
    BY <1>0, <2>3, <2>4, <2>5 DEF Pages
  <2>7. /\ page'.kind = page.kind /\ page'.at = page.at /\ page'.saving = page.saving
        /\ page'.ack = page.ack /\ page'.guidelines = page.guidelines
        /\ page'.existing = page.existing /\ page'.images = page.images
        /\ page'.reading = page.reading
    BY <1>0, <2>4 DEF Pages
  <2> QED BY <2>5, <2>6, <2>7, Untouched
<1> QED BY <1>2, <1>3, <1>4, <1>5, <1>6, <1>7, <1>8

\* What was typed, clicked or fetched, and files that are being read.
LEMMA PlainEdits ==
  ASSUME FormOK(page), CropInv,
         \/ TypeName \/ TogglePublic \/ HandleFileSelect \/ ApplyCrop
         \/ \E i \in DOMAIN page.images : OpenCrop(i)
         \/ \E o \in DOMAIN page.existing : CropExisting(o)
         \/ \E o \in Olds : ExistingFetched(o)
         \/ ApplyExistingCrop
  PROVE  FormOK(page') /\ Later(page, page')
<1>0. page \in Pages
  BY DEF FormOK
<1>1. ASSUME page' = page PROVE FormOK(page') /\ Later(page, page')
  BY <1>1 DEF Later
<1>2. CASE TypeName
  <2> DEFINE b == ~page.named
  <2>1. page' = [page EXCEPT !.named = b] /\ b \in BOOLEAN
    BY <1>2 DEF TypeName
  <2> HIDE DEF b
  <2>2. page' \in Pages
    BY <1>0, <2>1 DEF Pages
  <2> QED BY <1>0, <2>1, <2>2, Untouched DEF Pages
<1>3. CASE TogglePublic
  <2> DEFINE b == ~page.public
  <2>1. page' = [page EXCEPT !.public = b] /\ b \in BOOLEAN
    BY <1>3 DEF TogglePublic
  <2> HIDE DEF b
  <2>2. page' \in Pages
    BY <1>0, <2>1 DEF Pages
  <2> QED BY <1>0, <2>1, <2>2, Untouched DEF Pages
<1>4. CASE HandleFileSelect
  <2>1. PICK chosen \in SUBSET (Files \ (page.reading \cup {img.file : img \in ToSet(page.images)})) :
          page' = [page EXCEPT !.reading = @ \cup chosen]
    BY <1>4 DEF HandleFileSelect
  <2>2. page' \in Pages /\ page'.reading = page.reading \cup chosen
    BY <1>0, <2>1 DEF Pages
  <2>3. /\ page'.kind = page.kind /\ page'.at = page.at /\ page'.saving = page.saving
        /\ page'.ack = page.ack /\ page'.guidelines = page.guidelines /\ page'.cover = page.cover
        /\ page'.existing = page.existing /\ page'.images = page.images
    BY <1>0, <2>1 DEF Pages
  <2>4. \A i \in DOMAIN page.images : page.images[i].file \notin chosen
    BY DEF ToSet
  <2> QED BY <2>2, <2>3, <2>4 DEF FormOK, OneEach, CoverShown, Later, Uncut
<1>5. CASE ApplyCrop
  <2> DEFINE at  == crop["image"].at
             job == [page.cutting EXCEPT !["image"] = [at |-> at, file |-> page.images[at].file]]
  <2>1. at \in Nat /\ page.images[at].file \in Files
    BY <1>0, <1>5, ImageIs DEF ApplyCrop
  <2>2. job \in Jobs
    <3> HIDE DEF at
    <3>1. [at |-> at, file |-> page.images[at].file] \in [at : Nat, file : Files]
      BY <2>1
    <3> QED BY <1>0, <3>1 DEF Pages, Jobs, Kinds
  <2>3. page' = [page EXCEPT !.cutting = job]
    BY <1>5 DEF ApplyCrop
  <2> HIDE DEF job
  <2>4. page' \in Pages
    BY <1>0, <2>2, <2>3 DEF Pages
  <2> QED BY <1>0, <2>3, <2>4, Untouched DEF Pages
<1>6. CASE \E i \in DOMAIN page.images : OpenCrop(i)
  BY <1>1, <1>6 DEF OpenCrop
<1>7. CASE \E o \in DOMAIN page.existing : CropExisting(o)
  <2>1. PICK o \in DOMAIN page.existing : page' = [page EXCEPT !.fetching = @ \cup {o}]
    BY <1>7 DEF CropExisting
  <2>2. o \in Olds
    <3>1. PICK O \in SUBSET Olds : page.existing \in [O -> Existing]
      BY <1>0 DEF Pages, Existings
    <3> QED BY <3>1
  <2>3. page' \in Pages
    BY <1>0, <2>1, <2>2 DEF Pages
  <2> QED BY <1>0, <2>1, <2>3, Untouched DEF Pages
<1>8. CASE \E o \in Olds : ExistingFetched(o)
  <2>1. PICK o \in Olds : page' = [page EXCEPT !.fetching = @ \ {o}]
    BY <1>8 DEF ExistingFetched
  <2>2. page' \in Pages
    BY <1>0, <2>1 DEF Pages
  <2> QED BY <1>0, <2>1, <2>2, Untouched DEF Pages
<1>9. CASE ApplyExistingCrop
  <2> DEFINE job == [page.cutting EXCEPT !["existing"] = crop["existing"].at]
  <2>1. crop["existing"].at \in Olds \cup Nat
    BY <1>9 DEF ApplyExistingCrop, CropInv, SoundModal, Kinds
  <2>2. job \in Jobs
    BY <1>0, <2>1 DEF Pages, Jobs, Kinds
  <2>3. page' = [page EXCEPT !.cutting = job]
    BY <1>9 DEF ApplyExistingCrop
  <2> HIDE DEF job
  <2>4. page' \in Pages
    BY <1>0, <2>2, <2>3 DEF Pages
  <2> QED BY <1>0, <2>3, <2>4, Untouched DEF Pages
<1> QED BY <1>2, <1>3, <1>4, <1>5, <1>6, <1>7, <1>8, <1>9

\* The images change, and what is read with them.
LEMMA ImagesChange ==
  ASSUME FormOK(page), NEW S \in Seq(Images), NEW R, R \subseteq page.reading,
         page' = [page EXCEPT !.reading = R, !.images = S],
         \A i, j \in DOMAIN S : S[i].file = S[j].file => i = j,
         \A i \in DOMAIN S : S[i].file \notin R
  PROVE  FormOK(page') /\ Later(page, page')
<1>0. page \in Pages
  BY DEF FormOK
<1>1. R \in SUBSET (Files \cup {"cover"})
  BY <1>0 DEF Pages
<1>2. page' \in Pages /\ page'.images = S /\ page'.reading = R
  BY <1>0, <1>1 DEF Pages
<1>3. /\ page'.kind = page.kind /\ page'.at = page.at /\ page'.saving = page.saving
      /\ page'.ack = page.ack /\ page'.guidelines = page.guidelines /\ page'.cover = page.cover
      /\ page'.existing = page.existing
  BY <1>0 DEF Pages
<1> QED BY <1>2, <1>3 DEF FormOK, OneEach, CoverShown, Later, Uncut

\* What is done to the characters that were added keeps each of them apart.
LEMMA ImageEdits ==
  ASSUME FormOK(page),
         \/ ImageCut
         \/ \E f \in Files : ProcessFile(f)
         \/ \E i \in DOMAIN page.images : UpdateName(i) \/ RemoveImage(i)
  PROVE  FormOK(page') /\ Later(page, page')
<1> DEFINE s == page.images
<1>0. page \in Pages /\ s \in Seq(Images)
  BY DEF FormOK, Pages
<1>1. /\ \A i, j \in DOMAIN s : s[i].file = s[j].file => i = j
      /\ \A i \in DOMAIN s : s[i].file \notin page.reading
  BY DEF FormOK, OneEach
<1>r. page = [page EXCEPT !.reading = page.reading]
  BY <1>0 DEF Pages
<1>s. ASSUME NEW S \in Seq(Images), DOMAIN S = DOMAIN s,
             \A i \in DOMAIN s : S[i].file = s[i].file,
             page' = [page EXCEPT !.images = S]
      PROVE  FormOK(page') /\ Later(page, page')
  <2>1. page' = [page EXCEPT !.reading = page.reading, !.images = S]
    BY <1>0, <1>s DEF Pages
  <2>2. \A i, j \in DOMAIN S : S[i].file = S[j].file => i = j
    BY <1>1, <1>s
  <2>3. \A i \in DOMAIN S : S[i].file \notin page.reading
    BY <1>1, <1>s
  <2>4. page.reading \subseteq page.reading
    OBVIOUS
  <2> HIDE DEF s
  <2> QED BY ONLY FormOK(page), S \in Seq(Images), <2>1, <2>2, <2>3, <2>4, ImagesChange
<1>2. CASE ImageCut
  <2> DEFINE job == page.cutting["image"]
             cut == [page.cutting EXCEPT !["image"] = Nil]
             S   == [i \in DOMAIN s |-> IF i = job.at
                                        THEN [s[i] EXCEPT !.cropped = job.file, !.croppedFile = job.file]
                                        ELSE s[i]]
  <2>1. job.file \in Files
    BY <1>0, <1>2 DEF ImageCut, Pages, Jobs
  <2>2. cut \in Jobs
    BY <1>0 DEF Pages, Jobs, Kinds
  <2>3. page' = [page EXCEPT !.cutting = cut, !.images = S]
    BY <1>2 DEF ImageCut
  <2>4. \A i \in DOMAIN s : S[i] \in Images /\ S[i].file = s[i].file
    <3> HIDE DEF job
    <3> SUFFICES ASSUME NEW i \in DOMAIN s
                 PROVE  S[i] \in Images /\ S[i].file = s[i].file
      OBVIOUS
    <3>1. s[i] \in Images
      BY <1>0, ImageIs
    <3>2. [s[i] EXCEPT !.cropped = job.file, !.croppedFile = job.file] \in Images
          /\ [s[i] EXCEPT !.cropped = job.file, !.croppedFile = job.file].file = s[i].file
      BY <2>1, <3>1 DEF Images
    <3> QED BY <3>1, <3>2
  <2>5. S \in Seq(Images) /\ DOMAIN S = DOMAIN s
    <3>1. DOMAIN s = 1..Len(s) /\ Len(s) \in Nat
      BY <1>0
    <3>2. S \in [1..Len(s) -> Images]
      BY <2>4, <3>1
    <3> HIDE DEF S, s
    <3> QED BY <3>1, <3>2
  <2> HIDE DEF cut, S
  <2>6. page' \in Pages /\ page'.images = S
    BY <1>0, <2>2, <2>3, <2>5 DEF Pages
  <2>7. /\ page'.kind = page.kind /\ page'.at = page.at /\ page'.saving = page.saving
        /\ page'.ack = page.ack /\ page'.guidelines = page.guidelines /\ page'.cover = page.cover
        /\ page'.existing = page.existing /\ page'.reading = page.reading
    BY <1>0, <2>3 DEF Pages
  <2>8. OneEach(page')
    BY <1>1, <2>4, <2>5, <2>6, <2>7 DEF OneEach
  <2> QED BY <2>6, <2>7, <2>8 DEF FormOK, CoverShown, Later, Uncut
<1>3. CASE \E f \in Files : ProcessFile(f)
  <2>1. PICK f \in Files :
          /\ f \in page.reading
          /\ page' = [page EXCEPT
                !.reading = @ \ {f},
                !.images = Append(@, [file |-> f, named |-> f \notin Nameless,
                                      cropped |-> f, croppedFile |-> f])]
    BY <1>3 DEF ProcessFile
  <2> DEFINE img == [file |-> f, named |-> f \notin Nameless, cropped |-> f, croppedFile |-> f]
             S   == Append(s, img)
  <2>2. img \in Images /\ img.file = f
    BY DEF Images
  <2>3. page' = [page EXCEPT !.reading = page.reading \ {f}, !.images = S]
    BY <1>0, <2>1 DEF Pages
  <2> HIDE DEF img
  <2>4. /\ S \in Seq(Images) /\ Len(S) = Len(s) + 1
        /\ S[Len(s) + 1] = img
        /\ \A i \in 1..Len(s) : S[i] = s[i]
        /\ DOMAIN S = 1..(Len(s) + 1) /\ DOMAIN s = 1..Len(s) /\ Len(s) \in Nat
    <3> HIDE DEF s
    <3> QED BY <1>0, <2>2
  <2> HIDE DEF S
  <2>5. \A i \in DOMAIN S : i \in DOMAIN s \/ i = Len(s) + 1
    BY <2>4
  <2>6. \A i \in DOMAIN s : S[i].file = s[i].file /\ s[i].file # f
    BY <1>1, <2>1, <2>4
  <2>7. S[Len(s) + 1].file = f
    BY <2>2, <2>4
  <2>8. \A i, j \in DOMAIN S : S[i].file = S[j].file => i = j
    BY <1>1, <2>5, <2>6, <2>7
  <2>9. \A i \in DOMAIN S : S[i].file \notin page.reading \ {f}
    BY <1>1, <2>5, <2>6, <2>7
  <2> HIDE DEF s
  <2> QED BY <2>3, <2>4, <2>8, <2>9, ImagesChange
<1>4. CASE \E i \in DOMAIN page.images : UpdateName(i)
  <2>1. PICK i \in DOMAIN s : page' = [page EXCEPT !.images[i].named = ~@]
    BY <1>4 DEF UpdateName
  <2> DEFINE img == [s[i] EXCEPT !.named = ~@]
             S   == [s EXCEPT ![i] = img]
  <2>2. img \in Images /\ img.file = s[i].file
    <3>1. s[i] \in Images
      BY <1>0, ImageIs
    <3> HIDE DEF s
    <3> QED BY <3>1 DEF Images
  <2>3. page' = [page EXCEPT !.images = S]
    BY <2>1
  <2> HIDE DEF img
  <2>4. S \in Seq(Images) /\ DOMAIN S = DOMAIN s
    BY <1>0, <2>2
  <2>5. \A j \in DOMAIN s : S[j].file = s[j].file
    BY <2>2
  <2> HIDE DEF S, s
  <2> QED BY <1>s, <2>3, <2>4, <2>5
<1>5. CASE \E i \in DOMAIN page.images : RemoveImage(i)
  <2>1. PICK i \in DOMAIN s : page' = [page EXCEPT !.images = RemoveAt(s, i)]
    BY <1>5 DEF RemoveImage
  <2> DEFINE S == RemoveAt(s, i)
             back(j) == IF j < i THEN j ELSE j + 1
  <2>2. Len(s) \in Nat /\ DOMAIN s = 1..Len(s) /\ i \in Nat /\ i > 0 /\ i <= Len(s)
    BY <1>0, ImageIs
  <2>3. /\ S \in Seq(Images) /\ Len(S) = Len(s) - 1
        /\ \A j \in 1..Len(S) : S[j] = s[back(j)]
    <3> HIDE DEF s
    <3> DEFINE a == SubSeq(s, 1, i - 1)
               b == SubSeq(s, i + 1, Len(s))
    <3>1. a \in Seq(Images) /\ Len(a) = i - 1 /\ \A j \in 1..(i-1) : a[j] = s[j]
      BY <1>0, <2>2
    <3>2. b \in Seq(Images) /\ Len(b) = Len(s) - i /\ \A j \in 1..(Len(s) - i) : b[j] = s[i + j]
      BY <1>0, <2>2
    <3>3. S = a \o b
      BY DEF RemoveAt
    <3> HIDE DEF a, b, S
    <3>4. S \in Seq(Images) /\ Len(S) = Len(s) - 1
      <4>1. a \o b \in Seq(Images) /\ Len(a \o b) = Len(a) + Len(b)
        BY <3>1, <3>2, ConcatProperties
      <4> QED BY <2>2, <3>1, <3>2, <3>3, <4>1
    <3>5. \A j \in 1..Len(S) : S[j] = IF j <= i - 1 THEN a[j] ELSE b[j - (i - 1)]
      BY <2>2, <3>1, <3>2, <3>3, <3>4
    <3>6. ASSUME NEW j \in 1..Len(S) PROVE S[j] = s[back(j)]
      <4>1. CASE j < i
        BY <2>2, <3>1, <3>5, <4>1
      <4>2. CASE j >= i
        <5>1. S[j] = b[j - (i - 1)]
          BY <2>2, <3>5, <4>2
        <5>2. b[j - (i - 1)] = s[i + (j - (i - 1))]
          BY <2>2, <3>2, <3>4, <4>2
        <5> QED BY <2>2, <4>2, <5>1, <5>2
      <4> QED BY <2>2, <4>1, <4>2
    <3> QED BY <3>4, <3>6
  <2>4. DOMAIN S = 1..Len(S)
    BY <2>3
  <2>5. \A j \in DOMAIN S : back(j) \in DOMAIN s
    BY <2>2, <2>3, <2>4
  <2>6. \A j, k \in DOMAIN S : back(j) = back(k) => j = k
    BY <2>2, <2>3, <2>4
  <2> HIDE DEF back
  <2>7. \A j, k \in DOMAIN S : S[j].file = S[k].file => j = k
    BY <1>1, <2>3, <2>4, <2>5, <2>6
  <2>8. \A j \in DOMAIN S : S[j].file \notin page.reading
    BY <1>1, <2>3, <2>4, <2>5
  <2> HIDE DEF S, s
  <2>9. page' = [page EXCEPT !.reading = page.reading, !.images = S]
    BY <1>0, <2>1 DEF Pages, S
  <2> QED BY <2>3, <2>7, <2>8, <2>9, ImagesChange
<1> QED BY <1>2, <1>3, <1>4, <1>5

\* The characters of the set change: none is added, and what was cut stays cut.
LEMMA ExistingChange ==
  ASSUME FormOK(page), NEW E \in Existings, NEW job \in Jobs,
         DOMAIN E \subseteq DOMAIN page.existing,
         \A o \in DOMAIN E : E[o].croppedFile = "none" => page.existing[o].croppedFile = "none",
         page' = [page EXCEPT !.cutting = job, !.existing = E]
  PROVE  FormOK(page') /\ Later(page, page')
<1>0. page \in Pages
  BY DEF FormOK
<1>1. page' \in Pages /\ page'.existing = E
  BY <1>0 DEF Pages
<1>2. /\ page'.kind = page.kind /\ page'.at = page.at /\ page'.saving = page.saving
      /\ page'.ack = page.ack /\ page'.guidelines = page.guidelines /\ page'.cover = page.cover
      /\ page'.images = page.images /\ page'.reading = page.reading
  BY <1>0 DEF Pages
<1>3. DOMAIN page.existing = {} => DOMAIN E = {}
  OBVIOUS
<1>4. Uncut(page') \subseteq Uncut(page)
  BY <1>1 DEF Uncut
<1>5. OneEach(page') /\ CoverShown(page')
  BY <1>2 DEF FormOK, OneEach, CoverShown
<1> QED BY <1>1, <1>2, <1>3, <1>4, <1>5 DEF FormOK, Later

\* What is done to the characters of the set.
LEMMA ExistingEdits ==
  ASSUME FormOK(page),
         \/ \E o \in DOMAIN page.existing : RemoveExisting(o) \/ RenameExisting(o)
         \/ ExistingCut
  PROVE  FormOK(page') /\ Later(page, page')
<1> DEFINE e == page.existing
<1>0. page \in Pages /\ page.cutting \in Jobs
  BY DEF FormOK, Pages
<1>1. PICK O \in SUBSET Olds : e \in [O -> Existing]
  BY <1>0 DEF Pages, Existings
<1>2. ASSUME NEW P \in SUBSET O, NEW E \in [P -> Existing], NEW job \in Jobs,
             \A o \in P : E[o].croppedFile = "none" => e[o].croppedFile = "none",
             page' = [page EXCEPT !.cutting = job, !.existing = E]
      PROVE  FormOK(page') /\ Later(page, page')
  <2>1. E \in Existings /\ DOMAIN E = P /\ DOMAIN e = O
    BY <1>1 DEF Existings
  <2> QED BY <1>2, <2>1, ExistingChange
<1>3. ASSUME NEW E, page' = [page EXCEPT !.existing = E]
      PROVE  page' = [page EXCEPT !.cutting = page.cutting, !.existing = E]
  BY <1>0, <1>3 DEF Pages
<1>4. CASE \E o \in DOMAIN page.existing : RemoveExisting(o)
  <2>1. PICK o \in O : page' = [page EXCEPT !.existing = Restrict(e, DOMAIN e \ {o})]
    BY <1>1, <1>4 DEF RemoveExisting
  <2> DEFINE E == Restrict(e, DOMAIN e \ {o})
  <2>2. E \in [O \ {o} -> Existing] /\ \A x \in O \ {o} : E[x] = e[x]
    BY <1>1 DEF Restrict
  <2> HIDE DEF E
  <2>3. page' = [page EXCEPT !.cutting = page.cutting, !.existing = E]
    BY <1>3, <2>1 DEF E
  <2> HIDE DEF e
  <2> QED BY <1>0, <1>2, <2>2, <2>3
<1>5. CASE \E o \in DOMAIN page.existing : RenameExisting(o)
  <2>1. PICK o \in O : page' = [page EXCEPT !.existing[o].named = ~@]
    BY <1>1, <1>5 DEF RenameExisting
  <2> DEFINE c == [e[o] EXCEPT !.named = ~@]
             E == [e EXCEPT ![o] = c]
  <2>2. c \in Existing /\ c.croppedFile = e[o].croppedFile
    <3>1. e[o] \in Existing
      BY <1>1
    <3> HIDE DEF e
    <3> QED BY <3>1 DEF Existing
  <2> HIDE DEF c
  <2>3. E \in [O -> Existing] /\ \A x \in O : E[x].croppedFile = e[x].croppedFile
    BY <1>1, <2>2
  <2>4. page' = [page EXCEPT !.existing = E]
    BY <2>1 DEF c
  <2> HIDE DEF E, e
  <2>5. page' = [page EXCEPT !.cutting = page.cutting, !.existing = E]
    BY <1>3, <2>4
  <2> QED BY <1>0, <1>2, <2>3, <2>5
<1>6. CASE ExistingCut
  <2> DEFINE job == [page.cutting EXCEPT !["existing"] = Nil]
             cut(o) == [e[o] EXCEPT !.preview = "cut", !.croppedFile = "cut"]
             E == [o \in DOMAIN e |-> IF o = page.cutting["existing"] THEN cut(o) ELSE e[o]]
  <2>1. job \in Jobs
    BY <1>0 DEF Jobs, Kinds
  <2>2. ASSUME NEW o \in O PROVE cut(o) \in Existing /\ cut(o).croppedFile = "cut"
    <3>1. e[o] \in Existing
      BY <1>1
    <3> HIDE DEF e
    <3> QED BY <3>1 DEF Existing
  <2> HIDE DEF cut
  <2>3. E \in [O -> Existing] /\ \A o \in O : E[o].croppedFile = "none" => e[o].croppedFile = "none"
    BY <1>1, <2>2
  <2>4. page' = [page EXCEPT !.cutting = job, !.existing = E]
    BY <1>6 DEF ExistingCut, cut
  <2> HIDE DEF E, e, job
  <2> QED BY <1>2, <2>1, <2>3, <2>4
<1> QED BY <1>4, <1>5, <1>6

\* Whatever is done on the page keeps the form sound, and makes it a later one.
LEMMA EditingForm ==
  ASSUME FormOK(page), CropInv, Editing
  PROVE  FormOK(page') /\ Later(page, page') /\ page.at = "form" /\ UNCHANGED away
<1>1. FormOK(page') /\ Later(page, page')
  BY CoverEdits, PlainEdits, ImageEdits, ExistingEdits DEF Editing
<1>2. page.at = "form" /\ UNCHANGED away
  BY DEF Editing, Edit, Press, End, TypeName, TogglePublic, ReadCover, HandleCoverChange,
         RemoveCover, OpenCoverCrop, CoverFetched, ApplyCoverCrop, CoverCut, HandleFileSelect,
         ApplyCrop, ImageCut, ProcessFile, UpdateName, RemoveImage, OpenCrop, RemoveExisting,
         RenameExisting, CropExisting, ExistingFetched, ApplyExistingCrop, ExistingCut
<1> QED BY <1>1, <1>2

----------------------------------------------------------------------------
(* What is sent and stored *)

\* A character as a request tells of it.
People == [who : Files \cup Olds, named : BOOLEAN, shows : Files \cup {"cut"}]

\* None is told of twice.
Distinct(s) == \A i, j \in DOMAIN s : s[i].who = s[j].who => i = j

OldRow(o) == [row |-> "old", who |-> o, named |-> TRUE, shows |-> "stored"]

AllRows ==
  {OldRow(o) : o \in Olds}
  \cup [row : {"new"}, who : Files \cup Olds, named : {TRUE}, shows : Files \cup {"cut"}]

Sets == [exists : BOOLEAN, public : BOOLEAN, cover : Pictures, rows : SUBSET AllRows]

\* What a sequence of people is made of.
LEMMA PersonIs ==
  ASSUME NEW s \in Seq(People)
  PROVE  /\ DOMAIN s = 1..Len(s) /\ Len(s) \in Nat
         /\ \A i \in DOMAIN s : s[i] \in People
<1>1. s \in [1..Len(s) -> People] /\ Len(s) \in Nat
  OBVIOUS
<1> QED BY <1>1

\* A nonempty set of numbers has a least one.
LEMMA LeastExists ==
  ASSUME NEW S \in SUBSET Nat, S # {}
  PROVE  \E x \in S : \A y \in S : x <= y
<1> DEFINE R == {p \in Nat \X Nat : p[1] < p[2]}
<1>1. IsWellFoundedOn(R, Nat)
  BY NatLessThanWellFounded DEF OpToRel
<1>2. \A x, y \in Nat : <<y, x>> \in R <=> y < x
  OBVIOUS
<1> HIDE DEF R
<1>3. PICK x \in S : \A y \in S : ~(<<y, x>> \in R)
  BY <1>1, WFMin
<1>4. \A y \in S : ~(y < x)
  BY <1>2, <1>3
<1>5. \A y \in S : x <= y
  BY <1>4
<1> QED BY <1>5

\* The server reads the characters up to the first one without a name.
LEMMA ParsedIs ==
  ASSUME NEW fresh \in Seq(People)
  PROVE  /\ Parsed(fresh) \in Seq(People) /\ Len(Parsed(fresh)) <= Len(fresh)
         /\ \A i \in DOMAIN Parsed(fresh) :
              i \in DOMAIN fresh /\ Parsed(fresh)[i] = fresh[i] /\ fresh[i].named
         /\ (\A i \in DOMAIN fresh : fresh[i].named) => Parsed(fresh) = fresh
         /\ Parsed(fresh) = fresh \/ \E i \in DOMAIN fresh : ~fresh[i].named
<1> DEFINE I == {i \in 1..Len(fresh) : ~fresh[i].named}
           blank == IF I # {} THEN Min(I) ELSE 0
<1>0. /\ DOMAIN fresh = 1..Len(fresh) /\ Len(fresh) \in Nat
      /\ \A i \in DOMAIN fresh : fresh[i] \in People
  BY PersonIs
<1>1. Parsed(fresh) = IF blank = 0 THEN fresh ELSE SubSeq(fresh, 1, blank - 1)
  BY DEF Parsed, SelectInSeq
<1>2. CASE I = {}
  <2>1. Parsed(fresh) = fresh
    BY <1>1, <1>2
  <2> QED BY <1>0, <1>2, <2>1
<1>3. CASE I # {}
  <2>1. \E x \in I : \A y \in I : x <= y
    <3>1. I \in SUBSET Nat
      BY <1>0
    <3> HIDE DEF I
    <3> QED BY <1>3, <3>1, LeastExists
  <2>2. blank \in I /\ \A y \in I : blank <= y
    BY <1>3, <2>1 DEF Min
  <2> HIDE DEF blank
  <2>3. Parsed(fresh) = SubSeq(fresh, 1, blank - 1) /\ blank \in 1..Len(fresh)
    BY <1>1, <2>2
  <2>4. /\ SubSeq(fresh, 1, blank - 1) \in Seq(People)
        /\ Len(SubSeq(fresh, 1, blank - 1)) = blank - 1
        /\ \A i \in 1..(blank - 1) : SubSeq(fresh, 1, blank - 1)[i] = fresh[i]
    BY <1>0, <2>3
  <2>5. DOMAIN SubSeq(fresh, 1, blank - 1) = 1..(blank - 1)
    BY <2>4
  <2>6. \A i \in 1..(blank - 1) : i \in DOMAIN fresh /\ fresh[i].named
    BY <1>0, <2>2, <2>3
  <2>7. ~fresh[blank].named /\ blank \in DOMAIN fresh
    BY <1>0, <2>2
  <2> HIDE DEF I
  <2> QED BY <1>0, <2>3, <2>4, <2>5, <2>6, <2>7
<1> QED BY <1>2, <1>3

\* Each character that is written has a row of its own.
LEMMA RowsAre ==
  ASSUME NEW s \in Seq(People), Distinct(s)
  PROVE  /\ Rows(s) \subseteq AllRows
         /\ IsFiniteSet(Rows(s)) /\ Cardinality(Rows(s)) = Len(s)
         /\ \A r \in Rows(s) : r.row = "new"
<1> DEFINE row(c) == [row |-> "new", who |-> c.who, named |-> TRUE, shows |-> c.shows]
           f == [i \in 1..Len(s) |-> row(s[i])]
<1>0. /\ DOMAIN s = 1..Len(s) /\ Len(s) \in Nat
      /\ \A i \in DOMAIN s : s[i] \in People
  BY PersonIs
<1>1. Rows(s) = {row(s[i]) : i \in 1..Len(s)}
  BY <1>0 DEF Rows, ToSet
<1>2. \A i \in 1..Len(s) : row(s[i]) \in AllRows /\ row(s[i]).row = "new" /\ row(s[i]).who = s[i].who
  BY <1>0 DEF AllRows, People
<1>3. f \in Bijection(1..Len(s), Rows(s))
  <2> HIDE DEF row
  <2>1. f \in [1..Len(s) -> Rows(s)] /\ \A i \in 1..Len(s) : f[i] = row(s[i])
    BY <1>1
  <2>2. \A i, j \in 1..Len(s) : f[i] = f[j] => i = j
    BY <1>0, <1>2, <2>1 DEF Distinct
  <2>3. \A r \in Rows(s) : \E i \in 1..Len(s) : f[i] = r
    BY <1>1, <2>1
  <2> HIDE DEF f
  <2> QED BY <2>1, <2>2, <2>3 DEF Bijection, Injection, Surjection, IsInjective
<1>4. IsFiniteSet(1..Len(s)) /\ Cardinality(1..Len(s)) = Len(s)
  BY <1>0, FS_Interval
<1>5. ExistsBijection(1..Len(s), Rows(s))
  BY <1>3 DEF ExistsBijection
<1> HIDE DEF f, row
<1> QED BY <1>1, <1>2, <1>4, <1>5, FS_Bijection

\* Two lists that tell of different characters.
LEMMA TwoLists ==
  ASSUME NEW a \in Seq(People), NEW b \in Seq(People), Distinct(a), Distinct(b),
         \A i \in DOMAIN a, j \in DOMAIN b : a[i].who # b[j].who
  PROVE  /\ a \o b \in Seq(People) /\ Distinct(a \o b)
         /\ ToSet(a \o b) = ToSet(a) \cup ToSet(b)
<1> DEFINE s == a \o b
<1>1. /\ DOMAIN a = 1..Len(a) /\ Len(a) \in Nat
      /\ DOMAIN b = 1..Len(b) /\ Len(b) \in Nat
  BY PersonIs
<1>2. /\ s \in Seq(People) /\ Len(s) = Len(a) + Len(b)
      /\ \A i \in 1..(Len(a) + Len(b)) : s[i] = IF i <= Len(a) THEN a[i] ELSE b[i - Len(a)]
  BY ConcatProperties
<1>3. DOMAIN s = 1..(Len(a) + Len(b))
  BY <1>1, <1>2, PersonIs
<1> HIDE DEF s
<1>4. \A i \in DOMAIN s :
        \/ i \in DOMAIN a /\ s[i] = a[i]
        \/ i - Len(a) \in DOMAIN b /\ s[i] = b[i - Len(a)] /\ i > Len(a)
  BY <1>1, <1>2, <1>3
<1>5. Distinct(s)
  <2> SUFFICES ASSUME NEW i \in DOMAIN s, NEW j \in DOMAIN s, s[i].who = s[j].who
               PROVE  i = j
    BY DEF Distinct
  <2>1. i \in Int /\ j \in Int
    BY <1>3
  <2>2. CASE i \in DOMAIN a /\ s[i] = a[i] /\ j \in DOMAIN a /\ s[j] = a[j]
    BY <2>2 DEF Distinct
  <2>3. CASE i - Len(a) \in DOMAIN b /\ s[i] = b[i - Len(a)] /\ j - Len(a) \in DOMAIN b /\ s[j] = b[j - Len(a)]
    <3>1. i - Len(a) = j - Len(a)
      BY <2>3 DEF Distinct
    <3> QED BY <1>1, <2>1, <3>1
  <2> QED BY <1>4, <2>2, <2>3
<1>6. ToSet(s) \subseteq ToSet(a) \cup ToSet(b)
  BY <1>4 DEF ToSet
<1>7. ToSet(a) \subseteq ToSet(s)
  <2>1. \A i \in DOMAIN a : i \in DOMAIN s /\ s[i] = a[i]
    BY <1>1, <1>2, <1>3
  <2> QED BY <2>1 DEF ToSet
<1>8. ToSet(b) \subseteq ToSet(s)
  <2>1. \A j \in DOMAIN b : j + Len(a) \in DOMAIN s /\ s[j + Len(a)] = b[j]
    BY <1>1, <1>2, <1>3
  <2> QED BY <2>1 DEF ToSet
<1> QED BY <1>2, <1>5, <1>6, <1>7, <1>8 DEF s

\* The characters that are cut again, in any order.
LEMMA AgainIs ==
  ASSUME NEW R \in SUBSET Olds, NEW A \in [R -> People], \A o \in R : A[o].who = o,
         NEW s \in SetToSeqs(Range(A))
  PROVE  /\ s \in Seq(People) /\ Distinct(s)
         /\ ToSet(s) = {A[o] : o \in R}
         /\ \A i \in DOMAIN s : s[i] \in {A[o] : o \in R}
<1> DEFINE S == Range(A)
           D == 1..Cardinality(S)
<1>1. S = {A[o] : o \in R} /\ S \subseteq People
  BY DEF Range
<1>2. IsFiniteSet(S)
  <2>1. A \in Surjection(R, S)
    BY <1>1 DEF Surjection
  <2>2. IsFiniteSet(R)
    BY FS_Subset, EditorAssumption
  <2> HIDE DEF S
  <2> QED BY <2>1, <2>2, FS_Surjection
<1>3. s \in [D -> S] /\ \A i, j \in D : i # j => s[i] # s[j]
  BY DEF SetToSeqs
<1> HIDE DEF S
<1>4. Cardinality(S) \in Nat /\ IsFiniteSet(D) /\ Cardinality(D) = Cardinality(S)
  BY <1>2, FS_CardinalityType, FS_Interval
<1> HIDE DEF D
<1>5. s \in Surjection(D, S)
  <2>1. s \in Injection(D, S)
    BY <1>3 DEF Injection, IsInjective
  <2> QED BY <1>2, <1>4, <2>1, FS_Injection
<1>6. s \in Seq(People) /\ DOMAIN s = D
  <2>1. s \in [1..Cardinality(S) -> People] /\ DOMAIN s = D
    BY <1>1, <1>3 DEF D
  <2> QED BY <1>4, <2>1
<1>7. \A x, y \in S : x.who = y.who => x = y
  BY <1>1
<1>8. Distinct(s)
  BY <1>3, <1>6, <1>7 DEF Distinct
<1>9. ToSet(s) = S
  BY <1>3, <1>5, <1>6 DEF ToSet, Surjection
<1> QED BY <1>1, <1>3, <1>6, <1>8, <1>9

\* What is sent of the characters that were added.
LEMMA FreshIs ==
  ASSUME FormOK(page)
  PROVE  /\ Fresh \in Seq(People) /\ Distinct(Fresh)
         /\ \A i \in DOMAIN Fresh : Fresh[i].who \in Files /\ Fresh[i].named = page.images[i].named
         /\ DOMAIN Fresh = DOMAIN page.images
         /\ ToSet(Fresh) = {[who |-> img.file, named |-> img.named, shows |-> img.cropped] :
                              img \in ToSet(page.images)}
<1> DEFINE s == page.images
           told(x) == [who |-> x.file, named |-> x.named, shows |-> x.croppedFile]
<1>1. /\ DOMAIN s = 1..Len(s) /\ Len(s) \in Nat
      /\ \A i \in DOMAIN s : s[i] \in Images
  <2>1. s \in Seq(Images)
    BY DEF FormOK, Pages
  <2> HIDE DEF s
  <2>2. s \in [1..Len(s) -> Images] /\ Len(s) \in Nat
    BY <2>1
  <2> QED BY <2>2
<1>2. DOMAIN Fresh = 1..Len(s) /\ \A i \in 1..Len(s) : Fresh[i] = told(s[i])
  BY <1>1 DEF Fresh
<1>3. \A x \in Images : /\ told(x) \in People /\ told(x).who = x.file /\ x.file \in Files
                        /\ told(x).named = x.named
                        /\ told(x) = [who |-> x.file, named |-> x.named, shows |-> x.cropped]
  BY DEF Images, People
<1>4. Fresh \in Seq(People)
  <2> HIDE DEF told, s
  <2>1. Fresh = [i \in 1..Len(s) |-> Fresh[i]]
    BY <1>1 DEF Fresh, s
  <2>2. Fresh \in [1..Len(s) -> People]
    BY <1>1, <1>2, <1>3, <2>1
  <2> QED BY <1>1, <2>2
<1>5. Distinct(Fresh)
  <2>1. \A i, j \in DOMAIN s : s[i].file = s[j].file => i = j
    BY DEF FormOK, OneEach
  <2> HIDE DEF told, s
  <2> QED BY <1>1, <1>2, <1>3, <2>1 DEF Distinct
<1>6. ToSet(Fresh) = {[who |-> x.file, named |-> x.named, shows |-> x.cropped] : x \in ToSet(s)}
  <2> DEFINE seen(x) == [who |-> x.file, named |-> x.named, shows |-> x.cropped]
  <2>1. \A i \in DOMAIN s : Fresh[i] = seen(s[i])
    BY <1>1, <1>2, <1>3
  <2> HIDE DEF seen, s
  <2>2. ToSet(Fresh) = {seen(x) : x \in ToSet(s)}
    BY <1>1, <1>2, <2>1 DEF ToSet
  <2> QED BY <2>2 DEF seen
<1> HIDE DEF told, s
<1>7. \A i \in DOMAIN Fresh : Fresh[i].who \in Files /\ Fresh[i].named = s[i].named
  BY <1>1, <1>2, <1>3
<1> QED BY <1>1, <1>2, <1>4, <1>5, <1>6, <1>7 DEF s

----------------------------------------------------------------------------
(* The invariant of saving *)

\* What is stored goes with the form it is shown in: a character that was not cut
\* again still has its row, a cover that is only shown is the one that is stored, and
\* nothing is public without a confirmation.
StoredOK ==
  /\ stored \in Sets
  /\ stored.exists /\ ~crossed => InBounds(Cardinality(stored.rows))
  /\ page.kind = "edit" /\ ~crossed => \A o \in Uncut(page) : OldRow(o) \in stored.rows
  /\ page.cover.file = NoPicture /\ page.cover.preview # NoPicture =>
       stored.cover = page.cover.preview
  /\ page.kind = "new" /\ stored.exists /\ stored.public => page.ack

\* Where the page is: guidelines are shown only before anything is public, and what is
\* loaded is loaded first.
StageOK ==
  /\ page.guidelines =>
       page.kind = "new" /\ ~page.saving /\ ~(stored.exists /\ stored.public)
  /\ page.at = "loading" =>
       /\ page.kind = "edit" /\ ~page.saving
       /\ page.cover.file = NoPicture
       /\ stored.rows \subseteq {OldRow(o) : o \in Olds}

\* A page with a request on its way is saving.
CallOK ==
  /\ DOMAIN call = {"save", "delete"}
  /\ \A c \in DOMAIN call : "at" \in DOMAIN call[c]
  /\ call["save"].at # "none" => page.saving /\ page.at # "saved"

\* A request tells of all that the page showed: what is kept has its row, and the rest is new.
Body(b, p) ==
  /\ b.public \in BOOLEAN /\ b.public = shown.public
  /\ b.cover \in Pictures
  /\ DOMAIN b.keep \subseteq Olds /\ \A o \in DOMAIN b.keep : b.keep[o] = TRUE
  /\ b.fresh \in Seq(People) /\ Distinct(b.fresh)
  /\ shown.people = {[who |-> o, named |-> TRUE, shows |-> "stored"] : o \in DOMAIN b.keep}
                    \cup ToSet(b.fresh)
  /\ p.kind = "new" =>
       DOMAIN b.keep = {} /\ (b.public => p.ack) /\ b.cover = shown.cover
  /\ p.kind = "edit" =>
       /\ \A i \in DOMAIN b.fresh : b.fresh[i].named
       /\ ~crossed => \A o \in DOMAIN b.keep : OldRow(o) \in stored.rows
       /\ Uncut(p) \subseteq DOMAIN b.keep
       /\ p.cover.file = NoPicture /\ p.cover.preview # NoPicture => b.cover = NoPicture
       /\ shown.cover # NoPicture =>
            b.cover = shown.cover \/ (b.cover = NoPicture /\ stored.cover = shown.cover)

SentOK == call["save"].at = "sent" => Body(call["save"], page)

\* What SavedIsShown promises.
Matches ==
  /\ stored.public = shown.public
  /\ shown.cover # NoPicture => stored.cover = shown.cover
  /\ LET people == {[who |-> r.who, named |-> r.named, shows |-> r.shows] : r \in stored.rows}
     IN \/ people = shown.people
        \/ people \subseteq shown.people /\ \E c \in shown.people : ~c.named

DoneOK ==
  (call["save"].at = "ok" \/ page.at = "saved") /\ ~crossed /\ stored.exists => Matches

SaveInv == StoredOK /\ StageOK /\ CallOK /\ SentOK /\ DoneOK

\* The form is as it was or later, and what is said of it still holds.
Aged(p, q) ==
  /\ q.kind = p.kind
  /\ q.at = p.at \/ q.at \notin {"loading", "saved"}
  /\ Uncut(q) \subseteq Uncut(p)
  /\ q.cover.file = NoPicture /\ q.cover.preview # NoPicture =>
       p.cover.file = NoPicture /\ p.cover.preview = q.cover.preview

\* The page changes and the save request does not.
LEMMA PageStep ==
  ASSUME SaveInv, Aged(page, page'), page'.at # "loading",
         page'.saving = page.saving, UNCHANGED <<shown, stored, crossed>>,
         DOMAIN call' = DOMAIN call, call'["save"] = call["save"],
         "at" \in DOMAIN call'["delete"],
         page'.guidelines =>
           page.kind = "new" /\ ~page.saving /\ ~(stored.exists /\ stored.public),
         page'.ack = page.ack
           \/ (~page.saving /\ ~(page.kind = "new" /\ stored.exists /\ stored.public))
  PROVE  SaveInv'
<1>1. StoredOK'
  BY DEF SaveInv, StoredOK, Aged, InBounds
<1>2. StageOK'
  BY DEF SaveInv, StageOK, Aged
<1>3. CallOK'
  BY DEF SaveInv, CallOK, Aged
<1>4. SentOK'
  <2> SUFFICES ASSUME call["save"].at = "sent"
               PROVE  Body(call["save"], page)'
    BY DEF SentOK
  <2>1. Body(call["save"], page) /\ page.saving
    BY DEF SaveInv, SentOK, CallOK
  <2>2. page'.ack = page.ack
    BY <2>1
  <2> QED BY <2>1, <2>2 DEF Body, Aged
<1>5. DoneOK'
  <2>1. (page.at = "saved")' => page.at = "saved"
    BY DEF Aged
  <2>2. Matches => Matches'
    BY DEF Matches
  <2> QED BY <2>1, <2>2 DEF SaveInv, DoneOK
<1> QED BY <1>1, <1>2, <1>3, <1>4, <1>5 DEF SaveInv

\* Whatever is done on the page before it is saved.
LEMMA EditingSave ==
  ASSUME FormOK(page), CropInv, SaveInv, Editing
  PROVE  SaveInv'
<1>1. Later(page, page') /\ page.at = "form" /\ UNCHANGED away
  BY EditingForm
<1>2. Aged(page, page') /\ page'.at # "loading"
  BY <1>1 DEF Aged, Later
<1>3. /\ UNCHANGED <<shown, stored, crossed>>
      /\ DOMAIN call' = DOMAIN call /\ call'["save"] = call["save"]
      /\ "at" \in DOMAIN call'["delete"]
  BY <1>1 DEF away, SaveInv, CallOK
<1>4. page'.saving = page.saving /\ page'.ack = page.ack /\ page'.guidelines = page.guidelines
  BY <1>1 DEF Later
<1>5. page'.guidelines =>
        page.kind = "new" /\ ~page.saving /\ ~(stored.exists /\ stored.public)
  BY <1>4 DEF SaveInv, StageOK
<1> QED BY <1>2, <1>3, <1>4, <1>5, PageStep

\* Cropping changes nothing of the form until it is applied.
LEMMA CroppingSave ==
  ASSUME FormOK(page), SaveInv, Cropping
  PROVE  FormOK(page') /\ SaveInv'
<1>1. UNCHANGED <<page, away>>
  <2>1. ASSUME NEW kind, NEW type, PointerDown(kind, type)
        PROVE  UNCHANGED <<page, away>>
    BY <2>1 DEF PointerDown, Edit
  <2>2. ASSUME NEW kind, NEW dx, NEW dy, PointerMove(kind, dx, dy)
        PROVE  UNCHANGED <<page, away>>
    BY <2>2 DEF PointerMove, End
  <2>3. ASSUME NEW kind, PointerUp(kind) \/ CancelCrop(kind)
        PROVE  UNCHANGED <<page, away>>
    BY <2>3 DEF PointerUp, CancelCrop, Edit, End
  <2> QED
    BY <2>1, <2>2, <2>3
       DEF Cropping, NewCoverDrag, EditCoverDrag, ExistingDrag, HandlePointerMove
<1> QED
  BY <1>1 DEF away, SaveInv, StoredOK, StageOK, CallOK, SentOK, Body, DoneOK, Matches, InBounds

----------------------------------------------------------------------------
\* A page whose buttons change, and nothing that is sent.
LEMMA Buttons ==
  ASSUME FormOK(page), NEW q \in Pages, q.kind = page.kind, q.cover = page.cover,
         q.existing = page.existing, q.images = page.images, q.reading = page.reading
  PROVE  FormOK(q) /\ Uncut(q) = Uncut(page)
BY DEF FormOK, CoverShown, OneEach, Uncut

\* The buttons that only change the page.
LEMMA ButtonSave ==
  ASSUME FormOK(page), SaveInv,
         \/ Acknowledge \/ HandleDelete \/ Blur \/ Back
         \/ /\ HandleSaveNew
            /\ page' = [page EXCEPT !.guidelines = TRUE]
            /\ page.public /\ ~page.ack /\ UNCHANGED away
  PROVE  FormOK(page') /\ SaveInv'
<1>0. page \in Pages
  BY DEF FormOK
<1>c. /\ DOMAIN call = {"save", "delete"} /\ "at" \in DOMAIN call["delete"]
      /\ page.guidelines =>
           page.kind = "new" /\ ~page.saving /\ ~(stored.exists /\ stored.public)
  BY DEF SaveInv, CallOK, StageOK
<1>1. CASE Acknowledge
  <2> DEFINE b == ~page.ack
  <2>1. /\ b \in BOOLEAN /\ page' = [page EXCEPT !.ack = b]
        /\ page.guidelines /\ page.at = "form" /\ UNCHANGED away
    BY <1>1 DEF Acknowledge, Edit, Press
  <2> HIDE DEF b
  <2>2. /\ page' \in Pages /\ page'.kind = page.kind /\ page'.at = page.at
        /\ page'.cover = page.cover /\ page'.existing = page.existing
        /\ page'.images = page.images /\ page'.reading = page.reading
        /\ page'.saving = page.saving /\ page'.guidelines = page.guidelines
    BY <1>0, <2>1 DEF Pages
  <2>3. FormOK(page') /\ Aged(page, page')
    BY <2>2, Buttons DEF Aged
  <2>4. UNCHANGED <<shown, stored, crossed, call>>
    BY <2>1 DEF away
  <2> QED BY <1>c, <2>1, <2>2, <2>3, <2>4, PageStep
<1>2. CASE HandleDelete
  <2>1. /\ \/ /\ page' = [page EXCEPT !.deleting = TRUE]
              /\ call' = [call EXCEPT !["delete"] = [at |-> "sent"]]
           \/ page' = [page EXCEPT !.confirm = TRUE] /\ UNCHANGED call
        /\ UNCHANGED <<shown, stored, crossed>>
        /\ page.at = "form"
    BY <1>2 DEF HandleDelete, Press
  <2>2. /\ page' \in Pages /\ page'.kind = page.kind /\ page'.at = page.at
        /\ page'.cover = page.cover /\ page'.existing = page.existing
        /\ page'.images = page.images /\ page'.reading = page.reading
        /\ page'.saving = page.saving /\ page'.guidelines = page.guidelines
        /\ page'.ack = page.ack
    BY <1>0, <2>1 DEF Pages
  <2>3. FormOK(page') /\ Aged(page, page')
    BY <2>2, Buttons DEF Aged
  <2>4. /\ DOMAIN call' = DOMAIN call /\ call'["save"] = call["save"]
        /\ "at" \in DOMAIN call'["delete"]
    BY <1>c, <2>1
  <2> QED BY <1>c, <2>1, <2>2, <2>3, <2>4, PageStep
<1>3. CASE Blur
  <2>1. page' = [page EXCEPT !.confirm = FALSE] /\ UNCHANGED away /\ page.at = "form"
    BY <1>3 DEF Blur, End
  <2>2. /\ page' \in Pages /\ page'.kind = page.kind /\ page'.at = page.at
        /\ page'.cover = page.cover /\ page'.existing = page.existing
        /\ page'.images = page.images /\ page'.reading = page.reading
        /\ page'.saving = page.saving /\ page'.guidelines = page.guidelines
        /\ page'.ack = page.ack
    BY <1>0, <2>1 DEF Pages
  <2>3. FormOK(page') /\ Aged(page, page')
    BY <2>2, Buttons DEF Aged
  <2>4. UNCHANGED <<shown, stored, crossed, call>>
    BY <2>1 DEF away
  <2> QED BY <1>c, <2>1, <2>2, <2>3, <2>4, PageStep
<1>4. CASE Back
  <2>1. page' = [page EXCEPT !.at = "elsewhere"] /\ UNCHANGED away
    BY <1>4 DEF Back
  <2>2. /\ page' \in Pages /\ page'.kind = page.kind /\ page'.at = "elsewhere"
        /\ page'.cover = page.cover /\ page'.existing = page.existing
        /\ page'.images = page.images /\ page'.reading = page.reading
        /\ page'.saving = page.saving /\ page'.guidelines = page.guidelines
        /\ page'.ack = page.ack
    BY <1>0, <2>1 DEF Pages
  <2>3. FormOK(page') /\ Aged(page, page')
    BY <2>2, Buttons DEF Aged
  <2>4. UNCHANGED <<shown, stored, crossed, call>>
    BY <2>1 DEF away
  <2> QED BY <1>c, <2>2, <2>3, <2>4, PageStep
<1>5. CASE /\ HandleSaveNew
           /\ page' = [page EXCEPT !.guidelines = TRUE]
           /\ page.public /\ ~page.ack /\ UNCHANGED away
  <2>1. page.kind = "new" /\ page.at = "form" /\ ~page.saving
    BY <1>5 DEF HandleSaveNew, Press, SaveDisabled
  <2>2. /\ page' \in Pages /\ page'.kind = page.kind /\ page'.at = page.at
        /\ page'.cover = page.cover /\ page'.existing = page.existing
        /\ page'.images = page.images /\ page'.reading = page.reading
        /\ page'.saving = page.saving
        /\ page'.ack = page.ack
    BY <1>0, <1>5 DEF Pages
  <2>3. FormOK(page') /\ Aged(page, page')
    BY <2>2, Buttons DEF Aged
  <2>4. UNCHANGED <<shown, stored, crossed, call>>
    BY <1>5 DEF away
  <2>5. ~(stored.exists /\ stored.public)
    BY <1>5, <2>1 DEF SaveInv, StoredOK
  <2> QED BY <1>c, <2>1, <2>2, <2>3, <2>4, <2>5, PageStep
<1> QED BY <1>1, <1>2, <1>3, <1>4, <1>5

\* The set that is edited is loaded.
LEMMA LoadSave ==
  ASSUME FormOK(page), SaveInv, Load
  PROVE  FormOK(page') /\ SaveInv'
<1>0. page \in Pages
  BY DEF FormOK
<1>1. /\ page.at = "loading" /\ page.kind = "edit" /\ ~page.saving
      /\ page.cover.file = NoPicture /\ ~page.guidelines
      /\ stored.rows \subseteq {OldRow(o) : o \in Olds}
      /\ stored \in Sets /\ UNCHANGED away
      /\ call["save"].at = "none"
      /\ DOMAIN call = {"save", "delete"} /\ "at" \in DOMAIN call["delete"]
  BY DEF Load, SaveInv, StageOK, CallOK, StoredOK
<1>a. UNCHANGED <<shown, stored, crossed, call>>
  BY <1>1 DEF away
<1>2. CASE page' = [page EXCEPT !.at = "not found"]
  <2>2. /\ page' \in Pages /\ page'.kind = page.kind /\ page'.at = "not found"
        /\ page'.cover = page.cover /\ page'.existing = page.existing
        /\ page'.images = page.images /\ page'.reading = page.reading
        /\ page'.saving = page.saving /\ page'.guidelines = page.guidelines
        /\ page'.ack = page.ack
    BY <1>0, <1>2 DEF Pages
  <2>3. FormOK(page') /\ Aged(page, page')
    BY <2>2, Buttons DEF Aged
  <2> QED BY <1>1, <1>a, <2>2, <2>3, PageStep
<1>3. CASE page' = [page EXCEPT !.at = "form", !.named = TRUE, !.public = stored.public,
                      !.cover.preview = stored.cover,
                      !.existing = [o \in {r.who : r \in stored.rows} |->
                         [named |-> TRUE, preview |-> "stored", croppedFile |-> "none"]]]
  <2> DEFINE E == [o \in {r.who : r \in stored.rows} |->
                     [named |-> TRUE, preview |-> "stored", croppedFile |-> "none"]]
             cover == [page.cover EXCEPT !.preview = stored.cover]
             public == stored.public
  <2>1. \A o \in DOMAIN E : o \in Olds /\ OldRow(o) \in stored.rows
    <3> SUFFICES ASSUME NEW o \in DOMAIN E
                 PROVE  o \in Olds /\ OldRow(o) \in stored.rows
      OBVIOUS
    <3>1. PICK r \in stored.rows : o = r.who
      OBVIOUS
    <3>2. PICK x \in Olds : r = OldRow(x)
      BY <1>1
    <3> QED BY <3>1, <3>2 DEF OldRow
  <2>2. E \in Existings
    <3>1. [named |-> TRUE, preview |-> "stored", croppedFile |-> "none"] \in Existing
      BY DEF Existing
    <3>2. DOMAIN E \in SUBSET Olds /\ E \in [DOMAIN E -> Existing]
      BY <2>1, <3>1
    <3> HIDE DEF E
    <3> QED BY <3>2 DEF Existings
  <2>3. cover \in Covers /\ cover.preview = stored.cover /\ cover.file = NoPicture
    BY <1>0, <1>1 DEF Pages, Covers, Sets
  <2>4. public \in BOOLEAN
    BY <1>1 DEF Sets
  <2>5. page' = [page EXCEPT !.at = "form", !.named = TRUE, !.public = public,
                   !.cover = cover, !.existing = E]
    BY <1>3
  <2> HIDE DEF E, cover, public
  <2>6. /\ page' \in Pages /\ page'.kind = page.kind /\ page'.at = "form"
        /\ page'.cover = cover /\ page'.existing = E
    BY <1>0, <2>2, <2>3, <2>4, <2>5 DEF Pages
  <2>7. /\ page'.images = page.images /\ page'.reading = page.reading
        /\ page'.saving = page.saving /\ page'.guidelines = page.guidelines
        /\ page'.ack = page.ack
    BY <1>0, <2>5 DEF Pages
  <2>8. FormOK(page')
    BY <1>1, <2>3, <2>6, <2>7 DEF FormOK, CoverShown, OneEach
  <2>9. StoredOK'
    BY <1>1, <1>a, <2>1, <2>3, <2>6 DEF SaveInv, StoredOK, Uncut, InBounds
  <2>10. StageOK' /\ CallOK' /\ SentOK' /\ DoneOK'
    BY <1>1, <1>a, <2>6, <2>7 DEF SaveInv, StageOK, CallOK, SentOK, DoneOK
  <2> QED BY <2>8, <2>9, <2>10 DEF SaveInv
<1> QED BY <1>2, <1>3 DEF Load

----------------------------------------------------------------------------
\* A request is sent that tells of what is shown.
LEMMA SendSave ==
  ASSUME FormOK(page), SaveInv, page.at = "form", ~page.saving,
         NEW public \in BOOLEAN, NEW keep, NEW fresh \in Seq(People), NEW form \in Pages,
         DOMAIN keep \subseteq Uncut(page), \A o \in DOMAIN keep : keep[o] = TRUE,
         Distinct(fresh),
         Shown(public).people = {[who |-> o, named |-> TRUE, shows |-> "stored"] : o \in DOMAIN keep}
                                \cup ToSet(fresh),
         page.kind = "new" => DOMAIN keep = {} /\ (public => form.ack),
         page.kind = "edit" => /\ \A i \in DOMAIN fresh : fresh[i].named
                               /\ Uncut(page) \subseteq DOMAIN keep,
         form.kind = page.kind, form.at = page.at, form.cover = page.cover,
         form.existing = page.existing, form.images = page.images,
         form.reading = page.reading, ~form.guidelines,
         page.kind = "new" /\ stored.exists /\ stored.public => form.ack,
         Send(public, keep, fresh, form)
  PROVE  FormOK(page') /\ SaveInv'
<1>0. page \in Pages
  BY DEF FormOK
<1> DEFINE body == [at |-> "sent", public |-> public, cover |-> page.cover.file,
                    keep |-> keep, fresh |-> fresh]
<1>1. /\ page' \in Pages /\ page'.kind = page.kind /\ page'.at = page.at
      /\ page'.cover = page.cover /\ page'.existing = page.existing
      /\ page'.images = page.images /\ page'.reading = page.reading
      /\ page'.saving = TRUE /\ ~page'.guidelines /\ page'.ack = form.ack
  <2>1. page' = [form EXCEPT !.saving = TRUE]
    BY DEF Send
  <2> QED BY <2>1 DEF Pages
<1>2. FormOK(page') /\ Uncut(page') = Uncut(page)
  BY <1>1, Buttons
<1>3. /\ call' = [call EXCEPT !["save"] = body]
      /\ shown' = Shown(public) /\ UNCHANGED <<stored, crossed>>
  BY DEF Send
<1>4. call'["save"] = body /\ DOMAIN call' = {"save", "delete"} /\ "at" \in DOMAIN call'["delete"]
  <2> HIDE DEF body
  <2> QED BY <1>3 DEF SaveInv, CallOK
<1>5. /\ body.at = "sent" /\ body.public = public /\ body.cover = page.cover.file
      /\ body.keep = keep /\ body.fresh = fresh /\ "at" \in DOMAIN body
  OBVIOUS
<1> HIDE DEF body
<1>6. StoredOK'
  BY <1>1, <1>2, <1>3 DEF SaveInv, StoredOK, InBounds
<1>7. StageOK' /\ CallOK'
  BY <1>1, <1>4, <1>5 DEF StageOK, CallOK
<1>8. DoneOK'
  BY <1>1, <1>4, <1>5 DEF DoneOK
<1>9. SentOK'
  <2>1. shown'.public = public /\ shown'.cover = page.cover.preview
        /\ shown'.people = Shown(public).people
    BY <1>3 DEF Shown
  <2>2. page.cover.file \in Pictures /\ page.cover \in Covers /\ Uncut(page) \subseteq Olds
    <3>1. PICK O \in SUBSET Olds : page.existing \in [O -> Existing]
      BY <1>0 DEF Pages, Existings
    <3> QED BY <1>0, <3>1 DEF Pages, Covers, Uncut
  <2>3. /\ page.cover.preview = page.cover.file \/ (page.kind = "edit" /\ page.cover.file = NoPicture)
        /\ page.kind \in {"new", "edit"}
    BY <1>0 DEF FormOK, CoverShown, Pages
  <2>4. page.cover.file = NoPicture /\ page.cover.preview # NoPicture => stored.cover = page.cover.preview
    BY DEF SaveInv, StoredOK
  <2>5. page.kind = "edit" /\ ~crossed => \A o \in Uncut(page) : OldRow(o) \in stored.rows
    BY DEF SaveInv, StoredOK
  <2>6. page.kind = "new" =>
          DOMAIN keep = {} /\ (public => form.ack) /\ page.cover.file = shown'.cover
    BY <2>1, <2>3
  <2>7. page.kind = "edit" =>
          /\ \A i \in DOMAIN fresh : fresh[i].named
          /\ ~crossed => \A o \in DOMAIN keep : OldRow(o) \in stored.rows
          /\ Uncut(page) \subseteq DOMAIN keep
          /\ shown'.cover # NoPicture =>
               page.cover.file = shown'.cover
                 \/ (page.cover.file = NoPicture /\ stored.cover = shown'.cover)
    BY <2>1, <2>3, <2>4, <2>5
  <2>8. Body(call["save"], page)'
    BY <1>1, <1>2, <1>3, <1>4, <1>5, <2>1, <2>2, <2>6, <2>7 DEF Body
  <2> QED BY <2>8 DEF SentOK
<1> QED BY <1>2, <1>6, <1>7, <1>8, <1>9 DEF SaveInv

\* The new-set page sends all that was added.
LEMMA SaveNew ==
  ASSUME FormOK(page), SaveInv, page.kind = "new", page.at = "form", ~page.saving,
         NEW public \in BOOLEAN, NEW form \in Pages, public => form.ack,
         form.kind = page.kind, form.at = page.at, form.cover = page.cover,
         form.existing = page.existing, form.images = page.images,
         form.reading = page.reading, ~form.guidelines,
         stored.exists /\ stored.public => form.ack,
         DoSave(public, form)
  PROVE  FormOK(page') /\ SaveInv'
<1> DEFINE keep == [o \in {} |-> TRUE]
<1>1. DOMAIN keep = {}
  OBVIOUS
<1>2. Send(public, keep, Fresh, form)
  BY DEF DoSave
<1> HIDE DEF keep
<1>3. DOMAIN page.existing = {}
  BY DEF FormOK
<1>4. Shown(public).people = ToSet(Fresh)
  <2>1. ToSet(Fresh) = {[who |-> img.file, named |-> img.named, shows |-> img.cropped] :
                          img \in ToSet(page.images)}
    BY FreshIs
  <2>2. {[who |-> o, named |-> page.existing[o].named, shows |-> page.existing[o].preview] :
           o \in DOMAIN page.existing} = {}
    BY <1>3
  <2> QED BY <2>1, <2>2 DEF Shown
<1>5. {[who |-> o, named |-> TRUE, shows |-> "stored"] : o \in DOMAIN keep} = {}
  BY <1>1
<1>6. Fresh \in Seq(People) /\ Distinct(Fresh)
  BY FreshIs
<1>7. Shown(public).people =
        {[who |-> o, named |-> TRUE, shows |-> "stored"] : o \in DOMAIN keep} \cup ToSet(Fresh)
  BY <1>4, <1>5
<1> QED BY <1>1, <1>2, <1>6, <1>7, SendSave

\* The three buttons of the new-set page that send it.
LEMMA SaveNewSteps ==
  ASSUME FormOK(page), SaveInv, HandleSaveNew \/ MakePrivate \/ Publish
  PROVE  FormOK(page') /\ SaveInv'
<1>0. page \in Pages /\ page.public \in BOOLEAN
  BY DEF FormOK, Pages
<1>1. CASE HandleSaveNew
  <2>1. page.kind = "new" /\ page.at = "form" /\ ~page.saving /\ ~page.guidelines
    BY <1>1 DEF HandleSaveNew, Press, SaveDisabled, Bare
  <2>2. CASE page.public /\ ~page.ack
    BY <1>1, <2>2, ButtonSave DEF HandleSaveNew
  <2>3. CASE ~(page.public /\ ~page.ack)
    <3>1. DoSave(page.public, page)
      BY <1>1, <2>3 DEF HandleSaveNew
    <3>2. stored.exists /\ stored.public => page.ack
      BY <2>1 DEF SaveInv, StoredOK
    <3>3. page.public => page.ack
      BY <2>3
    <3> DEFINE public == page.public
    <3>4. public \in BOOLEAN /\ (public => page.ack) /\ DoSave(public, page)
      BY <1>0, <3>1, <3>3
    <3> HIDE DEF public
    <3> QED BY <1>0, <2>1, <3>2, <3>4, SaveNew
  <2> QED BY <2>2, <2>3
<1>2. CASE MakePrivate
  <2> DEFINE form == [page EXCEPT !.guidelines = FALSE, !.ack = FALSE, !.public = FALSE]
  <2>1. page.kind = "new" /\ page.at = "form" /\ ~page.saving /\ ~(stored.exists /\ stored.public)
    BY <1>2 DEF MakePrivate, Press, SaveInv, StageOK
  <2>2. /\ form \in Pages /\ form.kind = page.kind /\ form.at = page.at
        /\ form.cover = page.cover /\ form.existing = page.existing
        /\ form.images = page.images /\ form.reading = page.reading /\ ~form.guidelines
    BY <1>0 DEF Pages
  <2>3. DoSave(FALSE, form)
    BY <1>2 DEF MakePrivate
  <2> HIDE DEF form
  <2> QED BY <2>1, <2>2, <2>3, SaveNew
<1>3. CASE Publish
  <2> DEFINE form == [page EXCEPT !.guidelines = FALSE]
  <2>1. page.kind = "new" /\ page.at = "form" /\ ~page.saving /\ page.ack
    BY <1>3 DEF Publish, Press, SaveInv, StageOK
  <2>2. /\ form \in Pages /\ form.kind = page.kind /\ form.at = page.at
        /\ form.cover = page.cover /\ form.existing = page.existing
        /\ form.images = page.images /\ form.reading = page.reading /\ ~form.guidelines
        /\ form.ack = page.ack
    BY <1>0 DEF Pages
  <2>3. DoSave(TRUE, form)
    BY <1>3 DEF Publish
  <2> HIDE DEF form
  <2> QED BY <2>1, <2>2, <2>3, SaveNew
<1> QED BY <1>1, <1>2, <1>3

\* The edit-set page sends which characters to keep, and the rest as new ones.
LEMMA SaveEditStep ==
  ASSUME FormOK(page), SaveInv, HandleSaveEdit
  PROVE  FormOK(page') /\ SaveInv'
<1> DEFINE e == page.existing
           replace == {o \in DOMAIN e : e[o].croppedFile # "none"}
           again == [o \in replace |-> [who |-> o, named |-> e[o].named, shows |-> e[o].croppedFile]]
           keep == [o \in DOMAIN e \ replace |-> e[o].named]
           told(o) == [who |-> o, named |-> e[o].named, shows |-> e[o].preview]
           fresh(seq) == seq \o Fresh
<1>0. page \in Pages /\ page.public \in BOOLEAN
  BY DEF FormOK, Pages
<1>1. /\ page.kind = "edit" /\ page.at = "form" /\ ~page.saving /\ ~page.guidelines
      /\ \A o \in DOMAIN e : e[o].named
      /\ \A img \in ToSet(page.images) : img.named
  BY DEF HandleSaveEdit, Press, SaveDisabled, Bare, BlankName
<1>2. PICK seq \in SetToSeqs(Range(again)) : Send(page.public, keep, fresh(seq), page)
  BY DEF HandleSaveEdit
<1>3. PICK O \in SUBSET Olds : e \in [O -> Existing]
  BY <1>0 DEF Pages, Existings
<1>4. /\ DOMAIN e = O
      /\ \A o \in O : /\ e[o].named = TRUE
                      /\ e[o].croppedFile = "none" => e[o].preview = "stored"
                      /\ e[o].croppedFile # "none" => e[o].croppedFile = "cut" /\ e[o].preview = "cut"
  BY <1>1, <1>3 DEF Existing
<1>5. /\ replace \in SUBSET Olds
      /\ again \in [replace -> People]
      /\ \A o \in replace : again[o].who = o /\ again[o] = told(o) /\ again[o].named
  <2> HIDE DEF e
  <2> QED BY <1>3, <1>4 DEF People
<1> HIDE DEF again
<1>6. /\ seq \in Seq(People) /\ Distinct(seq) /\ ToSet(seq) = {again[o] : o \in replace}
      /\ \A i \in DOMAIN seq : seq[i] \in {again[o] : o \in replace}
  <2> HIDE DEF replace, told
  <2> QED BY <1>2, <1>5, AgainIs
<1>7. \A i \in DOMAIN seq : seq[i].who \in Olds /\ seq[i].named
  <2> HIDE DEF replace, told
  <2> QED BY <1>5, <1>6
<1>8. /\ Fresh \in Seq(People) /\ Distinct(Fresh)
      /\ \A i \in DOMAIN Fresh : Fresh[i].who \in Files /\ Fresh[i].named
      /\ ToSet(Fresh) = {[who |-> img.file, named |-> img.named, shows |-> img.cropped] :
                              img \in ToSet(page.images)}
  <2>1. \A i \in DOMAIN page.images : page.images[i].named
    BY <1>1 DEF ToSet
  <2> QED BY <2>1, FreshIs
<1>9. /\ fresh(seq) \in Seq(People) /\ Distinct(fresh(seq))
      /\ ToSet(fresh(seq)) = ToSet(seq) \cup ToSet(Fresh)
  BY <1>6, <1>7, <1>8, TwoLists, EditorAssumption
<1>10. \A i \in DOMAIN fresh(seq) : fresh(seq)[i].named
  <2>1. \A x \in ToSet(seq) \cup ToSet(Fresh) : x.named
    BY <1>7, <1>8 DEF ToSet
  <2>2. \A i \in DOMAIN fresh(seq) : fresh(seq)[i] \in ToSet(fresh(seq))
    BY DEF ToSet
  <2> QED BY <1>9, <2>1, <2>2
<1>11. /\ DOMAIN keep = Uncut(page)
       /\ \A o \in DOMAIN keep : keep[o] = TRUE /\ told(o) = [who |-> o, named |-> TRUE, shows |-> "stored"]
  BY <1>4 DEF Uncut
<1>12. Shown(page.public).people = {[who |-> o, named |-> TRUE, shows |-> "stored"] : o \in DOMAIN keep}
                                \cup ToSet(fresh(seq))
  <2>1. Shown(page.public).people = {told(o) : o \in DOMAIN e} \cup ToSet(Fresh)
    BY <1>8 DEF Shown
  <2>2. DOMAIN e = DOMAIN keep \cup replace
    OBVIOUS
  <2> HIDE DEF told, e, replace, keep
  <2>3. {told(o) : o \in DOMAIN e} = {told(o) : o \in DOMAIN keep} \cup {again[o] : o \in replace}
    BY <1>5, <2>2
  <2>4. {told(o) : o \in DOMAIN keep} = {[who |-> o, named |-> TRUE, shows |-> "stored"] : o \in DOMAIN keep}
    BY <1>11
  <2> QED BY <1>6, <1>9, <2>1, <2>3, <2>4
<1> DEFINE public == page.public
           f == fresh(seq)
<1>13. /\ public \in BOOLEAN /\ f \in Seq(People) /\ Distinct(f)
       /\ \A i \in DOMAIN f : f[i].named
       /\ Shown(public).people = {[who |-> o, named |-> TRUE, shows |-> "stored"] : o \in DOMAIN keep}
                                \cup ToSet(f)
       /\ Send(public, keep, f, page)
  BY <1>0, <1>2, <1>9, <1>10, <1>12
<1> HIDE DEF public, f, keep
<1>14. DOMAIN keep = Uncut(page) /\ \A o \in DOMAIN keep : keep[o] = TRUE
  BY <1>11
<1> HIDE DEF e, replace, told, fresh
<1> QED BY <1>0, <1>1, <1>13, <1>14, SendSave

----------------------------------------------------------------------------
(* The handlers *)

\* What the server does to the set; the page and the request stay.
LEMMA StoredStep ==
  ASSUME SaveInv, UNCHANGED <<page, shown>>,
         DOMAIN call' = DOMAIN call, \A c \in DOMAIN call : "at" \in DOMAIN call'[c],
         call'["save"].at # "none" => call["save"].at # "none",
         call'["save"].at = "sent" => call'["save"] = call["save"],
         crossed => crossed',
         StoredOK', (stored.exists /\ stored.public)' => ~page.guidelines \/ (stored.exists /\ stored.public),
         page.at = "loading" => stored'.rows \subseteq stored.rows,
         call'["save"].at = "sent" /\ ~crossed' /\ page.kind = "edit" =>
           stored.rows \subseteq stored'.rows,
         call'["save"].at = "sent" => stored'.cover = stored.cover,
         DoneOK'
  PROVE  SaveInv'
<1>1. StageOK'
  BY DEF SaveInv, StageOK
<1>2. CallOK'
  BY DEF SaveInv, CallOK
<1>3. SentOK'
  <2> SUFFICES ASSUME call'["save"].at = "sent"
               PROVE  Body(call["save"], page)'
    BY DEF SentOK
  <2>1. Body(call["save"], page)
    BY DEF SaveInv, SentOK
  <2> QED BY <2>1 DEF Body
<1> QED BY <1>1, <1>2, <1>3 DEF SaveInv

\* What an answer changes.
LEMMA Answering ==
  ASSUME SaveInv, NEW c \in {"save", "delete"}, NEW x, Answer(c, x)
  PROVE  /\ DOMAIN call' = DOMAIN call /\ \A d \in DOMAIN call : "at" \in DOMAIN call'[d]
         /\ call'[c].at = x
         /\ c = "delete" => call'["save"] = call["save"]
BY DEF Answer, SaveInv, CallOK

\* What the update keeps are rows of before, and all it was told to when none is missing.
LEMMA KeptIs ==
  ASSUME SaveInv, NEW keep, DOMAIN keep \subseteq Olds, \A o \in DOMAIN keep : keep[o] = TRUE
  PROVE  /\ Kept(keep) \subseteq {OldRow(o) : o \in DOMAIN keep}
         /\ Kept(keep) \subseteq stored.rows
         /\ \A o \in DOMAIN keep : OldRow(o) \in stored.rows => OldRow(o) \in Kept(keep)
<1>1. stored.rows \subseteq AllRows
  BY DEF SaveInv, StoredOK, Sets
<1>2. ASSUME NEW r \in stored.rows, r.row = "old", r.who \in DOMAIN keep
      PROVE  [r EXCEPT !.named = keep[r.who]] = r /\ r = OldRow(r.who)
  <2>1. r = OldRow(r.who)
    <3>1. r \in {OldRow(o) : o \in Olds}
      BY <1>1, <1>2 DEF AllRows
    <3> QED BY <3>1 DEF OldRow
  <2>2. keep[r.who] = TRUE
    BY <1>2
  <2>3. PICK o \in Olds : r = [row |-> "old", who |-> o, named |-> TRUE, shows |-> "stored"]
    BY <1>1, <1>2 DEF AllRows, OldRow
  <2>4. [r EXCEPT !.named = TRUE] = r
    <3>1. \A b : r.named = b => [r EXCEPT !.named = b] = r
      BY <2>3
    <3>2. r.named = TRUE
      BY <2>3
    <3> QED BY <3>1, <3>2, Zenon
  <2> QED BY <2>1, <2>2, <2>4
<1>3. Kept(keep) = {r \in stored.rows : r.row = "old" /\ r.who \in DOMAIN keep}
  BY <1>2 DEF Kept
<1> QED BY <1>2, <1>3 DEF OldRow

\* The old rows that stay and the new ones are as many as the characters.
LEMMA RowCount ==
  ASSUME NEW O \in SUBSET Olds, NEW s \in Seq(People), Distinct(s)
  PROVE  /\ IsFiniteSet(O) /\ Cardinality(O) \in Nat /\ Len(s) \in Nat
         /\ Cardinality({OldRow(o) : o \in O} \cup Rows(s)) = Cardinality(O) + Len(s)
<1> DEFINE old == {OldRow(o) : o \in O}
           f == [o \in O |-> OldRow(o)]
<1>1. IsFiniteSet(O) /\ Cardinality(O) \in Nat
  BY FS_Subset, FS_CardinalityType, EditorAssumption
<1>2. f \in Bijection(O, old)
  <2>1. \A o \in O : OldRow(o).who = o /\ f[o] = OldRow(o)
    BY DEF OldRow
  <2>2. f \in [O -> old] /\ \A r \in old : \E o \in O : f[o] = r
    OBVIOUS
  <2> HIDE DEF f, old
  <2> QED BY <2>1, <2>2 DEF Bijection, Injection, Surjection, IsInjective
<1>3. ExistsBijection(O, old)
  BY <1>2 DEF ExistsBijection
<1>4. \A r \in old : r.row = "old"
  BY DEF OldRow
<1> HIDE DEF old, f
<1>5. IsFiniteSet(old) /\ Cardinality(old) = Cardinality(O)
  BY <1>1, <1>3, FS_Bijection
<1>6. /\ IsFiniteSet(Rows(s)) /\ Cardinality(Rows(s)) = Len(s)
      /\ \A r \in Rows(s) : r.row = "new"
  BY RowsAre
<1>7. old \cap Rows(s) = {}
  BY <1>4, <1>6
<1>8. Len(s) \in Nat
  BY PersonIs
<1>9. Cardinality(old \cup Rows(s)) = Cardinality(old) + Cardinality(Rows(s)) - Cardinality({})
  BY <1>5, <1>6, <1>7, FS_Union
<1> QED BY <1>1, <1>5, <1>6, <1>8, <1>9, FS_EmptySet DEF old

\* What was read of the request is what was sent of it.
LEMMA PeopleOf ==
  ASSUME NEW fresh \in Seq(People), Distinct(fresh)
  PROVE  /\ Distinct(Parsed(fresh))
         /\ LET read == {[who |-> r.who, named |-> r.named, shows |-> r.shows] : r \in Rows(Parsed(fresh))}
            IN /\ read \subseteq ToSet(fresh)
               /\ read = ToSet(fresh) \/ \E c \in ToSet(fresh) : ~c.named
<1> DEFINE p == Parsed(fresh)
           row(c) == [row |-> "new", who |-> c.who, named |-> TRUE, shows |-> c.shows]
           seen(r) == [who |-> r.who, named |-> r.named, shows |-> r.shows]
           read == {seen(r) : r \in Rows(p)}
<1>1. /\ \A i \in DOMAIN p : i \in DOMAIN fresh /\ p[i] = fresh[i] /\ fresh[i].named
      /\ p = fresh \/ \E i \in DOMAIN fresh : ~fresh[i].named
  BY ParsedIs
<1>2. \A i \in DOMAIN fresh : fresh[i] \in People
  BY PersonIs
<1> HIDE DEF p
<1>3. \A i \in DOMAIN p : seen(row(p[i])) = p[i]
  <2>1. \A c \in People : c.named => seen(row(c)) = c
    BY DEF People
  <2> HIDE DEF seen, row
  <2> QED BY <1>1, <1>2, <2>1
<1>4. Rows(p) = {row(p[i]) : i \in DOMAIN p}
  BY DEF Rows, ToSet
<1> HIDE DEF seen, row
<1>5. read = ToSet(p)
  BY <1>3, <1>4 DEF ToSet
<1>6. ToSet(p) \subseteq ToSet(fresh)
  BY <1>1 DEF ToSet
<1>7. p = fresh \/ \E c \in ToSet(fresh) : ~c.named
  BY <1>1 DEF ToSet
<1>8. Distinct(p)
  BY <1>1 DEF Distinct
<1>9. read \subseteq ToSet(fresh) /\ (read = ToSet(fresh) \/ \E c \in ToSet(fresh) : ~c.named)
  BY <1>5, <1>6, <1>7
<1> QED BY <1>8, <1>9 DEF p, seen

\* The set is created as it was sent.
LEMMA CreateSave ==
  ASSUME FormOK(page), SaveInv, CreateSet
  PROVE  SaveInv'
<1> DEFINE body == call["save"]
           p == Parsed(body.fresh)
<1>1. /\ page.kind = "new" /\ body.at = "sent"
      /\ UNCHANGED <<page, shown, crossed>>
  BY DEF CreateSet
<1>2. Body(body, page) /\ page.saving /\ page.at # "saved" /\ page.at # "loading" /\ ~page.guidelines
  BY <1>1 DEF SaveInv, SentOK, CallOK, StageOK
<1>3. CASE UNCHANGED stored /\ Answer("save", "failed")
  <2>1. /\ DOMAIN call' = DOMAIN call /\ \A d \in DOMAIN call : "at" \in DOMAIN call'[d]
        /\ call'["save"].at = "failed"
    BY <1>3, Answering
  <2>2. StoredOK'
    BY <1>1, <1>3 DEF SaveInv, StoredOK, InBounds
  <2>3. DoneOK'
    BY <1>1, <1>2, <2>1 DEF DoneOK
  <2> QED BY <1>1, <1>2, <2>1, <2>2, <2>3, StoredStep
<1>4. CASE /\ InBounds(Len(p))
           /\ stored' = [exists |-> TRUE, public |-> body.public, cover |-> body.cover,
                         rows |-> Rows(p)]
           /\ Answer("save", "ok")
  <2>1. /\ DOMAIN call' = DOMAIN call /\ \A d \in DOMAIN call : "at" \in DOMAIN call'[d]
        /\ call'["save"].at = "ok"
    BY <1>4, Answering
  <2>2. /\ body.fresh \in Seq(People) /\ Distinct(body.fresh)
        /\ body.public \in BOOLEAN /\ body.cover \in Pictures
        /\ body.public = shown.public /\ body.cover = shown.cover
        /\ shown.people = ToSet(body.fresh)
        /\ body.public => page.ack
    <3>1. DOMAIN body.keep = {}
      BY <1>1, <1>2 DEF Body
    <3>2. {[who |-> o, named |-> TRUE, shows |-> "stored"] : o \in DOMAIN body.keep} = {}
      BY <3>1
    <3> QED BY <1>1, <1>2, <3>2 DEF Body
  <2>3. p \in Seq(People) /\ Distinct(p)
    BY <2>2, ParsedIs, PeopleOf
  <2> HIDE DEF p
  <2>4. Rows(p) \subseteq AllRows /\ Cardinality(Rows(p)) = Len(p)
    BY <2>3, RowsAre
  <2>5. /\ stored'.exists = TRUE /\ stored'.public = body.public /\ stored'.cover = body.cover
        /\ stored'.rows = Rows(p) /\ stored' \in Sets
    BY <1>4, <2>2, <2>4 DEF Sets
  <2>6. page.cover.file = NoPicture => page.cover.preview = NoPicture
    BY <1>1 DEF FormOK, CoverShown
  <2>7. StoredOK'
    BY <1>1, <1>4, <2>2, <2>4, <2>5, <2>6 DEF StoredOK, InBounds
  <2>8. Matches'
    <3>1. LET read == {[who |-> r.who, named |-> r.named, shows |-> r.shows] : r \in Rows(p)}
          IN /\ read \subseteq ToSet(body.fresh)
             /\ read = ToSet(body.fresh) \/ \E c \in ToSet(body.fresh) : ~c.named
      BY <2>2, PeopleOf DEF p
    <3> QED BY <1>1, <2>2, <2>5, <3>1 DEF Matches
  <2> QED BY <1>1, <1>2, <2>1, <2>7, <2>8, StoredStep DEF DoneOK
<1> QED BY <1>1, <1>3, <1>4 DEF CreateSet

\* The set is updated as it was sent, or half of it is and the statements are given up.
LEMMA UpdateSave ==
  ASSUME FormOK(page), SaveInv, UpdateSet
  PROVE  SaveInv'
<1> DEFINE body == call["save"]
           p == Parsed(body.fresh)
           keep == body.keep
           old == {OldRow(o) : o \in DOMAIN keep}
           u == Updated(body)
<1>1. /\ page.kind = "edit" /\ body.at = "sent"
      /\ UNCHANGED <<page, shown>>
  BY DEF UpdateSet
<1>2. Body(body, page) /\ page.saving /\ page.at # "saved" /\ page.at # "loading" /\ ~page.guidelines
  BY <1>1 DEF SaveInv, SentOK, CallOK, StageOK
<1>3. StoredOK /\ stored \in Sets
  BY DEF SaveInv, StoredOK
<1>4. /\ body.public \in BOOLEAN /\ body.public = shown.public /\ body.cover \in Pictures
      /\ DOMAIN keep \subseteq Olds /\ \A o \in DOMAIN keep : keep[o] = TRUE
      /\ body.fresh \in Seq(People) /\ Distinct(body.fresh)
      /\ \A i \in DOMAIN body.fresh : body.fresh[i].named
      /\ ~crossed => \A o \in DOMAIN keep : OldRow(o) \in stored.rows
      /\ Uncut(page) \subseteq DOMAIN keep
      /\ page.cover.file = NoPicture /\ page.cover.preview # NoPicture => body.cover = NoPicture
      /\ shown.cover # NoPicture =>
           body.cover = shown.cover \/ (body.cover = NoPicture /\ stored.cover = shown.cover)
      /\ shown.people = {[who |-> o, named |-> TRUE, shows |-> "stored"] : o \in DOMAIN keep}
                        \cup ToSet(body.fresh)
  BY <1>1, <1>2 DEF Body
<1>5. Kept(keep) \subseteq old /\ Kept(keep) \subseteq stored.rows /\ (~crossed => Kept(keep) = old)
  BY <1>4, KeptIs
<1>6. p = body.fresh
  BY <1>4, ParsedIs
<1>7. Rows(p) \subseteq AllRows
  BY <1>4, <1>6, RowsAre
<1>8. /\ u = [exists |-> stored.exists, public |-> body.public,
              cover |-> IF body.cover = NoPicture THEN stored.cover ELSE body.cover,
              rows |-> stored.rows]
  <2> DEFINE cover == IF body.cover = NoPicture THEN stored.cover ELSE body.cover
             public == body.public
  <2>1. u = [stored EXCEPT !.public = public, !.cover = cover]
    BY DEF Updated
  <2>2. PICK e, q, c, r : stored = [exists |-> e, public |-> q, cover |-> c, rows |-> r]
    BY <1>3 DEF Sets
  <2> HIDE DEF cover, public, body, u
  <2>3. u = [exists |-> stored.exists, public |-> public, cover |-> cover, rows |-> stored.rows]
    BY <2>1, <2>2
  <2> QED BY <2>3 DEF cover, public
<1>9. stored.rows \subseteq AllRows /\ old \subseteq AllRows
  BY <1>3, <1>4 DEF Sets, AllRows
<1> HIDE DEF u, p, old
<1>10. ASSUME NEW rows \in SUBSET AllRows, stored' = [u EXCEPT !.rows = rows]
       PROVE  /\ stored' \in Sets
              /\ stored'.exists = stored.exists /\ stored'.public = body.public
              /\ stored'.cover = IF body.cover = NoPicture THEN stored.cover ELSE body.cover
              /\ stored'.rows = rows
  BY <1>3, <1>4, <1>8, <1>10 DEF Sets
<1>11. CASE UNCHANGED <<stored, crossed>> /\ Answer("save", "failed")
  <2>1. /\ DOMAIN call' = DOMAIN call /\ \A d \in DOMAIN call : "at" \in DOMAIN call'[d]
        /\ call'["save"].at = "failed"
    BY <1>11, Answering
  <2>2. StoredOK'
    BY <1>1, <1>3, <1>11 DEF StoredOK, InBounds
  <2>3. DoneOK'
    BY <1>1, <1>2, <2>1 DEF DoneOK
  <2> QED BY <1>1, <1>2, <1>11, <2>1, <2>2, <2>3, StoredStep
<1>12. CASE /\ \E rows \in {stored.rows, Kept(keep)} : stored' = [u EXCEPT !.rows = rows]
            /\ Answer("save", "failed") /\ crossed' = TRUE
  <2>1. /\ DOMAIN call' = DOMAIN call /\ \A d \in DOMAIN call : "at" \in DOMAIN call'[d]
        /\ call'["save"].at = "failed"
    BY <1>12, Answering
  <2>2. PICK rows \in {stored.rows, Kept(keep)} : stored' = [u EXCEPT !.rows = rows]
    BY <1>12
  <2>3. rows \in SUBSET AllRows
    BY <1>5, <1>9
  <2>4. /\ stored' \in Sets
        /\ stored'.cover = IF body.cover = NoPicture THEN stored.cover ELSE body.cover
    BY <1>10, <2>2, <2>3
  <2>5. page.cover.file = NoPicture /\ page.cover.preview # NoPicture =>
          stored'.cover = page.cover.preview
    BY <1>3, <1>4, <2>4 DEF StoredOK
  <2>6. StoredOK'
    BY <1>1, <1>12, <2>4, <2>5 DEF StoredOK
  <2>7. DoneOK'
    BY <1>1, <1>2, <2>1 DEF DoneOK
  <2> QED BY <1>1, <1>2, <1>12, <2>1, <2>6, <2>7, StoredStep
<1>13. CASE /\ stored.exists /\ InBounds(Cardinality(DOMAIN keep) + Len(p))
            /\ stored' = [u EXCEPT !.rows = Kept(keep) \cup Rows(p)]
            /\ Answer("save", "ok") /\ UNCHANGED crossed
  <2>1. /\ DOMAIN call' = DOMAIN call /\ \A d \in DOMAIN call : "at" \in DOMAIN call'[d]
        /\ call'["save"].at = "ok"
    BY <1>13, Answering
  <2> DEFINE rows == Kept(keep) \cup Rows(p)
  <2>2. rows \in SUBSET AllRows
    BY <1>5, <1>7, <1>9
  <2>3. /\ stored' \in Sets /\ stored'.public = body.public
        /\ stored'.cover = IF body.cover = NoPicture THEN stored.cover ELSE body.cover
        /\ stored'.rows = rows
    BY <1>10, <1>13, <2>2
  <2>4. ~crossed => rows = old \cup Rows(p)
    BY <1>5
  <2>5. Cardinality(old \cup Rows(p)) = Cardinality(DOMAIN keep) + Len(p)
    BY <1>4, <1>6, RowCount DEF old
  <2> HIDE DEF rows
  <2>6. ~crossed => InBounds(Cardinality(stored'.rows))
    BY <1>13, <2>3, <2>4, <2>5
  <2>7. ~crossed => \A o \in Uncut(page) : OldRow(o) \in stored'.rows
    BY <1>4, <2>3, <2>4 DEF old
  <2>8. page.cover.file = NoPicture /\ page.cover.preview # NoPicture =>
          stored'.cover = page.cover.preview
    BY <1>3, <1>4, <2>3 DEF StoredOK
  <2>9. StoredOK'
    BY <1>1, <1>13, <2>3, <2>6, <2>7, <2>8 DEF StoredOK, InBounds
  <2>10. ~crossed => Matches'
    <3> DEFINE seen(r) == [who |-> r.who, named |-> r.named, shows |-> r.shows]
    <3>1. {seen(r) : r \in Rows(p)} = ToSet(body.fresh)
      <4>1. \A c \in ToSet(body.fresh) : c.named
        BY <1>4 DEF ToSet
      <4>2. LET read == {[who |-> r.who, named |-> r.named, shows |-> r.shows] : r \in Rows(p)}
            IN /\ read \subseteq ToSet(body.fresh)
               /\ read = ToSet(body.fresh) \/ \E c \in ToSet(body.fresh) : ~c.named
        BY <1>4, PeopleOf DEF p
      <4> QED BY <4>1, <4>2
    <3>2. {seen(r) : r \in old} = {[who |-> o, named |-> TRUE, shows |-> "stored"] : o \in DOMAIN keep}
      <4>1. \A o \in DOMAIN keep : seen(OldRow(o)) = [who |-> o, named |-> TRUE, shows |-> "stored"]
        BY DEF OldRow
      <4> HIDE DEF seen
      <4> QED BY <4>1 DEF old
    <3> HIDE DEF seen
    <3>3. ~crossed => {seen(r) : r \in stored'.rows} = shown.people
      BY <1>4, <2>3, <2>4, <3>1, <3>2
    <3>4. stored'.public = shown.public
      BY <1>4, <2>3
    <3>5. shown.cover # NoPicture => stored'.cover = shown.cover
      BY <1>4, <2>3
    <3> QED BY <1>1, <3>3, <3>4, <3>5 DEF Matches, seen
  <2> QED BY <1>1, <1>2, <1>13, <2>1, <2>9, <2>10, StoredStep DEF DoneOK
<1> QED BY <1>11, <1>12, <1>13 DEF UpdateSet, u, p

\* A set that is deleted stays so; one that another tab saves is no longer what it was.
LEMMA OthersSave ==
  ASSUME FormOK(page), SaveInv,
         DeleteSet \/ OtherTab \/ \E c \in {"save", "delete"} : Lose(c)
  PROVE  SaveInv'
<1>0. StoredOK /\ stored \in Sets /\ DOMAIN call = {"save", "delete"}
      /\ \A c \in DOMAIN call : "at" \in DOMAIN call[c]
  BY DEF SaveInv, StoredOK, CallOK
<1>1. CASE DeleteSet
  <2>1. UNCHANGED <<page, shown, crossed>> /\ stored' = [stored EXCEPT !.exists = FALSE]
    BY <1>1 DEF DeleteSet
  <2>2. stored' \in Sets /\ stored'.exists = FALSE /\ stored'.public = stored.public
        /\ stored'.cover = stored.cover /\ stored'.rows = stored.rows
    BY <1>0, <2>1 DEF Sets
  <2>3. /\ DOMAIN call' = DOMAIN call /\ \A d \in DOMAIN call : "at" \in DOMAIN call'[d]
        /\ call'["save"] = call["save"]
    BY <1>1, Answering DEF DeleteSet
  <2>4. StoredOK'
    BY <1>0, <2>1, <2>2 DEF StoredOK
  <2>5. DoneOK'
    BY <2>2 DEF DoneOK
  <2> QED BY <2>1, <2>2, <2>3, <2>4, <2>5, StoredStep
<1>2. CASE OtherTab
  <2>1. UNCHANGED <<page, shown, call>> /\ crossed' = TRUE
    BY <1>2 DEF OtherTab
  <2>2. PICK r \in stored.rows : stored' = [stored EXCEPT !.rows = @ \ {r}]
    BY <1>2 DEF OtherTab
  <2>3. stored' \in Sets /\ stored'.exists = stored.exists /\ stored'.public = stored.public
        /\ stored'.cover = stored.cover /\ stored'.rows \subseteq stored.rows
    BY <1>0, <2>2 DEF Sets
  <2>4. StoredOK'
    BY <1>0, <2>1, <2>3 DEF StoredOK
  <2>5. DoneOK'
    BY <2>1 DEF DoneOK
  <2> QED BY <1>0, <2>1, <2>3, <2>4, <2>5, StoredStep
<1>3. CASE \E c \in {"save", "delete"} : Lose(c)
  <2>1. PICK c \in {"save", "delete"} : Answer(c, "lost") /\ call[c].at \in {"sent", "ok"}
    BY <1>3 DEF Lose
  <2>2. UNCHANGED <<page, shown, stored, crossed>>
    BY <1>3 DEF Lose
  <2>3. /\ DOMAIN call' = DOMAIN call /\ \A d \in DOMAIN call : "at" \in DOMAIN call'[d]
        /\ call'[c].at = "lost"
        /\ c = "delete" => call'["save"] = call["save"]
    BY <2>1, Answering
  <2>4. StoredOK'
    BY <1>0, <2>2 DEF StoredOK, InBounds
  <2>5. call'["save"] = call["save"] \/ (call'["save"].at = "lost" /\ call["save"].at # "none")
    BY <2>1, <2>3
  <2>6. call'["save"].at = "ok" => call["save"].at = "ok"
    BY <2>5
  <2>7. Matches => Matches'
    BY <2>2 DEF Matches
  <2>8. DoneOK'
    BY <2>2, <2>6, <2>7 DEF DoneOK, SaveInv
  <2> QED BY <2>2, <2>3, <2>4, <2>5, <2>8, StoredStep
<1> QED BY <1>1, <1>2, <1>3

\* The page ends with what it was told.
LEMMA AnswersSave ==
  ASSUME FormOK(page), SaveInv, SaveAnswered \/ DeleteAnswered
  PROVE  FormOK(page') /\ SaveInv'
<1>0. /\ page \in Pages /\ DOMAIN call = {"save", "delete"}
      /\ \A c \in DOMAIN call : "at" \in DOMAIN call[c]
      /\ page.guidelines =>
           page.kind = "new" /\ ~page.saving /\ ~(stored.exists /\ stored.public)
  BY DEF FormOK, SaveInv, CallOK, StageOK
<1>1. CASE SaveAnswered
  <2>1. /\ UNCHANGED <<shown, stored, crossed>>
        /\ page' = IF call["save"].at = "ok" THEN [page EXCEPT !.at = "saved"]
                                             ELSE [page EXCEPT !.saving = FALSE]
        /\ call' = [call EXCEPT !["save"] = Idle]
        /\ page.saving /\ ~page.guidelines
        /\ page.at # "loading" /\ page.at # "saved"
    BY <1>1 DEF SaveAnswered, SaveInv, CallOK, StageOK
  <2>2. DOMAIN call' = DOMAIN call /\ \A c \in DOMAIN call : "at" \in DOMAIN call'[c]
        /\ call'["save"].at = "none"
    BY <1>0, <2>1 DEF Idle
  <2>3. /\ page' \in Pages /\ page'.kind = page.kind
        /\ page'.cover = page.cover /\ page'.existing = page.existing
        /\ page'.images = page.images /\ page'.reading = page.reading
        /\ page'.guidelines = page.guidelines /\ page'.ack = page.ack
        /\ page'.at # "loading"
        /\ page'.at = "saved" => call["save"].at = "ok"
    <3>1. CASE page' = [page EXCEPT !.at = "saved"] /\ call["save"].at = "ok"
      BY <1>0, <3>1 DEF Pages
    <3>2. CASE page' = [page EXCEPT !.saving = FALSE]
      BY <1>0, <2>1, <3>2 DEF Pages
    <3> QED BY <2>1, <3>1, <3>2
  <2>4. FormOK(page') /\ Uncut(page') = Uncut(page)
    BY <2>3, Buttons
  <2>5. StoredOK'
    BY <2>1, <2>3, <2>4 DEF SaveInv, StoredOK, InBounds
  <2>6. StageOK' /\ CallOK' /\ SentOK'
    BY <1>0, <2>1, <2>2, <2>3 DEF StageOK, CallOK, SentOK
  <2>7. DoneOK'
    <3>1. Matches => Matches'
      BY <2>1 DEF Matches
    <3> QED BY <2>1, <2>2, <2>3, <3>1 DEF SaveInv, DoneOK
  <2> QED BY <2>4, <2>5, <2>6, <2>7 DEF SaveInv
<1>2. CASE DeleteAnswered
  <2>1. /\ UNCHANGED <<shown, stored, crossed>>
        /\ \/ page' = [page EXCEPT !.deleting = FALSE, !.confirm = FALSE]
           \/ page' = [page EXCEPT !.at = "deleted"]
        /\ call' = [call EXCEPT !["delete"] = Idle]
    BY <1>2 DEF DeleteAnswered
  <2>2. DOMAIN call' = DOMAIN call /\ "at" \in DOMAIN call'["delete"]
        /\ call'["save"] = call["save"]
    BY <1>0, <2>1 DEF Idle
  <2>3. /\ page' \in Pages /\ page'.kind = page.kind
        /\ page'.cover = page.cover /\ page'.existing = page.existing
        /\ page'.images = page.images /\ page'.reading = page.reading
        /\ page'.guidelines = page.guidelines /\ page'.ack = page.ack
        /\ page'.saving = page.saving
        /\ page'.at = page.at \/ page'.at = "deleted"
    <3>1. CASE page' = [page EXCEPT !.at = "deleted"]
      <4>1. page' \in Pages /\ page'.at = "deleted"
        BY <1>0, <3>1 DEF Pages
      <4>2. /\ page'.kind = page.kind
            /\ page'.cover = page.cover /\ page'.existing = page.existing
            /\ page'.images = page.images /\ page'.reading = page.reading
            /\ page'.guidelines = page.guidelines /\ page'.ack = page.ack
            /\ page'.saving = page.saving
        BY <1>0, <3>1 DEF Pages
      <4> QED BY <4>1, <4>2
    <3>2. CASE page' = [page EXCEPT !.deleting = FALSE, !.confirm = FALSE]
      <4>1. page' \in Pages
        BY <1>0, <3>2 DEF Pages
      <4>2. /\ page'.kind = page.kind /\ page'.at = page.at
            /\ page'.cover = page.cover /\ page'.existing = page.existing
            /\ page'.images = page.images /\ page'.reading = page.reading
            /\ page'.guidelines = page.guidelines /\ page'.ack = page.ack
            /\ page'.saving = page.saving
        BY <1>0, <3>2 DEF Pages
      <4> QED BY <4>1, <4>2
    <3> QED BY <2>1, <3>1, <3>2
  <2>4. FormOK(page') /\ Uncut(page') = Uncut(page)
    BY <2>3, Buttons
  <2>5. CASE page'.at # "loading"
    <3>1. Aged(page, page')
      BY <2>3, <2>4 DEF Aged
    <3> QED BY <1>0, <2>1, <2>2, <2>3, <2>4, <2>5, <3>1, PageStep
  <2>6. CASE page'.at = "loading"
    <3>1. page'.at = page.at
      BY <2>3, <2>6
    <3>2. StoredOK'
      BY <2>1, <2>3, <2>4 DEF SaveInv, StoredOK, InBounds
    <3>3. StageOK' /\ CallOK'
      BY <1>0, <2>1, <2>2, <2>3, <3>1 DEF SaveInv, StageOK, CallOK
    <3>4. call["save"].at = "none"
      BY <2>6, <3>1 DEF SaveInv, CallOK, StageOK
    <3>5. SentOK' /\ DoneOK'
      BY <2>2, <2>6, <3>4 DEF SentOK, DoneOK
    <3> QED BY <2>4, <3>2, <3>3, <3>5 DEF SaveInv
  <2> QED BY <2>5, <2>6
<1> QED BY <1>1, <1>2

----------------------------------------------------------------------------
\* The invariant of the pages.
EditorInv == CropInv /\ FormOK(page) /\ SaveInv

\* The pages start with an empty form.
LEMMA InitForm == Init => FormOK(page)
<1> SUFFICES ASSUME Init PROVE FormOK(page)
  OBVIOUS
<1> DEFINE cover == [preview |-> NoPicture, file |-> NoPicture, original |-> NoPicture]
           none  == [o \in {} |-> Nil]
           job   == [k \in Kinds |-> Nil]
<1>1. cover \in Covers /\ cover.preview = cover.file
  BY PicturesAre DEF Covers
<1>2. none \in Existings /\ DOMAIN none = {}
  <2>1. none \in [{} -> Existing]
    OBVIOUS
  <2> HIDE DEF none
  <2> QED BY <2>1 DEF Existings
<1>3. job \in Jobs
  BY DEF Jobs, Kinds
<1>4. <<>> \in Seq(Images)
  OBVIOUS
<1> HIDE DEF cover, none, job
<1>5. PICK kind \in {"new", "edit"} :
        page = [kind |-> kind, at |-> IF kind = "new" THEN "form" ELSE "loading",
                named |-> FALSE, public |-> kind = "new", cover |-> cover,
                existing |-> none, images |-> <<>>,
                reading |-> {}, fetching |-> {}, cutting |-> job,
                ack |-> FALSE, guidelines |-> FALSE,
                saving |-> FALSE, confirm |-> FALSE, deleting |-> FALSE]
  BY DEF Init, cover, none, job
<1>6. page \in Pages
  BY <1>1, <1>2, <1>3, <1>4, <1>5 DEF Pages
<1>7. page.cover = cover /\ page.existing = none /\ page.images = <<>>
  BY <1>5
<1> QED BY <1>1, <1>2, <1>6, <1>7 DEF FormOK, CoverShown, OneEach

\* At first nothing is public and nothing is sent; a set that is edited has enough characters.
LEMMA InitSave == Init => SaveInv
<1> SUFFICES ASSUME Init PROVE SaveInv
  OBVIOUS
<1>1. /\ page.kind = "new" => page.at = "form"
      /\ page.cover.file = NoPicture /\ page.cover.preview = NoPicture
      /\ DOMAIN page.existing = {} /\ ~page.guidelines /\ ~page.saving /\ page.at # "saved"
      /\ page.kind \in {"new", "edit"} /\ page.at \in {"form", "loading"}
  BY DEF Init
<1>2. DOMAIN call = {"save", "delete"} /\ \A c \in DOMAIN call : "at" \in DOMAIN call[c] /\ call[c].at = "none"
  BY DEF Init, Idle
<1>3. /\ stored \in Sets
      /\ stored.exists => stored.rows = {OldRow(o) : o \in Olds}
      /\ stored.rows \subseteq {OldRow(o) : o \in Olds}
      /\ page.kind = "new" => ~stored.exists
  <2> DEFINE old == [row : {"old"}, who : Olds, named : {TRUE}, shows : {"stored"}]
  <2>1. old = {OldRow(o) : o \in Olds}
    <3>1. ASSUME NEW r \in old PROVE r = OldRow(r.who) /\ r.who \in Olds
      <4>1. r.row = "old" /\ r.named = TRUE /\ r.shows = "stored" /\ r.who \in Olds
        OBVIOUS
      <4>2. r = [row |-> r.row, who |-> r.who, named |-> r.named, shows |-> r.shows]
        OBVIOUS
      <4> QED BY <4>1, <4>2, Zenon DEF OldRow
    <3>2. \A o \in Olds : OldRow(o) \in old
      BY DEF OldRow
    <3> HIDE DEF old
    <3> QED BY <3>1, <3>2
  <2>2. old \in SUBSET AllRows /\ {} \in SUBSET AllRows
    BY <2>1 DEF AllRows
  <2>3. Picture("stored") \in Pictures /\ NoPicture \in Pictures
    BY PicturesAre DEF Sources
  <2> HIDE DEF old
  <2>4. CASE /\ stored = [exists |-> FALSE, public |-> FALSE, cover |-> NoPicture, rows |-> {}]
    BY <2>2, <2>3, <2>4 DEF Sets
  <2>5. CASE /\ page.kind = "edit"
             /\ \E public \in BOOLEAN :
                  stored = [exists |-> TRUE, public |-> public, cover |-> Picture("stored"), rows |-> old]
    BY <2>1, <2>2, <2>3, <2>5 DEF Sets
  <2>6. PICK kind \in {"new", "edit"}, public \in BOOLEAN :
          /\ page.kind = kind
          /\ stored = IF kind = "new"
                      THEN [exists |-> FALSE, public |-> FALSE, cover |-> NoPicture, rows |-> {}]
                      ELSE [exists |-> TRUE, public |-> public, cover |-> Picture("stored"), rows |-> old]
    <3> HIDE DEF NoPicture, Picture
    <3>1. PICK kind \in {"new", "edit"}, public \in BOOLEAN :
            /\ page = [kind |-> kind, at |-> IF kind = "new" THEN "form" ELSE "loading",
                       named |-> FALSE, public |-> kind = "new",
                       cover |-> [preview |-> NoPicture, file |-> NoPicture, original |-> NoPicture],
                       existing |-> [o \in {} |-> Nil], images |-> <<>>,
                       reading |-> {}, fetching |-> {}, cutting |-> [k \in Kinds |-> Nil],
                       ack |-> FALSE, guidelines |-> FALSE,
                       saving |-> FALSE, confirm |-> FALSE, deleting |-> FALSE]
            /\ stored = IF kind = "new"
                        THEN [exists |-> FALSE, public |-> FALSE, cover |-> NoPicture, rows |-> {}]
                        ELSE [exists |-> TRUE, public |-> public, cover |-> Picture("stored"), rows |-> old]
      BY Zenon DEF Init, old
    <3>2. page.kind = kind
      BY <3>1
    <3> HIDE DEF old
    <3> QED BY <3>1, <3>2
  <2>7. CASE kind = "new"
    BY <2>4, <2>6, <2>7
  <2>8. CASE kind = "edit"
    BY <2>5, <2>6, <2>8
  <2> QED BY <2>6, <2>7, <2>8
<1>4. stored.exists => InBounds(Cardinality(stored.rows))
  <2>1. /\ Cardinality({OldRow(o) : o \in Olds} \cup Rows(<<>>)) = Cardinality(Olds) + Len(<<>>)
        /\ Cardinality(Olds) \in Nat
    <3>1. <<>> \in Seq(People) /\ Distinct(<<>>)
      BY DEF Distinct
    <3> HIDE DEF Distinct
    <3> QED BY <3>1, RowCount
  <2>2. Rows(<<>>) = {}
    BY DEF Rows, ToSet
  <2>3. Cardinality({OldRow(o) : o \in Olds}) = Cardinality(Olds)
    <3>1. Len(<<>>) = 0
      OBVIOUS
    <3>2. {OldRow(o) : o \in Olds} \cup Rows(<<>>) = {OldRow(o) : o \in Olds}
      BY <2>2
    <3> DEFINE S == {OldRow(o) : o \in Olds}
    <3> HIDE DEF S
    <3>3. Cardinality(S) = Cardinality(Olds) + 0
      BY <2>1, <3>1, <3>2 DEF S
    <3> QED BY <2>1, <3>3 DEF S
  <2> QED BY <1>3, <2>3, EditorAssumption DEF InBounds
<1>5. StoredOK
  BY <1>1, <1>3, <1>4 DEF StoredOK, Uncut
<1> QED BY <1>1, <1>2, <1>3, <1>5 DEF SaveInv, StageOK, CallOK, SentOK, DoneOK

\* The invariant is kept by every step.
LEMMA NextEditorInv == EditorInv /\ [Next]_vars => EditorInv'
<1> SUFFICES ASSUME EditorInv, [Next]_vars PROVE EditorInv'
  OBVIOUS
<1>0. CropInv /\ FormOK(page) /\ SaveInv
  BY DEF EditorInv
<1>1. CASE Cropping
  BY <1>0, <1>1, CroppingKeeps, CroppingSave DEF EditorInv
<1>2. CASE Editing
  <2>1. DOMAIN page.images \subseteq Nat
    BY <1>0, ImageIs DEF FormOK
  <2> QED BY <1>0, <1>2, <2>1, EditingKeeps, EditingForm, EditingSave DEF EditorInv
<1>3. CASE Saving
  <2>1. FormOK(page)' /\ SaveInv'
    <3>1. ASSUME UNCHANGED page PROVE FormOK(page)'
      BY <1>0, <3>1
    <3>2. CASE CreateSet \/ UpdateSet \/ DeleteSet \/ OtherTab \/ \E c \in {"save", "delete"} : Lose(c)
      <4>1. UNCHANGED page
        BY <3>2 DEF CreateSet, UpdateSet, DeleteSet, OtherTab, Lose
      <4> QED BY <1>0, <3>1, <3>2, <4>1, CreateSave, UpdateSave, OthersSave
    <3> QED BY <1>0, <1>3, <3>2, LoadSave, SaveNewSteps, ButtonSave, SaveEditStep, AnswersSave DEF Saving
  <2> QED BY <1>0, <1>3, <2>1, SavingKeeps DEF EditorInv
<1>4. CASE UNCHANGED vars
  BY <1>0, <1>4 DEF EditorInv, vars, away, CropInv, SaveInv, StoredOK, StageOK, CallOK, SentOK, Body,
       DoneOK, Matches, InBounds
<1> QED BY <1>1, <1>2, <1>3, <1>4 DEF Next

\* What holds of every state the pages reach.
LEMMA EditorInvHolds == Spec => []EditorInv
<1>1. Init => EditorInv
  BY InitCropInv, InitForm, InitSave DEF EditorInv
<1> QED BY <1>1, NextEditorInv, PTL DEF Spec

\* Whatever the size of the screen and wherever the pointer goes: a crop box stays on
\* its canvas where it fits, and depends on where the pointer is and not on the way it
\* took, unless it was pushed back from a far edge.
THEOREM DragHasNoMemoryHolds == Spec => []DragHasNoMemory
<1>1. EditorInv => DragHasNoMemory
  BY CropInvImplies DEF EditorInv
<1> QED BY <1>1, EditorInvHolds, PTL

\* The shapes of the crop modals, the form and what it waits for.
THEOREM TypeCorrect == Spec => []TypeOK
<1>1. ASSUME CropInv, FormOK(page) PROVE TypeOK
  <2>1. crop \in [Kinds -> [at : {Nil} \cup Olds \cup Nat, box : BoxType,
                            canvas : Canvases \cup {0}, drag : DragType]]
    <3>0. MinCrop \in Nat
      BY EditorAssumption
    <3>1. ASSUME NEW b, NEW c, Sound(b, c) PROVE b \in BoxType
      <4>1. PICK x, y, side \in Int : b = [x |-> x, y |-> y, side |-> side]
        BY <3>1 DEF Sound, Box
      <4> QED BY <3>0, <3>1, <4>1 DEF Sound, Fits, BoxType
    <3>2. ASSUME NEW k \in Kinds
          PROVE  crop[k] \in [at : {Nil} \cup Olds \cup Nat, box : BoxType,
                              canvas : Canvases \cup {0}, drag : DragType]
      <4> DEFINE m == crop[k]
      <4>1. SoundModal(m)
        BY <1>1 DEF CropInv
      <4>2. m.drag \in DragType
        <5>1. CASE m.drag = NoDrag
          BY <5>1 DEF DragType
        <5>2. CASE Dragging(m.drag, m.canvas)
          <6>1. m.drag.from \in BoxType
            BY <3>1, <5>2 DEF Dragging
          <6> HIDE DEF m
          <6> QED BY <5>2, <6>1 DEF Dragging, DragType
        <5> QED BY <4>1, <5>1, <5>2 DEF SoundModal, Held
      <4>3. m.box \in BoxType /\ m.canvas \in Canvases \cup {0}
        <5>1. CASE m.at = Nil
          BY <4>1, <5>1 DEF SoundModal, Closed, BoxType
        <5>2. CASE m.at # Nil
          BY <3>1, <4>1, <5>2 DEF SoundModal
        <5> QED BY <5>1, <5>2
      <4>4. m = [at |-> m.at, box |-> m.box, canvas |-> m.canvas, drag |-> m.drag]
            /\ m.at \in {Nil} \cup Olds \cup Nat
        BY <4>1 DEF SoundModal
      <4> HIDE DEF m
      <4> QED BY <4>2, <4>3, <4>4 DEF m
    <3> QED BY <1>1, <3>2 DEF CropInv
  <2>2. page \in Pages
    BY <1>1 DEF FormOK
  <2>3. \A img \in ToSet(page.images) : img.file \in Files
    BY <2>2, ImageIs DEF ToSet
  <2>4. DOMAIN page.existing \subseteq Olds
    <3>1. PICK O \in SUBSET Olds : page.existing \in [O -> Existing]
      BY <2>2 DEF Pages, Existings
    <3> QED BY <3>1
  <2> QED BY <2>1, <2>2, <2>3, <2>4 DEF TypeOK, Pages
<1>2. EditorInv => TypeOK
  BY <1>1 DEF EditorInv
<1> QED BY <1>2, EditorInvHolds, PTL

\* Whatever is clicked, answered or lost between: the new-set page stores nothing as
\* public that was not confirmed on it.
THEOREM PublicIsAcknowledgedHolds == Spec => []PublicIsAcknowledged
<1>1. EditorInv => PublicIsAcknowledged
  BY DEF EditorInv, SaveInv, StoredOK, PublicIsAcknowledged
<1> QED BY <1>1, EditorInvHolds, PTL

\* However many characters there are, and whatever is read, cut, renamed or removed while
\* a request is on its way: a stored set has as many as the bounds say, unless two tabs
\* or a failing statement have interfered.
THEOREM EnoughCharactersHolds == Spec => []EnoughCharacters
<1>1. EditorInv => EnoughCharacters
  BY DEF EditorInv, SaveInv, StoredOK, EnoughCharacters
<1> QED BY <1>1, EditorInvHolds, PTL

\* When a save has succeeded the set in the database is the one the page showed when it
\* was sent, whatever the owner and the files did meanwhile and however often it was sent.
THEOREM SavedIsShownHolds == Spec => []SavedIsShown
<1>1. EditorInv => SavedIsShown
  BY DEF EditorInv, SaveInv, DoneOK, Matches, SavedIsShown
<1> QED BY <1>1, EditorInvHolds, PTL

=============================================================================
