--------------------------- MODULE LabShotHistory ---------------------------
(***************************************************************************)
(* What LabShot does with a picture in the main process (main/labShot.js): *)
(* copies, saves and vault captures with their history records, the        *)
(* gallery and its move of older records, deletions, and the overlay       *)
(* windows of a capture.                                                   *)
(*                                                                         *)
(* The overlay in which a screenshot is selected and annotated             *)
(* (renderer/apps/LabShotOverlay.jsx), from mouse events to the picture    *)
(* that is copied.  Positions are points of a small line; an annotation is *)
(* its tool and the two points it spans, or what a stroke went over.       *)
(***************************************************************************)
EXTENDS Naturals, Sequences, FiniteSets, SequencesExt

CONSTANTS Shots,         \* the pictures
          MaxRecords,    \* the 50 records that the history keeps
          MaxOverlays,   \* bound: captures
          Simultaneous   \* TRUE: a handler that holds the history runs beside others

ShotAssumption ==
  MaxRecords \in Nat \ {0} /\ MaxOverlays \in Nat /\ Simultaneous \in BOOLEAN

Places == {"history", "saved", "vault", "document"}

VARIABLES
  history,    \* labshot_history: the records, newest first
  images,     \* what is on the disk: [shot, place]
  handlers,   \* the handlers that wait: [op, shot, read], "read" is the history they hold
  fresh,      \* the pictures nobody has kept yet
  keptRecords,\* (ghost) what was kept and not deleted, the newest of it first
  overlays,   \* the overlay windows that are open
  activeOverlayWindows,
  capturing,  \* the captures that wait for the picture of the screen
  captured    \* captures so far

shotVars == <<history, images, handlers, fresh, keptRecords,
              overlays, activeOverlayWindows, capturing, captured>>
windowVars == <<overlays, activeOverlayWindows, capturing, captured>>
shotData   == <<history, images, handlers, fresh, keptRecords>>

Records == [shot : Shots, place : Places]
ShotOf(records) == {r.shot : r \in ToSet(records)}

TypeOK ==
  /\ history \in BoundedSeq(Records, MaxRecords) /\ images \subseteq Records
  /\ handlers \subseteq [op : {"copy", "save", "vault", "gallery", "delete"}, shot : Shots,
                         read : BoundedSeq(Records, MaxRecords)]
  /\ fresh \subseteq Shots /\ keptRecords \in BoundedSeq(Shots, Cardinality(Shots))
  /\ overlays \subseteq 1 .. MaxOverlays /\ activeOverlayWindows \subseteq 1 .. MaxOverlays
  /\ capturing \subseteq 1 .. MaxOverlays /\ captured \in 0 .. MaxOverlays

\* A record of an older build holds its picture in the document.
Init ==
  /\ \E old \in {{}} \cup {{s} : s \in Shots} :
       /\ history = [i \in 1 .. Cardinality(old) |->
                       [shot |-> CHOOSE s \in old : TRUE, place |-> "document"]]
       /\ keptRecords = [i \in DOMAIN history |-> history[i].shot] /\ fresh = Shots \ old
  /\ images = {} /\ handlers = {}
  /\ overlays = {} /\ activeOverlayWindows = {} /\ capturing = {} /\ captured = 0

-----------------------------------------------------------------------------
Newest(records) == SubSeq(records, 1, IF Len(records) < MaxRecords THEN Len(records) ELSE MaxRecords)

\* These read the history, wait for the disk, and write the history back.
Holders == {"copy", "gallery", "delete"}

MayBegin(op) ==
  \/ Simultaneous \/ handlers = {}
  \/ op \notin Holders /\ \A call \in handlers : call.op \notin Holders

Begin(op, s) ==
  /\ MayBegin(op)
  /\ handlers' = handlers \cup
       {[op |-> op, shot |-> s, read |-> IF op \in Holders THEN history ELSE <<>>]}
  /\ UNCHANGED <<history, images, keptRecords, windowVars>>

\* copyToClipboard, saveToFile and saveToVault of a new picture.
Keep(op, s) == op \in {"copy", "save", "vault"} /\ s \in fresh /\ fresh' = fresh \ {s} /\ Begin(op, s)

FileFor(call) ==
  [shot |-> call.shot,
   place |-> CASE call.op = "copy" -> "history" [] call.op = "save" -> "saved" [] OTHER -> "vault"]

\* Mutant: every record is put in front of the history that was read first.
BaseBefore(call) == call.read

Base(call) == IF call.op = "copy" THEN call.read ELSE history

\* recordScreenshotHistory: a copy reads the history before it writes the picture, a
\* save and a vault capture have written theirs and record it in one step.
Record(call) ==
  /\ call.op \in {"copy", "save", "vault"}
  /\ images' = images \cup {FileFor(call)}
  /\ history' = Newest(<<FileFor(call)>> \o Base(call))
  /\ keptRecords' = Newest(<<call.shot>> \o keptRecords)
  /\ handlers' = handlers \ {call}
  /\ UNCHANGED <<fresh, windowVars>>

\* The picture could not be written: no record, and the picture may be kept once more.
KeepFails(call) ==
  /\ call.op \in {"copy", "save", "vault"} /\ handlers' = handlers \ {call}
  /\ fresh' = fresh \cup {call.shot} /\ UNCHANGED <<history, images, keptRecords, windowVars>>

GetGallery ==
  /\ Begin("gallery", CHOOSE s \in Shots : TRUE)
  /\ \A call \in handlers : call.op # "gallery"
  /\ UNCHANGED fresh

\* Mutant: a record whose picture could not be written is moved all the same.
CompactedAnyway(r, moved) == [r EXCEPT !.place = IF @ = "document" THEN "history" ELSE @]

Compacted(r, moved) == IF r.shot \in moved THEN [r EXCEPT !.place = "history"] ELSE r

\* Records with a picture are moved to files; only then is the history written back.
GalleryRead(call) ==
  /\ call.op = "gallery" /\ handlers' = handlers \ {call}
  /\ \E moved \in SUBSET {r.shot : r \in {x \in ToSet(call.read) : x.place = "document"}} :
       LET after == [i \in DOMAIN call.read |-> Compacted(call.read[i], moved)] IN
         /\ images' = images \cup {[shot |-> s, place |-> "history"] : s \in moved}
         /\ history' = IF after # call.read THEN Newest(after) ELSE history
  /\ UNCHANGED <<fresh, keptRecords, windowVars>>

DeleteScreenshot(s) ==
  /\ s \in ShotOf(history) \cup {f.shot : f \in {x \in images : x.place = "vault"}}
  /\ \A call \in handlers : call.op # "delete"
  /\ Begin("delete", s) /\ UNCHANGED fresh

\* The file of the record, or that of a vault capture without one.
FileOf(call) ==
  LET record == {r \in ToSet(call.read) : r.shot = call.shot /\ r.place # "document"} IN
    IF record # {} THEN record
    ELSE {f \in images : f.shot = call.shot /\ f.place = "vault"}

Deleted(call) ==
  /\ call.op = "delete" /\ handlers' = handlers \ {call}
  /\ images' = images \ FileOf(call)
  /\ history' = SelectSeq(call.read, LAMBDA r : r.shot # call.shot)
  /\ keptRecords' = SelectSeq(keptRecords, LAMBDA s : s # call.shot)
  /\ UNCHANGED <<fresh, windowVars>>

-----------------------------------------------------------------------------
\* startCapture closes what is open and waits for the picture of the screen.
StartCapture ==
  /\ captured < MaxOverlays /\ captured' = captured + 1
  /\ capturing' = capturing \cup {captured + 1}
  /\ overlays' = overlays \ activeOverlayWindows /\ activeOverlayWindows' = {}
  /\ UNCHANGED shotData

\* Mutant: only the windows of the last capture are remembered.
RememberedLast(n) == {n}

Remembered(n) == activeOverlayWindows \cup {n}

OpenOverlays(n) ==
  /\ n \in capturing /\ capturing' = capturing \ {n}
  /\ overlays' = overlays \cup {n} /\ activeOverlayWindows' = Remembered(n)
  /\ UNCHANGED <<captured, shotData>>

CloseOverlay ==
  /\ overlays' = overlays \ activeOverlayWindows /\ activeOverlayWindows' = {}
  /\ UNCHANGED <<capturing, captured, shotData>>

HistoryStep ==
  \/ \E op \in {"copy", "save", "vault"}, s \in Shots : Keep(op, s)
  \/ \E call \in handlers : Record(call) \/ KeepFails(call) \/ GalleryRead(call) \/ Deleted(call)
  \/ GetGallery \/ \E s \in Shots : DeleteScreenshot(s)

WindowStep == StartCapture \/ CloseOverlay \/ \E n \in capturing : OpenOverlays(n)

Next == HistoryStep \/ WindowStep


-----------------------------------------------------------------------------
(* Properties. *)

\* The history is what was kept and not deleted, the newest MaxRecords of it, each with
\* its picture in the document or on the disk: no handler undoes what another did.
HistoryIsComplete ==
  /\ [i \in DOMAIN history |-> history[i].shot] = keptRecords
  /\ \A r \in ToSet(history) : r.place = "document" \/ r \in images

\* One press of Escape closes every overlay: none is left on top of the screen.
OverlaysCanClose == overlays \subseteq activeOverlayWindows

ShotsKept == HistoryIsComplete /\ OverlaysCanClose

-----------------------------------------------------------------------------

CONSTANTS Points,           \* positions of the mouse, 1 .. n
          MaxAnnotations,   \* bound: annotations at a time
          MaxDrags,         \* bound: presses of the mouse
          Blunders          \* what the user does: "shape" draws one right after a step mark,
                            \* "undo" presses Ctrl+Z in the middle of a stroke

OverlayAssumption ==
  /\ Points = 1 .. Cardinality(Points) /\ Points # {} /\ MaxAnnotations \in Nat /\ MaxDrags \in Nat
  /\ Blunders \subseteq {"shape", "undo"}

VARIABLES
  tool,          \* activeTool
  selection,     \* the selected range
  mouse,         \* isSelecting, isResizing with its handle, isDrawing, or nothing
  startPos,
  annotations,
  stepCount,
  drags,         \* presses of the mouse so far
  finished       \* (ghost) the annotations that the user has finished, as they were

overlayVars == <<tool, selection, mouse, startPos, annotations, stepCount, drags, finished>>

\* Arrows, rectangles and circles are drawn alike.
Shapes == {"rect", "blur"}
Tools  == Shapes \cup {"select", "pen", "step", "eyedropper"}
Ranges == {r \in [from : Points, to : Points] : r.from <= r.to}
None   == [from |-> 0, to |-> 0]

Range2(a, b) == IF a <= b THEN [from |-> a, to |-> b] ELSE [from |-> b, to |-> a]

Annotation(type, range, num) == [type |-> type, range |-> range, num |-> num, final |-> FALSE]

OverlayTypeOK ==
  /\ tool \in Tools /\ selection \in Ranges \cup {None}
  /\ mouse \in {"up", "selecting", "west", "east", "drawing"} /\ startPos \in Points
  /\ annotations \in Seq([type : Shapes \cup {"pen", "step"}, range : Ranges,
                          num : Nat, final : BOOLEAN])
  /\ Len(annotations) <= MaxAnnotations /\ stepCount \in Nat /\ drags \in 0 .. MaxDrags

OverlayInit ==
  /\ tool = "select" /\ selection = None /\ mouse = "up" /\ startPos = 1
  /\ annotations = <<>> /\ stepCount = 1 /\ drags = 0 /\ finished = {}

Unfinished == <<drags, finished>>
Mark(a)    == [type |-> a.type, range |-> a.range, num |-> a.num]
Room       == Len(annotations) < MaxAnnotations
HasLast    == annotations # <<>>
Finishes(a) == finished' = finished \cup {Mark(a)}

-----------------------------------------------------------------------------
\* The buttons of the tool bar, and the key of the eyedropper.
SetActiveTool(t) ==
  /\ mouse = "up" /\ tool # t /\ tool' = t
  /\ UNCHANGED <<selection, mouse, startPos, annotations, stepCount, Unfinished>>

Press == mouse = "up" /\ drags < MaxDrags /\ drags' = drags + 1

\* Without a selection every tool but the eyedropper begins one.
BeginSelection(p) ==
  /\ Press /\ tool # "eyedropper"
  /\ selection = None \/ tool = "select"
  /\ mouse' = "selecting" /\ startPos' = p /\ selection' = Range2(p, p)
  /\ UNCHANGED <<tool, annotations, stepCount, finished>>

\* Mutant: a mark takes the number of the next one.
StepMarkAhead(p) == Annotation("step", Range2(p, p), stepCount + 1)

StepMark(p) == Annotation("step", Range2(p, p), stepCount)

PlaceStep(p) ==
  /\ Press /\ selection # None /\ tool = "step" /\ Room
  /\ annotations' = Append(annotations, StepMark(p)) /\ stepCount' = stepCount + 1
  /\ Finishes(StepMark(p))
  /\ UNCHANGED <<tool, selection, mouse, startPos>>

BeginStroke(p) ==
  /\ Press /\ selection # None /\ tool = "pen" /\ Room
  /\ mouse' = "drawing" /\ annotations' = Append(annotations, Annotation("pen", Range2(p, p), 0))
  /\ UNCHANGED <<tool, selection, startPos, stepCount, finished>>

LastIsStep == HasLast /\ Last(annotations).type = "step" /\ ~Last(annotations).final

BeginShape(p) ==
  /\ Press /\ selection # None /\ tool \in Shapes
  /\ LastIsStep => "shape" \in Blunders
  /\ mouse' = "drawing" /\ startPos' = p
  /\ UNCHANGED <<tool, selection, annotations, stepCount, finished>>

StartResize(handle, p) ==
  /\ Press /\ selection # None /\ tool = "select" /\ mouse' = handle /\ startPos' = p
  /\ UNCHANGED <<tool, selection, annotations, stepCount, finished>>

-----------------------------------------------------------------------------
(* Moves. *)

Select(p) ==
  /\ mouse = "selecting" /\ selection' = Range2(startPos, p)
  /\ UNCHANGED <<tool, mouse, startPos, annotations, stepCount, Unfinished>>

\* A handle that passes the opposite one takes its place.
Resize(p) ==
  /\ mouse \in {"west", "east"}
  /\ LET fixed == IF mouse = "west" THEN selection.to ELSE selection.from
         moved == (IF mouse = "west" THEN selection.from ELSE selection.to) + p - startPos IN
       /\ moved \in Points /\ selection' = Range2(fixed, moved)
       /\ mouse' = IF moved < fixed THEN "west" ELSE IF moved > fixed THEN "east" ELSE mouse
  /\ startPos' = p
  /\ UNCHANGED <<tool, annotations, stepCount, Unfinished>>

Replaced(a) == annotations' = [annotations EXCEPT ![Len(annotations)] = a]

\* A stroke goes on in the last annotation, when that is one.
Draw(p) ==
  /\ mouse = "drawing" /\ tool = "pen" /\ HasLast /\ Last(annotations).type = "pen"
  /\ LET r == Last(annotations).range IN
       Replaced([Last(annotations) EXCEPT
         !.range = [from |-> IF p < r.from THEN p ELSE r.from, to |-> IF p > r.to THEN p ELSE r.to]])
  /\ UNCHANGED <<tool, selection, mouse, startPos, stepCount, Unfinished>>

\* Mutant: the shape under the mouse is the last annotation, finished or not.
IsUnderWayAlways == HasLast

IsUnderWay == HasLast /\ ~Last(annotations).final

\* A shape begins a new annotation, unless the last one is not final.
Shape(p) ==
  /\ mouse = "drawing" /\ tool \in Shapes
  /\ IF IsUnderWay THEN Replaced([Last(annotations) EXCEPT !.range = Range2(startPos, p)])
     ELSE Room /\ annotations' = Append(annotations, Annotation(tool, Range2(startPos, p), 0))
  /\ UNCHANGED <<tool, selection, mouse, startPos, stepCount, Unfinished>>

\* A click that drew nothing makes the last annotation final all the same.
MouseUp ==
  /\ mouse # "up" /\ mouse' = "up"
  /\ IF mouse = "drawing" /\ HasLast
     THEN Replaced([Last(annotations) EXCEPT !.final = TRUE]) /\ Finishes(Last(annotations))
     ELSE UNCHANGED <<annotations, finished>>
  /\ UNCHANGED <<tool, selection, startPos, stepCount, drags>>

-----------------------------------------------------------------------------
(* Without the mouse. *)

Undo ==
  /\ HasLast
  /\ mouse = "drawing" => "undo" \in Blunders
  /\ annotations' = Front(annotations) /\ finished' = finished \ {Mark(Last(annotations))}
  /\ UNCHANGED <<tool, selection, mouse, startPos, stepCount, drags>>

\* A mask over the selection, or over a region in the middle.
AutoRedact ==
  /\ Room /\ mouse = "up"
  /\ LET middle == CHOOSE r \in Ranges : TRUE
         region == IF selection = None THEN middle ELSE selection
         mask   == [Annotation("blur", region, 0) EXCEPT !.final = TRUE] IN
       /\ selection' = region /\ annotations' = Append(annotations, mask) /\ Finishes(mask)
  /\ UNCHANGED <<tool, mouse, startPos, stepCount, drags>>

\* What getCroppedDataUrl draws: the annotations over the selection.
Cropped == {Mark(annotations[i]) : i \in DOMAIN annotations}

OverlayNext ==
  \/ \E t \in Tools : SetActiveTool(t)
  \/ \E p \in Points : \/ BeginSelection(p) \/ PlaceStep(p) \/ BeginStroke(p) \/ BeginShape(p)
                       \/ StartResize("west", p) \/ StartResize("east", p)
                       \/ Select(p) \/ Resize(p) \/ Draw(p) \/ Shape(p)
  \/ MouseUp \/ Undo \/ AutoRedact


-----------------------------------------------------------------------------
(* Properties. *)

\* What the user has drawn is on the picture that is copied, as it was drawn, unless it
\* was undone: a later drag never changes an earlier annotation.
DrawnIsCopied == finished \subseteq Cropped

\* The marks on the picture have different numbers, in the order they were set.
StepsInOrder ==
  LET steps == SelectSeq(annotations, LAMBDA a : a.type = "step") IN
    \A i, j \in DOMAIN steps : i < j => steps[i].num < steps[j].num /\ steps[j].num < stepCount

OverlayKeeps == DrawnIsCopied /\ StepsInOrder
=============================================================================
