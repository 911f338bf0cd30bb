------------------------------ MODULE LutEditor ------------------------------
(***************************************************************************)
(* The editor of the colour table: GLLUTWidget (dep/ssl-vision/src/app/    *)
(* gui/glLUTwidget.cpp, .h) and the picking of colours from the picture    *)
(* (app/plugins/plugin_colorcalib.cpp), in the numeric mode the program    *)
(* runs it in.  A slice of the table is a row of cells.  All of this runs  *)
(* in the GUI thread; the RGB table, which the capture thread reads, is    *)
(* derived from the table only by some of the handlers.                    *)
(***************************************************************************)
EXTENDS Integers, Sequences, SequencesExt

CONSTANTS LutPoints,   (* the cells of the table, <<slice, cell>> *)
          UNDO_SIZE, LutChannels

ASSUME LutAssumption == /\ UNDO_SIZE \in Nat /\ 0 \in LutChannels
                        /\ \A p \in LutPoints : p \in Nat \X Nat
                        /\ \E p \in LutPoints : p[1] = 0

VARIABLES
  lutTable,        (* LUT, by slice and cell *)
  lutStale,        (* what changed the table since the derived LUT was made
                      from it: "no", "stroke" or "pick" *)
  lutShown,        (* the selection textures *)
  undoStack, redoStack,
  slice_idx, channel, view_mode,
  drag,            (* drag_start while drag_on, NoDrag otherwise *)
  continuing_undo,
  lutButtons,      (* the mouse buttons held over the editor *)
  picking,         (* the left button is held over the picture *)
  pickContinues,   (* continuing_undo of PluginColorCalibration *)
  strokeBase,      (* history: the table when the last stroke began *)
  releaseLost,     (* history: the last stroke ended in the cube *)
  strokeWhole      (* history: since then the stroke has met only its own
                      button and no undo or redo *)

lutVars == <<lutTable, lutStale, lutShown, undoStack, redoStack, slice_idx,
             channel, view_mode, drag, continuing_undo,
             lutButtons, picking, pickContinues, strokeBase, releaseLost,
             strokeWhole>>
stackVars == <<undoStack, redoStack>>
penVars == <<drag, continuing_undo>>
pickVars == <<picking, pickContinues>>
strokeVars == <<strokeBase, releaseLost, strokeWhole>>

NoDrag == -1
LutSlices == {p[1] : p \in LutPoints}
LutCells == {p[2] : p \in LutPoints}
CellsOf(slice) == {c \in LutCells : <<slice, c>> \in LutPoints}
Tables == [LutPoints -> LutChannels]
Masks == {"none", "shift", "ctrl", "alt"}
MouseButtons == {"left", "right"}

LutTypeOK ==
    /\ {lutTable, lutShown, strokeBase} \subseteq Tables
    /\ lutStale \in {"no", "stroke", "pick"}
    /\ undoStack \in Seq(Tables) /\ redoStack \in Seq(Tables)
    /\ slice_idx \in LutSlices /\ channel \in LutChannels
    /\ view_mode \in {"single", "grid", "cube"}
    /\ drag \in LutCells \cup {NoDrag} /\ lutButtons \subseteq MouseButtons
    /\ {continuing_undo, picking, pickContinues, releaseLost, strokeWhole}
           \subseteq BOOLEAN

LutInit ==
    /\ lutTable = [c \in LutPoints |-> 0]
    /\ lutStale = "no" /\ lutShown = lutTable
    /\ undoStack = <<>> /\ redoStack = <<>>
    /\ slice_idx = 0 /\ channel = 0 /\ view_mode = "single"
    /\ drag = NoDrag /\ continuing_undo = FALSE
    /\ lutButtons = {} /\ picking = FALSE /\ pickContinues = FALSE
    /\ strokeBase = lutTable /\ releaseLost = FALSE /\ strokeWhole = FALSE
----------------------------------------------------------------------------
(* editStore(), unless the stroke goes on.                                 *)
(* A mistake: what was undone can still be redone.                         *)
StoreKeepsRedo(goesOn) ==
    IF goesOn THEN UNCHANGED stackVars
    ELSE /\ UNCHANGED redoStack
         /\ undoStack' = Append(SubSeq(undoStack,
                             IF Len(undoStack) > UNDO_SIZE
                             THEN Len(undoStack) - UNDO_SIZE + 1 ELSE 1,
                             Len(undoStack)), lutTable)

editStore(goesOn) ==
    IF goesOn THEN UNCHANGED stackVars
    ELSE /\ redoStack' = <<>>
         /\ undoStack' = Append(SubSeq(undoStack,
                             IF Len(undoStack) > UNDO_SIZE
                             THEN Len(undoStack) - UNDO_SIZE + 1 ELSE 1,
                             Len(undoStack)), lutTable)

(* editUndo(), editRedo(): the table goes to the other stack, the textures *)
(* and the derived table are made anew.                                    *)
editUndo ==
    /\ IF undoStack = <<>> THEN UNCHANGED <<lutTable, lutShown, stackVars>>
       ELSE /\ lutTable' = Last(undoStack) /\ lutShown' = lutTable'
            /\ undoStack' = Front(undoStack)
            /\ redoStack' = Append(redoStack, lutTable)
    /\ lutStale' = "no"
    /\ strokeWhole' = FALSE
    /\ UNCHANGED <<slice_idx, channel, view_mode, penVars, lutButtons,
                   pickVars, strokeBase, releaseLost>>

editRedo ==
    /\ IF redoStack = <<>> THEN UNCHANGED <<lutTable, lutShown, stackVars>>
       ELSE /\ lutTable' = Last(redoStack) /\ lutShown' = lutTable'
            /\ redoStack' = Front(redoStack)
            /\ undoStack' = Append(undoStack, lutTable)
    /\ lutStale' = "no"
    /\ strokeWhole' = FALSE
    /\ UNCHANGED <<slice_idx, channel, view_mode, penVars, lutButtons,
                   pickVars, strokeBase, releaseLost>>
----------------------------------------------------------------------------
Between(a, b) == {c \in LutCells : (a <= c /\ c <= b) \/ (b <= c /\ c <= a)}

(* drawPixel() for every point of drawLine(): with Ctrl its neighbours too *)
Touched(points, modifier) ==
    IF modifier # "ctrl" THEN points
    ELSE {c \in LutCells : \E p \in points : c - p \in -1 .. 1}

(* drawSinglePixel() into the table and into the texture.                  *)
Draw(cells, slice, modifier, by) ==
    LET mask == IF modifier \in {"alt", "shift"} THEN 0 ELSE channel
        Drawn(table) == [at \in DOMAIN table |->
                            IF at[1] = slice /\ at[2] \in cells
                            THEN mask ELSE table[at]]
    IN  /\ lutTable' = Drawn(lutTable) /\ lutShown' = Drawn(lutShown)
        /\ lutStale' = by

(* The cells maskFillYZ() reaches; its own steps are in LookupTable.       *)
Connected(cell) ==
    {c \in CellsOf(slice_idx) : \A d \in Between(c, cell) :
                         lutTable[slice_idx, d] = lutTable[slice_idx, cell]}

(* drawEvent(): button is the one pressed, "no" for a move, buttons those  *)
(* held after the event.                                                   *)
drawEvent(cell, button, buttons, modifier, dragging) ==
    CASE button = "right" ->
           /\ editStore(continuing_undo)
           /\ Draw(Connected(cell), slice_idx, modifier, "stroke")
           /\ drag' = dragging /\ continuing_undo' = FALSE
      [] button # "right" /\ "right" \notin buttons ->
           /\ editStore(continuing_undo)
           /\ Draw(Touched(IF dragging = NoDrag THEN {cell}
                           ELSE Between(cell, dragging), modifier),
                   slice_idx, modifier, "stroke")
           /\ drag' = cell
           /\ continuing_undo' = TRUE
      [] OTHER -> /\ drag' = dragging
                  /\ UNCHANGED <<lutTable, lutShown, lutStale, stackVars,
                                 continuing_undo>>

(* A press outside of the slice is not drawn.                              *)
mousePressEvent ==
    \E button \in MouseButtons \ lutButtons, modifier \in Masks :
       /\ ~picking
       /\ lutButtons' = lutButtons \cup {button}
       /\ IF view_mode = "cube"
          THEN UNCHANGED <<lutTable, lutShown, lutStale, stackVars, penVars>>
          ELSE \/ \E cell \in CellsOf(slice_idx) :
                     drawEvent(cell, button, lutButtons', modifier, NoDrag)
               \/ /\ drag' = NoDrag
                  /\ UNCHANGED <<lutTable, lutShown, lutStale, stackVars,
                                 continuing_undo>>
       /\ strokeBase' = lutTable
       /\ strokeWhole' = /\ lutButtons = {} /\ ~releaseLost
                       /\ view_mode # "cube"
       /\ UNCHANGED <<slice_idx, channel, view_mode, pickVars, releaseLost>>

mouseMoveEvent ==
    /\ lutButtons # {} /\ view_mode # "cube"
    /\ \E cell \in CellsOf(slice_idx), modifier \in Masks :
          drawEvent(cell, "no", lutButtons, modifier, drag)
    /\ UNCHANGED <<slice_idx, channel, view_mode, lutButtons,
                   pickVars, strokeVars>>

(* In the cube the release is the camera's.  Two mistakes: only the drag   *)
(* ends, the stroke's undo goes on; the derived table is not made anew.    *)
Released ==
    /\ \E button \in lutButtons : lutButtons' = lutButtons \ {button}
    /\ releaseLost' = (view_mode = "cube" /\ (releaseLost \/ continuing_undo
                                               \/ lutStale = "stroke"))
    /\ UNCHANGED <<lutTable, lutShown, stackVars, slice_idx, channel,
                   view_mode, pickVars, strokeBase, strokeWhole>>

ReleaseKeepsUndo ==
    /\ Released
    /\ IF view_mode = "cube" THEN UNCHANGED <<penVars, lutStale>>
       ELSE drag' = NoDrag /\ lutStale' = "no" /\ UNCHANGED continuing_undo

mouseReleaseEvent ==
    /\ Released
    /\ IF view_mode = "cube" THEN UNCHANGED <<penVars, lutStale>>
       ELSE drag' = NoDrag /\ continuing_undo' = FALSE /\ lutStale' = "no"
----------------------------------------------------------------------------
(* PluginColorCalibration::mouseEvent() and add_del_Pixel(): the colour    *)
(* picked says slice and cell.  The derived table is not made anew.        *)
Pick(modifier, goesOn) ==
    IF modifier = "none"
    THEN /\ pickContinues' = goesOn
         /\ UNCHANGED <<lutTable, lutShown, lutStale, stackVars, slice_idx>>
    ELSE /\ pickContinues' = TRUE
         /\ IF modifier = "alt"
            THEN UNCHANGED <<lutTable, lutShown, lutStale, stackVars, slice_idx>>
            ELSE \E at \in LutPoints :
                   /\ slice_idx' = at[1]
                   /\ editStore(goesOn)
                   /\ Draw({at[2]}, at[1],
                           IF modifier = "ctrl" THEN "none" ELSE "shift", "pick")

PickPressed ==
    /\ ~picking /\ lutButtons = {} /\ picking' = TRUE
    /\ \E modifier \in Masks : /\ Pick(modifier, pickContinues)
                               /\ strokeWhole' = (modifier # "alt"
                                                   /\ ~releaseLost)
    /\ strokeBase' = lutTable
    /\ UNCHANGED <<channel, view_mode, penVars, lutButtons,
                   releaseLost>>

PickMoved ==
    /\ picking
    /\ \E modifier \in Masks :
          /\ Pick(modifier, pickContinues)
          /\ strokeWhole' = (strokeWhole /\ modifier # "alt")
    /\ UNCHANGED <<channel, view_mode, penVars, lutButtons,
                   picking, strokeBase, releaseLost>>

PickReleased ==
    /\ picking
    /\ picking' = FALSE /\ pickContinues' = FALSE
    /\ UNCHANGED <<lutTable, lutShown, lutStale, stackVars, slice_idx,
                   channel, view_mode, penVars, lutButtons, strokeVars>>
----------------------------------------------------------------------------
(* keyPressEvent() A, Z and the wheel; the wheel turns the camera in the   *)
(* cube.                                                                   *)
ChangeSlice ==
    /\ slice_idx' \in {s \in LutSlices : s - slice_idx \in {-1, 1}}
    /\ UNCHANGED <<lutTable, lutShown, lutStale, stackVars, channel,
                   view_mode, penVars, lutButtons, pickVars, strokeVars>>

switchMode ==
    /\ view_mode' = CASE view_mode = "single" -> "grid"
                      [] view_mode = "grid" -> "cube"
                      [] view_mode = "cube" -> "single"
    /\ strokeWhole' = (strokeWhole /\ lutButtons = {})
    /\ UNCHANGED <<lutTable, lutShown, lutStale, stackVars, slice_idx,
                   channel, penVars, lutButtons, pickVars, strokeBase, releaseLost>>

(* In numeric mode every channel is shown whichever is chosen.             *)
setChannel ==
    /\ channel' \in LutChannels \ {channel}
    /\ UNCHANGED <<lutTable, lutShown, lutStale, stackVars, slice_idx,
                   view_mode, penVars, lutButtons, pickVars, strokeVars>>

LutNext ==
    \/ editUndo \/ editRedo
    \/ mousePressEvent \/ mouseMoveEvent \/ mouseReleaseEvent
    \/ PickPressed \/ PickMoved \/ PickReleased
    \/ ChangeSlice \/ switchMode \/ setChannel

LutSpec == LutInit /\ [][LutNext]_lutVars
----------------------------------------------------------------------------
(* However strokes, fills, picks, undo and redo follow each other, the     *)
(* editor shows the table it edits.                                        *)
PictureShowsTable == lutShown = lutTable

(* A stroke - drawing with moves, filling, picking with moves - is one     *)
(* step of undo: what the table was before its press is on top of the      *)
(* stack, as long as nothing else was done to the stroke: no second        *)
(* button, no undo or redo, no change of view while it is drawn.           *)
UndoTakesBackStroke ==
    strokeWhole /\ lutTable # strokeBase =>
        undoStack # <<>> /\ Last(undoStack) = strokeBase

(* Drawing and filling leave no stale RGB table behind: once the buttons   *)
(* are up it is made anew, unless the view was changed to the cube before  *)
(* that.  Only colours picked from the picture wait for the next stroke.   *)
StrokesReachDerived ==
    lutStale = "stroke" /\ strokeWhole => lutButtons # {}

(* The two stacks never hold more than UNDO_SIZE + 1 tables between them:  *)
(* undo and redo only move tables, and a new table drops what was undone.  *)
StacksAreBounded == Len(undoStack) + Len(redoStack) <= UNDO_SIZE + 1

(* Strokes, fills, picks, undo and redo in any order leave the picture,    *)
(* the stacks and the derived table true to the table (glLUTwidget.cpp).   *)
EditorIsSound ==
    /\ LutTypeOK /\ StacksAreBounded /\ PictureShowsTable
    /\ UndoTakesBackStroke /\ StrokesReachDerived
=============================================================================
