------------------------------ MODULE Calibrator ------------------------------
(***************************************************************************)
(* The calibration in the GUI: CameraParameters::calibrate(), a Levenberg- *)
(* Marquardt search (dep/ssl-vision/src/shared/util/camera_calibration.    *)
(* cpp), its buttons (app/gui/cameracalibwidget.cpp) and the dragging of   *)
(* the four corners in the picture (app/plugins/plugin_cameracalib.cpp).   *)
(* chi^2 is counted in the steps of 0.001 at which the search stops, and   *)
(* a step that is tried may have any; NaN compares with nothing.           *)
(***************************************************************************)
EXTENDS Integers, FiniteSets

CONSTANTS ChiLimit,      (* the largest chi^2 of a start *)
          LambdaLimit,   (* lambda is 10^-2 times 10 to the power of at most
                            this, either way *)
          Corners, PictureWidth, Pointers   (* along one axis, in and out *)

ASSUME CalibAssumption ==
  ChiLimit \in Nat /\ PictureWidth \in Nat \ {0} /\ Pointers \subseteq Int

VARIABLES
  searching, old_chisqr, lambda, convergence_counter,
  accepted,          (* history: the last step tried was taken *)
  corners,           (* where each corner is *)
  drag_x,            (* the corner that follows the pointer, or NoDragged *)
  doing_drag, leftDown, tabShown,
  dragCrashed,       (* the pointer's position was stored through null *)
  releaseMissed      (* history: the button was let go over another tab
                        during a drag *)

searchVars == <<searching, old_chisqr, lambda, convergence_counter, accepted>>
dragVars == <<corners, drag_x, doing_drag, leftDown, tabShown, dragCrashed,
              releaseMissed>>
calibVars == <<searching, old_chisqr, lambda, convergence_counter, accepted,
               corners, drag_x, doing_drag, leftDown, tabShown, dragCrashed,
               releaseMissed>>

Chi == 0 .. ChiLimit
NaN == -1
NoDragged == 0
Reach == 2   (* drag_threshold *)
Apart(a, b) == IF a < b THEN b - a ELSE a - b

CalibInit ==
    /\ searching = FALSE /\ old_chisqr = 0 /\ lambda = 0
    /\ convergence_counter = 0 /\ accepted = FALSE
    /\ corners \in [Corners -> 0 .. PictureWidth - 1]
    /\ drag_x = NoDragged /\ doing_drag = FALSE /\ leftDown = FALSE
    /\ tabShown = TRUE /\ dragCrashed = FALSE /\ releaseMissed = FALSE
----------------------------------------------------------------------------
(* do_calibration(): the GUI does nothing else until the search ends.      *)
do_calibration ==
    /\ ~searching /\ ~dragCrashed
    /\ searching' = TRUE
    /\ old_chisqr' \in Chi \cup {NaN}
    /\ lambda' = 0 /\ convergence_counter' = 0 /\ accepted' = FALSE
    /\ UNCHANGED dragVars

Less(a, b) == a # NaN /\ b # NaN /\ a < b
Bounded(n) == IF n > LambdaLimit THEN LambdaLimit
              ELSE IF n < -LambdaLimit THEN -LambdaLimit ELSE n

(* One turn of the loop, with a step whose chi^2 is chi.  A fall by less   *)
(* than 0.001 is a fall within the same step of 0.001.                     *)
(* A mistake: the counter is not set back.                                 *)
TriedWithoutReset(chi, falls, timeout) ==
    /\ searching
    /\ IF falls
       THEN /\ old_chisqr' = chi /\ accepted' = TRUE
            /\ searching' = (chi # old_chisqr /\ ~timeout)
            /\ lambda' = IF chi = old_chisqr THEN lambda
                         ELSE Bounded(lambda - 1)
            /\ UNCHANGED convergence_counter
       ELSE /\ lambda' = Bounded(lambda + 1) /\ accepted' = FALSE
            /\ convergence_counter' = convergence_counter + 1
            /\ searching' = (convergence_counter <= 10 /\ ~timeout)
            /\ UNCHANGED old_chisqr
    /\ UNCHANGED dragVars

(* A mistake: it goes on after a fall of less than 0.001.                  *)
TriedOnTinyFalls(chi, falls, timeout) ==
    /\ searching
    /\ IF falls
       THEN /\ old_chisqr' = chi /\ accepted' = TRUE
            /\ searching' = ~timeout
            /\ lambda' = Bounded(lambda - 1) /\ convergence_counter' = 0
       ELSE /\ lambda' = Bounded(lambda + 1) /\ accepted' = FALSE
            /\ convergence_counter' = convergence_counter + 1
            /\ searching' = (convergence_counter <= 10 /\ ~timeout)
            /\ UNCHANGED old_chisqr
    /\ UNCHANGED dragVars

Tried(chi, falls, timeout) ==
    /\ searching
    /\ IF falls
       THEN /\ old_chisqr' = chi /\ accepted' = TRUE
            /\ searching' = (chi # old_chisqr /\ ~timeout)
            /\ IF chi = old_chisqr THEN UNCHANGED <<lambda, convergence_counter>>
               ELSE lambda' = Bounded(lambda - 1) /\ convergence_counter' = 0
       ELSE /\ lambda' = Bounded(lambda + 1) /\ accepted' = FALSE
            /\ convergence_counter' = convergence_counter + 1
            /\ searching' = (convergence_counter <= 10 /\ ~timeout)
            /\ UNCHANGED old_chisqr
    /\ UNCHANGED dragVars

(* What chi < old_chisqr can be for a chi of this step of 0.001.           *)
Falls(chi) ==
    IF Less(chi, old_chisqr) THEN {TRUE}
    ELSE IF chi = old_chisqr /\ chi # NaN THEN BOOLEAN ELSE {FALSE}

Search(timeout) ==
    \E chi \in Chi \cup {NaN} : \E falls \in Falls(chi) :
        Tried(chi, falls, timeout)
----------------------------------------------------------------------------
(* The last corner in reach is the one that is dragged.                    *)
LastInReach(x) ==
    LET near == {c \in Corners : Apart(corners[c], x) < Reach}
    IN  IF near = {} THEN NoDragged
        ELSE CHOOSE c \in near : \A d \in near : d <= c

mousePressEvent(x) ==
    /\ ~searching /\ ~leftDown /\ ~dragCrashed
    /\ leftDown' = TRUE
    /\ IF tabShown
       THEN /\ drag_x' = LastInReach(x)
            /\ doing_drag' = (drag_x' # NoDragged \/ doing_drag)
       ELSE UNCHANGED <<drag_x, doing_drag>>
    /\ UNCHANGED <<searchVars, corners, tabShown, dragCrashed,
                   releaseMissed>>

mouseReleaseEvent ==
    /\ ~searching /\ leftDown /\ ~dragCrashed
    /\ leftDown' = FALSE
    /\ doing_drag' = (doing_drag /\ ~tabShown)
    /\ releaseMissed' = (releaseMissed \/ doing_drag')
    /\ UNCHANGED <<searchVars, corners, drag_x, tabShown, dragCrashed>>

Clipped(x) == IF x < 0 THEN 0
              ELSE IF x >= PictureWidth THEN PictureWidth - 1 ELSE x

mouseMoveEvent(x) ==
    /\ ~searching /\ doing_drag /\ tabShown /\ leftDown /\ ~dragCrashed
    /\ IF drag_x = NoDragged
       THEN dragCrashed' = TRUE /\ UNCHANGED corners
       ELSE corners' = [corners EXCEPT ![drag_x] = Clipped(x)]
            /\ UNCHANGED dragCrashed
    /\ UNCHANGED <<searchVars, drag_x, doing_drag, leftDown, tabShown,
                   releaseMissed>>

(* Another tab is shown, by the keyboard perhaps while a button is held.   *)
ShowTab ==
    /\ ~searching /\ ~dragCrashed
    /\ tabShown' = ~tabShown
    /\ UNCHANGED <<searchVars, corners, drag_x, doing_drag, leftDown,
                   dragCrashed, releaseMissed>>

CalibNext ==
    \/ do_calibration
    \/ \E timeout \in BOOLEAN : Search(timeout)
    \/ \E x \in Pointers : mousePressEvent(x) \/ mouseMoveEvent(x)
    \/ mouseReleaseEvent
    \/ ShowTab

CalibSpec == CalibInit /\ [][CalibNext]_calibVars
CalibFairSpec == CalibSpec /\ WF_calibVars(Search(FALSE) \/ Search(TRUE))
----------------------------------------------------------------------------
(* camera_calibration.cpp:555-625: the search never makes chi^2 larger,    *)
(* gives up only after twelve tries in a row that did not lower it, a fall *)
(* of less than 0.001 or the timeout.                                      *)
SearchOnlyImproves ==
    [][searching =>
         /\ old_chisqr' = old_chisqr \/ Less(old_chisqr', old_chisqr)
         /\ accepted' => convergence_counter' = 0 \/ ~searching'
         /\ convergence_counter' <= 12]_calibVars

(* Every search ends, with whatever numbers it meets, also without the     *)
(* timeout, and the GUI takes input again.                                 *)
SearchEnds == searching ~> ~searching

(* plugin_cameracalib.cpp:472-546: corners that are dragged stay in the    *)
(* picture, and without a button that was let go over another tab there is *)
(* always a corner to be dragged.                                          *)
DraggingIsSafe ==
    /\ \A c \in Corners : corners[c] \in 0 .. PictureWidth - 1
    /\ dragCrashed => releaseMissed
=============================================================================
