---------------------------- MODULE ZoomedImage ----------------------------
(***************************************************************************)
(* The picture in its window: zoom, pan and mirror                         *)
(* (dep/ssl-vision/src/shared/util/zoom.h) and the events that change them *)
(* (app/gui/glwidget.cpp).  Both directions are handled alike and stand    *)
(* for the two places of a pair; numbers of the type double are fractions  *)
(* <<numerator, denominator>>.  Each event draws before it returns; a new  *)
(* picture of the capture thread and a new size of the window wait for the *)
(* next drawing.  Plugins may take an event of the mouse before the window *)
(* does: that of the colours or that of the camera's corners, by the tab.  *)
(***************************************************************************)
EXTENDS Integers, FiniteSets

CONSTANTS
  DrawnSizes,     (* the sizes of pictures *)
  WindowSizes,    (* vpW, vpH *)
  MousePoints,    (* where the pointer goes, also outside of the window *)
  WindowEvents    (* bound on the events *)

(* Neither pictures nor windows are empty.                                 *)
ASSUME ZoomAssumption ==
    /\ DrawnSizes \subseteq (Nat \ {0}) \X (Nat \ {0})
    /\ WindowSizes \subseteq (Nat \ {0}) \X (Nat \ {0})
    /\ MousePoints \subseteq Int \X Int
    /\ WindowEvents \in Nat

VARIABLES
  picture, window, displayed,
  zoom,           (* the object Zoom *)
  mouse, buttons, mouseStart,
  tab,            (* the plugin that may take the mouse's events *)
  drawn,          (* the object Zoom at the last drawing, or Undrawn *)
  hiddenChange,   (* the display was off since then *)
  grabbed,        (* what was under the pointer at the press of a drag *)
  windowEvents

zoomVars == <<picture, window, displayed, zoom, mouse, buttons, mouseStart,
              tab, drawn, hiddenChange, grabbed, windowEvents>>

NoPicture == <<>>
Undrawn == [image |-> NoPicture]
NotGrabbed == [taken |-> TRUE]
Sides2 == {1, 2}
----------------------------------------------------------------------------
(* Fractions in lowest terms with a positive denominator.                  *)
Divisor[n \in Nat] == [m \in Nat |-> IF n = 0 THEN m ELSE Divisor[m % n][n]]
Size(n) == IF n < 0 THEN -n ELSE n

Ratio(n, d) ==
    LET g == Divisor[Size(d)][Size(n)] * (IF d < 0 THEN -1 ELSE 1)
    IN  <<(IF g < 0 THEN -n ELSE n) \div Size(g), Size(d) \div Size(g)>>
Whole(n) == <<n, 1>>
Plus(p, q) == Ratio(p[1] * q[2] + q[1] * p[2], p[2] * q[2])
Minus(p, q) == Plus(p, <<-q[1], q[2]>>)
Times(p, q) == Ratio(p[1] * q[1], p[2] * q[2])
Over(p, q) == Ratio(p[1] * q[2], p[2] * q[1])
Less(p, q) == p[1] * q[2] < q[1] * p[2]
Same(p, q) == p[1] * q[2] = q[1] * p[2]
Confined(p, low, high) ==
    IF Less(p, low) THEN low ELSE IF Less(high, p) THEN high ELSE p
TowardZero(p) ==
    IF p[1] < 0 THEN -((-p[1]) \div p[2]) ELSE p[1] \div p[2]
----------------------------------------------------------------------------
(* zoom.h.                                                                 *)
DEFAULT_ZOOM_INCREMENT == <<5, 4>>
DEFAULT_PAN_DISTANCE == <<1, 100>>
MIN_ZOOM == <<1, 10>>
MAX_ZOOM == Whole(50)
MAX_PAN == Whole(2)
MIN_PAN == Whole(-2)

reset(z) == [z EXCEPT !.zoomFactor = Whole(1), !.pan = <<Whole(0), Whole(0)>>,
                      !.flip = <<1, 1>>]
setup(z, img, surf) == [z EXCEPT !.image = img, !.surface = surf]
setZoom(z, val) == [z EXCEPT !.zoomFactor = Confined(val, MIN_ZOOM, MAX_ZOOM)]
setPan(z, val) ==
    [z EXCEPT !.pan = [a \in Sides2 |-> Confined(val[a], MIN_PAN, MAX_PAN)]]
setFlip(z, a, val) == [z EXCEPT !.flip[a] = IF val THEN -1 ELSE 1]

(* One side of the picture fills the window, the other one is within.  A   *)
(* mistake: the larger of both ratios.                                     *)
zoomToFill(z) ==
    LET fits(a) == Ratio(z.surface[a], z.image[a])
    IN  setZoom(z, IF Less(fits(1), fits(2)) THEN fits(2) ELSE fits(1))
zoomToFit(z) ==
    LET fits(a) == Ratio(z.surface[a], z.image[a])
    IN  setZoom(z, IF Less(fits(1), fits(2)) THEN fits(1) ELSE fits(2))

(* panLeft() .. panDown(): by a part of the surface along a, to and fro.   *)
panBy(z, a, way) ==
    setPan(z, [z.pan EXCEPT ![a] =
                  Plus(@, Times(DEFAULT_PAN_DISTANCE, Whole(way * z.flip[a])))])
zoomIn(z) == setZoom(z, Times(z.zoomFactor, DEFAULT_ZOOM_INCREMENT))
zoomOut(z) == setZoom(z, Over(z.zoomFactor, DEFAULT_ZOOM_INCREMENT))

StartZoom ==
    reset([image |-> <<320, 240>>, surface |-> <<320, 240>>,
           zoomFactor |-> Whole(1), pan |-> <<>>, flip |-> <<>>])

ScaleOf(z, a) == Times(z.zoomFactor, Whole(z.flip[a]))
Moved(z, a) == Times(z.pan[a], Whole(z.surface[a]))

(* zoom(): from the middle of the surface to the pixel x of the picture.   *)
zoomed(z, x, a) ==
    TowardZero(Times(Plus(Minus(Whole(x), Ratio(z.image[a], 2)), Moved(z, a)),
                     ScaleOf(z, a)))

(* invZoom(): the pixel under a point of the window, from its corner.  A   *)
(* mistake: the mirror is left out.                                        *)
Under(z, m, a) ==
    Plus(Minus(Over(Minus(Whole(m), Ratio(z.surface[a], 2)), ScaleOf(z, a)),
               Moved(z, a)),
         Ratio(z.image[a], 2))
Rounding(z, a) == IF a = 2 /\ z.flip[2] = 1 THEN <<1, 2>> ELSE Whole(0)
invZoomUnflipped(z, m, a) ==
    TowardZero(Minus(Under([z EXCEPT !.flip = <<1, 1>>], m, a), Rounding(z, a)))
invZoom(z, m, a) == TowardZero(Minus(Under(z, m, a), Rounding(z, a)))
----------------------------------------------------------------------------
ZoomInit ==
    /\ picture = NoPicture /\ window \in WindowSizes
    /\ displayed = TRUE /\ zoom = StartZoom
    /\ mouse \in MousePoints /\ buttons = {}
    /\ mouseStart \in [at : {<<0, 0>>}, pan : {<<Whole(0), Whole(1)>>}]
    /\ tab = "none" /\ drawn = Undrawn /\ hiddenChange = FALSE
    /\ grabbed = NotGrabbed /\ windowEvents = 0

Event == windowEvents < WindowEvents /\ windowEvents' = windowEvents + 1

(* redraw(): mainDraw() and myGLdraw(), with the object Zoom as the event  *)
(* leaves it.                                                              *)
redraw(z) ==
    IF ~displayed THEN zoom' = z /\ hiddenChange' = TRUE /\ UNCHANGED drawn
    ELSE /\ zoom' = IF picture = NoPicture THEN z
                    ELSE setup(z, picture, window)
         /\ drawn' = IF picture = NoPicture THEN Undrawn ELSE zoom'
         /\ hiddenChange' = FALSE

Nothing2 == UNCHANGED <<picture, window, displayed, tab>>
NoMouse == UNCHANGED <<mouse, buttons, mouseStart, grabbed>>

(* mouseAction(): the right button moves the picture from where it was.    *)
Dragged(start, at, held) ==
    IF "right" \notin held THEN zoom
    ELSE setPan(zoom, [a \in Sides2 |->
             Minus(start.pan[a],
                   Over(Whole(start.at[a] - at[a]),
                        Times(ScaleOf(zoom, a), Whole(window[a]))))])

(* Which events a plugin takes; that of the corners by where they are.     *)
Taken(event, held) ==
    CASE tab = "none" -> {FALSE}
      [] tab = "colours" -> {held = {"left"}}
      [] tab = "corners" -> IF event = "release" THEN {TRUE}
                            ELSE IF "left" \in held THEN BOOLEAN ELSE {FALSE}

(* A mistake: the start of a drag is kept from the one before.             *)
StartOfOldDrag(at) == mouseStart
StartOfDrag(at) == [at |-> at, pan |-> zoom.pan]

mousePressed(at, button) ==
    /\ Event /\ button \notin buttons
    /\ at = mouse \/ buttons = {}
    /\ mouse' = at /\ buttons' = buttons \cup {button}
    /\ \E taken \in Taken("press", buttons') :
          IF taken
          THEN /\ grabbed' = IF button = "right" THEN NotGrabbed ELSE grabbed
               /\ UNCHANGED <<mouseStart, zoom, drawn, hiddenChange>>
          ELSE /\ mouseStart' = StartOfDrag(at)
               /\ redraw(Dragged(mouseStart', at, buttons'))
               /\ grabbed' = IF "right" \notin buttons' THEN grabbed
                             ELSE [taken |-> FALSE, zoom |-> zoom',
                                   at |-> [a \in Sides2 |->
                                              Under(zoom', at[a], a)]]
    /\ Nothing2

mouseReleased(button) ==
    /\ Event /\ button \in buttons
    /\ buttons' = buttons \ {button}
    /\ \E taken \in Taken("release", buttons') :
          IF taken THEN UNCHANGED <<zoom, drawn, hiddenChange>>
          ELSE redraw(Dragged(mouseStart, mouse, buttons'))
    /\ grabbed' = IF button = "right" THEN NotGrabbed ELSE grabbed
    /\ UNCHANGED <<mouse, mouseStart>> /\ Nothing2

mouseMoved(at) ==
    /\ Event /\ buttons # {} /\ mouse' = at /\ mouse' # mouse
    /\ \E taken \in Taken("move", buttons) :
          IF taken THEN UNCHANGED <<zoom, drawn, hiddenChange>>
          ELSE redraw(Dragged(mouseStart, at, buttons))
    /\ UNCHANGED <<buttons, mouseStart, grabbed>> /\ Nothing2

wheelEvent(delta) ==
    /\ Event /\ redraw(IF delta > 0 THEN zoomIn(zoom) ELSE zoomOut(zoom))
    /\ NoMouse /\ Nothing2

callZoomNormal ==
    /\ Event
    /\ redraw(setZoom(setPan(zoom, <<Whole(0), Whole(0)>>), Whole(1)))
    /\ NoMouse /\ Nothing2

callZoomFit ==
    /\ Event
    /\ redraw(zoomToFit(setPan(zoom, <<Whole(0), Whole(0)>>)))
    /\ NoMouse /\ Nothing2

(* The picture moves against the arrow; PageUp and PageDown do as the      *)
(* wheel.                                                                  *)
KeyEffect(key) ==
    CASE key = "Left" -> panBy(zoom, 1, 1)
      [] key = "Right" -> panBy(zoom, 1, -1)
      [] key = "Up" -> panBy(zoom, 2, 1)
      [] key = "Down" -> panBy(zoom, 2, -1)
      [] key = "PageUp" -> zoomIn(zoom)
      [] key = "PageDown" -> zoomOut(zoom)
windowKey(key) ==
    /\ Event /\ redraw(KeyEffect(key)) /\ NoMouse /\ Nothing2

flipImage(a) ==
    /\ Event /\ redraw(setFlip(zoom, a, zoom.flip[a] = 1))
    /\ NoMouse /\ Nothing2

(* A frame of the ring buffer, a size of the window, and their drawing:    *)
(* displayLoopEvent(), resizeGL() and paintEvent().                        *)
NewPicture(p) ==
    /\ Event /\ picture' = p
    /\ UNCHANGED <<window, displayed, tab, zoom, drawn, hiddenChange>>
    /\ NoMouse
resizeGL(size) ==
    /\ Event /\ window' = size
    /\ UNCHANGED <<picture, displayed, tab, zoom, drawn, hiddenChange>>
    /\ NoMouse
paintEvent == Event /\ redraw(zoom) /\ NoMouse /\ Nothing2

(* The tool button and the tabs only change what comes later.              *)
SwitchDisplay ==
    /\ Event /\ displayed' = ~displayed
    /\ UNCHANGED <<picture, window, tab, zoom, drawn, hiddenChange>>
    /\ NoMouse
SwitchTab(t) ==
    /\ Event /\ tab' = t
    /\ UNCHANGED <<picture, window, displayed, zoom, drawn, hiddenChange>>
    /\ NoMouse

ZoomNext ==
    \/ \E button \in {"left", "right"} :
          mouseReleased(button) \/ \E at \in MousePoints :
                                      mousePressed(at, button)
    \/ \E at \in MousePoints : mouseMoved(at)
    \/ \E delta \in {-1, 1} : wheelEvent(delta)
    \/ \E key \in {"Left", "Right", "Up", "Down", "PageUp", "PageDown"} :
          windowKey(key)
    \/ callZoomNormal \/ callZoomFit
    \/ \E a \in Sides2 : flipImage(a)
    \/ \E p \in DrawnSizes : NewPicture(p)
    \/ \E size \in WindowSizes : resizeGL(size)
    \/ paintEvent \/ SwitchDisplay
    \/ \E t \in {"none", "colours", "corners"} : SwitchTab(t)

ZoomSpec == ZoomInit /\ [][ZoomNext]_zoomVars
----------------------------------------------------------------------------
(* glDrawPixels(): where column or row k of the picture begins; mirrored,  *)
(* it lies on the other side of that place.                                *)
DrawnAt(z, k, a) ==
    Plus(Plus(Ratio(z.surface[a], 2), Whole(zoomed(z, 0, a))),
         Times(Whole(k), ScaleOf(z, a)))

(* getQTransform(): where the plugins' lines over the picture are drawn.   *)
Overlaid(z, x, a) ==
    Plus(Times(Plus(Minus(Whole(x), Ratio(z.image[a], 2)), Moved(z, a)),
               ScaleOf(z, a)),
         Ratio(z.surface[a], 2))

(* A click on what is drawn hits: the pixel it picks is shown less than a  *)
(* pixel of the picture and one of the window away from the pointer, in    *)
(* whatever order zooms, moves, mirrors and new sizes came; and the lines  *)
(* that plugins draw over the picture are less than a pixel off.           *)
PointerMeetsPicture ==
    (drawn # Undrawn /\ zoom = drawn) =>
        \A at \in MousePoints, a \in Sides2 :
           LET k == invZoom(zoom, at[a], a)
               from == DrawnAt(drawn, k, a)
               to == DrawnAt(drawn, k + 1, a)
               near == Plus(Whole(1), zoom.zoomFactor)
               Reaches(low, high) ==
                   /\ Less(Minus(low, Whole(at[a] + 1)), near)
                   /\ Less(Minus(Whole(at[a]), high), near)
               off == Minus(from, Overlaid(drawn, k, a))
           IN  k \in 0 .. drawn.image[a] - 1 =>
                  /\ IF zoom.flip[a] = 1 THEN Reaches(from, to)
                                         ELSE Reaches(to, from)
                  /\ Less(Whole(-1), off) /\ Less(off, Whole(1))

(* Nothing changes the view without drawing it: what a click is held       *)
(* against is what is seen, unless the display was off.                    *)
DrawnIsCurrent == drawn # Undrawn /\ ~hiddenChange => drawn = zoom

(* The point that was grabbed stays under the pointer, unless the picture  *)
(* reaches the limit of moving; after a wheel, a mirror or a new size      *)
(* during the drag the code does not say so (it jumps back to the zoom's   *)
(* share of the old way), nor after a press the plugin of the corners took.*)
Unmoved(z) == [z EXCEPT !.pan = <<>>]
GrabbedFollowsPointer ==
    \A at \in MousePoints :
       /\ mouseMoved(at) /\ zoom'.pan # zoom.pan /\ ~grabbed.taken
       /\ Unmoved(grabbed.zoom) = Unmoved(zoom') /\ window = zoom'.surface
       => \A a \in Sides2 :
             zoom'.pan[a] \notin {MIN_PAN, MAX_PAN} =>
                Same(Under(zoom', at[a], a), grabbed.at[a])
DragKeepsPoint == [][GrabbedFollowsPointer]_zoomVars

(* Zoom to fit shows the whole picture, to a pixel, if the sizes are those *)
(* of the last drawing and the zoom can be that small.                     *)
FitIsWithinWindow ==
    /\ callZoomFit /\ displayed /\ picture # NoPicture
    /\ zoom.image = picture /\ zoom.surface = window
    /\ zoom'.zoomFactor # MIN_ZOOM
    => \A a \in Sides2 : \A k \in {0, picture[a]} :
          /\ Less(Whole(-1), DrawnAt(drawn', k, a))
          /\ Less(DrawnAt(drawn', k, a), Whole(window[a] + 1))
FitShowsAll == [][FitIsWithinWindow]_zoomVars

ClicksMeetPicture == PointerMeetsPicture /\ DrawnIsCurrent
WindowFollowsMouse == DragKeepsPoint /\ FitShowsAll
=============================================================================
