-------------------------- MODULE CapturePipeline --------------------------
(***************************************************************************)
(* One camera of the SSL-Vision application: its capture thread            *)
(* (app/capture_thread.cpp), the frame buffer it fills, and the GUI thread *)
(* that shows the frames, works the buttons of the capture settings and    *)
(* closes the program (app/gui/mainwindow.cpp, app/gui/glwidget.h).        *)
(* capture_mutex makes each of the thread's three accesses to the capture  *)
(* device, and each button of the GUI, one step; between those steps the   *)
(* other thread runs.                                                      *)
(***************************************************************************)
EXTENDS Integers

CONSTANTS Size,         (* the number of bins *)
          MaxFrames     (* bound: where the frame counter stays *)

(* "Note that _size needs to be at least 2!" *)
ASSUME SizeAssumption == Size \in Nat /\ Size >= 2

ASSUME FramesAssumption == MaxFrames \in Nat

VARIABLES
  rb,         (* the indices of the frame buffer *)
  bins,       (* number of the frame in each bin, 0 before the first *)
  total,      (* the frame counter of the thread *)
  thread,     (* where the capture thread is in run() *)
  selected,   (* capture: the capture method in use *)
  capturing,  (* isCapturing() of each method *)
  frame,      (* the pointer getFrame() left in each method's object *)
  startable,  (* the start button is not read-only *)
  stoppable,  (* the stop button is not read-only *)
  gui,        (* what the GUI thread is doing *)
  wanted,     (* the method selectCaptureMethod() is switching to *)
  shown,      (* last_frame of the display widget *)
  kill        (* _kill *)

threadVars == <<bins, total, thread>>
deviceVars == <<selected, capturing, frame>>
buttonVars == <<startable, stoppable, wanted>>
vars == <<rb, threadVars, deviceVars, buttonVars, gui, shown, kill>>

----------------------------------------------------------------------------
(* The ring buffer (dep/ssl-vision/src/shared/util/ringbuffer.h): a record *)
(* of the indices the class keeps; nextWrite() and nextRead() run whole    *)
(* under its mutex, so each is one operator from a buffer to a buffer.     *)
(* The bins themselves belong to the threads that use them.                *)

Bins == 0 .. Size - 1

(* previous_read is written and never looked at: it is left out.           *)
Buffers == [read : Bins, write : Bins, prevWrite : Bins]

NewBuffer == [read |-> 0, write |-> 1, prevWrite |-> 0]

Wrap(i) == IF i >= Size THEN 0 ELSE i

(* A mistake: the bin of the other thread is entered.                      *)
NextBinAnyway(cur, notAvail, preventLap) == Wrap(cur + 1)

(* next(): one bin on; a bin that is not available is either not entered   *)
(* (the index stays) or jumped over.                                       *)
NextBin(cur, notAvail, preventLap) ==
    LET idx == Wrap(cur + 1)
    IN  IF idx # notAvail THEN idx
        ELSE IF preventLap THEN cur ELSE Wrap(idx + 1)

(* The argument of nextWrite() is handed to next() as preventLap.          *)
NextWrite(ring, allowLapping) ==
    [ring EXCEPT !.prevWrite = ring.write,
               !.write = NextBin(ring.write, ring.read, allowLapping)]

BinBefore(i) == IF i = 0 THEN Size - 1 ELSE i - 1

(* A mistake: the reader always goes to the newest bin.                    *)
NextReadSkips(ring, skipFrames) ==
    [ring EXCEPT !.read = NextBin(BinBefore(ring.prevWrite), ring.write, TRUE)]

NextRead(ring, skipFrames) ==
    [ring EXCEPT !.read = NextBin(IF skipFrames
                                  THEN BinBefore(ring.prevWrite)
                                  ELSE ring.read, ring.write, TRUE)]

(* How many bins ahead of the reader bin i is.                             *)
Ahead(ring, i) == (i - ring.read + Size) % Size

(* The bins written and not read yet, oldest first: those after the bin of *)
(* the reader and before the bin of the writer.                            *)
WaitingBins(ring) ==
    [i \in 1 .. Ahead(ring, ring.write) - 1 |-> (ring.read + i) % Size]

----------------------------------------------------------------------------
(* The two threads and the capture devices.                                *)

Methods == {"DC 1394", "Read from files", "Generator"}

(* The generator's image is a member of its object: it has nothing to give *)
(* back.                                                                   *)
OwingMethods == Methods \ {"Generator"}

(* A frame pointer: never set, 0, pointing to memory or a buffer the       *)
(* method still owes back, or pointing to what was given back already.     *)
Pointers == {"unset", "null", "held", "given back"}

ThreadPlaces == {"top", "process", "publish", "refresh", "release", "check",
                 "ended", "crashed"}
GuiPlaces == {"idle", "display", "stopping", "switching", "killing",
              "closed"}

TypeOK ==
    /\ rb \in Buffers
    /\ bins \in [Bins -> 0 .. MaxFrames]
    /\ total \in 0 .. MaxFrames
    /\ thread \in ThreadPlaces
    /\ selected \in Methods
    /\ capturing \in [Methods -> BOOLEAN]
    /\ frame \in [OwingMethods -> Pointers]
    /\ startable \in BOOLEAN /\ stoppable \in BOOLEAN
    /\ gui \in GuiPlaces
    /\ wanted \in Methods
    /\ shown \in 0 .. MaxFrames
    /\ kill \in BOOLEAN

Init ==
    /\ rb = NewBuffer
    /\ bins = [b \in Bins |-> 0]
    /\ total = 0
    /\ thread = "top"
    /\ selected \in Methods      \* the settings are loaded before start()
    /\ capturing = [m \in Methods |-> FALSE]
    /\ frame = [m \in OwingMethods |-> "unset"]
    /\ startable = TRUE /\ stoppable = FALSE
    /\ gui = "idle"
    /\ wanted = selected
    /\ shown = 0
    /\ kill = FALSE

CountedFrame == IF total < MaxFrames THEN total + 1 ELSE total

ThreadGoes(from, to) == thread = from /\ thread' = to

----------------------------------------------------------------------------
(* The capture thread.                                                     *)

(* getFrame() and copyAndConvertFrame() into the bin of the writer.        *)
GrabFrame ==
    /\ ThreadGoes("top", "process")
    /\ capturing[selected]
    /\ frame' = [m \in OwingMethods |->
                     IF m = selected THEN "held" ELSE frame[m]]
    /\ total' = CountedFrame
    /\ bins' = [bins EXCEPT ![rb.write] = CountedFrame]
    /\ UNCHANGED <<rb, selected, capturing, buttonVars, gui, shown, kill>>

(* getFrame() fails: the camera gives no frame, or an image file could not *)
(* be read.  The method stops capturing and the empty image goes the way   *)
(* of any other; a DC 1394 image that needs no conversion is copied from   *)
(* address 0.                                                              *)
GrabFails ==
    /\ thread = "top"
    /\ capturing[selected] /\ selected \in OwingMethods
    /\ capturing' = [capturing EXCEPT ![selected] = FALSE]
    /\ \/ selected = "DC 1394" /\ thread' = "crashed" /\ UNCHANGED frame
       \/ selected = "DC 1394" /\ thread' = "process" /\ UNCHANGED frame
       \/ /\ selected = "Read from files" /\ thread' = "process"
          /\ frame' = [frame EXCEPT ![selected] = "null"]
    /\ total' = CountedFrame
    /\ bins' = [bins EXCEPT ![rb.write] = CountedFrame]
    /\ UNCHANGED <<rb, selected, buttonVars, gui, shown, kill>>

(* Not capturing: the bin of the writer gets the number of the last frame. *)
ChillOut ==
    /\ ThreadGoes("top", "check")
    /\ ~capturing[selected]
    /\ bins' = [bins EXCEPT ![rb.write] = total]
    /\ UNCHANGED <<rb, total, deviceVars, buttonVars, gui, shown, kill>>

(* process() and postProcess() of the stack work on the bin of the writer. *)
ProcessFrame ==
    /\ ThreadGoes("process", "publish")
    /\ UNCHANGED <<rb, bins, total, deviceVars, buttonVars, gui, shown, kill>>

(* nextWrite(true); once a second the parameters are re-read.              *)
PublishFrame ==
    /\ thread = "publish"
    /\ thread' \in {"refresh", "release"}
    /\ rb' = NextWrite(rb, TRUE)
    /\ UNCHANGED <<bins, total, deviceVars, buttonVars, gui, shown, kill>>

RefreshParameters ==
    /\ ThreadGoes("refresh", "release")
    /\ UNCHANGED <<rb, bins, total, deviceVars, buttonVars, gui, shown, kill>>

(* releaseFrame() of whatever method is selected and capturing by now.     *)
ReleaseFrame ==
    /\ ThreadGoes("release", "check")
    /\ frame' = IF selected \in OwingMethods /\ capturing[selected]
                THEN [frame EXCEPT ![selected] = "given back"] ELSE frame
    /\ UNCHANGED <<rb, bins, total, selected, capturing, buttonVars, gui,
                   shown, kill>>

(* The stop of DC 1394 closes the camera and its buffers with it; the      *)
(* other methods only forget that they were capturing.                     *)
StopCapture(m) ==
    /\ capturing' = [capturing EXCEPT ![m] = FALSE]
    /\ frame' = IF m = "DC 1394" /\ frame[m] = "held"
                THEN [frame EXCEPT ![m] = "given back"] ELSE frame

(* A mistake: whether to end is only asked after a frame.                  *)
CheckKillAfterFrame ==
    /\ thread = "check"
    /\ \/ ~(kill /\ capturing[selected]) /\ thread' = "top"
          /\ UNCHANGED <<capturing, frame>>
       \/ kill /\ capturing[selected] /\ thread' = "ended"
          /\ StopCapture(selected)
    /\ UNCHANGED <<rb, bins, total, selected, buttonVars, gui, shown, kill>>

CheckKill ==
    /\ thread = "check"
    /\ \/ ~kill /\ thread' = "top" /\ UNCHANGED <<capturing, frame>>
       \/ kill /\ thread' = "ended" /\ StopCapture(selected)
    /\ UNCHANGED <<rb, bins, total, selected, buttonVars, gui, shown, kill>>

CaptureThread == \/ GrabFrame \/ GrabFails \/ ChillOut \/ ProcessFrame
                 \/ PublishFrame \/ RefreshParameters \/ ReleaseFrame
                 \/ CheckKill

----------------------------------------------------------------------------
(* The GUI thread.                                                         *)

(* timerEvent(): go to the next bin; a new one is displayed.               *)
TimerEvent ==
    /\ gui = "idle"
    /\ rb' = NextRead(rb, FALSE)
    /\ gui' = IF rb'.read # rb.read THEN "display" ELSE "idle"
    /\ UNCHANGED <<threadVars, deviceVars, buttonVars, shown, kill>>

(* displayLoopEvent(true, ...) and the redraw it asks for.                 *)
DisplayFrame ==
    /\ gui = "display" /\ gui' = "idle"
    /\ shown' = bins[rb.read]
    /\ UNCHANGED <<rb, threadVars, deviceVars, buttonVars, kill>>

(* init(), the slot of the start button.  Opening the camera or the        *)
(* directory may fail; an image generator always starts.                   *)
StartButton ==
    /\ gui = "idle" /\ startable
    /\ \/ /\ capturing' = [capturing EXCEPT ![selected] = TRUE]
          /\ startable' = FALSE /\ stoppable' = TRUE
       \/ /\ selected \in OwingMethods
          /\ capturing' = [capturing EXCEPT ![selected] = FALSE]
          /\ UNCHANGED <<startable, stoppable>>
    /\ UNCHANGED <<rb, threadVars, selected, frame, wanted, gui, shown, kill>>

(* stop() *)
Stop ==
    /\ StopCapture(selected)
    /\ startable' = TRUE /\ stoppable' = FALSE
    /\ UNCHANGED <<rb, threadVars, selected, wanted, shown, kill>>

StopButton == gui = "idle" /\ stoppable /\ Stop /\ UNCHANGED gui

(* selectCaptureMethod(): a method that is capturing is stopped first,     *)
(* without the lock held from there to the switch.                         *)
SelectMethod(m) ==
    /\ gui = "idle" /\ m # selected
    /\ IF capturing[selected]
       THEN gui' = "stopping" /\ wanted' = m /\ UNCHANGED selected
       ELSE gui' = "idle" /\ wanted' = m /\ selected' = m
    /\ UNCHANGED <<rb, threadVars, capturing, frame, startable, stoppable,
                   shown, kill>>

(* A mistake: the method goes on capturing when another one is selected.   *)
SwitchWithoutStop ==
    /\ gui = "stopping" /\ gui' = "switching"
    /\ UNCHANGED <<rb, threadVars, deviceVars, buttonVars, shown, kill>>

StopBeforeSwitch ==
    /\ gui = "stopping" /\ gui' = "switching"
    /\ Stop

Switch ==
    /\ gui = "switching" /\ gui' = "idle"
    /\ selected' = wanted
    /\ UNCHANGED <<rb, threadVars, capturing, frame, buttonVars, shown, kill>>

(* ~MainWindow(): kill() waits until the thread has ended.                 *)
KillThread ==
    /\ gui = "idle" /\ gui' = "killing"
    /\ kill' = TRUE
    /\ UNCHANGED <<rb, threadVars, deviceVars, buttonVars, shown>>

Exit ==
    /\ gui = "killing" /\ thread = "ended" /\ gui' = "closed"
    /\ UNCHANGED <<rb, threadVars, deviceVars, buttonVars, shown, kill>>

GuiButton == \/ StartButton \/ StopButton \/ KillThread
             \/ \E m \in Methods : SelectMethod(m)

GuiThread == \/ TimerEvent \/ DisplayFrame \/ StopBeforeSwitch \/ Switch
             \/ Exit \/ GuiButton

(* A crash ends the process, and so does the exit of the GUI thread.       *)
Running == thread # "crashed" /\ gui # "closed"

Next == Running /\ (CaptureThread \/ GuiThread)

Spec == Init /\ [][Next]_vars

(* Both threads are scheduled, and the event loop serves the 10 ms timer   *)
(* of the main window among whatever the user does (hence the strong       *)
(* fairness); the user need not do anything.  getFrame() returns, with a   *)
(* frame or a failure.                                                     *)
FairSpec == /\ Spec
            /\ WF_vars(Running /\ CaptureThread)
            /\ SF_vars(Running /\ TimerEvent)
            /\ WF_vars(Running /\ (\/ DisplayFrame \/ StopBeforeSwitch
                                   \/ Switch \/ Exit))

----------------------------------------------------------------------------
(* The frame the GUI shows and the frame the capture thread works on are   *)
(* never in the same bin, whatever the two threads do                      *)
(* (ringbuffer.h, "the reader and the writer will NEVER access the same    *)
(* bin at the same time").                                                 *)
NoSharedBin == rb.read # rb.write

(* The start button can be pressed only while no method captures, after    *)
(* any sequence of buttons, switches and failures of the devices: the two  *)
(* buttons are set by other steps than the capturing they stand for.       *)
ButtonsFollowCapture ==
    /\ startable => \A m \in Methods : ~capturing[m]
    /\ startable = ~stoppable

(* A method that is not selected does not go on capturing.                 *)
OnlySelectedCaptures == \A m \in Methods : capturing[m] => m = selected

(* Nothing captures between the stop and the switch of                     *)
(* selectCaptureMethod(), although the lock is given up there.             *)
StoppedBeforeSwitch ==
    gui = "switching" => \A m \in Methods : ~capturing[m]

(* From the bin of the reader to that of the writer the frames are in the  *)
(* order they were captured, whatever other bins hold; none is older than  *)
(* the one displayed, and the frame being processed is the newest.         *)
FramesWaitInOrder ==
    /\ \A b, d \in Bins :
          Ahead(rb, b) <= Ahead(rb, d) /\ Ahead(rb, d) < Ahead(rb, rb.write)
             => bins[b] <= bins[d]
    /\ \A b \in Bins : bins[b] <= total
    /\ thread \in {"process", "publish"} => bins[rb.write] = total
    /\ shown <= bins[rb.read]

(* What holds whatever the two threads, the user and the devices do        *)
(* (capture_thread.cpp, ringbuffer.h).                                     *)
PipelineIsSafe == /\ TypeOK /\ NoSharedBin /\ ButtonsFollowCapture
                  /\ OnlySelectedCaptures /\ StoppedBeforeSwitch
                  /\ FramesWaitInOrder

(* The display never goes back to an older frame, though the writer may    *)
(* have gone round the buffer any number of times between two displays.    *)
FramesInOrder == [][shown' >= shown]_vars

(* The buffer as the queue of processed frames it stands for.              *)
Queue == INSTANCE FrameQueue WITH
    Capacity <- Size - 2,
    Numbers <- 0 .. MaxFrames,
    queue <- [i \in DOMAIN WaitingBins(rb) |-> bins[WaitingBins(rb)[i]]],
    current <- bins[rb.read]

QueueSpec == Queue!Spec

(* A frame that waits in the buffer is shown, or a newer one, unless the   *)
(* program is closed or crashes first.                                     *)
FramesAreShown ==
    \A n \in 1 .. MaxFrames :
        (\E i \in DOMAIN WaitingBins(rb) : bins[WaitingBins(rb)[i]] = n)
            ~> (shown >= n \/ kill \/ thread = "crashed")

(* Closing the program ends the capture thread: kill() does not wait for   *)
(* ever.                                                                   *)
KillEnds == kill ~> (gui = "closed" \/ thread = "crashed")

(* Frames reach the display, in order, and the program can be closed       *)
(* (capture_thread.cpp, mainwindow.cpp, glwidget.h).                       *)
PipelineMovesOn == FramesInOrder /\ FramesAreShown /\ KillEnds
=============================================================================
