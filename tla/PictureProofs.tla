--------------------------- MODULE PictureProofs ---------------------------
(* Theorems about CapturePipeline and its ring of any size of two or more  *)
(* bins, for any bound on the frames; about Images, whose pictures the     *)
(* ring carries, for pictures of every size and every colour; and about    *)
(* EdgeSearch, RobotPatterns and LookupTable, which look at those pictures,*)
(* for bars anywhere in them, any regions and settings, and tables of any  *)
(* number of bits.                                                         *)
EXTENDS CapturePipeline, Images, EdgeSearch, RobotPatterns, LookupTable,
        SequenceTheorems, FiniteSetTheorems, WellFoundedInduction, TLAPS

(* The remainder of a number that is less than twice the size.             *)
LEMMA RemainderOfSize ==
  ASSUME NEW x \in 0 .. 2 * Size - 1
  PROVE  x % Size = IF x < Size THEN x ELSE x - Size
BY SizeAssumption

(* How far ahead of the reader a bin is, without the remainder.            *)
LEMMA AheadOfReader ==
  ASSUME NEW r \in Buffers, NEW b \in Bins
  PROVE  Ahead(r, b) = IF b < r.read THEN b - r.read + Size ELSE b - r.read
<1>1. r.read \in Bins
  BY DEF Buffers
<1>2. b - r.read + Size \in 0 .. 2 * Size - 1
  BY <1>1, SizeAssumption DEF Bins
<1> QED
  BY <1>1, <1>2, RemainderOfSize, SizeAssumption DEF Ahead, Bins

(* It is less than the size of the ring.                                   *)
LEMMA AheadInRing ==
  ASSUME NEW r \in Buffers, NEW b \in Bins
  PROVE  Ahead(r, b) \in 0 .. Size - 1
<1>1. r.read \in Bins
  BY DEF Buffers
<1> QED
  BY <1>1, AheadOfReader, SizeAssumption DEF Bins

(* The next bin, when a bin that is not available is not entered.          *)
LEMMA NextBinStops ==
  ASSUME NEW i \in Bins, NEW other \in Bins, i # other
  PROVE  /\ NextBin(i, other, TRUE) \in Bins
         /\ NextBin(i, other, TRUE) # other
         /\ NextBin(i, other, TRUE) =
              IF Wrap(i + 1) # other THEN Wrap(i + 1) ELSE i
BY SizeAssumption DEF NextBin, Bins, Wrap

(* The writer's next bin: the one after its own, or its own when that is   *)
(* the reader's.                                                           *)
LEMMA WriterMoves ==
  ASSUME NEW r \in Buffers, r.read # r.write
  PROVE  LET next == NextWrite(r, TRUE)
         IN  /\ next \in Buffers
             /\ next.read = r.read
             /\ next.read # next.write
             /\ \/ next.write = r.write
                \/ /\ next.write # r.write
                   /\ Ahead(next, next.write) = Ahead(r, r.write) + 1
                   /\ \A b \in Bins : Ahead(next, b) = Ahead(r, b)
<1> DEFINE next == NextWrite(r, TRUE)
<1> HIDE DEF next
<1>1. /\ next \in Buffers
      /\ next.read = r.read
      /\ next.write = IF Wrap(r.write + 1) # r.read THEN Wrap(r.write + 1)
                                                    ELSE r.write
  BY NextBinStops DEF next, NextWrite, Buffers
<1>2. next.read # next.write
  BY <1>1
<1>3. \A b \in Bins : Ahead(next, b) = Ahead(r, b)
  BY <1>1 DEF Ahead
<1>4. ASSUME next.write # r.write
      PROVE  Ahead(next, next.write) = Ahead(r, r.write) + 1
  <2>1. next.write = Wrap(r.write + 1) /\ next.write # r.read
    BY <1>1, <1>4
  <2>2. /\ r.read \in Bins /\ r.write \in Bins /\ next.write \in Bins
    BY <1>1 DEF Buffers
  <2> QED
    BY <1>1, <2>1, <2>2, AheadOfReader, SizeAssumption DEF Wrap, Bins
<1> QED
  BY <1>1, <1>2, <1>3, <1>4 DEF next

(* The reader goes one bin on, unless that is the writer's: every other    *)
(* bin is then one bin nearer, and the one left is the farthest.           *)
LEMMA ReaderMoves ==
  ASSUME NEW r \in Buffers, r.read # r.write
  PROVE  LET next == NextRead(r, FALSE)
         IN  /\ next \in Buffers
             /\ next.write = r.write
             /\ next.read # next.write
             /\ \/ next.read = r.read /\ Ahead(r, r.write) = 1
                   /\ \A b \in Bins : Ahead(next, b) = Ahead(r, b)
                \/ /\ next.read # r.read
                   /\ Ahead(r, next.read) = 1
                   /\ Ahead(r, r.write) > 1
                   /\ Ahead(next, r.read) = Size - 1
                   /\ \A b \in Bins \ {r.read} :
                         Ahead(next, b) = Ahead(r, b) - 1
<1> DEFINE next == NextRead(r, FALSE)
<1> HIDE DEF next
<1>1. /\ next \in Buffers
      /\ next.write = r.write
      /\ next.read = IF Wrap(r.read + 1) # r.write THEN Wrap(r.read + 1)
                                                   ELSE r.read
  BY NextBinStops DEF next, NextRead, Buffers
<1>2. next.read # next.write
  BY <1>1
<1>3. r.read \in Bins /\ r.write \in Bins /\ next.read \in Bins
  BY <1>1 DEF Buffers
<1>4. CASE next.read = r.read
  <2>1. Wrap(r.read + 1) = r.write
    BY <1>1, <1>3, <1>4, SizeAssumption DEF Wrap, Bins
  <2>2. Ahead(r, r.write) = 1
    BY <1>3, <2>1, AheadOfReader, SizeAssumption DEF Wrap, Bins
  <2>3. \A b \in Bins : Ahead(next, b) = Ahead(r, b)
    BY <1>4 DEF Ahead
  <2> QED
    BY <1>1, <1>2, <1>4, <2>2, <2>3 DEF next
<1>5. CASE next.read # r.read
  <2>1. next.read = Wrap(r.read + 1) /\ next.read # r.write
    BY <1>1, <1>5
  <2>2. Ahead(r, next.read) = 1 /\ Ahead(r, r.write) > 1
    BY <1>3, <2>1, AheadOfReader, SizeAssumption DEF Wrap, Bins
  <2>3. \A b \in Bins : Ahead(next, b) = IF b < next.read
                                        THEN b - next.read + Size
                                        ELSE b - next.read
    BY <1>1, AheadOfReader
  <2>4. Ahead(next, r.read) = Size - 1
    BY <1>3, <2>1, <2>3, SizeAssumption DEF Wrap, Bins
  <2>5. ASSUME NEW b \in Bins \ {r.read}
        PROVE  Ahead(next, b) = Ahead(r, b) - 1
    BY <1>3, <2>1, <2>3, AheadOfReader, SizeAssumption DEF Wrap, Bins
  <2> QED
    BY <1>1, <1>2, <1>5, <2>2, <2>4, <2>5 DEF next
<1> QED
  BY <1>4, <1>5
-----------------------------------------------------------------------------
(* Every step keeps the types, and the reader out of the writer's bin.     *)
LEMMA TypesAndBinsKept ==
  ASSUME TypeOK, NoSharedBin, [Next]_vars
  PROVE  TypeOK' /\ NoSharedBin'
<1> USE DEF TypeOK, NoSharedBin, ThreadPlaces, GuiPlaces, threadVars,
            deviceVars, buttonVars
<1>1. CountedFrame \in 0 .. MaxFrames /\ total \in 0 .. MaxFrames
  BY FramesAssumption DEF CountedFrame
<1>2. rb.read \in Bins /\ rb.write \in Bins
  BY DEF Buffers
<1>3. CASE GrabFrame
  BY <1>1, <1>2, <1>3 DEF GrabFrame, ThreadGoes, Pointers
<1>4. CASE GrabFails
  BY <1>1, <1>2, <1>4 DEF GrabFails, Pointers
<1>5. CASE ChillOut
  BY <1>1, <1>2, <1>5 DEF ChillOut, ThreadGoes
<1>6. CASE ProcessFrame \/ RefreshParameters
  BY <1>6 DEF ProcessFrame, RefreshParameters, ThreadGoes
<1>7. CASE PublishFrame
  BY <1>7, WriterMoves DEF PublishFrame
<1>8. CASE ReleaseFrame
  BY <1>8 DEF ReleaseFrame, ThreadGoes, Pointers
<1>9. CASE CheckKill
  BY <1>9 DEF CheckKill, StopCapture, Pointers
<1>10. CASE TimerEvent
  BY <1>10, ReaderMoves DEF TimerEvent
<1>11. CASE DisplayFrame
  BY <1>2, <1>11 DEF DisplayFrame
<1>12. CASE StartButton
  BY <1>12 DEF StartButton
<1>13. CASE StopButton \/ StopBeforeSwitch
  BY <1>13 DEF StopButton, StopBeforeSwitch, Stop, StopCapture, Pointers
<1>14. ASSUME NEW m \in Methods, SelectMethod(m)
       PROVE  TypeOK' /\ NoSharedBin'
  BY <1>14 DEF SelectMethod
<1>15. CASE Switch \/ KillThread \/ Exit
  BY <1>15 DEF Switch, KillThread, Exit
<1>16. CASE UNCHANGED vars
  BY <1>16 DEF vars
<1> QED
  BY <1>3, <1>4, <1>5, <1>6, <1>7, <1>8, <1>9, <1>10, <1>11, <1>12, <1>13,
     <1>14, <1>15, <1>16
     DEF Next, CaptureThread, GuiThread, GuiButton

(* Who captures, and what the buttons say of it.                           *)
CaptureIsControlled ==
  ButtonsFollowCapture /\ OnlySelectedCaptures /\ StoppedBeforeSwitch

(* Every step keeps the buttons in step with the methods that capture.     *)
LEMMA ControlKept ==
  ASSUME TypeOK, CaptureIsControlled, [Next]_vars
  PROVE  CaptureIsControlled'
<1> USE DEF CaptureIsControlled, ButtonsFollowCapture, OnlySelectedCaptures,
            StoppedBeforeSwitch, TypeOK, threadVars, deviceVars, buttonVars
<1>1. CASE GrabFrame \/ ChillOut \/ ProcessFrame \/ PublishFrame
           \/ RefreshParameters \/ ReleaseFrame
  BY <1>1 DEF GrabFrame, ChillOut, ProcessFrame, PublishFrame,
              RefreshParameters, ReleaseFrame
<1>2. CASE GrabFails
  BY <1>2 DEF GrabFails
<1>3. CASE CheckKill
  BY <1>3 DEF CheckKill, StopCapture
<1>4. CASE TimerEvent
  BY <1>4 DEF TimerEvent
<1>5. CASE DisplayFrame \/ KillThread \/ Exit
  BY <1>5 DEF DisplayFrame, KillThread, Exit
<1>6. CASE StartButton
  BY <1>6 DEF StartButton
<1>7. CASE StopButton
  BY <1>7 DEF StopButton, Stop, StopCapture
<1>8. CASE StopBeforeSwitch
  BY <1>8 DEF StopBeforeSwitch, Stop, StopCapture
<1>9. ASSUME NEW m \in Methods, SelectMethod(m)
      PROVE  CaptureIsControlled'
  BY <1>9 DEF SelectMethod
<1>10. CASE Switch
  BY <1>10 DEF Switch
<1>11. CASE UNCHANGED vars
  BY <1>11 DEF vars
<1> QED
  BY <1>1, <1>2, <1>3, <1>4, <1>5, <1>6, <1>7, <1>8, <1>9, <1>10, <1>11
     DEF Next, CaptureThread, GuiThread, GuiButton
-----------------------------------------------------------------------------
(* A step that leaves the ring, its bins and the display alone, and does   *)
(* not come to a frame that is to be published.                            *)
LEMMA RestKeepsOrder ==
  ASSUME FramesWaitInOrder, UNCHANGED <<rb, bins, total, shown>>,
         thread' \in {"process", "publish"} =>
            thread \in {"process", "publish"}
  PROVE  FramesWaitInOrder'
BY DEF FramesWaitInOrder

(* A step that writes into the writer's bin and nothing else of the ring.  *)
LEMMA WritingKeepsOrder ==
  ASSUME TypeOK, NoSharedBin, FramesWaitInOrder, UNCHANGED <<rb, shown>>,
         NEW n \in Nat, n <= total', total' >= total, total' \in Nat,
         \A b \in Bins : bins'[b] = IF b = rb.write THEN n ELSE bins[b],
         thread' \in {"process", "publish"} => n = total'
  PROVE  FramesWaitInOrder'
<1> USE DEF TypeOK, NoSharedBin, FramesWaitInOrder
<1>1. rb.read \in Bins /\ rb.write \in Bins
  BY DEF Buffers
<1>3. \A b \in Bins : Ahead(rb, b) \in 0 .. Size - 1 /\ bins[b] \in Nat
  BY AheadInRing, FramesAssumption
<1>4. ASSUME NEW b \in Bins, NEW d \in Bins,
             Ahead(rb, b) <= Ahead(rb, d), Ahead(rb, d) < Ahead(rb, rb.write)
      PROVE  bins'[b] <= bins'[d]
  <2>1. b # rb.write /\ d # rb.write
    BY <1>1, <1>3, <1>4
  <2> QED
    BY <1>4, <2>1
<1>5. \A b \in Bins : bins'[b] <= total'
  BY <1>3
<1> QED
  BY <1>1, <1>4, <1>5

(* Every step keeps the frames between reader and writer in order.         *)
LEMMA OrderKept ==
  ASSUME TypeOK, NoSharedBin, FramesWaitInOrder, [Next]_vars
  PROVE  FramesWaitInOrder'
<1> USE DEF threadVars, deviceVars, buttonVars
<1>1. CountedFrame \in Nat /\ total \in Nat /\ CountedFrame >= total
  BY FramesAssumption DEF CountedFrame, TypeOK
<1>2. rb.read \in Bins /\ rb.write \in Bins /\ rb \in Buffers
  BY DEF Buffers, TypeOK
<1>3. \A b \in Bins : Ahead(rb, b) \in 0 .. Size - 1 /\ bins[b] \in Nat
  BY <1>2, AheadInRing, FramesAssumption DEF TypeOK
<1>4. CASE GrabFrame \/ GrabFails
  <2>1. /\ UNCHANGED <<rb, shown>>
        /\ total' = CountedFrame
        /\ \A b \in Bins : bins'[b] = IF b = rb.write THEN CountedFrame
                                                     ELSE bins[b]
    BY <1>4 DEF GrabFrame, GrabFails, TypeOK
  <2> QED
    BY <1>1, <2>1, WritingKeepsOrder
<1>6. CASE ChillOut
  <2>1. /\ UNCHANGED <<rb, shown, total>>
        /\ thread' = "check"
        /\ \A b \in Bins : bins'[b] = IF b = rb.write THEN total
                                                     ELSE bins[b]
    BY <1>6 DEF ChillOut, ThreadGoes, TypeOK
  <2> QED
    BY <1>1, <2>1, WritingKeepsOrder
<1>7. CASE ProcessFrame
  BY <1>7, RestKeepsOrder DEF ProcessFrame, ThreadGoes
<1>8. CASE PublishFrame
  <2> USE DEF FramesWaitInOrder
  <2>1. /\ UNCHANGED <<bins, total, shown>>
        /\ thread' \notin {"process", "publish"}
        /\ thread = "publish" /\ rb' = NextWrite(rb, TRUE)
    BY <1>8 DEF PublishFrame
  <2>2. rb'.read = rb.read
    BY <1>2, <2>1, WriterMoves DEF NoSharedBin
  <2>3. CASE rb'.write = rb.write
    BY <2>1, <2>2, <2>3 DEF Ahead
  <2>4. CASE /\ Ahead(rb', rb'.write) = Ahead(rb, rb.write) + 1
             /\ \A b \in Bins : Ahead(rb', b) = Ahead(rb, b)
    <3>1. ASSUME NEW b \in Bins, NEW d \in Bins,
                 Ahead(rb', b) <= Ahead(rb', d),
                 Ahead(rb', d) < Ahead(rb', rb'.write)
          PROVE  bins[b] <= bins[d]
      <4>1. CASE Ahead(rb, d) < Ahead(rb, rb.write)
        BY <2>4, <3>1, <4>1
      <4>2. CASE Ahead(rb, d) = Ahead(rb, rb.write)
        <5>1. d = rb.write
          BY <1>2, <4>2, AheadOfReader, SizeAssumption DEF Bins
        <5> QED
          BY <2>1, <5>1
      <4> QED
        BY <1>2, <1>3, <2>4, <3>1, <4>1, <4>2
    <3> QED
      BY <2>1, <2>2, <3>1
  <2> QED
    BY <1>2, <2>1, <2>3, <2>4, WriterMoves DEF NoSharedBin
<1>9. CASE RefreshParameters \/ ReleaseFrame \/ CheckKill
  BY <1>9, RestKeepsOrder
     DEF RefreshParameters, ReleaseFrame, CheckKill, ThreadGoes
<1>10. CASE TimerEvent
  <2> USE DEF FramesWaitInOrder
  <2>1. UNCHANGED <<bins, total, thread, shown>> /\ rb' = NextRead(rb, FALSE)
    BY <1>10 DEF TimerEvent
  <2>2. rb' \in Buffers /\ rb'.write = rb.write /\ rb'.read \in Bins
    BY <1>2, <2>1, ReaderMoves DEF NoSharedBin, Buffers
  <2>3. CASE rb'.read = rb.read
    BY <2>1, <2>2, <2>3 DEF Ahead
  <2>4. CASE /\ Ahead(rb, rb'.read) = 1
             /\ Ahead(rb, rb.write) > 1
             /\ Ahead(rb', rb.read) = Size - 1
             /\ \A b \in Bins \ {rb.read} :
                   Ahead(rb', b) = Ahead(rb, b) - 1
    <3>1. rb.write # rb.read /\ Ahead(rb', rb.write) = Ahead(rb, rb.write) - 1
      BY <1>2, <2>4 DEF NoSharedBin
    <3>2. ASSUME NEW b \in Bins, NEW d \in Bins,
                 Ahead(rb', b) <= Ahead(rb', d),
                 Ahead(rb', d) < Ahead(rb', rb'.write)
          PROVE  bins[b] <= bins[d]
      <4>1. b # rb.read /\ d # rb.read
        BY <1>2, <1>3, <2>2, <2>4, <3>1, <3>2, SizeAssumption
      <4> QED
        BY <1>2, <1>3, <2>2, <2>4, <3>1, <3>2, <4>1
    <3>3. Ahead(rb, rb.read) = 0
      BY <1>2, AheadOfReader DEF Bins
    <3>4. bins[rb.read] <= bins[rb'.read]
      BY <1>2, <2>2, <2>4, <3>3
    <3>5. shown \in Nat /\ bins[rb.read] \in Nat /\ bins[rb'.read] \in Nat
      BY <1>2, <1>3, <2>2 DEF TypeOK
    <3>6. shown <= bins[rb'.read]
      BY <3>4, <3>5
    <3> QED
      BY <2>1, <2>2, <3>2, <3>6
  <2> QED
    BY <1>2, <2>1, <2>3, <2>4, ReaderMoves DEF NoSharedBin
<1>11. CASE DisplayFrame
  BY <1>2, <1>3, <1>11 DEF DisplayFrame, FramesWaitInOrder
<1>12. CASE StartButton
  BY <1>12, RestKeepsOrder DEF StartButton
<1>13. CASE StopButton \/ StopBeforeSwitch
  BY <1>13, RestKeepsOrder DEF StopButton, StopBeforeSwitch, Stop
<1>14. ASSUME NEW m \in Methods, SelectMethod(m)
       PROVE  FramesWaitInOrder'
  BY <1>14, RestKeepsOrder DEF SelectMethod
<1>15. CASE Switch \/ KillThread \/ Exit
  BY <1>15, RestKeepsOrder DEF Switch, KillThread, Exit
<1>16. CASE UNCHANGED vars
  BY <1>16, RestKeepsOrder DEF vars
<1> QED
  BY <1>4, <1>6, <1>7, <1>8, <1>9, <1>10, <1>11, <1>12, <1>13, <1>14, <1>15,
     <1>16 DEF Next, CaptureThread, GuiThread, GuiButton
-----------------------------------------------------------------------------
(* The invariant holds at the start: the ring is empty and nothing         *)
(* captures.                                                               *)
LEMMA PipelineStartsSafe ==
  ASSUME Init
  PROVE  PipelineIsSafe
<1>1. rb = [read |-> 0, write |-> 1, prevWrite |-> 0] /\ rb \in Buffers
  BY SizeAssumption DEF Init, NewBuffer, Buffers, Bins
<1>2. TypeOK
  <2>1. bins \in [Bins -> 0 .. MaxFrames] /\ frame \in [OwingMethods -> Pointers]
    BY FramesAssumption DEF Init, Pointers
  <2>2. capturing \in [Methods -> BOOLEAN]
    BY DEF Init
  <2>3. total \in 0 .. MaxFrames /\ shown \in 0 .. MaxFrames
    BY FramesAssumption DEF Init
  <2> QED
    BY <1>1, <2>1, <2>2, <2>3 DEF Init, TypeOK, ThreadPlaces, GuiPlaces
<1>3. NoSharedBin
  BY <1>1 DEF NoSharedBin
<1>4. ButtonsFollowCapture /\ OnlySelectedCaptures /\ StoppedBeforeSwitch
  BY DEF Init, ButtonsFollowCapture, OnlySelectedCaptures, StoppedBeforeSwitch
<1>5. FramesWaitInOrder
  BY <1>1, SizeAssumption DEF Init, FramesWaitInOrder, Buffers, Bins
<1> QED
  BY <1>2, <1>3, <1>4, <1>5 DEF PipelineIsSafe

(* What is safe stays safe.                                                *)
LEMMA PipelineStaysSafe ==
  ASSUME PipelineIsSafe, [Next]_vars
  PROVE  PipelineIsSafe'
BY TypesAndBinsKept, ControlKept, OrderKept
   DEF PipelineIsSafe, CaptureIsControlled

(* Whatever the two threads, the user and the devices do: reader and       *)
(* writer keep to bins of their own, only the selected method captures,    *)
(* the buttons say so, and frames wait in the order they were captured.    *)
THEOREM PipelineSafety == Spec => []PipelineIsSafe
BY PipelineStartsSafe, PipelineStaysSafe, PTL DEF Spec

(* The display never goes back to an older frame.                          *)
THEOREM FramesShownInOrder == Spec => FramesInOrder
<1>1. PipelineIsSafe /\ [Next]_vars => [shown' >= shown]_vars
  <2> SUFFICES ASSUME PipelineIsSafe, Next
               PROVE  shown' >= shown
    OBVIOUS
  <2> USE DEF threadVars, deviceVars, buttonVars
  <2>0. shown \in Nat /\ bins[rb.read] \in Nat
    BY FramesAssumption DEF PipelineIsSafe, TypeOK, Buffers
  <2>1. shown <= bins[rb.read] /\ (UNCHANGED shown => shown' >= shown)
    BY <2>0 DEF PipelineIsSafe, FramesWaitInOrder
  <2>2. CASE DisplayFrame
    BY <2>0, <2>1, <2>2 DEF DisplayFrame
  <2>3. CASE CaptureThread
    BY <2>1, <2>3
       DEF CaptureThread, GrabFrame, GrabFails, ChillOut, ProcessFrame,
           PublishFrame, RefreshParameters, ReleaseFrame, CheckKill
  <2>4. CASE TimerEvent \/ StopBeforeSwitch \/ Switch \/ Exit \/ GuiButton
    BY <2>1, <2>4
       DEF TimerEvent, StopBeforeSwitch, Stop, Switch, Exit, GuiButton,
           StartButton, StopButton, KillThread, SelectMethod
  <2> QED
    BY <2>2, <2>3, <2>4 DEF Next, GuiThread
<1> QED
  BY <1>1, PipelineSafety, PTL DEF Spec, FramesInOrder
-----------------------------------------------------------------------------
(* The frames that wait in the bins B of a ring r.                         *)
QueueOf(r, B) == [i \in DOMAIN WaitingBins(r) |-> B[WaitingBins(r)[i]]]

(* The bin that is i ahead of the reader.                                  *)
LEMMA BinAhead ==
  ASSUME NEW r \in Buffers, NEW i \in 1 .. Size - 1
  PROVE  /\ (r.read + i) % Size \in Bins
         /\ Ahead(r, (r.read + i) % Size) = i
         /\ \A b \in Bins : Ahead(r, b) = i => (r.read + i) % Size = b
<1> DEFINE bin == (r.read + i) % Size
<1>1. r.read \in Bins
  BY DEF Buffers
<1>2. bin = IF r.read + i < Size THEN r.read + i ELSE r.read + i - Size
  BY <1>1, RemainderOfSize, SizeAssumption DEF Bins
<1> HIDE DEF bin
<1>3. bin \in Bins
  BY <1>1, <1>2, SizeAssumption DEF Bins
<1>4. Ahead(r, bin) = i
  BY <1>1, <1>2, <1>3, AheadOfReader, SizeAssumption DEF Bins
<1>5. ASSUME NEW b \in Bins, Ahead(r, b) = i
      PROVE  bin = b
  BY <1>1, <1>2, <1>5, AheadOfReader, SizeAssumption DEF Bins
<1> QED
  BY <1>3, <1>4, <1>5 DEF bin

(* What waits is a sequence of as many frames as there are bins between    *)
(* reader and writer, each in the bin as far ahead as its place says.      *)
LEMMA QueueOfBins ==
  ASSUME NEW r \in Buffers, r.read # r.write, NEW B \in [Bins -> Nat]
  PROVE  /\ QueueOf(r, B) \in Seq(Nat)
         /\ Len(QueueOf(r, B)) = Ahead(r, r.write) - 1
         /\ Ahead(r, r.write) \in 1 .. Size - 1
         /\ \A i \in 1 .. Len(QueueOf(r, B)) : \A b \in Bins :
               Ahead(r, b) = i => QueueOf(r, B)[i] = B[b]
         /\ \A i \in 1 .. Len(QueueOf(r, B)) : \E b \in Bins : Ahead(r, b) = i
<1> DEFINE n == Ahead(r, r.write) - 1
           q == QueueOf(r, B)
<1>1. r.read \in Bins /\ r.write \in Bins
  BY DEF Buffers
<1>2. Ahead(r, r.write) \in 1 .. Size - 1
  <2>1. Ahead(r, r.write) \in 0 .. Size - 1
    BY <1>1, AheadInRing
  <2>2. Ahead(r, r.write) # 0
    BY <1>1, AheadOfReader, SizeAssumption, SMTT(30) DEF Bins
  <2> HIDE DEF n, q
  <2> QED
    BY <2>1, <2>2, SizeAssumption
<1>3. q = [i \in 1 .. n |-> B[(r.read + i) % Size]]
  BY DEF QueueOf, WaitingBins
<1>4. n \in Nat /\ n < Size - 1
  BY <1>2, SizeAssumption
<1> HIDE DEF n, q
<1>5. \A i \in 1 .. n : i \in 1 .. Size - 1
  BY <1>4, SizeAssumption
<1>6. \A i \in 1 .. n : B[(r.read + i) % Size] \in Nat
  BY <1>5, BinAhead
<1>7. q \in [1 .. n -> Nat]
  BY <1>3, <1>6
<1>8. q \in Seq(Nat) /\ Len(q) = n
  BY <1>4, <1>7
<1>9. \A i \in 1 .. n : \A b \in Bins : Ahead(r, b) = i => q[i] = B[b]
  BY <1>3, <1>5, BinAhead
<1>10. \A i \in 1 .. n : \E b \in Bins : Ahead(r, b) = i
  BY <1>5, BinAhead
<1> QED
  BY <1>2, <1>8, <1>9, <1>10 DEF n, q

(* The same frames wait if the ring does not move and only the writer's    *)
(* bin, if any, is written.                                                *)
LEMMA QueueUnchanged ==
  ASSUME NEW r \in Buffers, r.read # r.write,
         NEW s \in Buffers, s.read = r.read, s.write = r.write,
         NEW B \in [Bins -> Nat], NEW D \in [Bins -> Nat],
         \A b \in Bins : b # r.write => D[b] = B[b]
  PROVE  QueueOf(s, D) = QueueOf(r, B)
<1>1. /\ Len(QueueOf(s, D)) = Len(QueueOf(r, B))
      /\ QueueOf(s, D) \in Seq(Nat) /\ QueueOf(r, B) \in Seq(Nat)
      /\ \A b \in Bins : Ahead(s, b) = Ahead(r, b)
  BY QueueOfBins DEF Ahead
<1>2. ASSUME NEW i \in 1 .. Len(QueueOf(r, B))
      PROVE  QueueOf(s, D)[i] = QueueOf(r, B)[i]
  <2>1. PICK b \in Bins : Ahead(r, b) = i
    BY QueueOfBins
  <2>2. i \in 1 .. Ahead(r, r.write) - 1 /\ Ahead(r, r.write) \in Nat
    BY QueueOfBins
  <2>3. b # r.write
    BY <2>1, <2>2
  <2>4. QueueOf(r, B)[i] = B[b]
    BY <2>1, QueueOfBins
  <2>5. QueueOf(s, D)[i] = D[b]
    <3>1. s.read # s.write
      OBVIOUS
    <3>2. i \in 1 .. Len(QueueOf(s, D)) /\ Ahead(s, b) = i
      BY <1>1, <2>1
    <3>3. \A j \in 1 .. Len(QueueOf(s, D)) : \A c \in Bins :
             Ahead(s, c) = j => QueueOf(s, D)[j] = D[c]
      BY <3>1, QueueOfBins
    <3> QED
      BY <3>2, <3>3
  <2> QED
    BY <2>3, <2>4, <2>5
<1> QED
  BY <1>1, <1>2, SeqEqual

(* When the writer moves on, the frame of the bin it leaves joins the      *)
(* queue, which had room for it.                                           *)
LEMMA WriterOffers ==
  ASSUME NEW r \in Buffers, r.read # r.write,
         NEW s \in Buffers, s.read = r.read, s.read # s.write,
         Ahead(s, s.write) = Ahead(r, r.write) + 1,
         NEW B \in [Bins -> Nat]
  PROVE  /\ QueueOf(s, B) = Append(QueueOf(r, B), B[r.write])
         /\ Len(QueueOf(r, B)) < Size - 2
<1> DEFINE q == QueueOf(r, B)
           t == QueueOf(s, B)
<1>1. q \in Seq(Nat) /\ Len(q) = Ahead(r, r.write) - 1
  BY QueueOfBins
<1>2. t \in Seq(Nat) /\ Len(t) = Ahead(s, s.write) - 1
  BY QueueOfBins
<1>3. /\ Ahead(r, r.write) \in 1 .. Size - 1
      /\ Ahead(s, s.write) \in 1 .. Size - 1
  BY QueueOfBins
<1>4. \A b \in Bins : Ahead(s, b) = Ahead(r, b)
  BY DEF Ahead
<1>5. r.write \in Bins /\ B[r.write] \in Nat
  BY DEF Buffers
<1>6. \A i \in 1 .. Len(t) : \A b \in Bins : Ahead(r, b) = i => t[i] = B[b]
  BY <1>4, QueueOfBins
<1>7. /\ \A i \in 1 .. Len(q) : \A b \in Bins : Ahead(r, b) = i => q[i] = B[b]
      /\ \A i \in 1 .. Len(q) : \E b \in Bins : Ahead(r, b) = i
  BY QueueOfBins
<1> HIDE DEF q, t
<1>8. Len(t) = Len(q) + 1 /\ Len(q) < Size - 2
  BY <1>1, <1>2, <1>3, SizeAssumption
<1>9. t[Len(t)] = B[r.write]
  <2>1. Ahead(r, r.write) = Len(t) /\ Len(t) \in 1 .. Len(t)
    BY <1>1, <1>2, <1>3, <1>8, SizeAssumption
  <2> QED
    BY <1>5, <1>6, <2>1
<1>10. ASSUME NEW i \in 1 .. Len(q)
       PROVE  t[i] = q[i]
  <2>1. i \in 1 .. Len(t)
    BY <1>1, <1>8
  <2> QED
    BY <1>6, <1>7, <2>1
<1>11. /\ Append(q, B[r.write]) \in Seq(Nat)
       /\ Len(Append(q, B[r.write])) = Len(t)
       /\ Append(q, B[r.write])[Len(t)] = B[r.write]
       /\ \A i \in 1 .. Len(q) : Append(q, B[r.write])[i] = q[i]
  BY <1>1, <1>5, <1>8
<1>12. \A i \in 1 .. Len(t) : i \in 1 .. Len(q) \/ i = Len(t)
  BY <1>1, <1>8
<1>13. t = Append(q, B[r.write])
  BY <1>2, <1>9, <1>10, <1>11, <1>12, SeqEqual
<1> QED
  BY <1>8, <1>13 DEF q, t

(* When the reader moves on, it takes the oldest frame of the queue.       *)
LEMMA ReaderTakes ==
  ASSUME NEW r \in Buffers, r.read # r.write,
         NEW s \in Buffers, s.write = r.write, s.read # s.write,
         Ahead(r, s.read) = 1,
         Ahead(r, r.write) > 1,
         Ahead(s, r.read) = Size - 1,
         \A b \in Bins \ {r.read} : Ahead(s, b) = Ahead(r, b) - 1,
         NEW B \in [Bins -> Nat]
  PROVE  /\ QueueOf(r, B) # <<>>
         /\ Head(QueueOf(r, B)) = B[s.read]
         /\ QueueOf(s, B) = Tail(QueueOf(r, B))
<1> DEFINE q == QueueOf(r, B)
           t == QueueOf(s, B)
<1>1. q \in Seq(Nat) /\ Len(q) = Ahead(r, r.write) - 1
  BY QueueOfBins
<1>2. t \in Seq(Nat) /\ Len(t) = Ahead(s, s.write) - 1
  BY QueueOfBins
<1>3. /\ Ahead(r, r.write) \in 1 .. Size - 1
      /\ Ahead(s, s.write) \in 1 .. Size - 1
      /\ Ahead(s, s.write) = Ahead(r, r.write) - 1
  BY QueueOfBins DEF Buffers
<1>4. s.read \in Bins /\ r.read \in Bins
  BY DEF Buffers
<1>5. /\ \A i \in 1 .. Len(t) : \A b \in Bins : Ahead(s, b) = i => t[i] = B[b]
      /\ \A i \in 1 .. Len(t) : \E b \in Bins : Ahead(s, b) = i
  BY QueueOfBins
<1>6. \A i \in 1 .. Len(q) : \A b \in Bins : Ahead(r, b) = i => q[i] = B[b]
  BY QueueOfBins
<1>7. \A b \in Bins : Ahead(r, b) \in 0 .. Size - 1
  BY AheadInRing
<1> HIDE DEF q, t
<1>8. Len(q) \in Nat /\ Len(q) >= 1 /\ Len(t) = Len(q) - 1
  BY <1>1, <1>2, <1>3, SizeAssumption
<1>9. q # <<>>
  BY <1>8, EmptySeq
<1>10. Head(q) = B[s.read]
  BY <1>1, <1>4, <1>6, <1>8, <1>9
<1>11. ASSUME NEW i \in 1 .. Len(t)
       PROVE  t[i] = q[i + 1]
  <2>1. PICK b \in Bins : Ahead(s, b) = i
    BY <1>5
  <2>2. i < Size - 1 /\ i \in Nat
    BY <1>2, <1>3, <1>8, SizeAssumption
  <2>3. b # r.read
    BY <1>3, <2>1, <2>2
  <2>4. Ahead(r, b) = i + 1
    BY <1>7, <2>1, <2>2, <2>3
  <2>5. i + 1 \in 1 .. Len(q)
    BY <1>8
  <2> QED
    BY <1>5, <1>6, <2>1, <2>4, <2>5
<1>12. /\ Tail(q) \in Seq(Nat)
       /\ Len(Tail(q)) = Len(t)
       /\ \A i \in 1 .. Len(t) : Tail(q)[i] = q[i + 1]
  BY <1>1, <1>8, <1>9, HeadTailProperties
<1>13. t = Tail(q)
  BY <1>2, <1>11, <1>12, SeqEqual
<1> QED
  BY <1>9, <1>10, <1>13 DEF q, t
-----------------------------------------------------------------------------
(* The queue and the frame displayed that CapturePipeline gives FrameQueue. *)
LEMMA QueueOfPipeline ==
  /\ [Queue!Next]_(Queue!qvars) <=>
        \/ \E n \in 0 .. MaxFrames :
              /\ Len(QueueOf(rb, bins)) < Size - 2
              /\ n >= bins[rb.read]
              /\ \A i \in DOMAIN QueueOf(rb, bins) : n >= QueueOf(rb, bins)[i]
              /\ QueueOf(rb, bins)' = Append(QueueOf(rb, bins), n)
              /\ bins[rb.read]' = bins[rb.read]
        \/ /\ QueueOf(rb, bins) # <<>>
           /\ bins[rb.read]' = Head(QueueOf(rb, bins))
           /\ QueueOf(rb, bins)' = Tail(QueueOf(rb, bins))
        \/ /\ QueueOf(rb, bins)' = QueueOf(rb, bins)
           /\ bins[rb.read]' = bins[rb.read]
  /\ Queue!Init <=> QueueOf(rb, bins) = <<>> /\ bins[rb.read] = 0
BY DEF QueueOf, Queue!Next, Queue!Offer, Queue!Take, Queue!qvars, Queue!Init

(* A step of the program that moves neither index and writes no bin but    *)
(* the writer's leaves the queue alone.                                    *)
LEMMA OthersKeepQueue ==
  ASSUME PipelineIsSafe, PipelineIsSafe', rb' = rb,
         \A b \in Bins : b # rb.write => bins'[b] = bins[b]
  PROVE  /\ QueueOf(rb, bins)' = QueueOf(rb, bins)
         /\ bins[rb.read]' = bins[rb.read]
<1>1. /\ rb \in Buffers /\ rb' \in Buffers
      /\ bins \in [Bins -> Nat] /\ bins' \in [Bins -> Nat]
  BY FramesAssumption DEF PipelineIsSafe, TypeOK
<1>2. rb.read # rb.write /\ rb.read \in Bins
  BY <1>1 DEF PipelineIsSafe, NoSharedBin, Buffers
<1>3. QueueOf(rb, bins') = QueueOf(rb, bins)
  BY <1>1, <1>2, QueueUnchanged
<1> QED
  BY <1>2, <1>3 DEF QueueOf

(* nextWrite() offers the frame just processed to the queue, or loses it.  *)
LEMMA PublishOffers ==
  ASSUME PipelineIsSafe, PipelineIsSafe', PublishFrame
  PROVE  [Queue!Next]_(Queue!qvars)
<1> DEFINE q == QueueOf(rb, bins)
<1>1. /\ rb \in Buffers /\ rb' \in Buffers /\ bins \in [Bins -> Nat]
      /\ total \in 0 .. MaxFrames /\ total \in Nat
  BY FramesAssumption DEF PipelineIsSafe, TypeOK
<1>2. rb.read # rb.write /\ rb.read \in Bins /\ rb.write \in Bins
  BY <1>1 DEF PipelineIsSafe, NoSharedBin, Buffers
<1>3. bins' = bins /\ rb' = NextWrite(rb, TRUE) /\ thread = "publish"
  BY DEF PublishFrame, threadVars
<1>4. \/ rb'.write = rb.write
      \/ Ahead(rb', rb'.write) = Ahead(rb, rb.write) + 1
  BY <1>1, <1>2, <1>3, WriterMoves
<1>5. rb'.read = rb.read /\ rb'.read # rb'.write
  BY <1>1, <1>2, <1>3, WriterMoves
<1>6. QueueOf(rb, bins)' = QueueOf(rb', bins)
  BY <1>3 DEF QueueOf
<1>7. CASE rb'.write = rb.write
  <2>1. QueueOf(rb', bins) = QueueOf(rb, bins)
    BY <1>1, <1>2, <1>5, <1>7, QueueUnchanged
  <2> QED
    BY <1>3, <1>5, <1>6, <2>1, QueueOfPipeline
<1>8. CASE Ahead(rb', rb'.write) = Ahead(rb, rb.write) + 1
  <2>1. /\ QueueOf(rb', bins) = Append(q, bins[rb.write])
        /\ Len(q) < Size - 2
    BY <1>1, <1>2, <1>5, <1>8, WriterOffers
  <2>2. /\ bins[rb.write] = total
        /\ \A b \in Bins : bins[b] <= total
    BY <1>3 DEF PipelineIsSafe, FramesWaitInOrder
  <2>3. /\ q \in Seq(Nat)
        /\ \A i \in 1 .. Len(q) : \A b \in Bins :
              Ahead(rb, b) = i => q[i] = bins[b]
        /\ \A i \in 1 .. Len(q) : \E b \in Bins : Ahead(rb, b) = i
    BY <1>1, <1>2, QueueOfBins
  <2> HIDE DEF q
  <2>4. \A i \in DOMAIN q : total >= q[i]
    BY <1>1, <2>2, <2>3
  <2>5. total >= bins[rb.read]
    BY <1>1, <1>2, <2>2
  <2>6. bins[rb.read]' = bins[rb.read]
    BY <1>3, <1>5
  <2> QED
    BY <1>1, <1>6, <2>1, <2>2, <2>4, <2>5, <2>6, QueueOfPipeline DEF q
<1> QED
  BY <1>4, <1>7, <1>8

(* The timer of the display takes the oldest frame, if one waits.          *)
LEMMA TimerTakes ==
  ASSUME PipelineIsSafe, PipelineIsSafe', TimerEvent
  PROVE  [Queue!Next]_(Queue!qvars)
<1>1. rb \in Buffers /\ rb' \in Buffers /\ bins \in [Bins -> Nat]
  BY FramesAssumption DEF PipelineIsSafe, TypeOK
<1>2. rb.read # rb.write
  BY DEF PipelineIsSafe, NoSharedBin
<1>3. bins' = bins /\ rb' = NextRead(rb, FALSE)
  BY DEF TimerEvent, threadVars
<1>4. /\ rb'.write = rb.write /\ rb'.read # rb'.write
      /\ \/ rb'.read = rb.read
         \/ /\ Ahead(rb, rb'.read) = 1
            /\ Ahead(rb, rb.write) > 1
            /\ Ahead(rb', rb.read) = Size - 1
            /\ \A b \in Bins \ {rb.read} : Ahead(rb', b) = Ahead(rb, b) - 1
  BY <1>1, <1>2, <1>3, ReaderMoves
<1>5. QueueOf(rb, bins)' = QueueOf(rb', bins)
  BY <1>3 DEF QueueOf
<1>6. CASE rb'.read = rb.read
  <2>1. QueueOf(rb', bins) = QueueOf(rb, bins)
    BY <1>1, <1>2, <1>4, <1>6, QueueUnchanged
  <2> QED
    BY <1>3, <1>5, <1>6, <2>1, QueueOfPipeline
<1>7. CASE rb'.read # rb.read
  <2>1. /\ QueueOf(rb, bins) # <<>>
        /\ Head(QueueOf(rb, bins)) = bins[rb'.read]
        /\ QueueOf(rb', bins) = Tail(QueueOf(rb, bins))
    BY <1>1, <1>2, <1>4, <1>7, ReaderTakes
  <2> QED
    BY <1>3, <1>5, <2>1, QueueOfPipeline
<1> QED
  BY <1>6, <1>7

(* The frame buffer, as the two threads use it, implements the queue of    *)
(* FrameQueue: frames are taken in the order they were captured, and only  *)
(* one offered to a full ring is lost.                                     *)
THEOREM PipelineImplementsQueue == Spec => QueueSpec
<1>1. Init => Queue!Init
  <2> SUFFICES ASSUME Init
               PROVE  QueueOf(rb, bins) = <<>> /\ bins[rb.read] = 0
    BY QueueOfPipeline
  <2>1. /\ rb = NewBuffer /\ bins = [b \in Bins |-> 0]
        /\ 0 \in Bins /\ 1 \in Bins /\ rb.read = 0 /\ rb.write = 1
        /\ rb \in Buffers
    BY SizeAssumption DEF Init, NewBuffer, Buffers, Bins
  <2>2. bins \in [Bins -> Nat] /\ bins[rb.read] = 0
    BY <2>1
  <2>3. Ahead(rb, rb.write) = 1
    BY <2>1, AheadOfReader
  <2>4. QueueOf(rb, bins) \in Seq(Nat) /\ Len(QueueOf(rb, bins)) = 0
    BY <2>1, <2>2, <2>3, QueueOfBins
  <2> QED
    BY <2>2, <2>4, EmptySeq
<1>2. ASSUME PipelineIsSafe, PipelineIsSafe', [Next]_vars
      PROVE  [Queue!Next]_(Queue!qvars)
  <2>1. ASSUME rb' = rb, \A b \in Bins : b # rb.write => bins'[b] = bins[b]
        PROVE  [Queue!Next]_(Queue!qvars)
    BY <1>2, <2>1, OthersKeepQueue, QueueOfPipeline
  <2>2. CASE GrabFrame \/ GrabFails \/ ChillOut
    <3>1. bins \in [Bins -> Nat]
      BY <1>2, FramesAssumption DEF PipelineIsSafe, TypeOK
    <3> QED
      BY <2>1, <2>2, <3>1 DEF GrabFrame, GrabFails, ChillOut
  <2>3. CASE PublishFrame
    BY <1>2, <2>3, PublishOffers
  <2>4. CASE TimerEvent
    BY <1>2, <2>4, TimerTakes
  <2>5. CASE ProcessFrame \/ RefreshParameters \/ ReleaseFrame \/ CheckKill
    BY <2>1, <2>5
       DEF ProcessFrame, RefreshParameters, ReleaseFrame, CheckKill
  <2>6. CASE DisplayFrame \/ StopBeforeSwitch \/ Switch \/ Exit \/ GuiButton
    BY <2>1, <2>6
       DEF DisplayFrame, StopBeforeSwitch, Stop, Switch, Exit, GuiButton,
           StartButton, StopButton, KillThread, SelectMethod, threadVars
  <2>7. CASE UNCHANGED vars
    BY <2>1, <2>7 DEF vars, threadVars
  <2> QED
    BY <1>2, <2>2, <2>3, <2>4, <2>5, <2>6, <2>7
       DEF Next, CaptureThread, GuiThread
<1> QED
  BY <1>1, <1>2, PipelineSafety, PTL DEF Spec, QueueSpec, Queue!Spec
----------------------------------------------------------------------------
(* Images: what the runs check on a few inputs, for all there are.         *)

(* The inputs of every size: a frame of any size that a method takes from  *)
(* its camera, for a bin whose image is any that was allocated before.     *)
CaptureMethods == {"dc1394", "files", "generator"}
KeptImage == {NoImage} \cup {allocate(f, w, h) :
                                f \in DOMAIN FormatNames, w \in Nat, h \in Nat}
AnyFrame ==
    UNION {[about : {"convert"}, method : {m}, from : Captured(m),
            target : KeptImage, to : ColorOut, debayer : BOOLEAN,
            w : Nat, h : Nat] : m \in CaptureMethods}

(* Whatever image a bin held and whatever the size of the new frame, the   *)
(* image has room for exactly what copyAndConvertFrame() writes into it.   *)
THEOREM FramesFit == ASSUME input \in AnyFrame PROVE TargetHoldsFrame
<1>1. PICK m \in CaptureMethods :
         /\ input.from \in Captured(m)
         /\ input.target \in KeptImage /\ input.to \in ColorOut
         /\ input.w \in Nat /\ input.h \in Nat
  BY DEF AnyFrame
<1> DEFINE from == input.from
           to == input.to
           w == input.w
           h == input.h
           image == convertFrame(input.method, from, input.target, to,
                                 input.debayer, w, h).image
<1>2. from \in ColorModes
  BY <1>1 DEF Captured, ColorModes
<1>3. image.bytes = computeImageSize(to, w * h)
  <2>1. CASE image = allocate(to, w, h)
    BY <2>1 DEF allocate
  <2>2. CASE /\ input.target.data /\ image = input.target
             /\ <<image.format, image.width, image.height>> = <<to, w, h>>
    <3>1. PICK f \in DOMAIN FormatNames, v \in Nat, u \in Nat :
             input.target = allocate(f, v, u)
      BY <1>1, <2>2 DEF KeptImage, NoImage
    <3>2. f = to /\ v = w /\ u = h
      BY <2>2, <3>1 DEF allocate
    <3> QED BY <2>2, <3>1, <3>2 DEF allocate
  <2> QED BY <2>1, <2>2 DEF convertFrame, ensure_allocation
<1>4. computeImageSize(to, w * h) = BytesWritten(from, to, w, h)
  <2>1. w * h \in Nat /\ to \in {"RGB8", "YUV422_UYVY"}
    BY <1>1 DEF ColorOut
  <2> HIDE DEF from, to, w, h
  <2> QED BY <2>1 DEF computeImageSize, BytesWritten
<1> QED BY <1>3, <1>4 DEF TargetHoldsFrame

(* A colour of any three bytes.                                            *)
AnyColour == [about : {"colour"}, r : Byte, g : Byte, b : Byte]

(* The conversion to YUV stays in a byte by itself.                        *)
LEMMA ColourToYUV ==
  ASSUME NEW r \in Byte, NEW g \in Byte, NEW b \in Byte
  PROVE  rgb2yuv(r, g, b) =
           <<(306 * r + 601 * g + 117 * b) \div 1024,
             (-172 * r - 340 * g + 512 * b) \div 1024 + 128,
             (512 * r - 429 * g - 83 * b) \div 1024 + 128>>
<1>1. /\ (306 * r + 601 * g + 117 * b) \div 1024 \in 0 .. 255
      /\ (-172 * r - 340 * g + 512 * b) \div 1024 + 128 \in 0 .. 255
      /\ (512 * r - 429 * g - 83 * b) \div 1024 + 128 \in 0 .. 255
  BY DEF Byte
<1> QED BY <1>1 DEF rgb2yuv, InByte

(* There and back, before the last result is brought into a byte.          *)
IsYUV(r, g, b, y, u, v) ==
    /\ y = (306 * r + 601 * g + 117 * b) \div 1024
    /\ u = (-172 * r - 340 * g + 512 * b) \div 1024
    /\ v = (512 * r - 429 * g - 83 * b) \div 1024
IsNear(r, g, b, y, u, v) ==
    /\ (y + (v * 1436) \div 1024) - r \in -3 .. 0
    /\ (y - (u * 352 + v * 731) \div 1024) - g \in -1 .. 2
    /\ (y + (u * 1814) \div 1024) - b \in -4 .. 0

(* Each channel comes back close to what it was.                           *)
LEMMA ColourBack ==
  ASSUME NEW r \in Byte, NEW g \in Byte, NEW b \in Byte,
         NEW y \in Int, NEW u \in Int, NEW v \in Int,
         IsYUV(r, g, b, y, u, v)
  PROVE  IsNear(r, g, b, y, u, v)
<1>1. (y + (v * 1436) \div 1024) - r \in -3 .. 0
  BY DEF Byte, IsYUV
<1>2. (y - (u * 352 + v * 731) \div 1024) - g \in -1 .. 2
  BY DEF Byte, IsYUV
<1>3. (y + (u * 1814) \div 1024) - b \in -4 .. 0
  BY DEF Byte, IsYUV
<1> QED BY <1>1, <1>2, <1>3 DEF IsNear

(* What is a byte already, or lies just beside one, moves no further.      *)
LEMMA InByteIsNear ==
  ASSUME NEW n \in Int, NEW m \in Byte, NEW low \in Int, NEW high \in Int,
         low <= 0, 0 <= high, n - m \in low .. high
  PROVE  InByte(n) - m \in low .. high
BY DEF InByte, Byte

(* For every colour there is, of sixteen million: conversions.h loses no   *)
(* more than that on the way to YUV and back.                              *)
THEOREM EveryColourSurvives ==
  ASSUME input \in AnyColour PROVE ColoursSurvive
<1> DEFINE r == input.r
           g == input.g
           b == input.b
           rgb == <<r, g, b>>
           other == <<<<1, 2, 3>>>>
           y == (306 * r + 601 * g + 117 * b) \div 1024
           u == (-172 * r - 340 * g + 512 * b) \div 1024
           v == (512 * r - 429 * g - 83 * b) \div 1024
           back == convertToRGB(convertToYUV(<<rgb>>, other), other)
<1>1. r \in Byte /\ g \in Byte /\ b \in Byte
  BY DEF AnyColour
<1> HIDE DEF r, g, b
<1>2. y \in Int /\ u \in Int /\ v \in Int
  BY <1>1 DEF Byte
<1>3. rgb2yuv(r, g, b) = <<y, u + 128, v + 128>>
  BY <1>1, ColourToYUV
<1> HIDE DEF y, u, v
<1>4. convertToYUV(<<rgb>>, other) = <<rgb2yuv(r, g, b)>>
  BY DEF convertToYUV, PixelByPixel
<1>5. back = <<yuv2rgb(y, (u + 128) - 128, (v + 128) - 128)>>
  BY <1>3, <1>4 DEF convertToRGB, PixelByPixel
<1>6. (u + 128) - 128 = u /\ (v + 128) - 128 = v
  BY <1>2
<1>7. back[1] = yuv2rgb(y, u, v)
  BY <1>5, <1>6
<1> HIDE DEF back
<1>8. /\ (y + (v * 1436) \div 1024) - r \in -3 .. 0
      /\ (y - (u * 352 + v * 731) \div 1024) - g \in -1 .. 2
      /\ (y + (u * 1814) \div 1024) - b \in -4 .. 0
  <2>1. IsYUV(r, g, b, y, u, v)
    BY DEF IsYUV, y, u, v
  <2>2. IsNear(r, g, b, y, u, v)
    BY <1>1, <1>2, <2>1, ColourBack
  <2> QED BY <2>2 DEF IsNear
<1>9. /\ InByte(y + (v * 1436) \div 1024) - r \in -3 .. 0
      /\ InByte(y - (u * 352 + v * 731) \div 1024) - g \in -1 .. 2
      /\ InByte(y + (u * 1814) \div 1024) - b \in -4 .. 0
  <2>1. /\ y + (v * 1436) \div 1024 \in Int
        /\ y - (u * 352 + v * 731) \div 1024 \in Int
        /\ y + (u * 1814) \div 1024 \in Int
    BY <1>2
  <2>2. InByte(y + (v * 1436) \div 1024) - r \in -3 .. 0
    BY <1>1, <1>8, <2>1, InByteIsNear
  <2>3. InByte(y - (u * 352 + v * 731) \div 1024) - g \in -1 .. 2
    BY <1>1, <1>8, <2>1, InByteIsNear
  <2>4. InByte(y + (u * 1814) \div 1024) - b \in -4 .. 0
    BY <1>1, <1>8, <2>1, InByteIsNear
  <2> QED BY <2>2, <2>3, <2>4
<1>10. \A c \in 1 .. 3 : back[1][c] - rgb[c] \in Drift[c]
  <2>1. /\ back[1][1] = InByte(y + (v * 1436) \div 1024)
        /\ back[1][2] = InByte(y - (u * 352 + v * 731) \div 1024)
        /\ back[1][3] = InByte(y + (u * 1814) \div 1024)
    BY <1>7 DEF yuv2rgb
  <2>2. /\ back[1][1] - rgb[1] \in Drift[1]
        /\ back[1][2] - rgb[2] \in Drift[2]
        /\ back[1][3] - rgb[3] \in Drift[3]
    BY <1>9, <2>1 DEF Drift
  <2>3. \A c \in 1 .. 3 : c = 1 \/ c = 2 \/ c = 3
    OBVIOUS
  <2> QED BY <2>2, <2>3
<1>11. convertToYUV(<<rgb, rgb>>, other) = other
  BY DEF convertToYUV, PixelByPixel
<1>12. convertToRGB(<<>>, other) = other
  BY DEF convertToRGB, PixelByPixel
<1>13. yuv2rgb(r, 0, 0) = [c \in 1 .. 3 |-> r]
  BY <1>1 DEF yuv2rgb, InByte, Byte
<1> QED BY <1>10, <1>11, <1>12, <1>13 DEF ColoursSurvive, back, r, g, b

(* The pixels of pictures of colours.                                      *)
Rgb == [1 .. 3 -> Byte]

(* One operation on each pixel of two pictures of the same size.           *)
LEMMA SameSize ==
  ASSUME NEW a \in Seq(Rgb), NEW b \in Seq(Rgb), Len(a) = Len(b)
  PROVE  /\ DOMAIN a = 1 .. Len(a) /\ DOMAIN b = 1 .. Len(a)
         /\ \A i \in DOMAIN a : a[i] \in Rgb /\ b[i] \in Rgb
OBVIOUS

(* For pictures of any size and content: what image.h takes away of the    *)
(* background and adds again gives the brighter of the two, channel by     *)
(* channel, whatever is cut off at either end of a byte.                   *)
THEOREM BackgroundIsAddedBack ==
  ASSUME NEW a \in Seq(Rgb), NEW b \in Seq(Rgb), Len(a) = Len(b)
  PROVE  PixelByPixel(AddPixels, subtract(a, b), b) =
            [i \in DOMAIN a |-> [c \in 1 .. 3 |-> Max2(a[i][c], b[i][c])]]
<1> DEFINE less == [i \in DOMAIN a |-> Subtract(a[i], b[i])]
           sum == [i \in DOMAIN a |-> AddPixels(less[i], b[i])]
           brighter == [i \in DOMAIN a |->
                           [c \in 1 .. 3 |-> Max2(a[i][c], b[i][c])]]
<1>1. subtract(a, b) = less
  BY DEF subtract, PixelByPixel
<1>2. DOMAIN less = 1 .. Len(a) /\ Len(less) = Len(a)
  BY SameSize
<1>3. PixelByPixel(AddPixels, less, b) = sum
  BY <1>2, SameSize DEF PixelByPixel
<1>4. ASSUME NEW i \in DOMAIN a
      PROVE  AddPixels(Subtract(a[i], b[i]), b[i])
                = [c \in 1 .. 3 |-> Max2(a[i][c], b[i][c])]
  <2>1. a[i] \in Rgb /\ b[i] \in Rgb
    BY SameSize
  <2>2. ASSUME NEW p \in Rgb, NEW q \in Rgb
        PROVE  AddPixels(Subtract(p, q), q)
                  = [c \in 1 .. 3 |-> Max2(p[c], q[c])]
    <3> DEFINE d == [c \in 1 .. 3 |-> IF q[c] > p[c] THEN 0 ELSE p[c] - q[c]]
    <3>1. Subtract(p, q) = d
      BY DEF Subtract, Rgb
    <3>2. AddPixels(d, q) = [c \in 1 .. 3 |-> IF d[c] + q[c] > 255 THEN 255
                                              ELSE d[c] + q[c]]
      BY DEF AddPixels
    <3>3. ASSUME NEW c \in 1 .. 3
          PROVE  (IF d[c] + q[c] > 255 THEN 255 ELSE d[c] + q[c])
                    = Max2(p[c], q[c])
      <4>1. p[c] \in 0 .. 255 /\ q[c] \in 0 .. 255
        BY DEF Rgb, Byte
      <4>2. d[c] = IF q[c] > p[c] THEN 0 ELSE p[c] - q[c]
        OBVIOUS
      <4> DEFINE less1(x, y) == IF y > x THEN 0 ELSE x - y
                 back(x, y) == IF less1(x, y) + y > 255 THEN 255
                               ELSE less1(x, y) + y
      <4>3. ASSUME NEW x \in 0 .. 255, NEW y \in 0 .. 255
            PROVE  back(x, y) = Max2(x, y)
        BY DEF Max2
      <4>4. (IF d[c] + q[c] > 255 THEN 255 ELSE d[c] + q[c])
               = back(p[c], q[c])
        BY <4>2
      <4> HIDE DEF back
      <4>5. back(p[c], q[c]) = Max2(p[c], q[c])
        BY <4>1, <4>3
      <4> QED BY <4>4, <4>5
    <3> HIDE DEF d
    <3> QED BY <3>1, <3>2, <3>3
  <2> QED BY <2>1, <2>2
<1>5. sum = brighter
  BY <1>4
<1> QED BY <1>1, <1>3, <1>5

(* For pictures of any size and content: made grey, a picture stays grey;  *)
(* thresholded it is black and white by its intensity, in image.h as in    *)
(* the form with a threshold for each channel, and stays so.               *)
THEOREM GreyIsThresholded ==
  ASSUME NEW image \in Seq(Rgb), NEW most \in Byte
  PROVE  LET grey == convertToIntensity(image)
             black == binarizeGreyImage(grey, most)
         IN  /\ convertToIntensity(grey) = grey
             /\ black = binarizeChanneledImage(grey, [c \in 1 .. 3 |-> most])
             /\ most < 255 => binarizeGreyImage(black, most) = black
             /\ \A i \in DOMAIN image : \A c \in 1 .. 3 :
                   black[i][c] = IF image[i][1] + image[i][2] + image[i][3]
                                       >= 3 * (most + 1) THEN 255 ELSE 0
<1> DEFINE level(i) == getIntensity(image[i])
           grey == convertToIntensity(image)
           black == binarizeGreyImage(grey, most)
<1>1. grey = [i \in DOMAIN image |-> [c \in 1 .. 3 |-> level(i)]]
  BY DEF convertToIntensity
<1>2. ASSUME NEW i \in DOMAIN image
      PROVE  /\ level(i) \in 0 .. 255
             /\ level(i) = (image[i][1] + image[i][2] + image[i][3]) \div 3
             /\ image[i][1] + image[i][2] + image[i][3] \in Nat
  <2>1. image[i] \in Rgb
    OBVIOUS
  <2>2. /\ image[i][1] \in 0 .. 255 /\ image[i][2] \in 0 .. 255
        /\ image[i][3] \in 0 .. 255
    BY <2>1 DEF Rgb, Byte
  <2>3. ASSUME NEW x \in 0 .. 255, NEW y \in 0 .. 255, NEW z \in 0 .. 255
        PROVE  (x + y + z) \div 3 \in 0 .. 255 /\ x + y + z \in Nat
    OBVIOUS
  <2> QED BY <2>2, <2>3 DEF getIntensity
<1> HIDE DEF level, grey
<1>3. convertToIntensity(grey) = grey
  <2>1. ASSUME NEW i \in DOMAIN image PROVE getIntensity(grey[i]) = level(i)
    <3>1. grey[i] = [c \in 1 .. 3 |-> level(i)]
      BY <1>1
    <3> QED BY <1>2, <3>1 DEF getIntensity
  <2>2. convertToIntensity(grey)
          = [i \in DOMAIN image |-> [c \in 1 .. 3 |-> getIntensity(grey[i])]]
    BY <1>1 DEF convertToIntensity
  <2> QED BY <1>1, <2>1, <2>2
<1>4. black = [i \in DOMAIN image |->
                  [c \in 1 .. 3 |-> Binary(level(i), most)]]
  BY <1>1 DEF binarizeGreyImage
<1>5. black = binarizeChanneledImage(grey, [c \in 1 .. 3 |-> most])
  BY <1>1, <1>4 DEF binarizeChanneledImage
<1> HIDE DEF black
<1>6. ASSUME most < 255 PROVE binarizeGreyImage(black, most) = black
  <2>1. ASSUME NEW i \in DOMAIN image
        PROVE  Binary(black[i][1], most) = Binary(level(i), most)
    <3>1. black[i][1] = Binary(level(i), most)
      BY <1>4
    <3> QED BY <1>2, <1>6, <3>1 DEF Binary, Byte
  <2>2. binarizeGreyImage(black, most)
          = [i \in DOMAIN image |-> [c \in 1 .. 3 |-> Binary(black[i][1], most)]]
    BY <1>4 DEF binarizeGreyImage
  <2> DEFINE Each(n) == [c \in 1 .. 3 |-> n]
  <2>3. /\ binarizeGreyImage(black, most)
             = [i \in DOMAIN image |-> Each(Binary(black[i][1], most))]
        /\ black = [i \in DOMAIN image |-> Each(Binary(level(i), most))]
    BY <1>4, <2>2, Zenon
  <2> HIDE DEF Each
  <2> QED BY <2>1, <2>3
<1>7. ASSUME NEW i \in DOMAIN image, NEW c \in 1 .. 3
      PROVE  black[i][c] = IF image[i][1] + image[i][2] + image[i][3]
                                 >= 3 * (most + 1) THEN 255 ELSE 0
  <2>1. black[i][c] = Binary(level(i), most)
    BY <1>4
  <2> DEFINE s == image[i][1] + image[i][2] + image[i][3]
  <2>2. s \in Nat /\ level(i) = s \div 3
    BY <1>2
  <2> HIDE DEF s
  <2>3. level(i) > most <=> s >= 3 * (most + 1)
    BY <2>2 DEF Byte
  <2>4. Binary(level(i), most) = IF s >= 3 * (most + 1) THEN 255 ELSE 0
    BY <2>3 DEF Binary
  <2> QED BY <2>1, <2>4 DEF s
<1> QED BY <1>3, <1>5, <1>6, <1>7 DEF grey, black

(* Any whole number of groups of pixels.                                   *)
AnyLoop == [about : {"loop"}, name : DOMAIN Layouts, groups : Nat \ {0}]

(* The bytes and the pixels of a group.                                    *)
GroupSizes == {<<3, 1>>, <<4, 2>>, <<6, 4>>, <<1, 1>>, <<2, 1>>}

(* Every layout is of one of these sizes, and only y2rgb()'s of a byte.    *)
LEMMA SizesOfGroups ==
  ASSUME NEW name \in DOMAIN Layouts
  PROVE  /\ <<Layouts[name].size, Len(Layouts[name].y)>> \in GroupSizes
         /\ Layouts[name].size = 1 <=> name = "y2rgb"
BY DEF Layouts, GroupSizes

(* Which group a pixel is of.                                              *)
LEMMA GroupOfPixel ==
  ASSUME NEW per \in {1, 2, 4}, NEW j \in Nat, NEW q \in 1 .. per
  PROVE  /\ (j * per + q - 1) \div per = j
         /\ ((j * per + q - 1) % per) + 1 = q
<1>1. CASE per = 1
  BY <1>1
<1>2. CASE per = 2
  BY <1>2
<1>3. CASE per = 4
  BY <1>3
<1> QED BY <1>1, <1>2, <1>3

(* And which pixels a group has.                                           *)
LEMMA PixelOfGroup ==
  ASSUME NEW per \in {1, 2, 4}, NEW p \in Nat
  PROVE  /\ p \div per \in Nat /\ (p % per) + 1 \in 1 .. per
         /\ p = (p \div per) * per + ((p % per) + 1) - 1
<1>1. CASE per = 1
  BY <1>1
<1>2. CASE per = 2
  BY <1>2
<1>3. CASE per = 4
  BY <1>3
<1> QED BY <1>1, <1>2, <1>3

(* The turns of a loop: y2rgb(), with one byte a pixel, takes one too few. *)
Turns(size, groups) == IF size = 1 THEN groups - 1 ELSE groups

(* Forwards and backwards, as conversions.cpp counts the bytes left.       *)
LEMMA TurnsCounted ==
  ASSUME NEW name \in DOMAIN Layouts, NEW groups \in Nat \ {0}
  PROVE  LET layout == Layouts[name]
             n == groups * Len(layout.y)
         IN  /\ SourceBytes(layout, n) = groups * layout.size
             /\ TurnsBack(layout, n) = Turns(layout.size, groups)
             /\ TurnsForward(layout, n) = Turns(layout.size, groups)
<1> DEFINE layout == Layouts[name]
           size == layout.size
           per == Len(layout.y)
           n == groups * per
           t == Turns(size, groups)
<1>1. <<size, per>> \in GroupSizes
  BY SizesOfGroups
<1>2. SourceBytes(layout, n) = (n * size) \div per
  BY DEF SourceBytes
<1> HIDE DEF size, per
<1>3. (n * size) \div per = groups * size
  BY <1>1 DEF GroupSizes
<1>4. n \in Nat /\ t \in Nat
  BY <1>1 DEF GroupSizes, Turns
<1>5. ASSUME NEW k \in Int
      PROVE  k \in 0 .. t - 1 <=>
                k \in 0 .. n /\ groups * size - 1 - k * size > 0
  BY <1>1 DEF GroupSizes, Turns
<1>6. ASSUME NEW k \in Int
      PROVE  k \in 0 .. t - 1 <=>
                k \in 0 .. n /\ k * size < groups * size - 1
  BY <1>1 DEF GroupSizes, Turns
<1> HIDE DEF n, t
<1>7. Cardinality(0 .. t - 1) = t
  <2>1. t - 1 \in Int /\ 0 \in Int
    BY <1>4
  <2>2. Cardinality(0 .. t - 1) = IF 0 > t - 1 THEN 0 ELSE (t - 1) - 0 + 1
    BY <2>1, FS_Interval, Zenon
  <2> QED BY <1>4, <2>2
<1>8. {k \in 0 .. n : SourceBytes(layout, n) - 1 - k * size > 0} = 0 .. t - 1
  <2>1. SourceBytes(layout, n) = groups * size
    BY <1>2, <1>3
  <2> QED BY <1>4, <1>5, <2>1
<1>9. {k \in 0 .. n : k * size < SourceBytes(layout, n) - 1} = 0 .. t - 1
  <2>1. SourceBytes(layout, n) = groups * size
    BY <1>2, <1>3
  <2> QED BY <1>4, <1>6, <2>1
<1>10. TurnsBack(layout, n) = t
  BY <1>7, <1>8 DEF TurnsBack, size
<1>11. TurnsForward(layout, n) = t
  BY <1>7, <1>9 DEF TurnsForward, size
<1> QED BY <1>2, <1>3, <1>10, <1>11 DEF n, t, size, per

(* For any whole number of groups and each layout of conversions.cpp: each *)
(* pixel is written once, of its own group and from bytes of the source;   *)
(* only y2rgb() leaves the first one out.                                  *)
THEOREM EachPixelOfItsGroup ==
  ASSUME input \in AnyLoop PROVE EachPixelOnce
<1> DEFINE name == input.name
           groups == input.groups
           layout == Layouts[name]
           size == layout.size
           per == Len(layout.y)
           n == groups * per
           ofGroup(j, q) == [pixel |-> j * per + q - 1,
                             y |-> j * size + layout.y[q],
                             u |-> j * size + layout.u,
                             v |-> j * size + layout.v]
           ofPixel(p) == [pixel |-> p,
                          y |-> (p \div per) * size + layout.y[(p % per) + 1],
                          u |-> (p \div per) * size + layout.u,
                          v |-> (p \div per) * size + layout.v]
           first == IF name = "y2rgb" THEN 1 ELSE 0
           t == Turns(size, groups)
           group(k) == IF name = "uyvy2rgb" THEN k ELSE groups - (k + 1)
<1>1. name \in DOMAIN Layouts /\ groups \in Nat \ {0}
  BY DEF AnyLoop
<1>0. <<size, per>> \in GroupSizes /\ (size = 1 <=> name = "y2rgb")
  BY <1>1, SizesOfGroups
<1>2. /\ size \in {1, 2, 3, 4, 6} /\ per \in {1, 2, 4}
      /\ size = 1 <=> name = "y2rgb"
      /\ size = 1 => per = 1
  <2> HIDE DEF size, per, name
  <2> QED BY <1>0 DEF GroupSizes
<1>3. Converted(name, n) = {ofGroup(group(k), q) : k \in 0 .. t - 1, q \in 1 .. per}
  <2> DEFINE forward == name = "uyvy2rgb"
             source(k) == IF forward THEN k * size
                          ELSE SourceBytes(layout, n) - (k + 1) * size
             target(k) == IF forward THEN k * per ELSE n - (k + 1) * per
             pixel(k, q) == [pixel |-> target(k) + q - 1,
                             y |-> source(k) + layout.y[q],
                             u |-> source(k) + layout.u,
                             v |-> source(k) + layout.v]
             turns == IF forward THEN TurnsForward(layout, n)
                                 ELSE TurnsBack(layout, n)
  <2>1. Converted(name, n) = {pixel(k, q) : k \in 0 .. turns - 1, q \in 1 .. per}
    BY DEF Converted
  <2>2. /\ SourceBytes(layout, n) = groups * size
        /\ TurnsBack(layout, n) = t /\ TurnsForward(layout, n) = t
    BY <1>1, TurnsCounted
  <2>3. turns = t
    BY <2>2
  <2>4. ASSUME NEW k \in Int, NEW q \in 1 .. per
        PROVE  pixel(k, q) = ofGroup(group(k), q)
    <3> HIDE DEF size, per
    <3>0. /\ groups * per - (k + 1) * per = (groups - (k + 1)) * per
          /\ groups * size - (k + 1) * size = (groups - (k + 1)) * size
      BY <1>1, <1>2
    <3>1. target(k) = group(k) * per
      BY <3>0
    <3>2. source(k) = group(k) * size
      BY <2>2, <3>0
    <3> HIDE DEF target, source, group
    <3> QED BY <3>1, <3>2
  <2>5. t \in Nat
    BY <1>1 DEF Turns
  <2> HIDE DEF pixel, ofGroup, turns, t, per, size, group
  <2> QED BY <2>1, <2>3, <2>4, <2>5
<1>4. {ofGroup(group(k), q) : k \in 0 .. t - 1, q \in 1 .. per}
        = {ofGroup(j, q) : j \in first .. groups - 1, q \in 1 .. per}
  <2>1. ASSUME NEW k \in 0 .. t - 1
        PROVE  group(k) \in first .. groups - 1
    <3> HIDE DEF size
    <3> QED BY <1>1, <1>2 DEF Turns
  <2>2. ASSUME NEW j \in first .. groups - 1
        PROVE  \E k \in 0 .. t - 1 : group(k) = j
    <3> DEFINE back == IF name = "uyvy2rgb" THEN j ELSE groups - (j + 1)
    <3> HIDE DEF size
    <3>1. back \in 0 .. t - 1 /\ group(back) = j
      BY <1>1, <1>2 DEF Turns
    <3> QED BY <3>1
  <2> HIDE DEF ofGroup, group, t, first, per
  <2> QED BY <2>1, <2>2
<1>5. {ofGroup(j, q) : j \in first .. groups - 1, q \in 1 .. per}
        = {ofPixel(p) : p \in first .. n - 1}
  <2>0. per \in {1, 2, 4} /\ (name = "y2rgb" => per = 1)
    BY <1>2
  <2>1. ASSUME NEW j \in first .. groups - 1, NEW q \in 1 .. per
        PROVE  /\ j * per + q - 1 \in first .. n - 1
               /\ ofGroup(j, q) = ofPixel(j * per + q - 1)
    <3> HIDE DEF per, size
    <3>1. j \in Nat
      BY <1>1
    <3>2. /\ (j * per + q - 1) \div per = j
          /\ ((j * per + q - 1) % per) + 1 = q
      BY <2>0, <3>1, GroupOfPixel
    <3>3. j * per + q - 1 \in first .. n - 1
      BY <1>1, <2>0
    <3> QED BY <3>2, <3>3
  <2>2. ASSUME NEW p \in first .. n - 1
        PROVE  \E j \in first .. groups - 1, q \in 1 .. per :
                  ofPixel(p) = ofGroup(j, q)
    <3> DEFINE j == p \div per
               q == (p % per) + 1
    <3> HIDE DEF per, size
    <3>1. p \in Nat
      BY <1>1, <2>0
    <3>2. j \in Nat /\ q \in 1 .. per /\ p = j * per + q - 1
      BY <2>0, <3>1, PixelOfGroup
    <3>3. ofPixel(p) = ofGroup(j, q)
      BY <3>2
    <3> HIDE DEF j, q
    <3>4. j \in first .. groups - 1
      BY <1>1, <2>0, <3>2
    <3> HIDE DEF ofPixel, ofGroup
    <3> QED BY <3>2, <3>3, <3>4
  <2> HIDE DEF ofPixel, ofGroup, per, n, first
  <2> QED BY <2>1, <2>2
<1>6. Converted(name, n) = {ofPixel(p) : p \in first .. n - 1}
  <2> HIDE DEF ofPixel, ofGroup, per, n, first, t, group
  <2> QED BY <1>3, <1>4, <1>5
<1> QED BY <1>6 DEF EachPixelOnce

(* Two pixels of a picture of that width are at the same place in memory.  *)
SamePlace(w, x, y, v, u) == w * y + x = w * u + v

(* The place says the row and the column.                                  *)
LEMMA RowAndColumn ==
  ASSUME NEW w \in Nat, NEW x \in 0 .. w - 1, NEW v \in 0 .. w - 1,
         NEW y \in Nat, NEW u \in Nat, SamePlace(w, x, y, v, u)
  PROVE  x = v /\ y = u
<1>0. w * y + x = w * u + v
  BY DEF SamePlace
<1>1. ASSUME NEW a \in Nat, NEW b \in Nat, a < b PROVE w * b >= w * a + w
  <2>1. PICK d \in Nat : b = a + 1 + d
    <3>1. b - a - 1 \in Nat /\ b = a + 1 + (b - a - 1)
      BY <1>1
    <3> QED BY <3>1
  <2>2. w * b = w * a + w + w * d
    BY <2>1
  <2>3. w * d \in Nat /\ w * a \in Nat
    OBVIOUS
  <2> QED BY <2>2, <2>3
<1>2. w * y \in Nat /\ w * u \in Nat
  OBVIOUS
<1>3. ~(y < u)
  <2>1. SUFFICES ASSUME y < u PROVE FALSE
    OBVIOUS
  <2>2. w * u >= w * y + w
    BY <1>1, <2>1
  <2> DEFINE a == w * y
             b == w * u
  <2> HIDE DEF a, b
  <2>3. a \in Nat /\ b \in Nat /\ b >= a + w /\ a + x = b + v
    BY <1>0, <1>2, <2>2 DEF a, b
  <2> QED BY <2>3
<1>4. ~(u < y)
  <2>1. SUFFICES ASSUME u < y PROVE FALSE
    OBVIOUS
  <2>2. w * y >= w * u + w
    BY <1>1, <2>1
  <2> DEFINE a == w * y
             b == w * u
  <2> HIDE DEF a, b
  <2>3. a \in Nat /\ b \in Nat /\ a >= b + w /\ a + x = b + v
    BY <1>0, <1>2, <2>2 DEF a, b
  <2> QED BY <2>3
<1>5. y = u
  BY <1>3, <1>4
<1> QED BY <1>0, <1>5

(* A pixel of the picture has a place in memory.                           *)
LEMMA PlaceInMemory ==
  ASSUME NEW w \in Nat, NEW h \in Nat, NEW x \in 0 .. w - 1, NEW y \in 0 .. h - 1
  PROVE  w * y + x \in 0 .. w * h - 1
<1>1. PICK d \in Nat : h = y + 1 + d
  <2>1. h - y - 1 \in Nat /\ h = y + 1 + (h - y - 1)
    OBVIOUS
  <2> QED BY <2>1
<1>2. w * h = w * y + w + w * d
  BY <1>1
<1>3. w * d \in Nat /\ w * y \in Nat
  OBVIOUS
<1> DEFINE a == w * y
           b == w * d
           c == w * h
<1> HIDE DEF a, b, c
<1>4. a \in Nat /\ b \in Nat /\ c = a + w + b
  BY <1>2, <1>3 DEF a, b, c
<1>5. a + x \in 0 .. c - 1
  BY <1>4
<1> QED BY <1>5 DEF a, c

(* What setPixel() draws of some points of a w x h image.                  *)
IsClipped(w, h, points, pixels, pixel) ==
    \A x \in 0 .. w - 1, y \in 0 .. h - 1 :
       SetPixels([width |-> w, height |-> h, pixels |-> pixels],
                 points, pixel).pixels[w * y + x]
          = IF <<x, y>> \in points THEN pixel ELSE pixels[w * y + x]

(* For an image of any size: a pixel is drawn if its place is among the    *)
(* points; points beside the image draw nothing.                           *)
LEMMA ClippedAtAnySize ==
  ASSUME NEW w \in Nat, NEW h \in Nat, NEW points \in SUBSET (Int \X Int),
         NEW S, NEW pixels \in [0 .. w * h - 1 -> S], NEW pixel
  PROVE  IsClipped(w, h, points, pixels, pixel)
<1> DEFINE image == [width |-> w, height |-> h, pixels |-> pixels]
           Inside == {p \in points : /\ p[1] \in 0 .. w - 1
                                     /\ p[2] \in 0 .. h - 1}
           new == [i \in DOMAIN pixels |->
                      IF \E p \in Inside : i = w * p[2] + p[1]
                      THEN pixel ELSE pixels[i]]
<1>1. SetPixels(image, points, pixel).pixels = new
  BY DEF SetPixels
<1>2. ASSUME NEW x \in 0 .. w - 1, NEW y \in 0 .. h - 1
      PROVE  new[w * y + x] = IF <<x, y>> \in points THEN pixel
                              ELSE pixels[w * y + x]
  <2>1. w * y + x \in DOMAIN pixels
    BY PlaceInMemory
  <2>2. ASSUME NEW p \in Inside, w * y + x = w * p[2] + p[1]
        PROVE  <<x, y>> \in points
    <3>1. p = <<p[1], p[2]>> /\ p[1] \in 0 .. w - 1 /\ p[2] \in Nat
      OBVIOUS
    <3>2. PICK v \in 0 .. w - 1, u \in Nat : p = <<v, u>>
      BY <3>1
    <3>3. p[1] = v /\ p[2] = u
      BY <3>2
    <3>4. SamePlace(w, x, y, v, u)
      BY <2>2, <3>3 DEF SamePlace
    <3>5. x = v /\ y = u
      BY <3>4, RowAndColumn
    <3>6. p \in points
      OBVIOUS
    <3> QED BY <3>2, <3>5, <3>6
  <2>3. ASSUME <<x, y>> \in points
        PROVE  \E p \in Inside : w * y + x = w * p[2] + p[1]
    <3>1. <<x, y>> \in Inside
      BY <2>3
    <3> QED BY <3>1
  <2> HIDE DEF Inside
  <2> QED BY <2>1, <2>2, <2>3
<1> QED BY <1>1, <1>2 DEF IsClipped

(* For pictures of any size and any points: setPixel() draws the points in *)
(* the picture where they belong and changes no other pixel, whatever      *)
(* points lie beside it.                                                   *)
THEOREM PointsAreClipped ==
  ASSUME NEW w \in Nat, NEW h \in Nat, NEW points \in SUBSET (Int \X Int),
         NEW S, NEW pixels \in [0 .. w * h - 1 -> S], NEW pixel
  PROVE  LET image == [width |-> w, height |-> h, pixels |-> pixels]
         IN  \A x \in 0 .. w - 1, y \in 0 .. h - 1 :
                SetPixels(image, points, pixel).pixels[w * y + x]
                   = IF <<x, y>> \in points THEN pixel ELSE pixels[w * y + x]
<1>1. IsClipped(w, h, points, pixels, pixel)
  BY ClippedAtAnySize
<1> QED BY <1>1 DEF IsClipped

(* What is left over of a division, whatever the divisor.                  *)
LEMMA Divided ==
  ASSUME NEW i \in Nat, NEW d \in Nat \ {0}
  PROVE  /\ i \div d \in Nat /\ i % d \in 0 .. d - 1
         /\ i = d * (i \div d) + (i % d)
OBVIOUS

(* For any picture and any area, also one that lies beside the picture:    *)
(* copyFromRectArea() reads the pixels of the picture that lie in the area *)
(* from its first one on, row by row, and nothing outside of the picture.  *)
THEOREM RectIsRead ==
  ASSUME NEW source, source.width \in Nat, source.height \in Nat,
         NEW x \in Int, NEW y \in Int, NEW w \in Int, NEW h \in Int
  PROVE  LET r == RectArea(source, x, y, w, h)
             sources == RectSources(source, x, y, w, h)
         IN  /\ r[3] \in Nat /\ r[4] \in Nat
             /\ \A n \in 0 .. r[3] - 1, m \in 0 .. r[4] - 1 :
                   sources[r[3] * m + n] = source.width * (r[2] + m) + (r[1] + n)
             /\ \A i \in DOMAIN sources :
                   sources[i] \in 0 .. source.width * source.height - 1
<1> DEFINE width == source.width
           height == source.height
           r == RectArea(source, x, y, w, h)
           sources == RectSources(source, x, y, w, h)
<1>0. width \in Nat /\ height \in Nat
  OBVIOUS
<1>1. /\ r[1] \in Nat /\ r[2] \in Nat /\ r[3] \in Nat /\ r[4] \in Nat
      /\ r[3] # 0 => r[1] + r[3] <= width
      /\ r[4] # 0 => r[2] + r[4] <= height
  BY DEF RectArea
<1>2. sources = [i \in 0 .. r[3] * r[4] - 1 |->
                   (width * r[2] + r[1]) + width * (i \div r[3]) + (i % r[3])]
  BY DEF RectSources
<1> HIDE DEF width, height, r, sources
<1>3. ASSUME NEW n \in 0 .. r[3] - 1, NEW m \in 0 .. r[4] - 1
      PROVE  /\ r[3] * m + n \in DOMAIN sources
             /\ sources[r[3] * m + n] = width * (r[2] + m) + (r[1] + n)
             /\ width * (r[2] + m) + (r[1] + n) \in 0 .. width * height - 1
  <2>1. r[3] * m + n \in 0 .. r[3] * r[4] - 1
    BY <1>1, PlaceInMemory
  <2>2. PICK i \in Nat : i = r[3] * m + n
    BY <2>1
  <2>3. r[3] \in Nat \ {0} /\ m \in Nat
    BY <1>1
  <2>4. PICK v \in 0 .. r[3] - 1, u \in Nat :
           v = i % r[3] /\ u = i \div r[3] /\ i = r[3] * u + v
    BY <2>3, Divided
  <2>5. SamePlace(r[3], n, m, v, u)
    BY <2>2, <2>4 DEF SamePlace
  <2>6. n = v /\ m = u
    BY <1>1, <2>3, <2>5, RowAndColumn
  <2>7. sources[i] = (width * r[2] + r[1]) + width * m + n
    BY <1>2, <2>1, <2>2, <2>4, <2>6
  <2>8. width * (r[2] + m) + (r[1] + n) = (width * r[2] + r[1]) + width * m + n
    BY <1>0, <1>1, <2>3
  <2>9. r[1] + n \in 0 .. width - 1 /\ r[2] + m \in 0 .. height - 1
    BY <1>0, <1>1
  <2>10. width * (r[2] + m) + (r[1] + n) \in 0 .. width * height - 1
    BY <1>0, <2>9, PlaceInMemory
  <2>11. r[3] * m + n \in DOMAIN sources
    BY <1>2, <2>1
  <2> QED BY <2>2, <2>7, <2>8, <2>10, <2>11
<1>4. ASSUME NEW i \in DOMAIN sources
      PROVE  \E n \in 0 .. r[3] - 1, m \in 0 .. r[4] - 1 : i = r[3] * m + n
  <2>1. i \in 0 .. r[3] * r[4] - 1
    BY <1>2
  <2>2. r[3] \in Nat \ {0}
    BY <1>1, <2>1
  <2>3. PICK n \in 0 .. r[3] - 1, m \in Nat : i = r[3] * m + n
    <3>1. i \in Nat
      BY <2>1
    <3>2. /\ i \div r[3] \in Nat /\ i % r[3] \in 0 .. r[3] - 1
          /\ i = r[3] * (i \div r[3]) + (i % r[3])
      BY <2>2, <3>1, Divided
    <3> QED BY <3>2
  <2>4. ASSUME m >= r[4] PROVE FALSE
    <3>1. PICK d \in Nat : m = r[4] + d
      <4>1. m - r[4] \in Nat /\ m = r[4] + (m - r[4])
        BY <1>1, <2>4
      <4> QED BY <4>1
    <3>2. r[3] * m = r[3] * r[4] + r[3] * d
      BY <1>1, <3>1
    <3>3. r[3] * d \in Nat /\ r[3] * r[4] \in Nat
      BY <1>1
    <3> DEFINE c == r[3] * m
               e == r[3] * d
               f == r[3] * r[4]
    <3>4. c = f + e /\ e \in Nat /\ f \in Nat /\ i = c + n /\ i \in 0 .. f - 1
      BY <2>1, <2>3, <3>2, <3>3
    <3> HIDE DEF c, e, f
    <3> QED BY <3>4
  <2> QED BY <1>1, <2>3, <2>4
<1> QED BY <1>1, <1>3, <1>4 DEF r, sources, width, height

(* The loop of drawLine() as a function of the steps taken.                *)
IsDrawn(f, n, first, ax, ay, sx, sy) ==
    f = [i \in 0 .. n |-> IF i = 0 THEN first
                          ELSE LineStep(f[i - 1], ax, ay, sx, sy)]

(* The line as far as drawLine() looks at it: how long it is in each       *)
(* direction, and how far it has come in the longer and the shorter one.   *)
AnyLine == [about : {"line"}, dx : Int, dy : Int]

(* After k steps, m of them to the side, the sum is m * long short of      *)
(* k * short, and less than one step to the side is missing.               *)
OnLine(point, k, m, dx, dy) ==
    LET ax == 2 * Abs(dx)   ay == 2 * Abs(dy)
        flat == ay <= ax
        ahead == IF flat THEN ay * k - ax * m ELSE ax * k - ay * m
        longer == IF flat THEN ax ELSE ay
        shorter == IF flat THEN ay ELSE ax
    IN  /\ m \in Nat
        /\ 0 <= ahead /\ (ahead < longer \/ (longer = 0 /\ ahead = 0))
        /\ point.dec = ahead + shorter - longer
        /\ point.at = IF flat THEN <<Sign(dx) * k, Sign(dy) * m>>
                              ELSE <<Sign(dx) * m, Sign(dy) * k>>

(* One step keeps the point on the line.                                   *)
LEMMA StepStaysOnLine ==
  ASSUME NEW dx \in Int, NEW dy \in Int, NEW k \in Nat, NEW m \in Nat,
         NEW point, OnLine(point, k, m, dx, dy)
  PROVE  \E u \in {m, m + 1} :
            OnLine(LineStep(point, 2 * Abs(dx), 2 * Abs(dy),
                            Sign(dx), Sign(dy)), k + 1, u, dx, dy)
<1> DEFINE ax == 2 * Abs(dx)
           ay == 2 * Abs(dy)
           sx == Sign(dx)
           sy == Sign(dy)
           flat == ay <= ax
           turn == point.dec >= 0
           next == LineStep(point, ax, ay, sx, sy)
           u == IF turn THEN m + 1 ELSE m
<1>1. ax \in Nat /\ ay \in Nat /\ sx \in -1 .. 1 /\ sy \in -1 .. 1
  BY DEF Abs, Sign
<1> HIDE DEF ax, ay, sx, sy
<1>2. CASE flat
  <2> DEFINE p == ay * k
             q == ax * m
  <2>1. /\ 0 <= p - q /\ (p - q < ax \/ (ax = 0 /\ p - q = 0))
        /\ point.dec = p - q + ay - ax
        /\ point.at = <<sx * k, sy * m>>
    BY <1>2 DEF OnLine, ax, ay, sx, sy
  <2>2. p \in Int /\ q \in Int
    BY <1>1
  <2>3. ay * (k + 1) = p + ay /\ ax * u = q + (IF turn THEN ax ELSE 0)
    BY <1>1
  <2>4. next.dec = point.dec + ay - (IF turn THEN ax ELSE 0)
    BY <1>2 DEF LineStep
  <2>5. next.at = <<sx * (k + 1), sy * u>>
    <3>1. next.at = [i \in 1 .. 2 |-> point.at[i] + <<sx, 0>>[i]
                                      + IF turn THEN <<0, sy>>[i] ELSE 0]
      BY <1>2 DEF LineStep
    <3>2. next.at = <<sx * k + sx + (IF turn THEN 0 ELSE 0),
                      sy * m + 0 + (IF turn THEN sy ELSE 0)>>
      BY <2>1, <3>1
    <3>3. /\ sx * k + sx + (IF turn THEN 0 ELSE 0) = sx * (k + 1)
          /\ sy * m + 0 + (IF turn THEN sy ELSE 0) = sy * u
      BY <1>1
    <3> QED BY <3>2, <3>3
  <2>6. LET ahead == ay * (k + 1) - ax * u
        IN  /\ 0 <= ahead /\ (ahead < ax \/ (ax = 0 /\ ahead = 0))
            /\ next.dec = ahead + ay - ax
    <3> DEFINE a == ay * (k + 1)
               b == ax * u
    <3>1. a = p + ay /\ b = q + (IF turn THEN ax ELSE 0)
      BY <2>3
    <3> HIDE DEF p, q, a, b, next
    <3>2. 0 <= a - b /\ (a - b < ax \/ (ax = 0 /\ a - b = 0))
      BY <1>1, <1>2, <2>1, <2>2, <3>1
    <3>3. next.dec = a - b + ay - ax
      BY <1>1, <2>1, <2>2, <2>4, <3>1
    <3> QED BY <3>2, <3>3 DEF a, b
  <2>7. OnLine(next, k + 1, u, dx, dy)
    <3> HIDE DEF next
    <3> QED BY <1>2, <2>5, <2>6 DEF OnLine, ax, ay, sx, sy
  <2> QED BY <2>7 DEF ax, ay, sx, sy
<1>3. CASE ~flat
  <2> DEFINE p == ax * k
             q == ay * m
  <2>1. /\ 0 <= p - q /\ (p - q < ay \/ (ay = 0 /\ p - q = 0))
        /\ point.dec = p - q + ax - ay
        /\ point.at = <<sx * m, sy * k>>
    BY <1>3 DEF OnLine, ax, ay, sx, sy
  <2>2. p \in Int /\ q \in Int
    BY <1>1
  <2>3. ax * (k + 1) = p + ax /\ ay * u = q + (IF turn THEN ay ELSE 0)
    BY <1>1
  <2>4. next.dec = point.dec + ax - (IF turn THEN ay ELSE 0)
    BY <1>3 DEF LineStep
  <2>5. next.at = <<sx * u, sy * (k + 1)>>
    <3>1. next.at = [i \in 1 .. 2 |-> point.at[i] + <<0, sy>>[i]
                                      + IF turn THEN <<sx, 0>>[i] ELSE 0]
      BY <1>3 DEF LineStep
    <3>2. next.at = <<sx * m + 0 + (IF turn THEN sx ELSE 0),
                      sy * k + sy + (IF turn THEN 0 ELSE 0)>>
      BY <2>1, <3>1
    <3>3. /\ sy * k + sy + (IF turn THEN 0 ELSE 0) = sy * (k + 1)
          /\ sx * m + 0 + (IF turn THEN sx ELSE 0) = sx * u
      BY <1>1
    <3> QED BY <3>2, <3>3
  <2>6. LET ahead == ax * (k + 1) - ay * u
        IN  /\ 0 <= ahead /\ (ahead < ay \/ (ay = 0 /\ ahead = 0))
            /\ next.dec = ahead + ax - ay
    <3> DEFINE a == ax * (k + 1)
               b == ay * u
    <3>1. a = p + ax /\ b = q + (IF turn THEN ay ELSE 0)
      BY <2>3
    <3> HIDE DEF p, q, a, b, next
    <3>2. 0 <= a - b /\ (a - b < ay \/ (ay = 0 /\ a - b = 0))
      BY <1>1, <1>3, <2>1, <2>2, <3>1
    <3>3. next.dec = a - b + ax - ay
      BY <1>1, <2>1, <2>2, <2>4, <3>1
    <3> QED BY <3>2, <3>3 DEF a, b
  <2>7. OnLine(next, k + 1, u, dx, dy)
    <3> HIDE DEF next
    <3> QED BY <1>3, <2>5, <2>6 DEF OnLine, ax, ay, sx, sy
  <2> QED BY <2>7 DEF ax, ay, sx, sy
<1> QED BY <1>2, <1>3

(* A set of naturals that is not empty has a least element.                *)
LEMMA LeastNatural ==
  ASSUME NEW I, I \subseteq Nat, I # {}
  PROVE  \E i \in I : \A j \in I : i <= j
<1>1. PICK i \in I : \A j \in I : <<j, i>> \notin OpToRel(<, Nat)
  BY WFMin, NatLessThanWellFounded
<1>2. \A j \in I : ~ (j < i)
  BY <1>1 DEF OpToRel
<1> QED BY <1>2

(* Counting the steps from 0 on, the function exists.                      *)
LEMMA LineIsDrawn ==
  ASSUME NEW n \in Nat, NEW first,
         NEW ax, NEW ay, NEW sx, NEW sy
  PROVE  \E f : IsDrawn(f, n, first, ax, ay, sx, sy)
<1> DEFINE Missing == {i \in Nat : ~ \E f : IsDrawn(f, i, first, ax, ay, sx, sy)}
<1>1. SUFFICES ASSUME Missing # {} PROVE FALSE
  OBVIOUS
<1>2. PICK i \in Missing : \A j \in Missing : i <= j
  <2>1. Missing \subseteq Nat
    OBVIOUS
  <2> QED BY <1>1, <2>1, LeastNatural
<1>3. i \in Nat
      /\ \A j \in Nat : j < i => \E f : IsDrawn(f, j, first, ax, ay, sx, sy)
  BY <1>2
<1>4. CASE i = 0
  <2> DEFINE f == [j \in 0 .. 0 |-> first]
  <2>1. IsDrawn(f, 0, first, ax, ay, sx, sy)
    BY DEF IsDrawn
  <2> QED BY <1>4, <2>1
<1>5. CASE i # 0
  <2>1. PICK g : IsDrawn(g, i - 1, first, ax, ay, sx, sy)
    BY <1>3, <1>5
  <2> DEFINE f == [j \in 0 .. i |-> IF j < i THEN g[j] ELSE LineStep(g[i - 1], ax, ay, sx, sy)]
  <2>2. \A j \in 0 .. i - 1 : g[j] = IF j = 0 THEN first ELSE LineStep(g[j - 1], ax, ay, sx, sy)
    BY <2>1 DEF IsDrawn
  <2>3. IsDrawn(f, i, first, ax, ay, sx, sy)
    BY <1>3, <1>5, <2>2 DEF IsDrawn
  <2> QED BY <2>3
<1> QED BY <1>4, <1>5

(* A line that comes from the loop of drawLine(), dx and dy being its      *)
(* sides.                                                                  *)
IsIterated(line, x0, y0, dx, dy) ==
    LET ax == 2 * Abs(dx)   ay == 2 * Abs(dy)
        steps == IF ay <= ax THEN Abs(dx) ELSE Abs(dy)
    IN  \E f : /\ IsDrawn(f, steps, LineStart(x0, y0, ax, ay), ax, ay,
                          Sign(dx), Sign(dy))
               /\ line = [i \in 1 .. steps + 1 |-> f[i - 1].at]

(* What drawLine() goes through between two pixels.                        *)
LEMMA LineIsIterated ==
  ASSUME NEW x0 \in Int, NEW y0 \in Int, NEW x1 \in Int, NEW y1 \in Int
  PROVE  IsIterated(Line(x0, y0, x1, y1), x0, y0, x1 - x0, y1 - y0)
<1> DEFINE dx == x1 - x0
           dy == y1 - y0
           ax == 2 * Abs(dx)
           ay == 2 * Abs(dy)
           sx == Sign(dx)
           sy == Sign(dy)
           steps == IF ay <= ax THEN Abs(dx) ELSE Abs(dy)
           first == LineStart(x0, y0, ax, ay)
           f == CHOOSE f : f = [i \in 0 .. steps |->
                                   IF i = 0 THEN first
                                   ELSE LineStep(f[i - 1], ax, ay, sx, sy)]
<1>1. Line(x0, y0, x1, y1) = [i \in 1 .. steps + 1 |-> f[i - 1].at]
  BY DEF Line
<1>2. steps \in Nat
  BY DEF Abs
<1> HIDE DEF steps, first, ax, ay, sx, sy
<1>3. \E g : IsDrawn(g, steps, first, ax, ay, sx, sy)
  BY <1>2, LineIsDrawn
<1>4. IsDrawn(f, steps, first, ax, ay, sx, sy)
  BY <1>3 DEF IsDrawn
<1> HIDE DEF f
<1> QED BY <1>1, <1>4 DEF IsIterated, steps, first, ax, ay, sx, sy

(* A sign in front of a product.                                           *)
LEMMA SignedProducts ==
  ASSUME NEW x \in -1 .. 1, NEW y \in -1 .. 1, NEW k \in Nat, NEW n \in Nat
  PROVE  /\ x * k * (y * n) = x * y * (n * k)
         /\ y * k * (x * n) = x * y * (n * k)
         /\ x * y \in -1 .. 1
<1> DEFINE p == n * k
<1>1. p \in Nat /\ k * n = p
  OBVIOUS
<1>2. /\ 0 * k = 0 /\ 0 * n = 0 /\ 1 * k = k /\ 1 * n = n
      /\ -1 * k = -k /\ -1 * n = -n /\ k * 0 = 0 /\ 0 * 0 = 0
  OBVIOUS
<1>3. k * (-n) = -p /\ (-k) * n = -p /\ (-k) * (-n) = p /\ (-k) * 0 = 0
  OBVIOUS
<1>4. CASE x = 0
  BY <1>1, <1>2, <1>3, <1>4
<1>5. CASE x = 1
  BY <1>1, <1>2, <1>3, <1>5
<1>6. CASE x = -1
  BY <1>1, <1>2, <1>3, <1>6
<1> QED BY <1>4, <1>5, <1>6

(* How far a point of it is from the true line.                            *)
LEMMA NearTheLine ==
  ASSUME NEW dx \in Int, NEW dy \in Int, NEW k \in Nat, NEW m \in Nat,
         NEW point, OnLine(point, k, m, dx, dy)
  PROVE  Abs(point.at[1] * dy - point.at[2] * dx)
            < Max2(Max2(Abs(dx), Abs(dy)), 1)
<1> DEFINE A == Abs(dx)
           B == Abs(dy)
           sx == Sign(dx)
           sy == Sign(dy)
           off == point.at[1] * dy - point.at[2] * dx
<1>1. /\ A \in Nat /\ B \in Nat /\ sx \in -1 .. 1 /\ sy \in -1 .. 1
      /\ (sx = 0 <=> A = 0) /\ (sy = 0 <=> B = 0)
  BY DEF Abs, Sign
<1>2. dx = sx * A /\ dy = sy * B
  BY DEF Abs, Sign
<1>3. CASE B <= A
  <2> DEFINE p == B * k
             q == A * m
  <2>1. p \in Nat /\ q \in Nat
    BY <1>1
  <2>2. /\ 0 <= 2 * B * k - 2 * A * m
        /\ 2 * B * k - 2 * A * m < 2 * A \/ (A = 0 /\ 2 * B * k - 2 * A * m = 0)
        /\ point.at = <<sx * k, sy * m>>
    BY <1>1, <1>3 DEF OnLine
  <2>3. 2 * B * k = 2 * p /\ 2 * A * m = 2 * q
    BY <1>1
  <2>4. /\ q <= p /\ (p - q < A \/ (A = 0 /\ p = q))
    <3> HIDE DEF p, q, A
    <3> QED BY <1>1, <2>1, <2>2, <2>3
  <2>5. off = sx * k * (sy * B) - sy * m * (sx * A)
    BY <1>2, <2>2
  <2>6. off = sx * sy * (p - q)
    <3>1. /\ sx * k * (sy * B) = sx * sy * (B * k)
          /\ sy * m * (sx * A) = sx * sy * (A * m)
          /\ sx * sy \in -1 .. 1
      BY <1>1, SignedProducts
    <3> HIDE DEF off, sx, sy
    <3> QED BY <2>1, <2>5, <3>1
  <2>7. off \in {0, p - q, q - p}
    <3> HIDE DEF off, p, q
    <3> QED BY <1>1, <2>1, <2>6
  <2>8. Abs(off) \in {0, p - q}
    <3> HIDE DEF off, p, q
    <3> QED BY <2>1, <2>4, <2>7 DEF Abs
  <2>9. Max2(A, B) = A
    BY <1>1, <1>3 DEF Max2
  <2> HIDE DEF p, q, off, A, B
  <2>10. Abs(off) < Max2(A, 1)
    BY <1>1, <2>1, <2>4, <2>8 DEF Max2
  <2> QED BY <2>9, <2>10 DEF A, B, off
<1>4. CASE ~(B <= A)
  <2> DEFINE p == A * k
             q == B * m
  <2>1. p \in Nat /\ q \in Nat
    BY <1>1
  <2>2. /\ 0 <= 2 * A * k - 2 * B * m
        /\ 2 * A * k - 2 * B * m < 2 * B \/ (B = 0 /\ 2 * A * k - 2 * B * m = 0)
        /\ point.at = <<sx * m, sy * k>>
    BY <1>1, <1>4 DEF OnLine
  <2>3. 2 * A * k = 2 * p /\ 2 * B * m = 2 * q
    BY <1>1
  <2>4. /\ q <= p /\ (p - q < B \/ (B = 0 /\ p = q))
    <3> HIDE DEF p, q, B
    <3> QED BY <1>1, <2>1, <2>2, <2>3
  <2>5. off = sx * m * (sy * B) - sy * k * (sx * A)
    BY <1>2, <2>2
  <2>6. off = sx * sy * (q - p)
    <3>1. /\ sx * m * (sy * B) = sx * sy * (B * m)
          /\ sy * k * (sx * A) = sx * sy * (A * k)
          /\ sx * sy \in -1 .. 1
      BY <1>1, SignedProducts
    <3> HIDE DEF off, sx, sy
    <3> QED BY <2>1, <2>5, <3>1
  <2>7. off \in {0, p - q, q - p}
    <3> HIDE DEF off, p, q
    <3> QED BY <1>1, <2>1, <2>6
  <2>8. Abs(off) \in {0, p - q}
    <3> HIDE DEF off, p, q
    <3> QED BY <2>1, <2>4, <2>7 DEF Abs
  <2>9. Max2(A, B) = B
    BY <1>1, <1>4 DEF Max2
  <2> HIDE DEF p, q, off, A, B
  <2>10. Abs(off) < Max2(B, 1)
    BY <1>1, <2>1, <2>4, <2>8 DEF Max2
  <2> QED BY <2>9, <2>10 DEF A, B, off
<1> QED BY <1>3, <1>4

(* As many steps to the side as the line is wide bring it to its end.      *)
LEMMA SideSteps ==
  ASSUME NEW longer \in Nat \ {0}, NEW shorter \in Nat, NEW m \in Nat,
         0 <= shorter * longer - longer * m,
         shorter * longer - longer * m < longer
  PROVE  m = shorter
<1>1. ~(m < shorter)
  <2> SUFFICES ASSUME m < shorter PROVE FALSE
    OBVIOUS
  <2>1. PICK d \in Nat : shorter = m + 1 + d
    <3>1. shorter - m - 1 \in Nat /\ shorter = m + 1 + (shorter - m - 1)
      OBVIOUS
    <3> QED BY <3>1
  <2>2. shorter * longer = longer * m + longer + longer * d
    BY <2>1
  <2> DEFINE a == longer * m
             b == longer * d
             c == shorter * longer
  <2>3. a \in Nat /\ b \in Nat /\ c = a + longer + b /\ c - a < longer
    BY <2>2
  <2> HIDE DEF a, b, c
  <2> QED BY <2>3
<1>2. ~(shorter < m)
  <2> SUFFICES ASSUME shorter < m PROVE FALSE
    OBVIOUS
  <2>1. PICK d \in Nat : m = shorter + 1 + d
    <3>1. m - shorter - 1 \in Nat /\ m = shorter + 1 + (m - shorter - 1)
      OBVIOUS
    <3> QED BY <3>1
  <2>2. longer * m = shorter * longer + longer + longer * d
    BY <2>1
  <2> DEFINE a == longer * m
             b == longer * d
             c == shorter * longer
  <2>3. c \in Nat /\ b \in Nat /\ a = c + longer + b /\ 0 <= c - a
    BY <2>2
  <2> HIDE DEF a, b, c
  <2> QED BY <2>3
<1> QED BY <1>1, <1>2

(* All points of the loop are on the line.                                 *)
LEMMA AllOnLine ==
  ASSUME NEW dx \in Int, NEW dy \in Int, NEW n \in Nat, NEW f,
         IsDrawn(f, n, LineStart(0, 0, 2 * Abs(dx), 2 * Abs(dy)),
                 2 * Abs(dx), 2 * Abs(dy), Sign(dx), Sign(dy))
  PROVE  \A k \in 0 .. n : \E m \in Nat : OnLine(f[k], k, m, dx, dy)
<1> DEFINE Sound(k) == \E m \in Nat : OnLine(f[k], k, m, dx, dy)
           Off == {k \in 0 .. n : ~Sound(k)}
<1>1. SUFFICES ASSUME Off # {} PROVE FALSE
  OBVIOUS
<1> HIDE DEF Sound
<1>2. PICK k \in Off : \A j \in Off : k <= j
  <2>1. Off \subseteq Nat
    OBVIOUS
  <2> QED BY <1>1, <2>1, LeastNatural
<1>3. k \in 0 .. n /\ ~Sound(k) /\ \A j \in 0 .. n : j < k => Sound(j)
  BY <1>2
<1>4. CASE k = 0
  <2>1. f[0] = LineStart(0, 0, 2 * Abs(dx), 2 * Abs(dy))
    BY DEF IsDrawn
  <2>2. 2 * Abs(dx) \in Nat /\ 2 * Abs(dy) \in Nat
        /\ Sign(dx) \in Int /\ Sign(dy) \in Int
    BY DEF Abs, Sign
  <2>3. OnLine(f[0], 0, 0, dx, dy)
    BY <2>1, <2>2 DEF OnLine, LineStart
  <2>4. Sound(0)
    BY <2>3 DEF Sound
  <2> QED BY <1>3, <1>4, <2>4
<1>5. CASE k # 0
  <2>0. Sound(k - 1)
    BY <1>3, <1>5
  <2>1. PICK m \in Nat : OnLine(f[k - 1], k - 1, m, dx, dy)
    BY <2>0 DEF Sound
  <2>2. f[k] = LineStep(f[k - 1], 2 * Abs(dx), 2 * Abs(dy), Sign(dx), Sign(dy))
    BY <1>3, <1>5 DEF IsDrawn
  <2>3. k - 1 \in Nat /\ (k - 1) + 1 = k
    BY <1>3, <1>5
  <2>4. \E u \in {m, m + 1} : OnLine(f[k], k, u, dx, dy)
    <3>1. \E u \in {m, m + 1} :
             OnLine(LineStep(f[k - 1], 2 * Abs(dx), 2 * Abs(dy),
                             Sign(dx), Sign(dy)), (k - 1) + 1, u, dx, dy)
      BY <2>1, <2>3, StepStaysOnLine
    <3> QED BY <2>2, <2>3, <3>1
  <2>5. Sound(k)
    BY <2>1, <2>4 DEF Sound
  <2> QED BY <1>3, <2>5
<1> QED BY <1>4, <1>5

(* The last point of the loop is the end of the line.                      *)
LEMMA EndsOnLine ==
  ASSUME NEW dx \in Int, NEW dy \in Int, NEW m \in Nat, NEW point,
         OnLine(point, IF Abs(dy) <= Abs(dx) THEN Abs(dx) ELSE Abs(dy), m, dx, dy)
  PROVE  point.at = <<dx, dy>>
<1> DEFINE A == Abs(dx)
           B == Abs(dy)
<1>1. A \in Nat /\ B \in Nat /\ dx = Sign(dx) * A /\ dy = Sign(dy) * B
      /\ (A = 0 => Sign(dx) = 0) /\ (B = 0 => Sign(dy) = 0)
      /\ Sign(dx) \in Int /\ Sign(dy) \in Int
  BY DEF Abs, Sign
<1>2. CASE B <= A
  <2>1. /\ 0 <= 2 * B * A - 2 * A * m
        /\ 2 * B * A - 2 * A * m < 2 * A \/ (A = 0 /\ 2 * B * A - 2 * A * m = 0)
        /\ point.at = <<Sign(dx) * A, Sign(dy) * m>>
    BY <1>1, <1>2 DEF OnLine
  <2>2. 2 * B * A = 2 * (B * A) /\ 2 * A * m = 2 * (A * m)
        /\ B * A \in Nat /\ A * m \in Nat
    BY <1>1
  <2>3. A # 0 => m = B
    <3> SUFFICES ASSUME A # 0 PROVE m = B
      OBVIOUS
    <3> DEFINE p == B * A
               q == A * m
    <3>1. 0 <= p - q /\ p - q < A
      <4> HIDE DEF p, q, A
      <4>1. 2 * B * A = 2 * p /\ 2 * A * m = 2 * q /\ p \in Nat /\ q \in Nat
        BY <2>2 DEF p, q
      <4> QED BY <1>1, <2>1, <4>1
    <3> HIDE DEF A, B
    <3> QED BY <1>1, <3>1, SideSteps
  <2>4. A = 0 => Sign(dy) * m = dy
    BY <1>1, <1>2
  <2> QED BY <1>1, <2>1, <2>3, <2>4
<1>3. CASE ~(B <= A)
  <2>1. /\ 0 <= 2 * A * B - 2 * B * m
        /\ 2 * A * B - 2 * B * m < 2 * B
        /\ point.at = <<Sign(dx) * m, Sign(dy) * B>>
    BY <1>1, <1>3 DEF OnLine
  <2>2. 2 * A * B = 2 * (A * B) /\ 2 * B * m = 2 * (B * m)
        /\ A * B \in Nat /\ B * m \in Nat
    BY <1>1
  <2>3. m = A
    <3> DEFINE p == A * B
               q == B * m
    <3>1. 0 <= p - q /\ p - q < B
      <4> HIDE DEF p, q, B
      <4>1. 2 * A * B = 2 * p /\ 2 * B * m = 2 * q /\ p \in Nat /\ q \in Nat
        BY <2>2 DEF p, q
      <4> QED BY <1>1, <2>1, <4>1
    <3>2. B \in Nat \ {0}
      BY <1>1, <1>3
    <3> HIDE DEF A, B
    <3> QED BY <1>1, <3>1, <3>2, SideSteps
  <2> QED BY <1>1, <2>1, <2>3
<1> QED BY <1>2, <1>3

(* From the origin, the sides of the line are its end.                     *)
LEMMA LineFromOrigin ==
  ASSUME NEW dx \in Int, NEW dy \in Int
  PROVE  IsIterated(Line(0, 0, dx, dy), 0, 0, dx, dy)
<1>1. 0 \in Int
  OBVIOUS
<1>2. IsIterated(Line(0, 0, dx, dy), 0, 0, dx - 0, dy - 0)
  BY <1>1, LineIsIterated
<1>3. dx - 0 = dx /\ dy - 0 = dy
  OBVIOUS
<1> QED BY <1>2, <1>3

(* For any line: drawLine() goes from one end to the other, from pixel to  *)
(* neighbouring pixel, and less than a pixel away from the true line.      *)
THEOREM EveryLineIsStraight == ASSUME input \in AnyLine PROVE LinesAreStraight
<1> DEFINE dx == input.dx
           dy == input.dy
           ax == 2 * Abs(dx)
           ay == 2 * Abs(dy)
           steps == IF ay <= ax THEN Abs(dx) ELSE Abs(dy)
           line == Line(0, 0, dx, dy)
           longer == Max2(Abs(dx), Abs(dy))
<1>1. dx \in Int /\ dy \in Int
  BY DEF AnyLine
<1>2. PICK f : /\ IsDrawn(f, steps, LineStart(0, 0, ax, ay), ax, ay,
                          Sign(dx), Sign(dy))
               /\ line = [i \in 1 .. steps + 1 |-> f[i - 1].at]
  BY <1>1, LineFromOrigin DEF IsIterated
<1> HIDE DEF dx, dy
<1>3. steps \in Nat
      /\ steps = IF Abs(dy) <= Abs(dx) THEN Abs(dx) ELSE Abs(dy)
  BY <1>1 DEF Abs
<1>4. \A k \in 0 .. steps : \E m \in Nat : OnLine(f[k], k, m, dx, dy)
  BY <1>1, <1>2, <1>3, AllOnLine
<1> HIDE DEF line, steps
<1>5. Len(line) = steps + 1 /\ DOMAIN line = 1 .. steps + 1 /\ line # <<>>
  <2>1. DOMAIN line = 1 .. steps + 1
    BY <1>2
  <2>2. line = [i \in 1 .. steps + 1 |-> f[i - 1].at] /\ steps + 1 \in Nat
    BY <1>2, <1>3
  <2> DEFINE N == steps + 1
  <2>3. N \in Nat /\ N # 0
    BY <1>3
  <2> HIDE DEF N
  <2>4. Len(line) = N /\ DOMAIN line = 1 .. N /\ line # <<>>
    BY <2>1, <2>2, <2>3 DEF N
  <2> QED BY <2>4 DEF N
<1>6. Head(line) = <<0, 0>>
  <2>1. line[1] = f[0].at
    BY <1>2, <1>3
  <2>2. f[0] = LineStart(0, 0, ax, ay)
    BY <1>2, <1>3 DEF IsDrawn
  <2>3. Head(line) = line[1]
    OBVIOUS
  <2> QED BY <2>1, <2>2, <2>3 DEF LineStart
<1>7. Last(line) = <<dx, dy>>
  <2>1. Last(line) = line[steps + 1]
    BY <1>5 DEF Last
  <2>2. line[steps + 1] = f[steps].at
    <3>1. steps + 1 \in 1 .. steps + 1 /\ (steps + 1) - 1 = steps
      BY <1>3
    <3> QED BY <1>2, <3>1
  <2>3. PICK m \in Nat : OnLine(f[steps], steps, m, dx, dy)
    BY <1>3, <1>4
  <2>4. f[steps].at = <<dx, dy>>
    BY <1>1, <1>3, <2>3, EndsOnLine
  <2> QED BY <2>1, <2>2, <2>4
<1>8. ASSUME NEW i \in 1 .. Len(line) - 1, NEW c \in 1 .. 2
      PROVE  Abs(line[i + 1][c] - line[i][c]) <= 1
  <2>1. line[i + 1] = f[i].at /\ line[i] = f[i - 1].at
    <3>1. i \in 1 .. steps + 1 /\ i + 1 \in 1 .. steps + 1 /\ (i + 1) - 1 = i
      BY <1>3, <1>5
    <3> QED BY <1>2, <3>1
  <2>2. f[i] = LineStep(f[i - 1], ax, ay, Sign(dx), Sign(dy))
    BY <1>2, <1>3, <1>5 DEF IsDrawn
  <2>3. PICK m \in Nat : OnLine(f[i - 1], i - 1, m, dx, dy)
    BY <1>3, <1>4, <1>5
  <2>4. /\ Sign(dx) \in -1 .. 1 /\ Sign(dy) \in -1 .. 1
        /\ line[i][c] \in Int
    <3>1. Sign(dx) \in -1 .. 1 /\ Sign(dy) \in -1 .. 1
      BY <1>1 DEF Sign
    <3>2. \E s, t \in Int : f[i - 1].at = <<s, t>>
      <4>1. i - 1 \in Int
        BY <1>3, <1>5
      <4>2. Sign(dx) * (i - 1) \in Int /\ Sign(dy) * m \in Int
            /\ Sign(dx) * m \in Int /\ Sign(dy) * (i - 1) \in Int
        BY <3>1, <4>1
      <4> QED BY <2>3, <4>2 DEF OnLine
    <3> QED BY <2>1, <3>1, <3>2
  <2>5. line[i + 1][c] - line[i][c] \in -1 .. 1
    BY <2>1, <2>2, <2>4 DEF LineStep
  <2> QED BY <2>5 DEF Abs
<1>9. ASSUME NEW i \in DOMAIN line
      PROVE  Abs(line[i][1] * dy - line[i][2] * dx) < Max2(longer, 1)
  <2>1. line[i] = f[i - 1].at /\ i - 1 \in 0 .. steps
    BY <1>2, <1>3, <1>5
  <2>2. PICK m \in Nat : OnLine(f[i - 1], i - 1, m, dx, dy)
    BY <1>4, <2>1
  <2>3. i - 1 \in Nat
    BY <1>3, <2>1
  <2>4. Abs(f[i - 1].at[1] * dy - f[i - 1].at[2] * dx) < Max2(longer, 1)
    BY <1>1, <2>2, <2>3, NearTheLine
  <2> QED BY <2>1, <2>4
<1> QED BY <1>6, <1>7, <1>8, <1>9 DEF LinesAreStraight, line, dx, dy

(* A capture method and a format it takes from its camera.                 *)
AnyMode ==
    UNION {[about : {"mode"}, method : {m}, from : Captured(m)] :
              m \in CaptureMethods}

(* The names of the settings are those stringToColorFormat() and its like  *)
(* tell apart.                                                             *)
LEMMA NamesComeBack == NamesRoundTrip
BY DEF NamesRoundTrip, stringToColorFormat, stringToColorFilter,
       stringToBayerMethod, stringToCaptureMode, Named, Range, FormatNames,
       FilterNames, BayerNames, ModeNames, CaptureModeToString, ColorModes,
       ColorOut

(* For every capture method and every format: an output of ColorOut takes  *)
(* the frame to the threshold, but for RGB16.                              *)
LEMMA ModesReachThreshold ==
  ASSUME input \in AnyMode PROVE FramesReachThreshold
<1> DEFINE from == input.from
           method == input.method
           Ways == {way \in ColorOut \X BOOLEAN :
                       Converts(method, from, way[1], way[2])}
<1>1. PICK m \in CaptureMethods : method = m /\ from \in Captured(m)
  BY DEF AnyMode
<1>2. /\ method \in {"dc1394", "files", "generator"}
      /\ from \in ColorModes
      /\ method # "dc1394" => from = "RGB8"
  BY <1>1 DEF CaptureMethods, Captured, ColorModes
<1> HIDE DEF from, method
<1>3. (Ways # {}) <=> (from # "RGB16")
  <2>1. ASSUME from # "RGB16" PROVE \E o \in ColorOut : Converts(method, from, o, FALSE)
    <3>1. CASE from = "YUV422_UYVY"
      BY <1>2, <3>1 DEF Converts, DC1394Converts, ColorOut
    <3>2. CASE from # "YUV422_UYVY"
      BY <1>2, <2>1, <3>2 DEF Converts, DC1394Converts, FilesConvert, GeneratorConverts,
           ColorOut, ColorModes
    <3> QED BY <3>1, <3>2
  <2>2. ASSUME from = "RGB16", NEW o \in ColorOut, NEW d \in BOOLEAN
        PROVE  ~Converts(method, from, o, d)
    BY <1>2, <2>2 DEF Converts, DC1394Converts, ColorOut
  <2>3. ASSUME NEW o \in ColorOut, Converts(method, from, o, FALSE)
        PROVE  <<o, FALSE>> \in Ways
    BY <2>3
  <2>4. ASSUME NEW way \in Ways
        PROVE  Converts(method, from, way[1], way[2]) /\ way[1] \in ColorOut
               /\ way[2] \in BOOLEAN
    OBVIOUS
  <2> HIDE DEF Ways
  <2> QED BY <2>1, <2>2, <2>3, <2>4
<1>4. ASSUME NEW way \in Ways
      PROVE  CanThreshold(way[1])
             /\ (way[2] => from \notin {"MONO16", "RAW16"})
  <2>1. /\ way[1] \in {"RGB8", "YUV422_UYVY"} /\ way[2] \in BOOLEAN
        /\ Converts(method, from, way[1], way[2])
    BY DEF ColorOut
  <2>2. CanThreshold(way[1])
    BY <2>1 DEF CanThreshold
  <2>3. ASSUME way[2], from \in {"MONO16", "RAW16"} PROVE FALSE
    BY <1>2, <2>1, <2>3 DEF Converts, DC1394Converts
  <2> QED BY <2>2, <2>3
<1> QED BY <1>3, <1>4 DEF FramesReachThreshold, from, method

(* Any text, of any length and any glyphs.                                 *)
AnyText == [about : {"text"}, glyphs : Seq([0 .. 7 -> Byte])]

(* Which bits of a glyph are drawn.                                        *)
LEMMA GlyphDrawn ==
  ASSUME NEW x \in Int, NEW y \in Int, NEW glyph, NEW v \in Int, NEW u \in Int
  PROVE  <<v, u>> \in CharPixels(x, y, glyph) <=>
            /\ v - x \in 0 .. 7 /\ u - y \in 0 .. 7
            /\ (glyph[u - y] \div 2 ^ (7 - (v - x))) % 2 = 1
<1> DEFINE IsSet(i, j) == (glyph[j] \div 2 ^ (7 - i)) % 2 = 1
           Bits == {c \in (0 .. 7) \X (0 .. 7) : IsSet(c[1], c[2])}
<1>1. CharPixels(x, y, glyph) = {<<x + bit[1], y + bit[2]>> : bit \in Bits}
  BY DEF CharPixels
<1> HIDE DEF IsSet
<1>2. ASSUME NEW bit \in Bits, <<v, u>> = <<x + bit[1], y + bit[2]>>
      PROVE  v - x \in 0 .. 7 /\ u - y \in 0 .. 7 /\ IsSet(v - x, u - y)
  <2>1. bit[1] \in 0 .. 7 /\ bit[2] \in 0 .. 7 /\ IsSet(bit[1], bit[2])
    OBVIOUS
  <2>2. bit[1] = v - x /\ bit[2] = u - y
    BY <1>2, <2>1
  <2> QED BY <2>1, <2>2
<1>3. ASSUME v - x \in 0 .. 7, u - y \in 0 .. 7, IsSet(v - x, u - y)
      PROVE  \E bit \in Bits : <<v, u>> = <<x + bit[1], y + bit[2]>>
  <2>1. <<v - x, u - y>> \in Bits
    BY <1>3
  <2>2. x + (v - x) = v /\ y + (u - y) = u
    OBVIOUS
  <2> QED BY <2>1, <2>2
<1> HIDE DEF Bits
<1>4. <<v, u>> \in CharPixels(x, y, glyph) <=>
        /\ v - x \in 0 .. 7 /\ u - y \in 0 .. 7 /\ IsSet(v - x, u - y)
  BY <1>1, <1>2, <1>3
<1> QED BY <1>4 DEF IsSet

(* For any text: drawString() keeps each glyph in its eight columns.       *)
LEMMA TextIsRead == ASSUME input \in AnyText PROVE GlyphsStandApart
<1> DEFINE glyphs == input.glyphs
           pixels == StringPixels(3, 1, glyphs)
<1>1. glyphs \in Seq([0 .. 7 -> Byte])
  BY DEF AnyText
<1> HIDE DEF glyphs
<1>2. ASSUME NEW i \in DOMAIN glyphs, NEW ix \in 0 .. 7, NEW iy \in 0 .. 7
      PROVE  <<3 + 8 * (i - 1) + ix, 1 + iy>> \in pixels
                <=> (glyphs[i][iy] \div 2 ^ (7 - ix)) % 2 = 1
  <2> DEFINE v == 3 + 8 * (i - 1) + ix
             u == 1 + iy
             Lit(j) == (glyphs[j][u - 1] \div 2 ^ (7 - (v - (3 + 8 * (j - 1))))) % 2 = 1
  <2>0. DOMAIN glyphs \subseteq Nat
    BY <1>1
  <2>1. v \in Int /\ u \in Int
    BY <2>0
  <2>2. <<v, u>> \in pixels <=>
          \E j \in DOMAIN glyphs :
             <<v, u>> \in CharPixels(3 + 8 * (j - 1), 1, glyphs[j])
    BY DEF StringPixels
  <2>3. ASSUME NEW j \in DOMAIN glyphs
        PROVE  <<v, u>> \in CharPixels(3 + 8 * (j - 1), 1, glyphs[j]) <=>
                 /\ v - (3 + 8 * (j - 1)) \in 0 .. 7 /\ u - 1 \in 0 .. 7
                 /\ Lit(j)
    <3>1. 3 + 8 * (j - 1) \in Int /\ 1 \in Int
      BY <2>0
    <3> HIDE DEF v, u
    <3> QED BY <2>1, <3>1, GlyphDrawn
  <2>4. u - 1 = iy /\ v - (3 + 8 * (i - 1)) = ix
    BY <2>0
  <2>5. ASSUME NEW j \in DOMAIN glyphs, v - (3 + 8 * (j - 1)) \in 0 .. 7
        PROVE  j = i
    BY <2>0, <2>5
  <2>6. Lit(i) <=> (glyphs[i][iy] \div 2 ^ (7 - ix)) % 2 = 1
    BY <2>4
  <2> HIDE DEF Lit, v, u, pixels
  <2>7. <<v, u>> \in pixels <=> Lit(i)
    BY <2>2, <2>3, <2>4, <2>5
  <2> QED BY <2>6, <2>7 DEF v, u
<1> QED BY <1>2 DEF GlyphsStandApart, glyphs

(* A colour of the picture and one of the background.                      *)
AnyPixels == [about : {"pixels"}, p : Byte, q : Byte]

(* For any two bytes: the background taken away and added again.           *)
LEMMA OnePixelOfEach == ASSUME input \in AnyPixels PROVE BackgroundComesBack
<1> DEFINE p == input.p
           q == input.q
           s == <<p, q, 7>>
           t == <<q, p, p>>
           a == <<s>>
           b == <<t>>
<1>1. p \in Byte /\ q \in Byte
  BY DEF AnyPixels
<1> HIDE DEF p, q
<1>2. s \in Rgb /\ t \in Rgb
  BY <1>1 DEF Rgb, Byte
<1> HIDE DEF s, t
<1>3. a \in Seq(Rgb) /\ b \in Seq(Rgb) /\ Len(a) = Len(b) /\ DOMAIN a = {1}
      /\ a[1] = s /\ b[1] = t
  BY <1>2
<1>4. PixelByPixel(AddPixels, subtract(a, b), b) =
            [i \in DOMAIN a |-> [c \in 1 .. 3 |-> Max2(a[i][c], b[i][c])]]
  BY <1>3, BackgroundIsAddedBack
<1>5. [i \in DOMAIN a |-> [c \in 1 .. 3 |-> Max2(a[i][c], b[i][c])]]
        = <<[c \in 1 .. 3 |-> Max2(a[1][c], b[1][c])]>>
  <2> DEFINE r(i) == [c \in 1 .. 3 |-> Max2(a[i][c], b[i][c])]
  <2>1. [i \in {1} |-> r(i)] = <<r(1)>>
    <3> HIDE DEF r
    <3> QED OBVIOUS
  <2> QED BY <1>3, <2>1
<1> QED BY <1>4, <1>5 DEF BackgroundComesBack, s, t, p, q

(* Any file, whatever is in it.                                            *)
AnyFile ==
    [about : {"file"},
     file : [readable : BOOLEAN, format : STRING, width : Int, height : Int,
             pixels : Seq(Int)]]

(* For any file: what save() wrote is what load() reads, and an image that *)
(* cannot be read is empty.                                                *)
LEMMA FilesComeBack == ASSUME input \in AnyFile PROVE FilesRoundTrip
<1> DEFINE file == input.file
           image == LoadImage(file)
           none == [pixels |-> <<>>, width |-> 0, height |-> 0]
<1>1. ASSUME image.pixels # <<>>
      PROVE  /\ image = [pixels |-> file.pixels, width |-> file.width,
                         height |-> file.height]
             /\ file.width > 0 /\ file.height > 0
  BY <1>1 DEF LoadImage, ReadImage
<1>2. image.pixels = <<>> => image = none
  BY DEF LoadImage, ReadImage
<1>3. ASSUME image.pixels # <<>>
      PROVE  LoadImage(SaveImage("RGB8", image, file)) = image
  <2> DEFINE w == file.width
             h == file.height
             pixels == file.pixels
  <2>1. image = [pixels |-> pixels, width |-> w, height |-> h]
        /\ w > 0 /\ h > 0 /\ pixels # <<>>
    BY <1>1, <1>3
  <2> HIDE DEF image, w, h, pixels, file
  <2>2. SaveImage("RGB8", image, file) =
          [readable |-> w > 0 /\ h > 0, format |-> "RGB32",
           pixels |-> pixels, width |-> w, height |-> h]
    BY <2>1 DEF SaveImage, WriteImage
  <2> DEFINE saved == SaveImage("RGB8", image, file)
  <2>3. /\ saved.readable = (w > 0 /\ h > 0) /\ saved.format = "RGB32"
        /\ saved.pixels = pixels /\ saved.width = w /\ saved.height = h
    BY <2>2
  <2> HIDE DEF saved
  <2>4. ReadImage(saved) = [pixels |-> pixels, width |-> w, height |-> h]
    BY <2>1, <2>3 DEF ReadImage
  <2> QED BY <2>1, <2>4 DEF LoadImage, saved
<1>4. SaveImage("RGBA8", image, file) = file
  BY DEF SaveImage
<1> QED BY <1>2, <1>3, <1>4 DEF FilesRoundTrip

(* The test image at any size from 8 columns on.                           *)
AnyTestImage == [about : {"test image"}, w : Nat \ (0 .. 7), h : Nat \ {0}]

(* For a test image of any size: eight slices from left to right, each     *)
(* darker from row to row down to black.                                   *)
LEMMA AllColoursSeen == ASSUME input \in AnyTestImage PROVE TestImageHasAllColours
<1> DEFINE w == input.w
           h == input.h
           s == w \div 8
<1>1. w \in Nat /\ w >= 8 /\ h \in Nat /\ h # 0
  <2>1. w \in Nat \ (0 .. 7) /\ h \in Nat \ {0}
    BY DEF AnyTestImage
  <2> HIDE DEF w, h
  <2> QED BY <2>1
<1> HIDE DEF w, h
<1>2. s \in Nat \ {0} /\ 8 * s <= w
  BY <1>1
<1> HIDE DEF s
<1>3. ASSUME NEW x \in Nat
      PROVE  /\ x \div s \in Nat
             /\ Slice(x, w) = IF x \div s > 7 THEN 7 ELSE x \div s
  BY <1>2, Divided DEF Slice, s
<1>4. ASSUME NEW x \in 0 .. w - 1 PROVE Slice(x, w) \in 0 .. 7
  BY <1>1, <1>3
<1>5. ASSUME NEW c \in 0 .. 7
      PROVE  \E x \in 0 .. w - 1 : Slice(x, w) = c
  <2> DEFINE x == c * s
  <2>1. x \in Nat /\ x <= 7 * s
    BY <1>2
  <2>2. x \in 0 .. w - 1
    BY <1>1, <1>2, <2>1
  <2>3. x \div s = c
    <3> HIDE DEF x
    <3> QED BY <1>2 DEF x
  <2> QED BY <1>3, <2>1, <2>2, <2>3
<1>6. {Slice(x, w) : x \in 0 .. w - 1} = 0 .. 7
  BY <1>4, <1>5
<1>7. ASSUME NEW x \in 0 .. w - 2
      PROVE  Slice(x + 1, w) - Slice(x, w) \in {0, 1}
  <2>1. x \in Nat /\ x + 1 \in Nat
    BY <1>1
  <2>2. (x + 1) \div s - x \div s \in {0, 1}
    BY <1>2, <2>1
  <2> QED BY <1>3, <2>1, <2>2
<1>8. ASSUME NEW y \in 0 .. h - 1
      PROVE  Shade(255, y, h) = (255 * (h - 1 - y)) \div h
             /\ (255 * (h - 1 - y)) \div h \in 0 .. 255
  <2>1. (255 * (h - 1 - y)) \div h \in 0 .. 255
    BY <1>1
  <2> QED BY <2>1 DEF Shade, InByte
<1>9. ASSUME NEW y \in 0 .. h - 2
      PROVE  Shade(255, y, h) >= Shade(255, y + 1, h)
  <2>1. (255 * (h - 1 - y)) \div h >= (255 * (h - 1 - (y + 1))) \div h
    BY <1>1
  <2> QED BY <1>1, <1>8, <2>1
<1>10. Shade(255, h - 1, h) = 0
  BY <1>1, <1>8
<1> QED BY <1>6, <1>7, <1>9, <1>10 DEF TestImageHasAllColours, w, h

(* Images of two sizes.                                                    *)
AnyAlpha == [about : {"alpha"}, n : Nat, m : Nat]

(* A fourth number behind three.                                           *)
LEMMA FourthAppended ==
  ASSUME NEW a \in Int, NEW b \in Int, NEW c \in Int, NEW d \in Int
  PROVE  Append(<<a, b, c>>, d) = <<a, b, c, d>>
<1> DEFINE s == <<a, b, c>>
           t == Append(s, d)
<1>1. s \in Seq(Int) /\ Len(s) = 3 /\ s[1] = a /\ s[2] = b /\ s[3] = c
  OBVIOUS
<1>2. /\ t \in Seq(Int) /\ Len(t) = 4 /\ t[4] = d
      /\ t[1] = s[1] /\ t[2] = s[2] /\ t[3] = s[3]
  BY <1>1
<1> HIDE DEF s, t
<1>3. t = [i \in 1 .. 4 |-> t[i]]
  BY <1>2
<1>4. <<a, b, c, d>> = [i \in 1 .. 4 |-> <<a, b, c, d>>[i]]
  OBVIOUS
<1>5. \A i \in 1 .. 4 : i = 1 \/ i = 2 \/ i = 3 \/ i = 4
  OBVIOUS
<1>6. \A i \in 1 .. 4 : t[i] = <<a, b, c, d>>[i]
  BY <1>1, <1>2, <1>5
<1> QED BY <1>3, <1>4, <1>6 DEF t, s

(* The first three numbers of four.                                        *)
LEMMA FirstThree ==
  ASSUME NEW a \in Int, NEW b \in Int, NEW c \in Int, NEW d \in Int
  PROVE  SubSeq(<<a, b, c, d>>, 1, 3) = <<a, b, c>>
<1> DEFINE s == <<a, b, c, d>>
           t == SubSeq(s, 1, 3)
<1>1. s \in Seq(Int) /\ Len(s) = 4 /\ s[1] = a /\ s[2] = b /\ s[3] = c
  OBVIOUS
<1>2. t = [i \in 1 .. 3 |-> s[i]]
  BY <1>1
<1> HIDE DEF s, t
<1>3. <<a, b, c>> = [i \in 1 .. 3 |-> <<a, b, c>>[i]]
  OBVIOUS
<1>4. \A i \in 1 .. 3 : i = 1 \/ i = 2 \/ i = 3
  OBVIOUS
<1>5. \A i \in 1 .. 3 : s[i] = <<a, b, c>>[i]
  BY <1>1, <1>4
<1> QED BY <1>2, <1>3, <1>5 DEF t, s

(* For images of any two sizes: setting the colours and setting the alpha  *)
(* channel do not disturb each other.                                      *)
LEMMA AlphaIsApart == ASSUME input \in AnyAlpha PROVE AlphaAndColoursApart
<1> DEFINE n == input.n
           m == input.m
           rgb == [i \in 1 .. n |-> <<i, 2 * i, 60 * i>>]
           zero == [i \in 1 .. n |-> 0]
           grey == convertToGrey(rgb, zero)
           rgba == [i \in 1 .. m |-> <<7, 8, 9, 10 + i>>]
<1>1. n \in Nat /\ m \in Nat
  BY DEF AnyAlpha
<1> HIDE DEF n, m
<1>0. ASSUME NEW i \in 1 .. m
      PROVE  /\ i \in Int /\ 2 * i \in Int /\ 60 * i \in Int
             /\ 21 * i \in Int /\ 10 + i \in Int
             /\ 7 \in Int /\ 8 \in Int /\ 9 \in Int
  BY <1>1
<1>2. /\ Len(rgb) = n /\ DOMAIN rgb = 1 .. n
      /\ Len(zero) = n /\ DOMAIN zero = 1 .. n
      /\ Len(rgba) = m /\ DOMAIN rgba = 1 .. m
  BY <1>1
<1>3. grey = [i \in 1 .. n |-> 21 * i]
  <2>1. grey = [i \in 1 .. n |-> getIntensity(rgb[i])]
    BY <1>2 DEF convertToGrey, PixelByPixel
  <2>2. ASSUME NEW i \in 1 .. n PROVE getIntensity(rgb[i]) = 21 * i
    <3>1. rgb[i][1] = i /\ rgb[i][2] = 2 * i /\ rgb[i][3] = 60 * i
      OBVIOUS
    <3>2. (i + 2 * i + 60 * i) \div 3 = 21 * i
      BY <1>1
    <3> QED BY <3>1, <3>2 DEF getIntensity
  <2> HIDE DEF grey, rgb
  <2> QED BY <2>1, <2>2
<1>4. Len(grey) = n /\ DOMAIN grey = 1 .. n
  BY <1>1, <1>3
<1> HIDE DEF grey
<1> DEFINE coloured == [i \in 1 .. m |-> <<i, 2 * i, 60 * i, 10 + i>>]
           seen == [i \in 1 .. m |-> <<7, 8, 9, 21 * i>>]
           both == [i \in 1 .. m |-> <<i, 2 * i, 60 * i, 21 * i>>]
<1>5. ASSUME m = n PROVE RGBAsetRGB(rgb, rgba) = coloured
  <2>1. RGBAsetRGB(rgb, rgba) = [i \in 1 .. m |-> Append(rgb[i], rgba[i][4])]
    BY <1>2, <1>5 DEF RGBAsetRGB, PixelByPixel
  <2>2. ASSUME NEW i \in 1 .. m
        PROVE  Append(rgb[i], rgba[i][4]) = <<i, 2 * i, 60 * i, 10 + i>>
    <3>1. rgb[i] = <<i, 2 * i, 60 * i>> /\ rgba[i] = <<7, 8, 9, 10 + i>>
      BY <1>5
    <3>2. rgba[i][4] = 10 + i
      BY <3>1
    <3>3. Append(<<i, 2 * i, 60 * i>>, 10 + i) = <<i, 2 * i, 60 * i, 10 + i>>
      BY <1>0, FourthAppended
    <3> QED BY <3>1, <3>2, <3>3
  <2> QED BY <2>1, <2>2
<1>6. ASSUME m = n PROVE RGBAsetAlpha(grey, rgba) = seen
  <2>1. RGBAsetAlpha(grey, rgba)
           = [i \in 1 .. m |-> Append(SubSeq(rgba[i], 1, 3), grey[i])]
    BY <1>2, <1>4, <1>6 DEF RGBAsetAlpha, PixelByPixel
  <2>2. ASSUME NEW i \in 1 .. m
        PROVE  Append(SubSeq(rgba[i], 1, 3), grey[i]) = <<7, 8, 9, 21 * i>>
    <3>1. rgba[i] = <<7, 8, 9, 10 + i>> /\ grey[i] = 21 * i
      BY <1>3, <1>6
    <3>2. SubSeq(<<7, 8, 9, 10 + i>>, 1, 3) = <<7, 8, 9>>
      BY <1>0, FirstThree
    <3>3. Append(<<7, 8, 9>>, 21 * i) = <<7, 8, 9, 21 * i>>
      BY <1>0, FourthAppended
    <3> QED BY <3>1, <3>2, <3>3
  <2> QED BY <2>1, <2>2
<1>7. ASSUME m = n PROVE RGBAsetAlpha(grey, coloured) = both
  <2>0. Len(coloured) = m /\ DOMAIN coloured = 1 .. m
    BY <1>1
  <2>1. RGBAsetAlpha(grey, coloured)
           = [i \in 1 .. m |-> Append(SubSeq(coloured[i], 1, 3), grey[i])]
    BY <1>4, <1>7, <2>0 DEF RGBAsetAlpha, PixelByPixel
  <2>2. ASSUME NEW i \in 1 .. m
        PROVE  Append(SubSeq(coloured[i], 1, 3), grey[i])
                  = <<i, 2 * i, 60 * i, 21 * i>>
    <3>1. coloured[i] = <<i, 2 * i, 60 * i, 10 + i>> /\ grey[i] = 21 * i
      BY <1>3, <1>7
    <3>2. SubSeq(<<i, 2 * i, 60 * i, 10 + i>>, 1, 3) = <<i, 2 * i, 60 * i>>
      BY <1>0, FirstThree
    <3>3. Append(<<i, 2 * i, 60 * i>>, 21 * i) = <<i, 2 * i, 60 * i, 21 * i>>
      BY <1>0, FourthAppended
    <3> QED BY <3>1, <3>2, <3>3
  <2> QED BY <2>1, <2>2
<1>8. ASSUME m = n PROVE RGBAsetRGB(rgb, seen) = both
  <2>0. Len(seen) = m /\ DOMAIN seen = 1 .. m
    BY <1>1
  <2>1. RGBAsetRGB(rgb, seen) = [i \in 1 .. m |-> Append(rgb[i], seen[i][4])]
    BY <1>2, <1>8, <2>0 DEF RGBAsetRGB, PixelByPixel
  <2>2. ASSUME NEW i \in 1 .. m
        PROVE  Append(rgb[i], seen[i][4]) = <<i, 2 * i, 60 * i, 21 * i>>
    <3>1. rgb[i] = <<i, 2 * i, 60 * i>> /\ seen[i] = <<7, 8, 9, 21 * i>>
      BY <1>8
    <3>2. seen[i][4] = 21 * i
      BY <3>1
    <3>3. Append(<<i, 2 * i, 60 * i>>, 21 * i) = <<i, 2 * i, 60 * i, 21 * i>>
      BY <1>0, FourthAppended
    <3> QED BY <3>1, <3>2, <3>3
  <2> QED BY <2>1, <2>2
<1>9. ASSUME m # n
      PROVE  RGBAsetRGB(rgb, rgba) = rgba /\ RGBAsetAlpha(grey, rgba) = rgba
  BY <1>2, <1>4, <1>9 DEF RGBAsetRGB, RGBAsetAlpha, PixelByPixel
<1>10. ASSUME m = n, NEW i \in 1 .. m
       PROVE  /\ RGBAsetRGB(rgb, rgba)[i] = Append(rgb[i], 10 + i)
              /\ RGBAsetAlpha(grey, rgba)[i] = <<7, 8, 9, 21 * i>>
  <2>1. rgb[i] = <<i, 2 * i, 60 * i>>
    BY <1>10
  <2>2. Append(<<i, 2 * i, 60 * i>>, 10 + i) = <<i, 2 * i, 60 * i, 10 + i>>
    BY <1>0, FourthAppended
  <2>3. coloured[i] = <<i, 2 * i, 60 * i, 10 + i>> /\ seen[i] = <<7, 8, 9, 21 * i>>
    BY <1>10
  <2> QED BY <1>5, <1>6, <1>10, <2>1, <2>2, <2>3
<1>11. RGBAsetAlpha(grey, RGBAsetRGB(rgb, rgba))
          = RGBAsetRGB(rgb, RGBAsetAlpha(grey, rgba))
  <2> HIDE DEF coloured, seen, both, rgb, rgba
  <2> QED BY <1>5, <1>6, <1>7, <1>8, <1>9
<1> QED
  <2> HIDE DEF coloured, seen, both
  <2> QED BY <1>9, <1>10, <1>11 DEF AlphaAndColoursApart, grey, n, m

(* A place in memory and the two bytes of a 16-bit pixel.                  *)
AnyOrder == [about : {"order"}, n : Nat, high : Byte, low : Byte]

(* The byte with which a byte of an RGB pixel changes places.              *)
LEMMA ThreeBytes ==
  ASSUME NEW i \in Nat
  PROVE  LET j == 3 * (i \div 3) + 2 - (i % 3)
         IN  /\ j \in Nat /\ j \div 3 = i \div 3
             /\ (j = i <=> i % 3 = 1)
             /\ 3 * (j \div 3) + 2 - (j % 3) = i
OBVIOUS

(* For any byte of a picture: turned around twice, it is where it was.     *)
LEMMA OrdersAreTurned == ASSUME input \in AnyOrder PROVE ByteOrders
<1> DEFINE n == input.n
           high == input.high
           low == input.low
           to(i) == 3 * (i \div 3) + 2 - (i % 3)
<1>1. n \in Nat /\ high \in Byte /\ low \in Byte
  BY DEF AnyOrder
<1> HIDE DEF n, high, low
<1>2. ASSUME NEW i \in 0 .. 3 * n - 1
      PROVE  /\ Reversed(n)[i] \div 3 = i \div 3
             /\ Reversed(n)[i] = i <=> i % 3 = 1
             /\ Reversed(n)[Reversed(n)[i]] = i
             /\ HighBytes(n)[i] \in {2 * i} \cap (0 .. 6 * n - 1)
  <2>1. i \in Nat
    BY <1>1
  <2>2. /\ to(i) \in Nat /\ to(i) \div 3 = i \div 3
        /\ (to(i) = i <=> i % 3 = 1)
        /\ to(to(i)) = i
    BY <2>1, ThreeBytes
  <2>3. to(i) \in 0 .. 3 * n - 1
    BY <1>1, <2>1
  <2>4. Reversed(n)[i] = to(i) /\ Reversed(n)[to(i)] = to(to(i))
    <3>1. Reversed(n) = [j \in 0 .. 3 * n - 1 |-> to(j)]
      BY DEF Reversed
    <3> HIDE DEF to
    <3> QED BY <2>3, <3>1
  <2>5. HighBytes(n)[i] = 2 * i /\ 2 * i \in 0 .. 6 * n - 1
    BY <1>1 DEF HighBytes
  <2> HIDE DEF to
  <2> QED BY <2>2, <2>4, <2>5
<1>3. Grey16(high, low, 16) = high
  <2>1. 2 ^ (16 - 8) = 256
    OBVIOUS
  <2>2. ((low + high * 256) \div 256) % 256 = high
    BY <1>1 DEF Byte
  <2> QED BY <2>1, <2>2 DEF Grey16
<1>4. high < 4 => Grey16(high, low, 10) = high * 64 + low \div 4
  <2>1. 2 ^ (10 - 8) = 4
    OBVIOUS
  <2>2. high < 4 => ((low + high * 256) \div 4) % 256 = high * 64 + low \div 4
    BY <1>1 DEF Byte
  <2> QED BY <2>1, <2>2 DEF Grey16
<1> QED BY <1>2, <1>3, <1>4 DEF ByteOrders, n, high, low

(* Any of the layouts of files, with any number of pixels.                 *)
AnyFileBytes == [about : {"file bytes"}, name : DOMAIN FileLayouts, n : Nat]

(* A byte and its place in the pixel it belongs to.                        *)
LEMMA PlaceOfByte ==
  ASSUME NEW k \in {3, 4}, NEW b \in Nat
  PROVE  /\ (b % k) + 1 \in 1 .. k /\ b \div k \in Nat
         /\ (b \div k) * k + ((b % k) + 1) - 1 = b
<1>1. CASE k = 3
  BY <1>1
<1>2. CASE k = 4
  BY <1>2
<1> QED BY <1>1, <1>2

(* Each layout of a file names each channel once.                          *)
LEMMA OrdersOfChannels ==
  ASSUME NEW name \in DOMAIN FileLayouts
  PROVE  LET order == CopyLayouts[name].order
         IN  /\ Len(order) \in {3, 4} /\ CopyLayouts[name].step = Len(order)
             /\ DOMAIN order = 1 .. Len(order)
             /\ \A p, q \in DOMAIN order : order[p] = order[q] => p = q
<1>1. DOMAIN FileLayouts = {"ARGBtoRGB", "ARGBtoRGBA", "BGRAtoRGBA", "BGRAtoRGB",
                            "BGRtoRGB", "BGRtoRGBA", "RGBtoRGBA"}
  BY DEF FileLayouts
<1>2. /\ CopyLayouts[name].step = IF name \in {"BGRtoRGB", "BGRtoRGBA", "RGBtoRGBA"} THEN 3 ELSE 4
      /\ CopyLayouts[name].order \in
            IF name \in {"BGRtoRGB", "BGRtoRGBA", "RGBtoRGBA"}
            THEN {<<"b", "g", "r">>, <<"r", "g", "b">>}
            ELSE {<<"a", "r", "g", "b">>, <<"b", "g", "r", "a">>}
  BY <1>1 DEF CopyLayouts, FileLayouts
<1>3. ASSUME NEW o \in {<<"b", "g", "r">>, <<"r", "g", "b">>}
      PROVE  Len(o) = 3 /\ DOMAIN o = 1 .. 3
             /\ \A p, q \in 1 .. 3 : o[p] = o[q] => p = q
  <2>1. \A p \in 1 .. 3 : p = 1 \/ p = 2 \/ p = 3
    OBVIOUS
  <2>2. o[1] # o[2] /\ o[2] # o[3] /\ o[1] # o[3]
    OBVIOUS
  <2> QED BY <2>1, <2>2
<1>4. ASSUME NEW o \in {<<"a", "r", "g", "b">>, <<"b", "g", "r", "a">>}
      PROVE  Len(o) = 4 /\ DOMAIN o = 1 .. 4
             /\ \A p, q \in 1 .. 4 : o[p] = o[q] => p = q
  <2>1. \A p \in 1 .. 4 : p = 1 \/ p = 2 \/ p = 3 \/ p = 4
    OBVIOUS
  <2>2. /\ o[1] # o[2] /\ o[2] # o[3] /\ o[1] # o[3]
        /\ o[1] # o[4] /\ o[2] # o[4] /\ o[3] # o[4]
    OBVIOUS
  <2> QED BY <2>1, <2>2
<1> QED BY <1>2, <1>3, <1>4

(* For files of any size: every byte goes to the one channel it is for.    *)
LEMMA BytesAreInPlace == ASSUME input \in AnyFileBytes PROVE FileBytesInPlace
<1> DEFINE name == input.name
           order == CopyLayouts[name].order
           k == Len(order)
<1>1. name \in DOMAIN FileLayouts /\ input.n \in Nat
  BY DEF AnyFileBytes
<1>2. /\ k \in {3, 4} /\ CopyLayouts[name].step = k /\ DOMAIN order = 1 .. k
      /\ \A p, q \in DOMAIN order : order[p] = order[q] => p = q
  BY <1>1, OrdersOfChannels
<1>3. ASSUME NEW b \in 0 .. k * input.n - 1
      PROVE  CopiedPixel(name, b \div k)[order[(b % k) + 1]] = b
  <2> DEFINE p == (b % k) + 1
             i == b \div k
             c == order[p]
  <2> HIDE DEF k, order, name
  <2>1. b \in Nat
    BY <1>1, <1>2
  <2>2. p \in 1 .. k /\ i \in Nat /\ i * k + p - 1 = b
    BY <1>2, <2>1, PlaceOfByte
  <2> HIDE DEF p, i
  <2>3. p \in DOMAIN order
    BY <1>2, <2>2
  <2>4. c \in ToSet(order)
    BY <2>3 DEF ToSet
  <2>5. (CHOOSE q \in DOMAIN order : order[q] = c) = p
    BY <1>2, <2>3
  <2>6. CopiedPixel(name, i)[c] = i * CopyLayouts[name].step
           + (CHOOSE q \in DOMAIN order : order[q] = c) - 1
    BY <2>4 DEF CopiedPixel, order
  <2>7. CopiedPixel(name, i)[c] = i * k + p - 1
    BY <1>2, <2>5, <2>6
  <2> QED BY <2>2, <2>7 DEF p, i
<1> QED BY <1>3 DEF FileBytesInPlace

(* A picture of two pixels of any colours, and any threshold.              *)
AnyBinarized == [about : {"binarize"}, p : Rgb, q : Rgb, most : Byte]

(* Two colours as a picture.                                               *)
LEMMA PairOfColours ==
  ASSUME NEW p \in Rgb, NEW q \in Rgb
  PROVE  /\ <<p, q>> \in Seq(Rgb) /\ Len(<<p, q>>) = 2 /\ DOMAIN <<p, q>> = 1 .. 2
         /\ <<p, q>>[1] = p /\ <<p, q>>[2] = q
OBVIOUS

(* For any colours and any threshold: compared together or each channel on *)
(* its own, grey comes out the same.                                       *)
LEMMA BinarizedTheSame == ASSUME input \in AnyBinarized PROVE ThresholdsAgree
<1> DEFINE p == input.p
           q == input.q
           most == input.most
           image == <<p, q>>
           grey == convertToIntensity(image)
           black == binarizeGreyImage(grey, most)
           Each(t) == [c \in 1 .. 3 |-> t]
           mixed == <<most, 0, 254>>
           channels == binarizeChanneledImage(image, mixed)
<1>1. p \in Rgb /\ q \in Rgb /\ most \in Byte
  BY DEF AnyBinarized
<1> HIDE DEF p, q, most
<1>2. /\ image \in Seq(Rgb) /\ Len(image) = 2 /\ DOMAIN image = 1 .. 2
      /\ image[1] = p /\ image[2] = q
  BY <1>1, PairOfColours
<1> HIDE DEF image
<1>3. /\ convertToIntensity(grey) = grey
      /\ black = binarizeChanneledImage(grey, Each(most))
      /\ most < 255 => binarizeGreyImage(black, most) = black
      /\ \A i \in DOMAIN image : \A c \in 1 .. 3 :
            black[i][c] = IF image[i][1] + image[i][2] + image[i][3]
                                >= 3 * (most + 1) THEN 255 ELSE 0
  BY <1>1, <1>2, GreyIsThresholded
<1>4. /\ grey = [i \in 1 .. 2 |-> Each(getIntensity(image[i]))]
      /\ DOMAIN grey = 1 .. 2
  BY <1>2 DEF convertToIntensity
<1> HIDE DEF grey
<1>5. black = [i \in 1 .. 2 |-> Each(Binary(grey[i][1], most))]
  BY <1>4 DEF binarizeGreyImage
<1> HIDE DEF black
<1>6. ASSUME NEW i \in 1 .. 2
      PROVE  black[i] = Each(255)
                <=> image[i][1] + image[i][2] + image[i][3] >= 3 * (most + 1)
  <2> DEFINE bright == image[i][1] + image[i][2] + image[i][3] >= 3 * (most + 1)
  <2>1. black[i] = Each(Binary(grey[i][1], most))
    BY <1>5
  <2>2. black[i][1] = IF bright THEN 255 ELSE 0
    BY <1>2, <1>3
  <2>3. black[i][1] = Binary(grey[i][1], most)
    BY <2>1
  <2>4. Each(255)[1] = 255
    OBVIOUS
  <2> HIDE DEF bright
  <2>5. bright => black[i] = Each(255)
    BY <2>1, <2>2, <2>3
  <2>6. ~bright => black[i][1] = 0
    BY <2>2
  <2>7. ~bright => black[i] # Each(255)
    BY <2>4, <2>6
  <2> QED BY <2>5, <2>7 DEF bright
<1>7. ASSUME NEW i \in 1 .. 2, NEW c \in 1 .. 3
      PROVE  (channels[i][c] = 255) = (image[i][c] > mixed[c])
  <2>1. channels[i][c] = Binary(image[i][c], mixed[c])
    BY <1>2 DEF binarizeChanneledImage
  <2> QED BY <2>1 DEF Binary
<1>8. convertToGrey(image, <<0, 0>>) = <<grey[1][1], grey[2][1]>>
  <2>1. grey[1][1] = getIntensity(image[1]) /\ grey[2][1] = getIntensity(image[2])
    BY <1>4
  <2> DEFINE zero == <<0, 0>>
             level(i) == getIntensity(image[i])
  <2>2. Len(zero) = 2 /\ DOMAIN zero = 1 .. 2
    OBVIOUS
  <2> HIDE DEF zero
  <2>3. convertToGrey(image, zero) = [i \in 1 .. 2 |-> level(i)]
    BY <1>2, <2>2 DEF convertToGrey, PixelByPixel
  <2> HIDE DEF level
  <2>4. [i \in 1 .. 2 |-> level(i)] = <<level(1), level(2)>>
    <3>1. <<level(1), level(2)>> = [i \in 1 .. 2 |-> <<level(1), level(2)>>[i]]
      OBVIOUS
    <3>2. \A i \in 1 .. 2 : i = 1 \/ i = 2
      OBVIOUS
    <3>3. \A i \in 1 .. 2 : <<level(1), level(2)>>[i] = level(i)
      BY <3>2
    <3> QED BY <3>1, <3>3
  <2> QED BY <2>1, <2>3, <2>4 DEF level, zero
<1>9. convertToIntensity(fillColor(image, grey[1])) = fillColor(grey, grey[1])
  <2> DEFINE first == grey[1]
  <2>1. first = Each(getIntensity(image[1]))
    BY <1>4
  <2>2. fillColor(image, first) = [i \in 1 .. 2 |-> first]
        /\ fillColor(grey, first) = [i \in 1 .. 2 |-> first]
    BY <1>2, <1>4 DEF fillColor
  <2>3. convertToIntensity([i \in 1 .. 2 |-> first])
          = [i \in 1 .. 2 |-> Each(getIntensity(first))]
    BY DEF convertToIntensity
  <2>4. Each(getIntensity(first)) = first
    <3>1. convertToIntensity(grey)[1] = Each(getIntensity(grey[1]))
      BY <1>4 DEF convertToIntensity
    <3>2. convertToIntensity(grey)[1] = grey[1]
      BY <1>3
    <3> QED BY <3>1, <3>2
  <2> HIDE DEF first, Each
  <2> QED BY <2>2, <2>3, <2>4 DEF first
<1> HIDE DEF channels, Each
<1> QED BY <1>3, <1>6, <1>7, <1>8, <1>9
        DEF ThresholdsAgree, grey, image, black, channels, Each, p, q, most

(* Any area, also one beside the source.                                   *)
AnyRect == [about : {"rect"}, x : Int, y : Int, w : Int, h : Int]

(* For any area: the part copyFromRectArea() reads of a picture is the     *)
(* area, cut at the edges of the picture.                                  *)
LEMMA RectIsCut == ASSUME input \in AnyRect PROVE RectIsCopied
<1> DEFINE x == input.x
           y == input.y
           w == input.w
           h == input.h
           source == Blank(4, 3, 0)
           r == RectArea(source, x, y, w, h)
           sources == RectSources(source, x, y, w, h)
           Cut(at, size, limit) ==
                {n \in Max2(at, 0) .. Max2(at, 0) + size - 1 : n < limit}
           Columns == Cut(x, w, 4)
           Rows == Cut(y, h, 3)
<1>1. x \in Int /\ y \in Int /\ w \in Int /\ h \in Int
  BY DEF AnyRect
<1>2. source.width = 4 /\ source.height = 3
  BY DEF Blank
<1> HIDE DEF x, y, w, h, source
<1>3. /\ r[1] \in Nat /\ r[2] \in Nat /\ r[3] \in Nat /\ r[4] \in Nat
      /\ r[3] # 0 => r[1] + r[3] <= 4
      /\ r[4] # 0 => r[2] + r[4] <= 3
      /\ r[3] = 0 <=> r[4] = 0
  BY <1>1, <1>2 DEF RectArea
<1>4. CASE r[3] = 0
  <2>1. r[4] = 0 /\ r[3] * r[4] = 0
    BY <1>3, <1>4
  <2>2. Columns = {} \/ Rows = {}
    BY <1>1, <1>2, <1>4 DEF RectArea, Max2
  <2>3. Columns \X Rows = {}
    BY <2>2
  <2>4. Cardinality(Columns \X Rows) = 0
    BY <2>3, FS_EmptySet
  <2>5. DOMAIN sources = {}
    BY <2>1 DEF RectSources
  <2> HIDE DEF sources, r, Columns, Rows
  <2> QED BY <2>1, <2>3, <2>4, <2>5 DEF RectIsCopied, sources, r, Columns, Rows, source, x, y, w, h
<1>5. CASE r[3] # 0
  <2>1. r[4] # 0 /\ r[1] + r[3] <= 4 /\ r[2] + r[4] <= 3
    BY <1>3, <1>5
  <2>2. Columns = r[1] .. r[1] + r[3] - 1 /\ Rows = r[2] .. r[2] + r[4] - 1
    BY <1>1, <1>2, <1>5 DEF RectArea, Max2
  <2>3. Cardinality(Columns \X Rows) = r[3] * r[4]
    <3> DEFINE a == r[1]
               b == r[2]
               c == r[1] + r[3] - 1
               d == r[2] + r[4] - 1
    <3>1. a \in Int /\ b \in Int /\ c \in Int /\ d \in Int
          /\ a <= c /\ b <= d /\ c - a + 1 = r[3] /\ d - b + 1 = r[4]
      BY <1>3, <1>5, <2>1
    <3> HIDE DEF a, b, c, d, r
    <3>2. /\ IsFiniteSet(a .. c) /\ IsFiniteSet(b .. d)
          /\ Cardinality(a .. c) = IF a > c THEN 0 ELSE c - a + 1
          /\ Cardinality(b .. d) = IF b > d THEN 0 ELSE d - b + 1
      BY <3>1, FS_Interval, Zenon
    <3>3. Cardinality(a .. c) = r[3] /\ Cardinality(b .. d) = r[4]
      BY <3>1, <3>2
    <3>4. Cardinality((a .. c) \X (b .. d))
             = Cardinality(a .. c) * Cardinality(b .. d)
      BY <3>2, FS_Product, Zenon
    <3>5. Cardinality((a .. c) \X (b .. d)) = r[3] * r[4]
      BY <3>3, <3>4
    <3> QED BY <2>2, <3>5 DEF a, b, c, d
  <2>4. /\ \A n \in 0 .. r[3] - 1, m \in 0 .. r[4] - 1 :
              sources[r[3] * m + n] = 4 * (r[2] + m) + (r[1] + n)
        /\ DOMAIN sources = 0 .. r[3] * r[4] - 1
    <3>1. /\ source.width \in Nat /\ source.height \in Nat
      BY <1>2
    <3>2. DOMAIN sources = 0 .. r[3] * r[4] - 1
      BY DEF RectSources
    <3>3. \A n \in 0 .. r[3] - 1, m \in 0 .. r[4] - 1 :
              sources[r[3] * m + n] = source.width * (r[2] + m) + (r[1] + n)
      BY <1>1, <3>1, RectIsRead
    <3> QED BY <1>2, <3>2, <3>3
  <2> HIDE DEF sources, r, Columns, Rows
  <2>5. ASSUME NEW n \in 0 .. r[3] - 1, NEW m \in 0 .. r[4] - 1
        PROVE  r[3] * m + n \in DOMAIN sources
    <3>1. r[3] * m + n \in 0 .. r[3] * r[4] - 1
      BY <1>3, PlaceInMemory
    <3> QED BY <2>4, <3>1
  <2>6. ASSUME NEW i \in DOMAIN sources
        PROVE  \E n \in 0 .. r[3] - 1, m \in 0 .. r[4] - 1 : i = r[3] * m + n
    <3>0. i \in 0 .. r[3] * r[4] - 1
      BY <2>4
    <3>9. r[3] \in 1 .. 4 /\ r[4] \in 1 .. 3
      BY <1>3, <1>5, <2>1
    <3>1. r[3] \in 1 .. 4 /\ r[4] \in 1 .. 3 /\ i \in 0 .. r[3] * r[4] - 1
      BY <3>0, <3>9
    <3>2. /\ i % r[3] \in 0 .. r[3] - 1 /\ i \div r[3] \in Nat
          /\ i = r[3] * (i \div r[3]) + (i % r[3])
      <4>1. i \in Nat /\ r[3] \in Nat \ {0}
        BY <3>1
      <4> QED BY <4>1, Divided
    <3>3. i \div r[3] <= r[4] - 1
      <4> DEFINE m == i \div r[3]
                 n == i % r[3]
                 k == r[3]
                 l == r[4]
      <4>1. k \in 1 .. 4 /\ l \in 1 .. 3 /\ m \in Nat /\ n \in Nat
            /\ i = k * m + n /\ i <= k * l - 1
        BY <3>1, <3>2
      <4> HIDE DEF m, n, k, l
      <4>2. k = 1 \/ k = 2 \/ k = 3 \/ k = 4
        BY <4>1
      <4>3. m <= l - 1
        BY <4>1, <4>2
      <4> QED BY <4>3 DEF m, l
    <3> QED BY <3>1, <3>2, <3>3
  <2>7. {sources[i] : i \in DOMAIN sources}
           = {4 * p[2] + p[1] : p \in Columns \X Rows}
    <3>1. ASSUME NEW i \in DOMAIN sources
          PROVE  \E p \in Columns \X Rows : sources[i] = 4 * p[2] + p[1]
      <4>1. PICK n \in 0 .. r[3] - 1, m \in 0 .. r[4] - 1 : i = r[3] * m + n
        BY <2>6
      <4>2. sources[i] = 4 * (r[2] + m) + (r[1] + n)
        BY <2>4, <4>1
      <4>3. r[1] + n \in Columns /\ r[2] + m \in Rows
        <5>1. r[1] + n \in r[1] .. r[1] + r[3] - 1
          BY <1>3
        <5>2. r[2] + m \in r[2] .. r[2] + r[4] - 1
          BY <1>3
        <5> QED BY <2>2, <5>1, <5>2
      <4>4. <<r[1] + n, r[2] + m>> \in Columns \X Rows
        BY <4>3
      <4> QED BY <4>2, <4>4
    <3>2. ASSUME NEW p \in Columns \X Rows
          PROVE  \E i \in DOMAIN sources : sources[i] = 4 * p[2] + p[1]
      <4>1. p[1] \in Columns /\ p[2] \in Rows
        OBVIOUS
      <4> DEFINE n == p[1] - r[1]
                 m == p[2] - r[2]
      <4>2. n \in 0 .. r[3] - 1 /\ m \in 0 .. r[4] - 1
            /\ r[1] + n = p[1] /\ r[2] + m = p[2]
        <5>1. p[1] \in r[1] .. r[1] + r[3] - 1 /\ p[2] \in r[2] .. r[2] + r[4] - 1
          BY <2>2, <4>1
        <5> QED BY <1>3, <5>1
      <4> HIDE DEF n, m
      <4>3. sources[r[3] * m + n] = 4 * (r[2] + m) + (r[1] + n)
        BY <2>4, <4>2
      <4> QED BY <2>5, <4>2, <4>3
    <3> QED BY <3>1, <3>2
  <2>8. ASSUME NEW i \in DOMAIN sources, NEW j \in DOMAIN sources, i < j
        PROVE  sources[i] < sources[j]
    <3>1. PICK n \in 0 .. r[3] - 1, m \in 0 .. r[4] - 1 : i = r[3] * m + n
      BY <2>6
    <3>2. PICK v \in 0 .. r[3] - 1, u \in 0 .. r[4] - 1 : j = r[3] * u + v
      BY <2>6
    <3>3. /\ sources[i] = 4 * (r[2] + m) + (r[1] + n)
          /\ sources[j] = 4 * (r[2] + u) + (r[1] + v)
      BY <2>4, <3>1, <3>2
    <3>4. r[3] \in 1 .. 4 /\ r[4] \in Nat /\ r[1] \in Nat /\ r[2] \in Nat
      BY <1>3, <1>5, <2>1
    <3>5. r[3] = 1 \/ r[3] = 2 \/ r[3] = 3 \/ r[3] = 4
      BY <3>4
    <3>6. m < u \/ (m = u /\ n < v)
      BY <2>8, <3>1, <3>2, <3>4, <3>5
    <3> QED BY <3>3, <3>4, <3>6
  <2> QED BY <2>3, <2>7, <2>8
          DEF RectIsCopied, sources, r, Columns, Rows, source, x, y, w, h
<1> QED BY <1>4, <1>5

(* Any line, fat line or box, also one beside the image.                   *)
AnyDrawing == [about : {"draw"}, shape : {"line", "fat line", "box"},
               x : Int, y : Int, u : Int, v : Int]

(* The points of a line have whole coordinates.                            *)
LEMMA WholePoints ==
  ASSUME NEW x0 \in Int, NEW y0 \in Int, NEW n \in Nat, NEW f,
         NEW ax \in Nat, NEW ay \in Nat, NEW sx \in Int, NEW sy \in Int,
         IsDrawn(f, n, LineStart(x0, y0, ax, ay), ax, ay, sx, sy)
  PROVE  \A k \in 0 .. n : /\ f[k].at \in Int \X Int /\ f[k].dec \in Int
<1> DEFINE Whole(k) == f[k].at \in Int \X Int /\ f[k].dec \in Int
           Off == {k \in 0 .. n : ~Whole(k)}
<1>1. SUFFICES ASSUME Off # {} PROVE FALSE
  OBVIOUS
<1> HIDE DEF Whole
<1>2. PICK k \in Off : \A j \in Off : k <= j
  <2>1. Off \subseteq Nat
    OBVIOUS
  <2> QED BY <1>1, <2>1, LeastNatural
<1>3. k \in 0 .. n /\ ~Whole(k) /\ \A j \in 0 .. n : j < k => Whole(j)
  BY <1>2
<1>4. CASE k = 0
  <2>1. f[0] = LineStart(x0, y0, ax, ay)
    BY DEF IsDrawn
  <2>2. Whole(0)
    BY <2>1 DEF Whole, LineStart
  <2> QED BY <1>3, <1>4, <2>2
<1>5. CASE k # 0
  <2>0. Whole(k - 1)
    BY <1>3, <1>5
  <2>1. f[k] = LineStep(f[k - 1], ax, ay, sx, sy)
    BY <1>3, <1>5 DEF IsDrawn
  <2> DEFINE p == f[k - 1].at[1]
             q == f[k - 1].at[2]
             d == f[k - 1].dec
  <2>2. p \in Int /\ q \in Int /\ d \in Int
    BY <2>0 DEF Whole
  <2>3. \E a, b \in Int : f[k].at = [i \in 1 .. 2 |-> IF i = 1 THEN a ELSE b]
    <3> DEFINE turn == d >= 0
               long == IF ay <= ax THEN <<sx, 0>> ELSE <<0, sy>>
               short == IF ay <= ax THEN <<0, sy>> ELSE <<sx, 0>>
               a == p + long[1] + IF turn THEN short[1] ELSE 0
               b == q + long[2] + IF turn THEN short[2] ELSE 0
    <3>1. a \in Int /\ b \in Int
      BY <2>2
    <3>2. f[k].at = [i \in 1 .. 2 |-> f[k - 1].at[i] + long[i]
                                      + IF turn THEN short[i] ELSE 0]
      BY <2>1 DEF LineStep
    <3>3. \A i \in 1 .. 2 : i = 1 \/ i = 2
      OBVIOUS
    <3>4. f[k].at = [i \in 1 .. 2 |-> IF i = 1 THEN a ELSE b]
      BY <3>2, <3>3
    <3> QED BY <3>1, <3>4
  <2>4. f[k].at \in Int \X Int
    BY <2>3
  <2>5. f[k].dec \in Int
    BY <2>1, <2>2 DEF LineStep
  <2> QED BY <1>3, <2>4, <2>5 DEF Whole
<1> QED BY <1>4, <1>5 DEF Off

(* The same of the points it is drawn with.                               *)
IsWhole(line) == \A i \in DOMAIN line : line[i] \in Int \X Int

(* What drawLine() goes through is whole.                                  *)
LEMMA IteratedIsWhole ==
  ASSUME NEW line, NEW x0 \in Int, NEW y0 \in Int, NEW dx \in Int, NEW dy \in Int,
         IsIterated(line, x0, y0, dx, dy)
  PROVE  IsWhole(line)
<1> DEFINE ax == 2 * Abs(dx)
           ay == 2 * Abs(dy)
           sx == Sign(dx)
           sy == Sign(dy)
           steps == IF ay <= ax THEN Abs(dx) ELSE Abs(dy)
<1>1. PICK f : /\ IsDrawn(f, steps, LineStart(x0, y0, ax, ay), ax, ay, sx, sy)
               /\ line = [i \in 1 .. steps + 1 |-> f[i - 1].at]
  BY DEF IsIterated
<1>2. steps \in Nat /\ ax \in Nat /\ ay \in Nat /\ sx \in Int /\ sy \in Int
  BY DEF Abs, Sign
<1> HIDE DEF steps, ax, ay, sx, sy
<1>3. \A k \in 0 .. steps : f[k].at \in Int \X Int
  BY <1>1, <1>2, WholePoints
<1>4. ASSUME NEW i \in 1 .. steps + 1 PROVE i - 1 \in 0 .. steps
  BY <1>2
<1> QED BY <1>1, <1>3, <1>4 DEF IsWhole

(* The pixels drawLine() draws have whole coordinates.                     *)
LEMMA LineIsWhole ==
  ASSUME NEW x0 \in Int, NEW y0 \in Int, NEW x1 \in Int, NEW y1 \in Int
  PROVE  ToSet(Line(x0, y0, x1, y1)) \subseteq Int \X Int
<1>1. IsIterated(Line(x0, y0, x1, y1), x0, y0, x1 - x0, y1 - y0)
  BY LineIsIterated
<1>2. x1 - x0 \in Int /\ y1 - y0 \in Int
  OBVIOUS
<1>3. IsWhole(Line(x0, y0, x1, y1))
  BY <1>1, <1>2, IteratedIsWhole
<1> QED BY <1>3 DEF ToSet, IsWhole

(* Those of drawFatLine() too.                                             *)
LEMMA FatLineIsWhole ==
  ASSUME NEW x0 \in Int, NEW y0 \in Int, NEW x1 \in Int, NEW y1 \in Int
  PROVE  FatLine(x0, y0, x1, y1) \subseteq Int \X Int
<1>1. \A p \in ToSet(Line(x0, y0, x1, y1)) : p[1] \in Int /\ p[2] \in Int
  BY LineIsWhole
<1> QED BY <1>1 DEF FatLine

(* drawBox() draws four lines.                                             *)
LEMMA BoxIsDrawn ==
  ASSUME NEW x \in Int, NEW y \in Int, NEW w \in Int, NEW h \in Int
  PROVE  Box(x, y, w, h) =
            ToSet(Line(x, y, x + w, y)) \cup ToSet(Line(x + w, y, x + w, y + h))
            \cup ToSet(Line(x + w, y + h, x, y + h))
            \cup ToSet(Line(x, y + h, x, y))
<1> DEFINE a == <<x, y, x + w, y>>
           b == <<x + w, y, x + w, y + h>>
           c == <<x + w, y + h, x, y + h>>
           d == <<x, y + h, x, y>>
           Side(s) == ToSet(Line(s[1], s[2], s[3], s[4]))
<1>1. ToSet(BoxSides(x, y, w, h)) = {a, b, c, d}
  <2>1. BoxSides(x, y, w, h) = <<a, b, c, d>>
    BY DEF BoxSides
  <2> HIDE DEF a, b, c, d
  <2>2. DOMAIN <<a, b, c, d>> = 1 .. 4
    OBVIOUS
  <2>3. 1 .. 4 = {1, 2, 3, 4}
    OBVIOUS
  <2>4. ToSet(<<a, b, c, d>>) = {<<a, b, c, d>>[i] : i \in {1, 2, 3, 4}}
    BY <2>2, <2>3 DEF ToSet
  <2>5. <<a, b, c, d>>[1] = a /\ <<a, b, c, d>>[2] = b
        /\ <<a, b, c, d>>[3] = c /\ <<a, b, c, d>>[4] = d
    OBVIOUS
  <2> QED BY <2>1, <2>4, <2>5
<1>2. Box(x, y, w, h) = UNION {Side(s) : s \in {a, b, c, d}}
  BY <1>1 DEF Box
<1>3. /\ Side(a) = ToSet(Line(x, y, x + w, y))
      /\ Side(b) = ToSet(Line(x + w, y, x + w, y + h))
      /\ Side(c) = ToSet(Line(x + w, y + h, x, y + h))
      /\ Side(d) = ToSet(Line(x, y + h, x, y))
  OBVIOUS
<1> HIDE DEF Side, a, b, c, d
<1>4. UNION {Side(s) : s \in {a, b, c, d}}
         = Side(a) \cup Side(b) \cup Side(c) \cup Side(d)
  OBVIOUS
<1> QED BY <1>2, <1>3, <1>4

(* Its pixels have whole coordinates.                                      *)
LEMMA BoxIsWhole ==
  ASSUME NEW x \in Int, NEW y \in Int, NEW w \in Int, NEW h \in Int
  PROVE  Box(x, y, w, h) \subseteq Int \X Int
<1>1. x + w \in Int /\ y + h \in Int
  OBVIOUS
<1>2. /\ ToSet(Line(x, y, x + w, y)) \subseteq Int \X Int
      /\ ToSet(Line(x + w, y, x + w, y + h)) \subseteq Int \X Int
      /\ ToSet(Line(x + w, y + h, x, y + h)) \subseteq Int \X Int
      /\ ToSet(Line(x, y + h, x, y)) \subseteq Int \X Int
  BY <1>1, LineIsWhole
<1> QED BY <1>2, BoxIsDrawn

(* For any line or box: of its pixels those in the image are drawn, and no *)
(* other.                                                                  *)
LEMMA DrawnInside == ASSUME input \in AnyDrawing PROVE DrawingIsClipped
<1> DEFINE points == CASE input.shape = "line" ->
                             ToSet(Line(input.x, input.y, input.u, input.v))
                        [] input.shape = "fat line" ->
                             FatLine(input.x, input.y, input.u, input.v)
                        [] input.shape = "box" ->
                             Box(input.x, input.y, input.u, input.v)
           drawn == SetPixels(Blank(4, 3, 0), points, 1)
           none == [i \in 0 .. 11 |-> 0]
           image == [width |-> 4, height |-> 3, pixels |-> none]
<1>1. /\ input.x \in Int /\ input.y \in Int /\ input.u \in Int
      /\ input.v \in Int /\ input.shape \in {"line", "fat line", "box"}
  BY DEF AnyDrawing
<1>2. points \in SUBSET (Int \X Int)
  <2>1. CASE input.shape = "line"
    BY <1>1, <2>1, LineIsWhole
  <2>2. CASE input.shape = "fat line"
    BY <1>1, <2>2, FatLineIsWhole
  <2>3. CASE input.shape = "box"
    BY <1>1, <2>3, BoxIsWhole
  <2> QED BY <1>1, <2>1, <2>2, <2>3
<1> HIDE DEF points
<1>3. 4 \in Nat /\ 3 \in Nat /\ 4 * 3 - 1 = 11 /\ 4 - 1 = 3 /\ 3 - 1 = 2
  OBVIOUS
<1>4. none \in [0 .. 4 * 3 - 1 -> {0}]
  BY <1>3
<1>5. Blank(4, 3, 0) = image
  BY <1>3 DEF Blank
<1> HIDE DEF none
<1>6. ASSUME NEW x \in 0 .. 3, NEW y \in 0 .. 2
      PROVE  SetPixels(image, points, 1).pixels[4 * y + x]
                = IF <<x, y>> \in points THEN 1 ELSE none[4 * y + x]
  <2>1. \A S : none \in [0 .. 4 * 3 - 1 -> S] => IsClipped(4, 3, points, none, 1)
    BY <1>2, <1>3, ClippedAtAnySize
  <2>2. IsClipped(4, 3, points, none, 1)
    BY <1>4, <2>1
  <2> QED BY <1>3, <2>2 DEF IsClipped
<1>7. ASSUME NEW x \in 0 .. 3, NEW y \in 0 .. 2
      PROVE  drawn.pixels[4 * y + x] = 1 <=> <<x, y>> \in points
  <2>1. drawn.pixels[4 * y + x]
           = IF <<x, y>> \in points THEN 1 ELSE none[4 * y + x]
    BY <1>3, <1>5, <1>6
  <2>2. none[4 * y + x] = 0
    BY DEF none
  <2> QED BY <2>1, <2>2
<1> QED BY <1>7 DEF DrawingIsClipped, points

(* Between two numbers.                                                    *)
Span(m, n) == {i \in Int : (m <= i /\ i <= n) \/ (n <= i /\ i <= m)}

(* The pixels of a line that keeps to its axis.                            *)
IsAlong(f, n, x0, y0, ax, ay, sx, sy) ==
    \A k \in 0 .. n : f[k].at = IF ay <= ax THEN <<x0 + sx * k, y0>>
                                            ELSE <<x0, y0 + sy * k>>

(* A line along one axis does not turn aside.                              *)
LEMMA AlongAnAxis ==
  ASSUME NEW x0 \in Int, NEW y0 \in Int, NEW n \in Nat, NEW f,
         NEW ax \in Nat, NEW ay \in Nat, NEW sx \in Int, NEW sy \in Int,
         ax = 0 \/ ay = 0, ax # 0 \/ ay # 0,
         IsDrawn(f, n, LineStart(x0, y0, ax, ay), ax, ay, sx, sy)
  PROVE  IsAlong(f, n, x0, y0, ax, ay, sx, sy)
<1> DEFINE Straight(k) ==
              /\ f[k].at = IF ay <= ax THEN <<x0 + sx * k, y0>>
                                       ELSE <<x0, y0 + sy * k>>
              /\ f[k].dec = IF ay <= ax THEN -ax ELSE -ay
           Off == {k \in 0 .. n : ~Straight(k)}
<1>1. SUFFICES ASSUME Off # {} PROVE FALSE
  BY DEF Straight, IsAlong
<1> HIDE DEF Straight
<1>2. PICK k \in Off : \A j \in Off : k <= j
  <2>1. Off \subseteq Nat
    OBVIOUS
  <2> QED BY <1>1, <2>1, LeastNatural
<1>3. k \in 0 .. n /\ ~Straight(k) /\ \A j \in 0 .. n : j < k => Straight(j)
  BY <1>2
<1>4. CASE k = 0
  <2>1. f[0] = LineStart(x0, y0, ax, ay)
    BY DEF IsDrawn
  <2>2. Straight(0)
    BY <2>1 DEF Straight, LineStart
  <2> QED BY <1>3, <1>4, <2>2
<1>5. CASE k # 0
  <2>0. Straight(k - 1)
    BY <1>3, <1>5
  <2>1. f[k] = LineStep(f[k - 1], ax, ay, sx, sy)
    BY <1>3, <1>5 DEF IsDrawn
  <2>2. k - 1 \in Int /\ sx * k = sx * (k - 1) + sx /\ sy * k = sy * (k - 1) + sy
    <3>1. PICK j \in Int : k = j + 1 /\ k - 1 = j
      BY <1>3
    <3>2. sx * (j + 1) = sx * j + sx /\ sy * (j + 1) = sy * j + sy
      OBVIOUS
    <3> QED BY <3>1, <3>2
  <2> DEFINE X == sx * (k - 1)
             Y == sy * (k - 1)
  <2>3. X \in Int /\ Y \in Int
    BY <2>2
  <2>4. ~(f[k - 1].dec >= 0)
    BY <2>0 DEF Straight
  <2>5. \A i \in 1 .. 2 : i = 1 \/ i = 2
    OBVIOUS
  <2> DEFINE long == IF ay <= ax THEN <<sx, 0>> ELSE <<0, sy>>
  <2>6. f[k].at = [i \in 1 .. 2 |-> f[k - 1].at[i] + long[i] + 0]
    BY <2>1, <2>4 DEF LineStep
  <2>7. f[k].dec = IF ay <= ax THEN f[k - 1].dec + ay - 0
                               ELSE f[k - 1].dec + ax - 0
    BY <2>1, <2>4 DEF LineStep
  <2>8. CASE ay <= ax
    <3>1. f[k - 1].at = <<x0 + X, y0>> /\ long = <<sx, 0>>
      BY <2>0, <2>8 DEF Straight
    <3>2. f[k].at = <<x0 + X + sx + 0, y0 + 0 + 0>>
      <4> HIDE DEF X, long
      <4> QED BY <2>5, <2>6, <3>1
    <3>3. f[k].at = <<x0 + sx * k, y0>>
      <4> HIDE DEF X
      <4>1. x0 + X + sx + 0 = x0 + sx * k /\ y0 + 0 + 0 = y0
        <5>1. sx * k = X + sx
          BY <2>2 DEF X
        <5>2. x0 + X + sx + 0 = x0 + (X + sx) /\ y0 + 0 + 0 = y0
          BY <2>3
        <5> QED BY <5>1, <5>2
      <4> QED BY <3>2, <4>1
    <3>4. f[k].dec = -ax
      BY <2>0, <2>7, <2>8 DEF Straight
    <3> QED BY <1>3, <2>8, <3>3, <3>4 DEF Straight
  <2>9. CASE ~(ay <= ax)
    <3>1. f[k - 1].at = <<x0, y0 + Y>> /\ long = <<0, sy>>
      BY <2>0, <2>9 DEF Straight
    <3>2. f[k].at = <<x0 + 0 + 0, y0 + Y + sy + 0>>
      <4> HIDE DEF Y, long
      <4> QED BY <2>5, <2>6, <3>1
    <3>3. f[k].at = <<x0, y0 + sy * k>>
      <4> HIDE DEF Y
      <4>1. y0 + Y + sy + 0 = y0 + sy * k /\ x0 + 0 + 0 = x0
        <5>1. sy * k = Y + sy
          BY <2>2 DEF Y
        <5>2. y0 + Y + sy + 0 = y0 + (Y + sy) /\ x0 + 0 + 0 = x0
          BY <2>3
        <5> QED BY <5>1, <5>2
      <4> QED BY <3>2, <4>1
    <3>4. f[k].dec = -ay
      BY <2>0, <2>7, <2>9 DEF Straight
    <3> QED BY <1>3, <2>9, <3>3, <3>4 DEF Straight
  <2> QED BY <2>8, <2>9
<1> QED BY <1>4, <1>5 DEF Off

(* The pixels of a line along one axis: one for each number of the steps.  *)
IsARow(line, x, y, d) ==
    /\ DOMAIN line = 1 .. Abs(d) + 1
    /\ \A k \in 0 .. Abs(d) : line[k + 1] = <<x + Sign(d) * k, y>>

IsAColumn(line, x, y, d) ==
    /\ DOMAIN line = 1 .. Abs(d) + 1
    /\ \A k \in 0 .. Abs(d) : line[k + 1] = <<x, y + Sign(d) * k>>

(* drawLine() along the x axis draws a row.                                *)
LEMMA RowIsDrawn ==
  ASSUME NEW line, NEW x \in Int, NEW y \in Int, NEW d \in Int,
         IsIterated(line, x, y, d, 0)
  PROVE  IsARow(line, x, y, d)
<1> DEFINE ax == 2 * Abs(d)
           n == Abs(d)
           sx == Sign(d)
<1>1. Abs(0) = 0 /\ Sign(0) = 0 /\ 2 * 0 = 0
  BY DEF Abs, Sign
<1>2. n \in Nat /\ ax \in Nat /\ sx \in Int /\ 0 <= ax /\ (n # 0 => ax # 0)
  BY DEF Abs, Sign
<1>3. PICK f : /\ IsDrawn(f, n, LineStart(x, y, ax, 0), ax, 0, sx, 0)
               /\ line = [i \in 1 .. n + 1 |-> f[i - 1].at]
  BY <1>1, <1>2 DEF IsIterated
<1> HIDE DEF n, ax, sx
<1>4. \A k \in 0 .. n : f[k].at = <<x + sx * k, y>>
  <2>1. CASE n = 0
    <3>1. f[0].at = <<x, y>>
      BY <1>2, <1>3, <2>1 DEF IsDrawn, LineStart
    <3>2. sx * 0 = 0 /\ x + 0 = x
      BY <1>2
    <3>3. \A k \in 0 .. n : k = 0
      BY <2>1
    <3> QED BY <3>1, <3>2, <3>3
  <2>2. CASE n # 0
    <3>1. \A k \in 0 .. n : f[k].at = IF 0 <= ax THEN <<x + sx * k, y>>
                                      ELSE <<x, y + 0 * k>>
      <4>1. PICK z : z = 0
        OBVIOUS
      <4>2. /\ ax # 0 /\ z = 0 /\ z \in Nat /\ z \in Int
            /\ IsDrawn(f, n, LineStart(x, y, ax, z), ax, z, sx, z)
        BY <1>2, <1>3, <2>2, <4>1
      <4>3. IsAlong(f, n, x, y, ax, z, sx, z)
        BY <1>2, <4>2, AlongAnAxis
      <4> QED BY <4>1, <4>3 DEF IsAlong
    <3> QED BY <1>2, <3>1
  <2> QED BY <2>1, <2>2
<1>5. ASSUME NEW k \in 0 .. n
      PROVE  k + 1 \in 1 .. n + 1 /\ (k + 1) - 1 = k
  BY <1>2
<1>6. DOMAIN line = 1 .. n + 1
  BY <1>3
<1>7. \A k \in 0 .. n : line[k + 1] = <<x + sx * k, y>>
  BY <1>3, <1>4, <1>5
<1> QED BY <1>6, <1>7 DEF IsARow, n, sx

(* drawLine() along the y axis draws a column.                             *)
LEMMA ColumnIsDrawn ==
  ASSUME NEW line, NEW x \in Int, NEW y \in Int, NEW d \in Int,
         IsIterated(line, x, y, 0, d)
  PROVE  IsAColumn(line, x, y, d)
<1> DEFINE ay == 2 * Abs(d)
           n == Abs(d)
           sy == Sign(d)
<1>1. Abs(0) = 0 /\ Sign(0) = 0 /\ 2 * 0 = 0
  BY DEF Abs, Sign
<1>2. /\ n \in Nat /\ ay \in Nat /\ sy \in Int
      /\ n = IF ay <= 0 THEN 0 ELSE n
      /\ n # 0 => ay # 0 /\ ~(ay <= 0)
  BY DEF Abs, Sign
<1>3. PICK f : /\ IsDrawn(f, n, LineStart(x, y, 0, ay), 0, ay, 0, sy)
               /\ line = [i \in 1 .. n + 1 |-> f[i - 1].at]
  BY <1>1, <1>2 DEF IsIterated
<1> HIDE DEF n, ay, sy
<1>4. \A k \in 0 .. n : f[k].at = <<x, y + sy * k>>
  <2>1. CASE n = 0
    <3>1. f[0].at = <<x, y>>
      BY <1>2, <1>3, <2>1 DEF IsDrawn, LineStart
    <3>2. sy * 0 = 0 /\ y + 0 = y
      BY <1>2
    <3>3. \A k \in 0 .. n : k = 0
      BY <2>1
    <3> QED BY <3>1, <3>2, <3>3
  <2>2. CASE n # 0
    <3>1. \A k \in 0 .. n : f[k].at = IF ay <= 0 THEN <<x + 0 * k, y>>
                                      ELSE <<x, y + sy * k>>
      <4>1. PICK z : z = 0
        OBVIOUS
      <4>2. /\ ay # 0 /\ z = 0 /\ z \in Nat /\ z \in Int
            /\ IsDrawn(f, n, LineStart(x, y, z, ay), z, ay, z, sy)
        BY <1>2, <1>3, <2>2, <4>1
      <4>3. IsAlong(f, n, x, y, z, ay, z, sy)
        BY <1>2, <4>2, AlongAnAxis
      <4> QED BY <4>1, <4>3 DEF IsAlong
    <3> QED BY <1>2, <2>2, <3>1
  <2> QED BY <2>1, <2>2
<1>5. ASSUME NEW k \in 0 .. n
      PROVE  k + 1 \in 1 .. n + 1 /\ (k + 1) - 1 = k
  BY <1>2
<1>6. DOMAIN line = 1 .. n + 1
  BY <1>3
<1>7. \A k \in 0 .. n : line[k + 1] = <<x, y + sy * k>>
  BY <1>3, <1>4, <1>5
<1> QED BY <1>6, <1>7 DEF IsAColumn, n, sy

(* Step by step from one number to another.                                *)
LEMMA SpanIsWalked ==
  ASSUME NEW m \in Int, NEW n \in Int
  PROVE  Span(m, n) = {m + Sign(n - m) * k : k \in 0 .. Abs(n - m)}
<1> DEFINE d == n - m
           Walked == {m + Sign(d) * k : k \in 0 .. Abs(d)}
<1>1. CASE n > m
  <2>1. Sign(d) = 1 /\ Abs(d) = d
    BY <1>1 DEF Sign, Abs
  <2>2. ASSUME NEW i \in Span(m, n) PROVE i \in Walked
    <3>1. i - m \in 0 .. d /\ i = m + 1 * (i - m)
      BY <1>1 DEF Span
    <3> QED BY <2>1, <3>1
  <2>3. ASSUME NEW k \in 0 .. d PROVE m + 1 * k \in Span(m, n)
    BY <1>1 DEF Span
  <2> QED BY <2>1, <2>2, <2>3
<1>2. CASE n < m
  <2>1. Sign(d) = -1 /\ Abs(d) = -d
    BY <1>2 DEF Sign, Abs
  <2>2. ASSUME NEW i \in Span(m, n) PROVE i \in Walked
    <3>1. m - i \in 0 .. -d /\ i = m + (-1) * (m - i)
      BY <1>2 DEF Span
    <3> QED BY <2>1, <3>1
  <2>3. ASSUME NEW k \in 0 .. -d PROVE m + (-1) * k \in Span(m, n)
    BY <1>2 DEF Span
  <2> QED BY <2>1, <2>2, <2>3
<1>3. CASE n = m
  <2>1. Sign(d) = 0 /\ Abs(d) = 0 /\ 0 .. 0 = {0} /\ 0 * 0 = 0
    BY <1>3 DEF Sign, Abs
  <2>2. Walked = {m + 0}
    BY <2>1
  <2>3. Span(m, n) = {m}
    BY <1>3 DEF Span
  <2> QED BY <2>2, <2>3
<1> QED BY <1>1, <1>2, <1>3

(* All pixels of the row are drawn, and no other.                          *)
LEMMA RowOfPixels ==
  ASSUME NEW x0 \in Int, NEW x1 \in Int, NEW y \in Int
  PROVE  ToSet(Line(x0, y, x1, y)) = {<<i, y>> : i \in Span(x0, x1)}
<1> DEFINE line == Line(x0, y, x1, y)
           d == x1 - x0
           s == Sign(d)
           n == Abs(d)
<1>1. IsIterated(line, x0, y, d, y - y)
  BY LineIsIterated
<1>2. y - y = 0 /\ d \in Int
  OBVIOUS
<1>3. IsIterated(line, x0, y, d, 0)
  BY <1>1, <1>2
<1>4. n \in Nat
  BY DEF Abs
<1>5. Span(x0, x1) = {x0 + s * k : k \in 0 .. n}
  BY SpanIsWalked
<1> HIDE DEF line, d
<1>6. IsARow(line, x0, y, d)
  BY <1>2, <1>3, RowIsDrawn
<1>7. DOMAIN line = 1 .. n + 1 /\ \A k \in 0 .. n : line[k + 1] = <<x0 + s * k, y>>
  BY <1>6 DEF IsARow
<1> HIDE DEF s, n
<1>8. ToSet(line) = {line[k + 1] : k \in 0 .. n}
  <2>1. ASSUME NEW i \in 1 .. n + 1 PROVE \E k \in 0 .. n : i = k + 1
    <3>1. i - 1 \in 0 .. n /\ i = (i - 1) + 1
      BY <1>4
    <3> QED BY <3>1
  <2>2. ASSUME NEW k \in 0 .. n PROVE k + 1 \in 1 .. n + 1
    BY <1>4
  <2> QED BY <1>7, <2>1, <2>2 DEF ToSet
<1> DEFINE At(k) == x0 + s * k
<1>9. {line[k + 1] : k \in 0 .. n} = {<<i, y>> : i \in Span(x0, x1)}
  <2>1. /\ \A k \in 0 .. n : line[k + 1] = <<At(k), y>>
        /\ Span(x0, x1) = {At(k) : k \in 0 .. n}
    BY <1>5, <1>7
  <2> HIDE DEF At
  <2>2. {<<At(k), y>> : k \in 0 .. n} = {<<i, y>> : i \in {At(k) : k \in 0 .. n}}
    OBVIOUS
  <2>3. {line[k + 1] : k \in 0 .. n} = {<<At(k), y>> : k \in 0 .. n}
    BY <2>1
  <2> QED BY <2>1, <2>2, <2>3
<1> QED BY <1>8, <1>9 DEF line

(* All pixels of the column are drawn, and no other.                       *)
LEMMA ColumnOfPixels ==
  ASSUME NEW x \in Int, NEW y0 \in Int, NEW y1 \in Int
  PROVE  ToSet(Line(x, y0, x, y1)) = {<<x, i>> : i \in Span(y0, y1)}
<1> DEFINE line == Line(x, y0, x, y1)
           d == y1 - y0
           s == Sign(d)
           n == Abs(d)
<1>1. IsIterated(line, x, y0, x - x, d)
  BY LineIsIterated
<1>2. x - x = 0 /\ d \in Int
  OBVIOUS
<1>3. IsIterated(line, x, y0, 0, d)
  BY <1>1, <1>2
<1>4. n \in Nat
  BY DEF Abs
<1>5. Span(y0, y1) = {y0 + s * k : k \in 0 .. n}
  BY SpanIsWalked
<1> HIDE DEF line, d
<1>6. IsAColumn(line, x, y0, d)
  BY <1>2, <1>3, ColumnIsDrawn
<1>7. DOMAIN line = 1 .. n + 1 /\ \A k \in 0 .. n : line[k + 1] = <<x, y0 + s * k>>
  BY <1>6 DEF IsAColumn
<1> HIDE DEF s, n
<1>8. ToSet(line) = {line[k + 1] : k \in 0 .. n}
  <2>1. ASSUME NEW i \in 1 .. n + 1 PROVE \E k \in 0 .. n : i = k + 1
    <3>1. i - 1 \in 0 .. n /\ i = (i - 1) + 1
      BY <1>4
    <3> QED BY <3>1
  <2>2. ASSUME NEW k \in 0 .. n PROVE k + 1 \in 1 .. n + 1
    BY <1>4
  <2> QED BY <1>7, <2>1, <2>2 DEF ToSet
<1> DEFINE At(k) == y0 + s * k
<1>9. {line[k + 1] : k \in 0 .. n} = {<<x, i>> : i \in Span(y0, y1)}
  <2>1. /\ \A k \in 0 .. n : line[k + 1] = <<x, At(k)>>
        /\ Span(y0, y1) = {At(k) : k \in 0 .. n}
    BY <1>5, <1>7
  <2> HIDE DEF At
  <2>2. {<<x, At(k)>> : k \in 0 .. n} = {<<x, i>> : i \in {At(k) : k \in 0 .. n}}
    OBVIOUS
  <2>3. {line[k + 1] : k \in 0 .. n} = {<<x, At(k)>> : k \in 0 .. n}
    BY <2>1
  <2> QED BY <2>1, <2>2, <2>3
<1> QED BY <1>8, <1>9 DEF line

(* For any box, also one drawn backwards or flat: drawBox() draws its      *)
(* frame, without a gap, and nothing else.                                 *)
LEMMA BoxIsFramed == ASSUME input \in AnyDrawing PROVE BoxIsAFrame
<1> DEFINE x == input.x
           y == input.y
           u == input.u
           v == input.v
           At(n, d) == IF d < 0 THEN n + d .. n ELSE n .. n + d
           a == x + u
           b == y + v
           Frame == {p \in Span(x, a) \X Span(y, b) : \/ p[1] \in {x, a}
                                                     \/ p[2] \in {y, b}}
<1>1. x \in Int /\ y \in Int /\ u \in Int /\ v \in Int
  BY DEF AnyDrawing
<1>2. ASSUME NEW n \in Int, NEW d \in Int PROVE At(n, d) = Span(n, n + d)
  BY DEF Span
<1>3. At(x, u) = Span(x, a) /\ At(y, v) = Span(y, b)
  BY <1>1, <1>2
<1>4. a \in Int /\ b \in Int
  BY <1>1
<1>5. /\ Span(a, x) = Span(x, a) /\ Span(b, y) = Span(y, b)
      /\ x \in Span(x, a) /\ a \in Span(x, a)
      /\ y \in Span(y, b) /\ b \in Span(y, b)
  BY <1>1, <1>4 DEF Span
<1>6. Box(x, y, u, v) =
         ToSet(Line(x, y, a, y)) \cup ToSet(Line(a, y, a, b))
         \cup ToSet(Line(a, b, x, b)) \cup ToSet(Line(x, b, x, y))
  BY <1>1, BoxIsDrawn
<1> HIDE DEF x, y, a, b
<1>7. /\ ToSet(Line(x, y, a, y)) = {<<i, y>> : i \in Span(x, a)}
      /\ ToSet(Line(a, y, a, b)) = {<<a, i>> : i \in Span(y, b)}
      /\ ToSet(Line(a, b, x, b)) = {<<i, b>> : i \in Span(a, x)}
      /\ ToSet(Line(x, b, x, y)) = {<<x, i>> : i \in Span(b, y)}
  BY <1>1, <1>4, RowOfPixels, ColumnOfPixels
<1> DEFINE X == Span(x, a)
           Y == Span(y, b)
<1>8. Box(x, y, u, v) = {<<i, y>> : i \in X} \cup {<<a, i>> : i \in Y}
                        \cup {<<i, b>> : i \in X} \cup {<<x, i>> : i \in Y}
  BY <1>5, <1>6, <1>7
<1>9. x \in X /\ a \in X /\ y \in Y /\ b \in Y
  BY <1>5
<1> HIDE DEF X, Y
<1>10. {<<i, y>> : i \in X} \cup {<<a, i>> : i \in Y}
       \cup {<<i, b>> : i \in X} \cup {<<x, i>> : i \in Y}
         = {p \in X \X Y : p[1] \in {x, a} \/ p[2] \in {y, b}}
  BY <1>9
<1>11. Box(x, y, u, v) = Frame
  BY <1>8, <1>10 DEF X, Y
<1>12. Box(x, y, u, v) = {p \in At(x, u) \X At(y, v) :
                            p[1] \in {x, a} \/ p[2] \in {y, b}}
  BY <1>3, <1>11
<1> QED BY <1>12 DEF BoxIsAFrame, x, y, a, b

(* Any input of the operations on images: every name of the settings, every*)
(* frame of every capture method, every drawing, picture, colour and file. *)
AnyImageInput ==
    [about : {"names"}] \cup AnyMode \cup AnyFrame
    \cup AnyLine \cup AnyDrawing \cup AnyText \cup AnyRect \cup AnyPixels
    \cup AnyAlpha \cup AnyBinarized
    \cup AnyColour \cup AnyLoop \cup AnyOrder \cup AnyFileBytes
    \cup AnyFile \cup AnyTestImage

(* One input after another: nothing follows an input.                      *)
ImagesSpec == input \in AnyImageInput /\ [][UNCHANGED input]_input

(* What an input is about, and so which property is about it.              *)
LEMMA SubjectOfInput ==
  ASSUME input \in AnyImageInput
  PROVE  /\ Is("mode") => input \in AnyMode
         /\ Is("convert") => input \in AnyFrame
         /\ Is("line") => input \in AnyLine
         /\ Is("draw") => input \in AnyDrawing
         /\ Is("text") => input \in AnyText
         /\ Is("rect") => input \in AnyRect
         /\ Is("pixels") => input \in AnyPixels
         /\ Is("alpha") => input \in AnyAlpha
         /\ Is("binarize") => input \in AnyBinarized
         /\ Is("colour") => input \in AnyColour
         /\ Is("loop") => input \in AnyLoop
         /\ Is("order") => input \in AnyOrder
         /\ Is("file bytes") => input \in AnyFileBytes
         /\ Is("file") => input \in AnyFile
         /\ Is("test image") => input \in AnyTestImage
<1>1. input \in [about : {"names"}] => input.about = "names"
  OBVIOUS
<1>2. input \in AnyMode => input.about = "mode"
  BY DEF AnyMode
<1>3. input \in AnyFrame => input.about = "convert"
  BY DEF AnyFrame
<1>4. input \in AnyLine => input.about = "line"
  BY DEF AnyLine
<1>5. input \in AnyDrawing => input.about = "draw"
  BY DEF AnyDrawing
<1>6. input \in AnyText => input.about = "text"
  BY DEF AnyText
<1>7. input \in AnyRect => input.about = "rect"
  BY DEF AnyRect
<1>8. input \in AnyPixels => input.about = "pixels"
  BY DEF AnyPixels
<1>9. input \in AnyAlpha => input.about = "alpha"
  BY DEF AnyAlpha
<1>10. input \in AnyBinarized => input.about = "binarize"
  BY DEF AnyBinarized
<1>11. input \in AnyColour => input.about = "colour"
  BY DEF AnyColour
<1>12. input \in AnyLoop => input.about = "loop"
  BY DEF AnyLoop
<1>13. input \in AnyOrder => input.about = "order"
  BY DEF AnyOrder
<1>14. input \in AnyFileBytes => input.about = "file bytes"
  BY DEF AnyFileBytes
<1>15. input \in AnyFile => input.about = "file"
  BY DEF AnyFile
<1>16. input \in AnyTestImage => input.about = "test image"
  BY DEF AnyTestImage
<1> QED
  BY <1>1, <1>2, <1>3, <1>4, <1>5, <1>6, <1>7, <1>8,
     <1>9, <1>10, <1>11, <1>12, <1>13, <1>14, <1>15, <1>16
  DEF AnyImageInput, Is

(* For every input.                                                        *)
LEMMA EveryImageIsSound ==
  ASSUME input \in AnyImageInput PROVE ImagesAreSound
<1>1. FormatsAreSound
  <2>1. TargetHoldsFrame
    BY SubjectOfInput, FramesFit DEF TargetHoldsFrame
  <2>2. FramesReachThreshold
    BY SubjectOfInput, ModesReachThreshold DEF FramesReachThreshold
  <2> QED BY <2>1, <2>2, NamesComeBack DEF FormatsAreSound
<1>2. DrawnWhereItBelongs
  <2>1. LinesAreStraight
    BY SubjectOfInput, EveryLineIsStraight DEF LinesAreStraight
  <2>2. DrawingIsClipped
    BY SubjectOfInput, DrawnInside DEF DrawingIsClipped
  <2>3. BoxIsAFrame
    BY SubjectOfInput, BoxIsFramed DEF BoxIsAFrame
  <2>4. GlyphsStandApart
    BY SubjectOfInput, TextIsRead DEF GlyphsStandApart
  <2>5. RectIsCopied
    BY SubjectOfInput, RectIsCut DEF RectIsCopied
  <2>6. BackgroundComesBack
    BY SubjectOfInput, OnePixelOfEach DEF BackgroundComesBack
  <2>7. AlphaAndColoursApart
    BY SubjectOfInput, AlphaIsApart DEF AlphaAndColoursApart
  <2>8. ThresholdsAgree
    BY SubjectOfInput, BinarizedTheSame DEF ThresholdsAgree
  <2> QED BY <2>1, <2>2, <2>3, <2>4, <2>5, <2>6, <2>7, <2>8
          DEF DrawnWhereItBelongs
<1>3. ConversionsAreSound
  <2>1. ColoursSurvive
    BY SubjectOfInput, EveryColourSurvives DEF ColoursSurvive
  <2>2. EachPixelOnce
    BY SubjectOfInput, EachPixelOfItsGroup DEF EachPixelOnce
  <2>3. ByteOrders
    BY SubjectOfInput, OrdersAreTurned DEF ByteOrders
  <2>4. FileBytesInPlace
    BY SubjectOfInput, BytesAreInPlace DEF FileBytesInPlace
  <2>5. FilesRoundTrip
    BY SubjectOfInput, FilesComeBack DEF FilesRoundTrip
  <2>6. TestImageHasAllColours
    BY SubjectOfInput, AllColoursSeen DEF TestImageHasAllColours
  <2> QED BY <2>1, <2>2, <2>3, <2>4, <2>5, <2>6 DEF ConversionsAreSound
<1> QED BY <1>1, <1>2, <1>3 DEF ImagesAreSound

(* Whatever the capture method and the format, whatever is drawn, copied,  *)
(* converted, loaded or saved: the images are sound.                       *)
THEOREM ImagesSafety == ImagesSpec => []ImagesAreSound
<1>1. input \in AnyImageInput /\ [UNCHANGED input]_input
        => (input \in AnyImageInput)'
  OBVIOUS
<1>2. input \in AnyImageInput => ImagesAreSound
  BY EveryImageIsSound
<1> QED BY <1>1, <1>2, PTL DEF ImagesSpec

(* A division is the only number that leaves a remainder.                  *)
LEMMA QuotientIs ==
  ASSUME NEW d \in Nat \ {0}, NEW q \in Nat, NEW r \in 0 .. d - 1,
         NEW a \in Nat, a = d * q + r
  PROVE  a \div d = q /\ a % d = r
<1>1. /\ a \div d \in Nat /\ a % d \in 0 .. d - 1
      /\ a = d * (a \div d) + (a % d)
  BY Divided
<1>2. PICK u \in Nat, v \in 0 .. d - 1 : u = a \div d /\ v = a % d
  BY <1>1
<1>3. SamePlace(d, r, q, v, u)
  BY <1>1, <1>2 DEF SamePlace
<1>4. d \in Nat
  OBVIOUS
<1> QED BY <1>2, <1>3, <1>4, RowAndColumn

IsInserted(w, s, q, e) ==
    /\ Len(w) = Len(s) + 1
    /\ \A k \in 1..(Len(s) + 1) :
          w[k] = IF k < q THEN s[k] ELSE IF k = q THEN e ELSE s[k - 1]

(* What InsertAt() makes of a sequence, element by element.                 *)
LEMMA InsertedIs ==
  ASSUME NEW S, NEW s \in Seq(S), NEW e \in S, NEW q \in 1..(Len(s) + 1)
  PROVE  /\ InsertAt(s, q, e) \in Seq(S)
         /\ IsInserted(InsertAt(s, q, e), s, q, e)
<1> DEFINE a == SubSeq(s, 1, q - 1)
           b == SubSeq(s, q, Len(s))
<1>1. Len(s) \in Nat /\ q \in Nat
  BY LenProperties
<1>2. /\ a \in Seq(S) /\ Len(a) = q - 1
      /\ \A k \in 1..(q - 1) : a[k] = s[k]
  BY <1>1, SubSeqProperties
<1>3. /\ b \in Seq(S) /\ Len(b) = Len(s) - q + 1
      /\ \A k \in 1..(Len(s) - q + 1) : b[k] = s[q + k - 1]
  BY <1>1, SubSeqProperties
<1>4. InsertAt(s, q, e) = a \o <<e>> \o b
  BY DEF InsertAt
<1> HIDE DEF a, b
<1>5. <<e>> \in Seq(S) /\ Len(<<e>>) = 1 /\ <<e>>[1] = e
  OBVIOUS
<1>6. /\ a \o <<e>> \in Seq(S) /\ Len(a \o <<e>>) = q
      /\ \A k \in 1..q : (a \o <<e>>)[k] = IF k < q THEN s[k] ELSE e
  BY <1>1, <1>2, <1>5
<1> DEFINE c == a \o <<e>>
<1> HIDE DEF c
<1>7. /\ c \in Seq(S) /\ Len(c) = q
      /\ \A k \in 1..q : c[k] = IF k < q THEN s[k] ELSE e
  BY <1>6 DEF c
<1>8. InsertAt(s, q, e) = c \o b
  BY <1>4 DEF c
<1>9. /\ c \o b \in Seq(S) /\ Len(c \o b) = Len(c) + Len(b)
      /\ \A k \in 1..(Len(c) + Len(b)) : (c \o b)[k] =
            IF k <= Len(c) THEN c[k] ELSE b[k - Len(c)]
  BY <1>3, <1>7, ConcatProperties
<1> DEFINE w == c \o b
<1> HIDE DEF w
<1>0. /\ w \in Seq(S) /\ Len(w) = Len(s) + 1 /\ InsertAt(s, q, e) = w
      /\ \A k \in 1..(Len(s) + 1) : w[k] =
            IF k <= q THEN c[k] ELSE b[k - q]
  <2>1. Len(c) + Len(b) = Len(s) + 1
    BY <1>1, <1>3, <1>7
  <2> QED
    BY <1>7, <1>8, <1>9, <2>1 DEF w
<1>10. ASSUME NEW k \in 1..(Len(s) + 1), k > q
       PROVE  b[k - q] = s[k - 1]
  <2>1. k - q \in 1..(Len(s) - q + 1) /\ q + (k - q) - 1 = k - 1
    BY <1>1, <1>10
  <2> QED
    BY <1>3, <2>1
<1>11. ASSUME NEW k \in 1..(Len(s) + 1)
       PROVE  w[k] =
                 IF k < q THEN s[k] ELSE IF k = q THEN e ELSE s[k - 1]
  <2>1. CASE k <= q
    <3>1. k \in 1..q /\ w[k] = c[k]
      BY <1>0, <1>1, <2>1
    <3>2. c[k] = IF k < q THEN s[k] ELSE e
      BY <1>7, <3>1
    <3> QED
      BY <1>1, <2>1, <3>1, <3>2
  <2>2. CASE k > q
    BY <1>0, <1>1, <1>10, <2>2
  <2> QED
    BY <1>1, <2>1, <2>2
<1> QED
  BY <1>0, <1>11 DEF IsInserted

(* A bar in the picture of a camera: of any width from two, anywhere, with *)
(* a contrast that is over the threshold.                                  *)
Shades == 0 .. 255
AnyBar ==
    {i \in [about : {"bar"}, w : Nat, h : Nat, upright : BOOLEAN,
            from : Nat, to : Nat, light : Shades, ground : Shades] :
        /\ i.w >= 4 /\ i.h >= 4 /\ i.from + 1 < i.to
        /\ 4 * (i.light - i.ground) > 20 \/ 4 * (i.ground - i.light) > 20}

(* The shade at a place across the bar, and how it changes there.          *)
Level(bar, v) == IF v \in bar.from .. bar.to - 1 THEN bar.light ELSE bar.ground
Rise(bar, v) == Level(bar, v + 1) - Level(bar, v - 1)
Contrast(bar) == bar.light - bar.ground

(* What a search meets that looks for one edge.                            *)
StepAt(low, high, edge, m) ==
    [x \in low .. high |-> IF x \in {edge - 1, edge} THEN m ELSE 0]
FirstOf(low, high, edge) ==
    IF edge - 1 \in low .. high THEN edge - 1
    ELSE IF edge \in low .. high THEN edge ELSE -1

(* The least and the greatest of two numbers.                              *)
LEMMA OfTwo ==
  ASSUME NEW a \in Int, NEW b \in Int
  PROVE  /\ Min({a, b}) = IF a <= b THEN a ELSE b
         /\ Max({a, b}) = IF a >= b THEN a ELSE b
<1>1. \E x \in {a, b} : \A y \in {a, b} : x =< y
  OBVIOUS
<1>2. \E x \in {a, b} : \A y \in {a, b} : x >= y
  OBVIOUS
<1>3. Min({a, b}) \in {a, b} /\ \A y \in {a, b} : Min({a, b}) =< y
  BY <1>1 DEF Min
<1>4. Max({a, b}) \in {a, b} /\ \A y \in {a, b} : Max({a, b}) >= y
  BY <1>2 DEF Max
<1> QED BY <1>3, <1>4

(* The search for the strongest response finds the first place of a step.  *)
LEMMA StepIsFound ==
  ASSUME NEW low \in Nat, NEW high \in Int, NEW edge \in Int, NEW m \in Nat, m > 0
  PROVE  Strongest(StepAt(low, high, edge, m)) = FirstOf(low, high, edge)
<1> DEFINE r == StepAt(low, high, edge, m)
           places == {i \in low .. high : \A j \in low .. high : r[j] <= r[i]}
<1>1. DOMAIN r = low .. high
      /\ \A x \in low .. high : r[x] = IF x \in {edge - 1, edge} THEN m ELSE 0
  BY DEF StepAt
<1> HIDE DEF r
<1>2. Strongest(r) = IF \A i \in low .. high : r[i] = 0 THEN -1 ELSE Min(places)
  BY <1>1 DEF Strongest
<1>3. CASE edge \notin low .. high /\ edge - 1 \notin low .. high
  <2>1. \A i \in low .. high : r[i] = 0
    BY <1>1, <1>3
  <2> QED BY <2>1, <1>2, <1>3 DEF FirstOf, r
<1>4. CASE edge \in low .. high \/ edge - 1 \in low .. high
  <2> DEFINE first == FirstOf(low, high, edge)
  <2>1. first \in low .. high /\ first \in {edge - 1, edge}
    BY <1>4 DEF FirstOf
  <2>2. r[first] = m
    BY <2>1, <1>1
  <2>3. ~ \A i \in low .. high : r[i] = 0
    BY <2>1, <2>2
  <2>4. \A j \in low .. high : r[j] <= m
    BY <1>1
  <2>5. first \in places
    BY <2>1, <2>2, <2>4
  <2>6. \A j \in places : first <= j
    <3>1. TAKE j \in places
    <3>2. r[j] >= m
      BY <2>1, <2>2
    <3>3. j \in {edge - 1, edge} /\ j \in low .. high
      BY <3>2, <1>1
    <3> QED BY <3>3, <1>4 DEF FirstOf
  <2> HIDE DEF first, places
  <2>7. places \subseteq Int
    BY DEF places
  <2>8. first \in places /\ \A j \in places : first =< j
    BY <2>5, <2>6
  <2>9. Min(places) \in places /\ \A j \in places : Min(places) =< j
    BY <2>8 DEF Min
  <2>10. Min(places) =< first /\ first =< Min(places)
    BY <2>8, <2>9
  <2>11. Min(places) \in Int /\ first \in Int
    BY <2>7, <2>8, <2>9
  <2>12. Min(places) = first
    BY <2>10, <2>11
  <2> QED BY <2>3, <2>12, <1>2 DEF r, first
<1> QED BY <1>3, <1>4

(* The shade changes at the two edges of a bar, in two places each.        *)
LEMMA RiseOfBar ==
  ASSUME NEW bar \in AnyBar, NEW v \in Int
  PROVE  /\ Rise(bar, v) \in Int
         /\ Rise(bar, v) = IF v \in {bar.from - 1, bar.from} THEN Contrast(bar)
                           ELSE IF v \in {bar.to - 1, bar.to} THEN -Contrast(bar)
                           ELSE 0
<1>1. bar.from \in Nat /\ bar.to \in Nat /\ bar.light \in Int /\ bar.ground \in Int
      /\ bar.from + 1 < bar.to
  BY DEF AnyBar, Shades
<1>2. Level(bar, v + 1) = IF v + 1 \in bar.from .. bar.to - 1 THEN bar.light ELSE bar.ground
  BY DEF Level
<1>3. Level(bar, v - 1) = IF v - 1 \in bar.from .. bar.to - 1 THEN bar.light ELSE bar.ground
  BY DEF Level
<1> QED BY <1>1, <1>2, <1>3 DEF Rise, Contrast

(* The sums of sobel.h in the middle of an upright bar.                    *)
LEMMA UprightSums ==
  ASSUME NEW bar \in AnyBar, bar.upright, NEW x \in 1 .. bar.w - 2
  PROVE  /\ Gx(Bar(bar), x, 2) = 4 * Rise(bar, x)
         /\ GyOfCode(Bar(bar), x, 2) = Rise(bar, x)
<1>1. bar.w \in Nat /\ bar.h \in Nat /\ bar.h >= 4
      /\ bar.light \in Int /\ bar.ground \in Int
  BY DEF AnyBar, Shades
<1>2. \A p \in (0 .. bar.w - 1) \X (0 .. bar.h - 1) : Bar(bar).at[p] = Level(bar, p[1])
  BY DEF Bar, Level
<1>3. \A i \in 0 .. bar.w - 1, j \in 0 .. bar.h - 1 : Bar(bar).at[<<i, j>>] = Level(bar, i)
  BY <1>2
<1>4. \A i \in 0 .. bar.w - 1, j \in {2 - 1, 2, 2 + 1} : Bar(bar).at[<<i, j>>] = Level(bar, i)
  <2>1. \A j \in {2 - 1, 2, 2 + 1} : j \in 0 .. bar.h - 1
    BY <1>1
  <2> QED BY <2>1, <1>3, Zenon
<1>5. x - 1 \in 0 .. bar.w - 1 /\ x \in 0 .. bar.w - 1 /\ x + 1 \in 0 .. bar.w - 1
  BY <1>1
<1>6. Level(bar, x - 1) \in Int /\ Level(bar, x) \in Int /\ Level(bar, x + 1) \in Int
  BY <1>1 DEF Level
<1>7. Gx(Bar(bar), x, 2) =
        (Level(bar, x + 1) + 2 * Level(bar, x + 1) + Level(bar, x + 1))
          - (Level(bar, x - 1) + 2 * Level(bar, x - 1) + Level(bar, x - 1))
  BY <1>4, <1>5 DEF Gx
<1>8. GyOfCode(Bar(bar), x, 2) =
        Level(bar, x - 1) + 2 * Level(bar, x) + Level(bar, x + 1)
          - (2 * Level(bar, x - 1) + 2 * Level(bar, x))
  BY <1>4, <1>5 DEF GyOfCode
<1> QED BY <1>6, <1>7, <1>8 DEF Rise

(* And of a lying one.                                                     *)
LEMMA LyingSums ==
  ASSUME NEW bar \in AnyBar, ~bar.upright, NEW y \in 1 .. bar.h - 2
  PROVE  /\ Gx(Bar(bar), 2, y) = 0
         /\ GyOfCode(Bar(bar), 2, y) = 4 * Rise(bar, y)
<1>1. bar.w \in Nat /\ bar.h \in Nat /\ bar.w >= 4
      /\ bar.light \in Int /\ bar.ground \in Int
  BY DEF AnyBar, Shades
<1>2. \A p \in (0 .. bar.w - 1) \X (0 .. bar.h - 1) : Bar(bar).at[p] = Level(bar, p[2])
  BY DEF Bar, Level
<1>3. \A i \in 0 .. bar.w - 1, j \in 0 .. bar.h - 1 : Bar(bar).at[<<i, j>>] = Level(bar, j)
  BY <1>2
<1>4. \A j \in 0 .. bar.h - 1, i \in {2 - 1, 2, 2 + 1} : Bar(bar).at[<<i, j>>] = Level(bar, j)
  <2>1. \A i \in {2 - 1, 2, 2 + 1} : i \in 0 .. bar.w - 1
    BY <1>1
  <2> QED BY <2>1, <1>3, Zenon
<1>5. y - 1 \in 0 .. bar.h - 1 /\ y \in 0 .. bar.h - 1 /\ y + 1 \in 0 .. bar.h - 1
  BY <1>1
<1>6. Level(bar, y - 1) \in Int /\ Level(bar, y) \in Int /\ Level(bar, y + 1) \in Int
  BY <1>1 DEF Level
<1>7. Gx(Bar(bar), 2, y) =
        (Level(bar, y - 1) + 2 * Level(bar, y) + Level(bar, y + 1))
          - (Level(bar, y - 1) + 2 * Level(bar, y) + Level(bar, y + 1))
  BY <1>4, <1>5 DEF Gx
<1>8. GyOfCode(Bar(bar), 2, y) =
        Level(bar, y + 1) + 2 * Level(bar, y + 1) + Level(bar, y + 1)
          - (2 * Level(bar, y - 1) + 2 * Level(bar, y - 1))
  BY <1>4, <1>5 DEF GyOfCode
<1> QED BY <1>6, <1>7, <1>8 DEF Rise

(* What of a sum is over the threshold of the plugin.                      *)
Strength(bar) == 4 * Max({Contrast(bar), -Contrast(bar)})

(* Where the shade rises, and where it falls.                              *)
RisesAt(bar) == IF bar.light > bar.ground THEN bar.from ELSE bar.to
FallsAt(bar) == IF bar.light > bar.ground THEN bar.to ELSE bar.from

(* The responses along a row or a column through a bar.                    *)
LEMMA ResponsesOfRise ==
  ASSUME NEW bar \in AnyBar, NEW v \in Int
  PROVE  /\ OverThreshold(4 * Rise(bar, v), 20)
              = IF v \in {RisesAt(bar) - 1, RisesAt(bar)} THEN Strength(bar) ELSE 0
         /\ OverThreshold(-(4 * Rise(bar, v)), 20)
              = IF v \in {FallsAt(bar) - 1, FallsAt(bar)} THEN Strength(bar) ELSE 0
         /\ Strength(bar) \in Nat /\ Strength(bar) > 0
         /\ RisesAt(bar) \in Nat /\ FallsAt(bar) \in Nat
<1>1. bar.from \in Nat /\ bar.to \in Nat /\ bar.light \in Int /\ bar.ground \in Int
      /\ bar.from + 1 < bar.to /\ Contrast(bar) = bar.light - bar.ground
      /\ (4 * (bar.light - bar.ground) > 20 \/ 4 * (bar.ground - bar.light) > 20)
  BY DEF AnyBar, Shades, Contrast
<1>2. Strength(bar) = IF bar.light > bar.ground THEN 4 * (bar.light - bar.ground)
                                                ELSE 4 * (bar.ground - bar.light)
  <2>1. Contrast(bar) \in Int /\ -Contrast(bar) \in Int
    BY <1>1
  <2>2. Max({Contrast(bar), -Contrast(bar)})
          = IF Contrast(bar) >= -Contrast(bar) THEN Contrast(bar) ELSE -Contrast(bar)
    BY <2>1, OfTwo
  <2> QED BY <1>1, <2>2 DEF Strength
<1>3. Strength(bar) \in Nat /\ Strength(bar) > 20
  BY <1>1, <1>2
<1>4. Rise(bar, v) = IF v \in {bar.from - 1, bar.from} THEN Contrast(bar)
                     ELSE IF v \in {bar.to - 1, bar.to} THEN -Contrast(bar)
                     ELSE 0
  BY RiseOfBar
<1>5. CASE bar.light > bar.ground
  BY <1>1, <1>2, <1>3, <1>4, <1>5 DEF OverThreshold, RisesAt, FallsAt
<1>6. CASE ~(bar.light > bar.ground)
  BY <1>1, <1>2, <1>3, <1>4, <1>6 DEF OverThreshold, RisesAt, FallsAt
<1> QED BY <1>5, <1>6

(* The edges of an upright bar, searched for in a row.                     *)
LEMMA UprightEdges ==
  ASSUME NEW bar \in AnyBar, bar.upright
  PROVE  /\ maximumHorizontalEdge(Bar(bar), 2, 1, bar.w - 2, 20, "horizontalBrighter")
              = FirstOf(1, bar.w - 2, RisesAt(bar))
         /\ maximumHorizontalEdge(Bar(bar), 2, 1, bar.w - 2, 20, "horizontalDarker")
              = FirstOf(1, bar.w - 2, FallsAt(bar))
<1>1. bar.w - 2 \in Int
  BY DEF AnyBar
<1>2. Strength(bar) \in Nat /\ Strength(bar) > 0
      /\ RisesAt(bar) \in Int /\ FallsAt(bar) \in Int
  BY ResponsesOfRise
<1>3. \A x \in 1 .. bar.w - 2 :
        Response("horizontalBrighter", Bar(bar), x, 2, 20)
          = IF x \in {RisesAt(bar) - 1, RisesAt(bar)} THEN Strength(bar) ELSE 0
  <2>1. TAKE x \in 1 .. bar.w - 2
  <2>2. Response("horizontalBrighter", Bar(bar), x, 2, 20) = OverThreshold(4 * Rise(bar, x), 20)
    BY UprightSums DEF Response, horizontalBrighter
  <2> QED BY <2>2, ResponsesOfRise
<1>4. \A x \in 1 .. bar.w - 2 :
        Response("horizontalDarker", Bar(bar), x, 2, 20)
          = IF x \in {FallsAt(bar) - 1, FallsAt(bar)} THEN Strength(bar) ELSE 0
  <2>1. TAKE x \in 1 .. bar.w - 2
  <2>2. Response("horizontalDarker", Bar(bar), x, 2, 20) = OverThreshold(-(4 * Rise(bar, x)), 20)
    BY UprightSums DEF Response, horizontalDarker
  <2> QED BY <2>2, ResponsesOfRise
<1>5. maximumHorizontalEdge(Bar(bar), 2, 1, bar.w - 2, 20, "horizontalBrighter")
        = Strongest(StepAt(1, bar.w - 2, RisesAt(bar), Strength(bar)))
  BY <1>3 DEF maximumHorizontalEdge, StepAt
<1>6. maximumHorizontalEdge(Bar(bar), 2, 1, bar.w - 2, 20, "horizontalDarker")
        = Strongest(StepAt(1, bar.w - 2, FallsAt(bar), Strength(bar)))
  BY <1>4 DEF maximumHorizontalEdge, StepAt
<1>7. PICK one : one = 1 /\ one \in Nat
  OBVIOUS
<1>8. /\ Strongest(StepAt(one, bar.w - 2, RisesAt(bar), Strength(bar)))
           = FirstOf(one, bar.w - 2, RisesAt(bar))
      /\ Strongest(StepAt(one, bar.w - 2, FallsAt(bar), Strength(bar)))
           = FirstOf(one, bar.w - 2, FallsAt(bar))
  BY <1>1, <1>2, <1>7, StepIsFound
<1> QED BY <1>5, <1>6, <1>7, <1>8

(* And of a lying one, in a column.                                        *)
LEMMA LyingEdges ==
  ASSUME NEW bar \in AnyBar, ~bar.upright
  PROVE  /\ maximumVerticalEdge(Bar(bar), 2, 1, bar.h - 2, 20, "verticalBrighter")
              = FirstOf(1, bar.h - 2, RisesAt(bar))
         /\ maximumVerticalEdge(Bar(bar), 2, 1, bar.h - 2, 20, "verticalDarker")
              = FirstOf(1, bar.h - 2, FallsAt(bar))
<1>1. bar.h - 2 \in Int
  BY DEF AnyBar
<1>2. Strength(bar) \in Nat /\ Strength(bar) > 0
      /\ RisesAt(bar) \in Int /\ FallsAt(bar) \in Int
  BY ResponsesOfRise
<1>3. \A y \in 1 .. bar.h - 2 :
        Response("verticalBrighter", Bar(bar), 2, y, 20)
          = IF y \in {RisesAt(bar) - 1, RisesAt(bar)} THEN Strength(bar) ELSE 0
  <2>1. TAKE y \in 1 .. bar.h - 2
  <2>2. Response("verticalBrighter", Bar(bar), 2, y, 20) = OverThreshold(4 * Rise(bar, y), 20)
    BY LyingSums DEF Response, verticalBrighter
  <2> QED BY <2>2, ResponsesOfRise
<1>4. \A y \in 1 .. bar.h - 2 :
        Response("verticalDarker", Bar(bar), 2, y, 20)
          = IF y \in {FallsAt(bar) - 1, FallsAt(bar)} THEN Strength(bar) ELSE 0
  <2>1. TAKE y \in 1 .. bar.h - 2
  <2>2. Response("verticalDarker", Bar(bar), 2, y, 20) = OverThreshold(-(4 * Rise(bar, y)), 20)
    BY LyingSums DEF Response, verticalDarker
  <2> QED BY <2>2, ResponsesOfRise
<1>5. maximumVerticalEdge(Bar(bar), 2, 1, bar.h - 2, 20, "verticalBrighter")
        = Strongest(StepAt(1, bar.h - 2, RisesAt(bar), Strength(bar)))
  BY <1>3 DEF maximumVerticalEdge, StepAt
<1>6. maximumVerticalEdge(Bar(bar), 2, 1, bar.h - 2, 20, "verticalDarker")
        = Strongest(StepAt(1, bar.h - 2, FallsAt(bar), Strength(bar)))
  BY <1>4 DEF maximumVerticalEdge, StepAt
<1>7. PICK one : one = 1 /\ one \in Nat
  OBVIOUS
<1>8. /\ Strongest(StepAt(one, bar.h - 2, RisesAt(bar), Strength(bar)))
           = FirstOf(one, bar.h - 2, RisesAt(bar))
      /\ Strongest(StepAt(one, bar.h - 2, FallsAt(bar), Strength(bar)))
           = FirstOf(one, bar.h - 2, FallsAt(bar))
  BY <1>1, <1>2, <1>7, StepIsFound
<1> QED BY <1>5, <1>6, <1>7, <1>8

(* The corridors that the searches below are told.                         *)
LEMMA Corridors ==
  ASSUME NEW n \in Nat, n >= 4
  PROVE  /\ Min({1, n - 2}) = 1 /\ Min({n - 2, 1}) = 1
         /\ Max({1, n - 2}) = n - 2 /\ Max({n - 2, 1}) = n - 2
         /\ (2 + 2) \div 2 = 2
<1>1. PICK one : one = 1 /\ one \in Int
  OBVIOUS
<1>2. n - 2 \in Int /\ n - 2 >= 1 /\ (2 + 2) \div 2 = 2
  OBVIOUS
<1>3. /\ Min({one, n - 2}) = one /\ Min({n - 2, one}) = one
      /\ Max({one, n - 2}) = n - 2 /\ Max({n - 2, one}) = n - 2
  BY <1>1, <1>2, OfTwo
<1> QED BY <1>1, <1>2, <1>3

(* What the plugin finds is the edge of the side that it is told, whatever *)
(* the order of the corridor's ends.                                       *)
AcrossOf(bar, side) ==
    LET edge == IF side \in {"left", "top"} THEN RisesAt(bar) ELSE FallsAt(bar)
    IN  FirstOf(1, IF bar.upright THEN bar.w - 2 ELSE bar.h - 2, edge)

(* Both directions of a search across an upright bar end at one place.     *)
LEMMA UprightSearched ==
  ASSUME NEW bar \in AnyBar, bar.upright, NEW side \in {"left", "right"}
  PROVE  /\ Searched(Bar(bar), side, FALSE, <<1, 2>>, <<bar.w - 2, 2>>, 20)
              = Recorded(AcrossOf(bar, side), TRUE, <<(1 + (bar.w - 2)) \div 2, 2>>)
         /\ Searched(Bar(bar), side, FALSE, <<bar.w - 2, 2>>, <<1, 2>>, 20)
              = Recorded(AcrossOf(bar, side), TRUE, <<((bar.w - 2) + 1) \div 2, 2>>)
<1>1. /\ Min({1, bar.w - 2}) = 1 /\ Min({bar.w - 2, 1}) = 1
      /\ Max({1, bar.w - 2}) = bar.w - 2 /\ Max({bar.w - 2, 1}) = bar.w - 2
      /\ (2 + 2) \div 2 = 2
  BY Corridors DEF AnyBar
<1>2. CASE side = "left"
  BY <1>1, <1>2, UprightEdges DEF Searched, AcrossOf
<1>3. CASE side = "right"
  BY <1>1, <1>3, UprightEdges DEF Searched, AcrossOf
<1> QED BY <1>2, <1>3

(* The same of a bar that lies.                                            *)
LEMMA LyingSearched ==
  ASSUME NEW bar \in AnyBar, ~bar.upright, NEW side \in {"top", "bottom"}
  PROVE  /\ Searched(Bar(bar), side, FALSE, <<2, 1>>, <<2, bar.h - 2>>, 20)
              = Recorded(AcrossOf(bar, side), FALSE, <<2, (1 + (bar.h - 2)) \div 2>>)
         /\ Searched(Bar(bar), side, FALSE, <<2, bar.h - 2>>, <<2, 1>>, 20)
              = Recorded(AcrossOf(bar, side), FALSE, <<2, ((bar.h - 2) + 1) \div 2>>)
<1>1. /\ Min({1, bar.h - 2}) = 1 /\ Min({bar.h - 2, 1}) = 1
      /\ Max({1, bar.h - 2}) = bar.h - 2 /\ Max({bar.h - 2, 1}) = bar.h - 2
      /\ (2 + 2) \div 2 = 2
  BY Corridors DEF AnyBar
<1> DEFINE across == IF side = "top"
                     THEN maximumVerticalEdge(Bar(bar), 2, 1, bar.h - 2, 20, "verticalBrighter")
                     ELSE maximumVerticalEdge(Bar(bar), 2, 1, bar.h - 2, 20, "verticalDarker")
<1>2. across = AcrossOf(bar, side)
  BY LyingEdges DEF AcrossOf
<1>3. (side \in {"left", "right"}) = FALSE /\ side # "left" /\ side # "right"
  OBVIOUS
<1>4. Searched(Bar(bar), side, FALSE, <<2, 1>>, <<2, bar.h - 2>>, 20)
        = Recorded(across, FALSE, <<2, (1 + (bar.h - 2)) \div 2>>)
  BY <1>1, <1>3 DEF Searched
<1>5. Searched(Bar(bar), side, FALSE, <<2, bar.h - 2>>, <<2, 1>>, 20)
        = Recorded(across, FALSE, <<2, ((bar.h - 2) + 1) \div 2>>)
  BY <1>1, <1>3 DEF Searched
<1> HIDE DEF across
<1> QED BY <1>2, <1>4, <1>5

(* sobel.h:88-124: of any bar, each edge is found at the bar's edge, and   *)
(* only when a search can see it.                                          *)
THEOREM EdgesOfTheBar == ASSUME input \in AnyBar PROVE EdgesAreAtTheBar
<1> DEFINE n == IF input.upright THEN input.w ELSE input.h
           Edge(side) == IF (side \in {"left", "top"}) = (input.light > input.ground)
                         THEN input.from ELSE input.to
<1>1. /\ input.w \in Nat /\ input.h \in Nat /\ input.w >= 4 /\ input.h >= 4
      /\ input.upright \in BOOLEAN /\ input.from \in Nat /\ input.to \in Nat
      /\ input.light \in Int /\ input.ground \in Int
  BY DEF AnyBar, Shades
<1>2. n \in Nat /\ n >= 4
  BY <1>1
<1>3. ASSUME NEW side \in {"left", "right", "top", "bottom"}
      PROVE  AcrossOf(input, side) = FirstOf(1, n - 2, Edge(side)) /\ Edge(side) \in Int
  <2>1. CASE side \in {"left", "top"}
    BY <1>1, <2>1 DEF AcrossOf, RisesAt
  <2>2. CASE side \in {"right", "bottom"}
    BY <1>1, <2>2 DEF AcrossOf, FallsAt
  <2> QED BY <2>1, <2>2
<1>4. ASSUME NEW edge \in Int, NEW beside \in BOOLEAN, NEW mean
      PROVE  LET r == Recorded(FirstOf(1, n - 2, edge), beside, mean)
                 v == IF beside THEN 1 ELSE 2
             IN  /\ r.found <=> {edge - 1, edge} \cap (1 .. n - 2) # {}
                 /\ r.found => r.at[v] \in {edge - 1, edge}
  <2> DEFINE first == FirstOf(1, n - 2, edge)
  <2>1. first \in Int /\ (first # -1 <=> first > 0)
        /\ (first # -1 <=> {edge - 1, edge} \cap (1 .. n - 2) # {})
        /\ (first # -1 => first \in {edge - 1, edge})
    BY <1>2 DEF FirstOf
  <2> HIDE DEF first
  <2>2. /\ Recorded(first, beside, mean).found <=> first # -1
        /\ first # -1 =>
             Recorded(first, beside, mean).at[IF beside THEN 1 ELSE 2] = first
    <3>1. CASE beside
      BY <2>1, <3>1 DEF Recorded
    <3>2. CASE ~beside
      BY <2>1, <3>2 DEF Recorded
    <3> QED BY <3>1, <3>2
  <2>3. /\ Recorded(first, beside, mean).found
             <=> {edge - 1, edge} \cap (1 .. n - 2) # {}
        /\ Recorded(first, beside, mean).found =>
             Recorded(first, beside, mean).at[IF beside THEN 1 ELSE 2] \in {edge - 1, edge}
    BY <2>1, <2>2, Zenon
  <2> QED BY <2>3 DEF first
<1>5. CASE input.upright
  <2>1. ASSUME NEW side \in {"left", "right"}
        PROVE  LET there == Searched(Bar(input), side, FALSE, <<1, 2>>, <<input.w - 2, 2>>, 20)
                   back == Searched(Bar(input), side, FALSE, <<input.w - 2, 2>>, <<1, 2>>, 20)
               IN  /\ there = back
                   /\ there.found <=> {Edge(side) - 1, Edge(side)} \cap (1 .. input.w - 2) # {}
                   /\ there.found => there.at[1] \in {Edge(side) - 1, Edge(side)}
    <3> DEFINE mean == <<(1 + (input.w - 2)) \div 2, 2>>
               r == Recorded(FirstOf(1, input.w - 2, Edge(side)), TRUE, mean)
    <3>1. AcrossOf(input, side) = FirstOf(1, input.w - 2, Edge(side)) /\ Edge(side) \in Int
      BY <1>3, <1>5
    <3>2. 1 + (input.w - 2) = (input.w - 2) + 1
      BY <1>1
    <3>3. /\ Searched(Bar(input), side, FALSE, <<1, 2>>, <<input.w - 2, 2>>, 20) = r
          /\ Searched(Bar(input), side, FALSE, <<input.w - 2, 2>>, <<1, 2>>, 20) = r
      BY <1>5, <3>1, <3>2, UprightSearched
    <3>4. /\ r.found <=> {Edge(side) - 1, Edge(side)} \cap (1 .. input.w - 2) # {}
          /\ r.found => r.at[1] \in {Edge(side) - 1, Edge(side)}
      BY <1>4, <1>5, <3>1
    <3> HIDE DEF r
    <3> QED BY <3>3, <3>4
  <2> HIDE DEF Edge
  <2> QED BY <1>5, <2>1 DEF EdgesAreAtTheBar, Edge
<1>6. CASE ~input.upright
  <2>1. ASSUME NEW side \in {"top", "bottom"}
        PROVE  LET there == Searched(Bar(input), side, FALSE, <<2, 1>>, <<2, input.h - 2>>, 20)
                   back == Searched(Bar(input), side, FALSE, <<2, input.h - 2>>, <<2, 1>>, 20)
               IN  /\ there = back
                   /\ there.found <=> {Edge(side) - 1, Edge(side)} \cap (1 .. input.h - 2) # {}
                   /\ there.found => there.at[2] \in {Edge(side) - 1, Edge(side)}
    <3> DEFINE mean == <<2, (1 + (input.h - 2)) \div 2>>
               r == Recorded(FirstOf(1, input.h - 2, Edge(side)), FALSE, mean)
    <3>1. AcrossOf(input, side) = FirstOf(1, input.h - 2, Edge(side)) /\ Edge(side) \in Int
      BY <1>3, <1>6
    <3>2. 1 + (input.h - 2) = (input.h - 2) + 1
      BY <1>1
    <3>3. /\ Searched(Bar(input), side, FALSE, <<2, 1>>, <<2, input.h - 2>>, 20) = r
          /\ Searched(Bar(input), side, FALSE, <<2, input.h - 2>>, <<2, 1>>, 20) = r
      BY <1>6, <3>1, <3>2, LyingSearched
    <3>4. /\ r.found <=> {Edge(side) - 1, Edge(side)} \cap (1 .. input.h - 2) # {}
          /\ r.found => r.at[2] \in {Edge(side) - 1, Edge(side)}
      BY <1>4, <1>6, <3>1
    <3> HIDE DEF r
    <3> QED BY <3>3, <3>4
  <2> HIDE DEF Edge
  <2> QED BY <1>6, <2>1 DEF EdgesAreAtTheBar, Edge
<1> QED BY <1>1, <1>5, <1>6

(* centerOfLine() walks along a row, and along a column, pixel by pixel.   *)
LEMMA PixelsAlong ==
  ASSUME NEW n \in Nat \ {0}, NEW i \in 0 .. n
  PROVE  /\ LinePixel(<<1, 2>>, <<1 + n, 2>>, i) = <<1 + i, 2>>
         /\ LinePixel(<<2, 1>>, <<2, 1 + n>>, i) = <<2, 1 + i>>
         /\ StepsTo(<<1, 2>>, <<1 + n, 2>>) = n
         /\ StepsTo(<<2, 1>>, <<2, 1 + n>>) = n
<1>1. PICK zero : zero = 0 /\ zero \in Int
  OBVIOUS
<1>2. /\ (1 + n) - 1 = n /\ 1 - (1 + n) = -n /\ 2 - 2 = 0
      /\ -n \in Int /\ n \in Int /\ n >= -n /\ n >= 0 /\ n # 0
  OBVIOUS
<1>3. Max({n, -n}) = n
  BY <1>2, OfTwo
<1>4. Max({zero, zero}) = zero /\ Max({n, zero}) = n /\ Max({zero, n}) = n
  <2>1. Max({zero, zero}) = zero
    BY <1>1, OfTwo
  <2>2. Max({n, zero}) = n
    BY <1>1, <1>2, OfTwo
  <2>3. Max({zero, n}) = n
    <3>1. ~(zero >= n) /\ n \in Int
      BY <1>1, <1>2
    <3>2. Max({zero, n}) = IF zero >= n THEN zero ELSE n
      BY <1>1, <3>1, OfTwo
    <3> QED BY <3>1, <3>2
  <2> QED BY <2>1, <2>2, <2>3
<1>5. Max({0, 0}) = 0 /\ Max({n, 0}) = n /\ Max({0, n}) = n
  BY <1>1, <1>4
<1>6. (2 * i * n + n) \div (2 * n) = i
  <2> DEFINE d == 2 * n
             a == 2 * i * n + n
  <2>1. d \in Nat \ {0} /\ n \in 0 .. d - 1 /\ i \in Nat
    OBVIOUS
  <2>2. a \in Nat /\ a = d * i + n
    <3>1. i * n \in Nat /\ 2 * i * n = 2 * (i * n) /\ (2 * n) * i = 2 * (i * n)
      OBVIOUS
    <3> QED BY <3>1
  <2> HIDE DEF d, a
  <2>3. a \div d = i
    BY <2>1, <2>2, QuotientIs
  <2> QED BY <2>3 DEF d, a
<1>7. (2 * i * 0 + n) \div (2 * n) = 0
  <2> DEFINE d == 2 * n
  <2>1. PICK a \in Nat : a = 2 * i * 0 + n
    OBVIOUS
  <2>2. d \in Nat \ {0} /\ n \in 0 .. d - 1 /\ zero \in Nat /\ a = d * zero + n
    BY <1>1, <2>1
  <2> HIDE DEF d
  <2>3. a \div d = zero
    BY <2>2, QuotientIs
  <2> QED BY <1>1, <2>1, <2>3 DEF d
<1>8. /\ StepsTo(<<1, 2>>, <<1 + n, 2>>) = n
      /\ StepsTo(<<2, 1>>, <<2, 1 + n>>) = n
  BY <1>2, <1>3, <1>5 DEF StepsTo
<1>9. LinePixel(<<1, 2>>, <<1 + n, 2>>, i) = <<1 + i, 2>>
  <2> DEFINE m == Max({Max({(1 + n) - 1, 1 - (1 + n)}), Max({2 - 2, 2 - 2})})
  <2>1. m = n
    BY <1>2, <1>3, <1>5
  <2>2. LinePixel(<<1, 2>>, <<1 + n, 2>>, i)
          = IF m = 0 THEN <<1, 2>>
            ELSE <<1 + (2 * i * ((1 + n) - 1) + m) \div (2 * m),
                   2 + (2 * i * (2 - 2) + m) \div (2 * m)>>
    BY Zenon DEF LinePixel
  <2> HIDE DEF m
  <2>3. LinePixel(<<1, 2>>, <<1 + n, 2>>, i) = <<1 + i, 2 + 0>>
    BY <1>2, <1>6, <1>7, <2>1, <2>2, Zenon
  <2> QED BY <2>3
<1>10. LinePixel(<<2, 1>>, <<2, 1 + n>>, i) = <<2, 1 + i>>
  <2> DEFINE m == Max({Max({2 - 2, 2 - 2}), Max({(1 + n) - 1, 1 - (1 + n)})})
  <2>1. m = n
    BY <1>2, <1>3, <1>5
  <2>2. LinePixel(<<2, 1>>, <<2, 1 + n>>, i)
          = IF m = 0 THEN <<2, 1>>
            ELSE <<2 + (2 * i * (2 - 2) + m) \div (2 * m),
                   1 + (2 * i * ((1 + n) - 1) + m) \div (2 * m)>>
    BY Zenon DEF LinePixel
  <2> HIDE DEF m
  <2>3. LinePixel(<<2, 1>>, <<2, 1 + n>>, i) = <<2 + 0, 1 + i>>
    BY <1>2, <1>6, <1>7, <2>1, <2>2, Zenon
  <2> QED BY <2>3
<1> QED BY <1>8, <1>9, <1>10

(* A square is not below nought, and above it for what is not nought.      *)
LEMMA SquaresOf ==
  ASSUME NEW k \in Nat
  PROVE  k * k \in Nat /\ (k > 0 => k * k > 0)
OBVIOUS

(* A corridor with the whole bar in it sees both of its edges.             *)
LEMMA BothEdgesSeen ==
  ASSUME NEW low \in Nat, NEW high \in Int, NEW edge \in Int,
         edge - 1 >= low, edge - 1 <= high
  PROVE  FirstOf(low, high, edge) = edge - 1
BY DEF FirstOf

(* The middle between two edges, in the coordinate that counts.            *)
LEMMA MiddleOfEdges ==
  ASSUME NEW a \in Nat, NEW b \in Nat
  PROVE  /\ (Max({a, 0}) + Max({b, 0})) \div 2 = (a + b) \div 2
         /\ (a + b) \div 2 \in Nat
         /\ 2 * ((a + b) \div 2) - (a + b + 1) \in -2 .. 1
<1>1. PICK zero : zero = 0 /\ zero \in Int
  OBVIOUS
<1>2. Max({a, zero}) = a /\ Max({b, zero}) = b
  BY <1>1, OfTwo
<1>3. PICK s \in Nat : s = a + b
  OBVIOUS
<1>4. s \div 2 \in Nat /\ 2 * (s \div 2) - (s + 1) \in -2 .. 1
  OBVIOUS
<1>5. (Max({a, 0}) + Max({b, 0})) \div 2 = (a + b) \div 2
  BY <1>1, <1>2
<1> QED BY <1>3, <1>4, <1>5

(* The bar and its two edges lie in the corridor, with place beside it.    *)
Extent(bar) == IF bar.upright THEN bar.w ELSE bar.h
IsInside(bar) == bar \in AnyBar /\ bar.from > 1 /\ bar.to < Extent(bar) - 1

(* Both edges are in the corridor, a pixel before the bar and its end.     *)
LEMMA EdgesInside ==
  ASSUME NEW bar, IsInside(bar)
  PROVE  /\ Extent(bar) \in Nat /\ Extent(bar) > 4
         /\ RisesAt(bar) - 1 \in 1 .. Extent(bar) - 2
         /\ FallsAt(bar) - 1 \in 1 .. Extent(bar) - 2
         /\ (RisesAt(bar) - 1) + (FallsAt(bar) - 1) + 1 = bar.from + bar.to - 1
         /\ FirstOf(1, Extent(bar) - 2, RisesAt(bar)) = RisesAt(bar) - 1
         /\ FirstOf(1, Extent(bar) - 2, FallsAt(bar)) = FallsAt(bar) - 1
<1>1. /\ Extent(bar) \in Nat /\ bar.from \in Nat /\ bar.to \in Nat
      /\ bar.from + 1 < bar.to /\ bar.from > 1 /\ bar.to < Extent(bar) - 1
  BY DEF IsInside, AnyBar, Extent
<1>2. \/ RisesAt(bar) = bar.from /\ FallsAt(bar) = bar.to
      \/ RisesAt(bar) = bar.to /\ FallsAt(bar) = bar.from
  BY DEF RisesAt, FallsAt
<1>3. /\ Extent(bar) > 4
      /\ RisesAt(bar) - 1 \in 1 .. Extent(bar) - 2
      /\ FallsAt(bar) - 1 \in 1 .. Extent(bar) - 2
      /\ (RisesAt(bar) - 1) + (FallsAt(bar) - 1) + 1 = bar.from + bar.to - 1
  BY <1>1, <1>2
<1>4. PICK one : one = 1 /\ one \in Nat
  OBVIOUS
<1>5. /\ Extent(bar) - 2 \in Int /\ RisesAt(bar) \in Int /\ FallsAt(bar) \in Int
      /\ RisesAt(bar) - 1 >= one /\ RisesAt(bar) - 1 <= Extent(bar) - 2
      /\ FallsAt(bar) - 1 >= one /\ FallsAt(bar) - 1 <= Extent(bar) - 2
  BY <1>1, <1>2, <1>3, <1>4
<1>6. /\ FirstOf(one, Extent(bar) - 2, RisesAt(bar)) = RisesAt(bar) - 1
      /\ FirstOf(one, Extent(bar) - 2, FallsAt(bar)) = FallsAt(bar) - 1
  BY <1>4, <1>5, BothEdgesSeen
<1> QED BY <1>1, <1>3, <1>4, <1>6

(* The search across an upright bar and across a lying one.                *)
LEMMA MiddleAcross ==
  ASSUME NEW bar, IsInside(bar)
  PROVE  LET s == IF bar.upright THEN <<1, 2>> ELSE <<2, 1>>
             e == IF bar.upright THEN <<bar.w - 2, 2>> ELSE <<2, bar.h - 2>>
             across == Searched(Bar(bar), IF bar.upright THEN "left" ELSE "top",
                                TRUE, s, e, 20)
         IN  /\ across.found
             /\ 2 * across.at[IF bar.upright THEN 1 ELSE 2] - (bar.from + bar.to - 1)
                  \in -2 .. 1
<1> DEFINE a == RisesAt(bar) - 1
           b == FallsAt(bar) - 1
           mid == (a + b) \div 2
<1>1. bar \in AnyBar /\ bar.upright \in BOOLEAN
  BY DEF IsInside, AnyBar
<1>2. a \in Nat /\ b \in Nat /\ a >= 1 /\ b >= 1 /\ a + b + 1 = bar.from + bar.to - 1
  BY EdgesInside
<1>3. FirstOf(1, Extent(bar) - 2, RisesAt(bar)) = a
      /\ FirstOf(1, Extent(bar) - 2, FallsAt(bar)) = b
  BY EdgesInside
<1> HIDE DEF a, b
<1>4. (Max({a, 0}) + Max({b, 0})) \div 2 = mid
  BY <1>2, MiddleOfEdges
<1>5. mid \in Nat /\ mid >= 1 /\ 2 * mid - (bar.from + bar.to - 1) \in -2 .. 1
  <2>1. mid \in Nat /\ 2 * mid - (a + b + 1) \in -2 .. 1
    BY <1>2, MiddleOfEdges
  <2>2. PICK s \in Nat : s = a + b /\ s >= 2
    BY <1>2
  <2>3. s \div 2 >= 1
    BY <2>2
  <2> QED BY <1>2, <2>1, <2>2, <2>3
<1> HIDE DEF mid
<1>6. /\ \A mean : Recorded(mid, TRUE, mean).found /\ Recorded(mid, TRUE, mean).at[1] = mid
      /\ \A mean : Recorded(mid, FALSE, mean).found /\ Recorded(mid, FALSE, mean).at[2] = mid
  <2>1. (mid # -1) = TRUE /\ (mid > 0) = TRUE
    BY <1>5
  <2>2. ASSUME NEW mean
        PROVE  Recorded(mid, TRUE, mean).found /\ Recorded(mid, TRUE, mean).at[1] = mid
    BY <2>1 DEF Recorded
  <2>3. ASSUME NEW mean
        PROVE  Recorded(mid, FALSE, mean).found /\ Recorded(mid, FALSE, mean).at[2] = mid
    BY <2>1 DEF Recorded
  <2> QED BY <2>2, <2>3
<1>7. CASE bar.upright
  <2>1. /\ Min({1, bar.w - 2}) = 1 /\ Max({1, bar.w - 2}) = bar.w - 2 /\ (2 + 2) \div 2 = 2
    BY <1>1, Corridors DEF AnyBar
  <2>2. centerOfVerticalLine(Bar(bar), 2, 1, bar.w - 2, 20) = mid
    BY <1>1, <1>3, <1>4, <1>7, UprightEdges DEF centerOfVerticalLine, Extent
  <2>3. \E mean : Searched(Bar(bar), "left", TRUE, <<1, 2>>, <<bar.w - 2, 2>>, 20)
                    = Recorded(mid, TRUE, mean)
    BY <2>1, <2>2 DEF Searched
  <2> QED BY <1>5, <1>6, <1>7, <2>3
<1>8. CASE ~bar.upright
  <2>1. /\ Min({1, bar.h - 2}) = 1 /\ Max({1, bar.h - 2}) = bar.h - 2 /\ (2 + 2) \div 2 = 2
    BY <1>1, Corridors DEF AnyBar
  <2>2. centerOfHorizontalLine(Bar(bar), 2, 1, bar.h - 2, 20) = mid
    BY <1>1, <1>3, <1>4, <1>8, LyingEdges DEF centerOfHorizontalLine, Extent
  <2>3. ("top" \in {"left", "right"}) = FALSE
    OBVIOUS
  <2>4. \E mean : Searched(Bar(bar), "top", TRUE, <<2, 1>>, <<2, bar.h - 2>>, 20)
                    = Recorded(mid, FALSE, mean)
    BY <2>1, <2>2, <2>3 DEF Searched
  <2> QED BY <1>5, <1>6, <1>8, <2>4
<1> QED BY <1>1, <1>7, <1>8

(* What the other kernel answers to an upright bar is weaker.              *)
Weak(bar) == OverThreshold(Max({Contrast(bar), -Contrast(bar)}), 20)

(* It is over the threshold at the same places or nowhere.                 *)
LEMMA WeakResponses ==
  ASSUME NEW bar \in AnyBar, NEW v \in Int
  PROVE  /\ OverThreshold(Rise(bar, v), 20)
              = IF v \in {RisesAt(bar) - 1, RisesAt(bar)} THEN Weak(bar) ELSE 0
         /\ OverThreshold(-Rise(bar, v), 20)
              = IF v \in {FallsAt(bar) - 1, FallsAt(bar)} THEN Weak(bar) ELSE 0
         /\ Weak(bar) \in Nat
<1>1. bar.from \in Nat /\ bar.to \in Nat /\ bar.light \in Int /\ bar.ground \in Int
      /\ bar.from + 1 < bar.to /\ Contrast(bar) = bar.light - bar.ground
  BY DEF AnyBar, Shades, Contrast
<1> DEFINE c == Max({Contrast(bar), -Contrast(bar)})
<1>2. c = IF bar.light > bar.ground THEN bar.light - bar.ground
                                    ELSE bar.ground - bar.light
  <2>1. Contrast(bar) \in Int /\ -Contrast(bar) \in Int
    BY <1>1
  <2>2. c = IF Contrast(bar) >= -Contrast(bar) THEN Contrast(bar) ELSE -Contrast(bar)
    BY <2>1, OfTwo
  <2> QED BY <1>1, <2>2
<1> HIDE DEF c
<1>3. Weak(bar) = (IF c > 20 THEN c ELSE 0) /\ Weak(bar) \in Nat
  BY <1>1, <1>2 DEF Weak, OverThreshold, c
<1>4. Rise(bar, v) = IF v \in {bar.from - 1, bar.from} THEN Contrast(bar)
                     ELSE IF v \in {bar.to - 1, bar.to} THEN -Contrast(bar)
                     ELSE 0
  BY RiseOfBar
<1>5. CASE bar.light > bar.ground
  BY <1>1, <1>2, <1>3, <1>4, <1>5 DEF OverThreshold, RisesAt, FallsAt
<1>6. CASE ~(bar.light > bar.ground)
  BY <1>1, <1>2, <1>3, <1>4, <1>6 DEF OverThreshold, RisesAt, FallsAt
<1> QED BY <1>5, <1>6

(* The two ends of the line that a search along it finds are the edges.    *)
Along(bar, i) == IF bar.upright THEN <<1 + i, 2>> ELSE <<2, 1 + i>>
Squares(p, q) == p * p + q * q

(* The squared response along the corridor: the same at two neighbouring   *)
(* pixels at each edge, and none elsewhere.                                *)
LEMMA SquaresAlong ==
  ASSUME NEW bar, IsInside(bar), NEW i \in 0 .. Extent(bar) - 3
  PROVE  LET p == Along(bar, i)
             m == Squares(Strength(bar), IF bar.upright THEN Weak(bar) ELSE 0)
         IN  /\ Squares(horizontalDarker(Bar(bar), p[1], p[2], 20),
                        verticalDarker(Bar(bar), p[1], p[2], 20))
                  = IF i \in {(FallsAt(bar) - 1) - 1, FallsAt(bar) - 1} THEN m ELSE 0
             /\ Squares(horizontalBrighter(Bar(bar), p[1], p[2], 20),
                        verticalBrighter(Bar(bar), p[1], p[2], 20))
                  = IF i \in {(RisesAt(bar) - 1) - 1, RisesAt(bar) - 1} THEN m ELSE 0
<1>1. bar \in AnyBar /\ bar.upright \in BOOLEAN
      /\ bar.w \in Nat /\ bar.h \in Nat
  BY DEF IsInside, AnyBar
<1> DEFINE x == 1 + i
<1>2. x \in 1 .. Extent(bar) - 2 /\ x \in Int
  BY <1>1 DEF Extent
<1>3. RisesAt(bar) \in Int /\ FallsAt(bar) \in Int /\ Strength(bar) \in Nat
  BY <1>1, <1>2, ResponsesOfRise
<1>4. /\ i \in {(FallsAt(bar) - 1) - 1, FallsAt(bar) - 1}
           <=> x \in {FallsAt(bar) - 1, FallsAt(bar)}
      /\ i \in {(RisesAt(bar) - 1) - 1, RisesAt(bar) - 1}
           <=> x \in {RisesAt(bar) - 1, RisesAt(bar)}
  BY <1>3
<1> HIDE DEF x
<1>5. PICK none : none = 0 /\ none * none + none * none = 0
  OBVIOUS
<1>6. /\ OverThreshold(4 * Rise(bar, x), 20)
           = IF x \in {RisesAt(bar) - 1, RisesAt(bar)} THEN Strength(bar) ELSE 0
      /\ OverThreshold(-(4 * Rise(bar, x)), 20)
           = IF x \in {FallsAt(bar) - 1, FallsAt(bar)} THEN Strength(bar) ELSE 0
  BY <1>1, <1>2, ResponsesOfRise
<1>7. CASE bar.upright
  <2>1. Along(bar, i)[1] = x /\ Along(bar, i)[2] = 2
    BY <1>7 DEF Along, x
  <2>2. Gx(Bar(bar), x, 2) = 4 * Rise(bar, x) /\ GyOfCode(Bar(bar), x, 2) = Rise(bar, x)
    BY <1>1, <1>2, <1>7, UprightSums DEF Extent
  <2>3. /\ OverThreshold(Rise(bar, x), 20)
             = IF x \in {RisesAt(bar) - 1, RisesAt(bar)} THEN Weak(bar) ELSE 0
        /\ OverThreshold(-Rise(bar, x), 20)
             = IF x \in {FallsAt(bar) - 1, FallsAt(bar)} THEN Weak(bar) ELSE 0
    BY <1>1, <1>2, WeakResponses
  <2>4. Squares(0, 0) = 0
    BY <1>5 DEF Squares
  <2>5. Squares(OverThreshold(-(4 * Rise(bar, x)), 20), OverThreshold(-Rise(bar, x), 20))
          = IF x \in {FallsAt(bar) - 1, FallsAt(bar)}
            THEN Squares(Strength(bar), Weak(bar)) ELSE 0
    BY <1>6, <2>3, <2>4, Zenon
  <2>6. Squares(OverThreshold(4 * Rise(bar, x), 20), OverThreshold(Rise(bar, x), 20))
          = IF x \in {RisesAt(bar) - 1, RisesAt(bar)}
            THEN Squares(Strength(bar), Weak(bar)) ELSE 0
    BY <1>6, <2>3, <2>4, Zenon
  <2> QED BY <1>4, <1>7, <2>1, <2>2, <2>5, <2>6, Zenon
       DEF horizontalDarker, verticalDarker, horizontalBrighter, verticalBrighter
<1>8. CASE ~bar.upright
  <2>1. Along(bar, i)[1] = 2 /\ Along(bar, i)[2] = x
    BY <1>8 DEF Along, x
  <2>2. Gx(Bar(bar), 2, x) = 0 /\ GyOfCode(Bar(bar), 2, x) = 4 * Rise(bar, x)
    BY <1>1, <1>2, <1>8, LyingSums DEF Extent
  <2>3. OverThreshold(0, 20) = 0 /\ OverThreshold(-0, 20) = 0
    BY DEF OverThreshold
  <2>4. Squares(0, 0) = 0 /\ Squares(0, Strength(bar)) = Squares(Strength(bar), 0)
    BY <1>3 DEF Squares
  <2>5. Squares(OverThreshold(-0, 20), OverThreshold(-(4 * Rise(bar, x)), 20))
          = IF x \in {FallsAt(bar) - 1, FallsAt(bar)}
            THEN Squares(Strength(bar), 0) ELSE 0
    BY <1>6, <2>3, <2>4, Zenon
  <2>6. Squares(OverThreshold(0, 20), OverThreshold(4 * Rise(bar, x), 20))
          = IF x \in {RisesAt(bar) - 1, RisesAt(bar)}
            THEN Squares(Strength(bar), 0) ELSE 0
    BY <1>6, <2>3, <2>4, Zenon
  <2> QED BY <1>4, <1>8, <2>1, <2>2, <2>5, <2>6, Zenon
       DEF horizontalDarker, verticalDarker, horizontalBrighter, verticalBrighter
<1> QED BY <1>1, <1>7, <1>8

(* The middle found along the corridor is the bar's, give or take a pixel. *)
LEMMA MiddleAlong ==
  ASSUME NEW bar, IsInside(bar)
  PROVE  LET s == IF bar.upright THEN <<1, 2>> ELSE <<2, 1>>
             e == IF bar.upright THEN <<bar.w - 2, 2>> ELSE <<2, bar.h - 2>>
             line == centerOfLine(Bar(bar), s, e, 20)
         IN  /\ line.found
             /\ line.p2[IF bar.upright THEN 1 ELSE 2] - (bar.from + bar.to - 1)
                  \in -2 .. 1
<1> DEFINE s == IF bar.upright THEN <<1, 2>> ELSE <<2, 1>>
           e == IF bar.upright THEN <<bar.w - 2, 2>> ELSE <<2, bar.h - 2>>
           n == Extent(bar) - 3
           m == Squares(Strength(bar), IF bar.upright THEN Weak(bar) ELSE 0)
           rise == RisesAt(bar) - 1
           fall == FallsAt(bar) - 1
           v == IF bar.upright THEN 1 ELSE 2
<1>1. bar \in AnyBar /\ bar.upright \in BOOLEAN /\ bar.w \in Nat /\ bar.h \in Nat
  BY DEF IsInside, AnyBar
<1>2. /\ n \in Nat \ {0} /\ n \in Int
      /\ rise \in 1 .. n + 1 /\ fall \in 1 .. n + 1
      /\ rise - 1 \in 0 .. n /\ fall - 1 \in 0 .. n
      /\ rise + fall + 1 = bar.from + bar.to - 1
  BY EdgesInside
<1>3. e = IF bar.upright THEN <<1 + n, 2>> ELSE <<2, 1 + n>>
  BY <1>1 DEF Extent
<1>4. m \in Nat /\ m > 0
  <2>1. Strength(bar) \in Nat /\ Strength(bar) > 0 /\ Weak(bar) \in Nat
    <3>1. PICK z : z = 0 /\ z \in Int
      OBVIOUS
    <3> QED BY <1>1, <3>1, ResponsesOfRise, WeakResponses
  <2> DEFINE k == IF bar.upright THEN Weak(bar) ELSE 0
  <2>2. k \in Nat
    BY <2>1
  <2> HIDE DEF k
  <2>3. Strength(bar) * Strength(bar) \in Nat /\ Strength(bar) * Strength(bar) > 0
        /\ k * k \in Nat
    BY <2>1, <2>2, SquaresOf
  <2> DEFINE p == Strength(bar) * Strength(bar)
             q == k * k
  <2>4. m = p + q
    BY DEF Squares, k
  <2> HIDE DEF p, q, m
  <2>5. p \in Nat /\ p > 0 /\ q \in Nat
    BY <2>3 DEF p, q
  <2> QED BY <2>4, <2>5
<1>5. \A i \in 0 .. n : LinePixel(s, e, i) = Along(bar, i)
  BY <1>1, <1>2, <1>3, PixelsAlong DEF Along
<1>6. StepsTo(s, e) = n
  BY <1>1, <1>2, <1>3, PixelsAlong
<1> DEFINE Dark(i) == LET p == LinePixel(s, e, i)
                      IN  Squares(horizontalDarker(Bar(bar), p[1], p[2], 20),
                                  verticalDarker(Bar(bar), p[1], p[2], 20))
           Bright(i) == LET p == LinePixel(s, e, i)
                        IN  Squares(horizontalBrighter(Bar(bar), p[1], p[2], 20),
                                    verticalBrighter(Bar(bar), p[1], p[2], 20))
           dark == [i \in 0 .. StepsTo(s, e) |-> Dark(i)]
           bright == [i \in 0 .. StepsTo(s, e) |-> Bright(i)]
<1>7. \A i \in 0 .. n :
         /\ Dark(i) = IF i \in {fall - 1, fall} THEN m ELSE 0
         /\ Bright(i) = IF i \in {rise - 1, rise} THEN m ELSE 0
  <2>1. TAKE i \in 0 .. n
  <2>2. LinePixel(s, e, i) = Along(bar, i)
    BY <1>5
  <2> HIDE DEF s, e
  <2>3. /\ Dark(i) = Squares(horizontalDarker(Bar(bar), Along(bar, i)[1], Along(bar, i)[2], 20),
                             verticalDarker(Bar(bar), Along(bar, i)[1], Along(bar, i)[2], 20))
        /\ Bright(i) = Squares(horizontalBrighter(Bar(bar), Along(bar, i)[1], Along(bar, i)[2], 20),
                               verticalBrighter(Bar(bar), Along(bar, i)[1], Along(bar, i)[2], 20))
    BY <2>2, Zenon
  <2> HIDE DEF Dark, Bright
  <2> QED BY <2>3, SquaresAlong
<1>8. dark = StepAt(0, n, fall, m) /\ bright = StepAt(0, n, rise, m)
  <2> HIDE DEF Dark, Bright, s, e, n, m, rise, fall
  <2>1. DOMAIN dark = 0 .. n /\ DOMAIN bright = 0 .. n
    BY <1>6
  <2> QED BY <1>6, <1>7, Zenon DEF StepAt
<1>9. Strongest(dark) = fall - 1 /\ Strongest(bright) = rise - 1
  <2>1. PICK z : z = 0 /\ z \in Nat
    OBVIOUS
  <2> HIDE DEF dark, bright, n, m, rise, fall
  <2>2. rise \in Int /\ fall \in Int
    BY <1>2
  <2>3. /\ Strongest(StepAt(z, n, fall, m)) = FirstOf(z, n, fall)
        /\ Strongest(StepAt(z, n, rise, m)) = FirstOf(z, n, rise)
    <3>1. n \in Int /\ m \in Nat /\ m > 0
      BY <1>2, <1>4
    <3> QED BY <3>1, <2>1, <2>2, StepIsFound, Zenon
  <2>4. FirstOf(z, n, fall) = fall - 1 /\ FirstOf(z, n, rise) = rise - 1
    BY <1>2, <2>1, <2>2 DEF FirstOf
  <2> QED BY <1>8, <2>1, <2>3, <2>4
<1> DEFINE At(i) == IF i = -1 THEN <<0, 0>> ELSE LinePixel(s, e, i)
           line == centerOfLine(Bar(bar), s, e, 20)
<1>10. line = [p2 |-> <<At(Strongest(dark))[1] + At(Strongest(bright))[1],
                        At(Strongest(dark))[2] + At(Strongest(bright))[2]>>,
               found |-> Strongest(dark) # -1 /\ Strongest(bright) # -1]
  BY Zenon DEF centerOfLine, Squares
<1> HIDE DEF s, e, n, m, rise, fall, Dark, Bright, dark, bright
<1>11. At(fall - 1) = Along(bar, fall - 1) /\ At(rise - 1) = Along(bar, rise - 1)
  BY <1>2, <1>5
<1>12. Along(bar, fall - 1)[v] = fall /\ Along(bar, rise - 1)[v] = rise
  BY <1>1, <1>2 DEF Along
<1>13. fall - 1 # -1 /\ rise - 1 # -1
  BY <1>2
<1> HIDE DEF At, line
<1>14. line.found
  BY <1>9, <1>10, <1>13
<1>15. line.p2[v] = fall + rise
  <2>1. line.p2 = <<Along(bar, fall - 1)[1] + Along(bar, rise - 1)[1],
                    Along(bar, fall - 1)[2] + Along(bar, rise - 1)[2]>>
    BY <1>9, <1>10, <1>11
  <2> QED BY <1>1, <1>12, <2>1
<1>16. line.p2[v] - (bar.from + bar.to - 1) \in -2 .. 1
  BY <1>2, <1>15
<1> QED BY <1>14, <1>16 DEF line, s, e

(* sobel.h:146-200: the middle of any bar that lies in the corridor is     *)
(* found, by both searches.                                                *)
THEOREM MiddleOfTheBar == ASSUME input \in AnyBar PROVE MiddleIsFound
<1>1. SUFFICES ASSUME input.from > 1,
                      input.to < (IF input.upright THEN input.w ELSE input.h) - 1
               PROVE  MiddleIsFound
  BY DEF MiddleIsFound
<1>2. IsInside(input) /\ input.upright \in BOOLEAN
  BY <1>1 DEF IsInside, Extent, AnyBar
<1> DEFINE s == IF input.upright THEN <<1, 2>> ELSE <<2, 1>>
           e == IF input.upright THEN <<input.w - 2, 2>> ELSE <<2, input.h - 2>>
           line == centerOfLine(Bar(input), s, e, 20)
           across == Searched(Bar(input), IF input.upright THEN "left" ELSE "top",
                              TRUE, s, e, 20)
           v == IF input.upright THEN 1 ELSE 2
           twice == input.from + input.to - 1
<1>3. across.found /\ 2 * across.at[v] - twice \in -2 .. 1
  BY <1>2, MiddleAcross
<1>4. line.found /\ line.p2[v] - twice \in -2 .. 1
  BY <1>2, MiddleAlong
<1> HIDE DEF line, across
<1> QED BY <1>3, <1>4, Zenon DEF MiddleIsFound, line, across

(* Any picture of a team, cut into any number of rows and columns.         *)
AnyCells == [about : {"cells"}, w : Nat, h : Nat, rows : Nat \ {0}, cols : Nat \ {0}]

(* cmpattern_pattern.cpp:144-186: of any picture each pixel is in exactly  *)
(* one robot's part.                                                       *)
THEOREM CellsTile == ASSUME input \in AnyCells PROVE CellsTilePicture
<1> DEFINE cells == Cells(input.w, input.h, input.rows, input.cols)
           w == input.w \div input.cols
           h == input.h \div input.rows
<1>1. /\ input.w \in Nat /\ input.h \in Nat
      /\ input.rows \in Nat \ {0} /\ input.cols \in Nat \ {0}
  BY DEF AnyCells
<1>2. SUFFICES ASSUME cells # <<>>,
                      NEW x \in 0 .. input.w - 1, NEW y \in 0 .. input.h - 1
               PROVE  Cardinality({n \in DOMAIN cells : <<x, y>> \in cells[n]}) = 1
  BY DEF CellsTilePicture
<1>3. w * input.cols = input.w /\ h * input.rows = input.h
      /\ cells = [n \in 1 .. input.rows * input.cols |->
                     Cell(n - 1, input.rows, input.cols, w, h)]
  BY <1>2 DEF Cells
<1>4. w \in Nat /\ h \in Nat
  BY <1>1, Divided
<1> DEFINE c == input.cols
           r == input.rows
           p == x \div w
           q == y \div h
<1> HIDE DEF w, h, cells, c, r
<1>5. w # 0 /\ h # 0
  <2>1. w = 0 => w * c = 0
    BY <1>1 DEF c
  <2>2. h = 0 => h * r = 0
    BY <1>1 DEF r
  <2> QED BY <1>1, <1>3, <2>1, <2>2 DEF c, r
<1>6. /\ p \in Nat /\ x % w \in 0 .. w - 1 /\ x = w * p + (x % w)
      /\ q \in Nat /\ y % h \in 0 .. h - 1 /\ y = h * q + (y % h)
  <2>1. x \in Nat /\ y \in Nat /\ w \in Nat \ {0} /\ h \in Nat \ {0}
    BY <1>1, <1>4, <1>5
  <2> QED BY <2>1, Divided
<1> HIDE DEF p, q
<1>7. p \in 0 .. c - 1 /\ q \in 0 .. r - 1
  <2>1. ASSUME NEW a \in Nat, NEW d \in Nat, NEW u \in Nat, NEW v \in 0 .. d - 1,
               NEW z \in 0 .. d * a - 1, z = d * u + v
        PROVE  u \in 0 .. a - 1
    <3>1. SUFFICES ASSUME u >= a PROVE FALSE
      BY <2>1
    <3>2. PICK k \in Nat : u = a + k
      <4>1. u - a \in Nat /\ u = a + (u - a)
        BY <2>1, <3>1
      <4> QED BY <4>1
    <3>3. d * u = d * a + d * k /\ d * a \in Nat /\ d * k \in Nat
      BY <3>2
    <3> DEFINE s == d * u
               t == d * a
               m == d * k
    <3> HIDE DEF s, t, m
    <3>4. s = t + m /\ t \in Nat /\ m \in Nat /\ z = s + v /\ z <= t - 1 /\ v >= 0 /\ v \in Nat
      BY <2>1, <3>3 DEF s, t, m
    <3> QED BY <3>4
  <2>2. c \in Nat /\ r \in Nat /\ w * c = input.w /\ h * r = input.h
    BY <1>1, <1>3 DEF c, r
  <2>3. x \in 0 .. w * c - 1 /\ y \in 0 .. h * r - 1
    BY <2>2
  <2>4. p \in 0 .. c - 1
    BY <1>4, <1>6, <2>1, <2>2, <2>3
  <2>5. q \in 0 .. r - 1
    BY <1>4, <1>6, <2>1, <2>2, <2>3
  <2> QED BY <2>4, <2>5
<1>8. c \in Nat \ {0} /\ r \in Nat \ {0}
  BY <1>1 DEF c, r
<1>9. c * q + p \in 0 .. c * r - 1 /\ c * r = r * c
  BY <1>7, <1>8, PlaceInMemory
<1>10. c * q + p + 1 \in 1 .. r * c
  <2> DEFINE a == c * q + p
             b == r * c
  <2>1. a \in 0 .. b - 1 /\ b \in Nat
    BY <1>8, <1>9
  <2> HIDE DEF a, b
  <2> QED BY <2>1 DEF a, b
<1>11. ASSUME NEW n \in 1 .. r * c
       PROVE  <<x, y>> \in cells[n] <=> n = c * q + p + 1
  <2>0. r * c \in Nat /\ n \in Nat /\ n >= 1
    BY <1>8
  <2>1. PICK i \in Nat : i = n - 1
    BY <2>0
  <2>2. i \div c \in Nat /\ i % c \in 0 .. c - 1 /\ i = c * (i \div c) + (i % c)
    BY <1>8, Divided
  <2> DEFINE column == i % c
             row == i \div c
  <2> HIDE DEF column, row
  <2>3. cells[n] = {column * w + v : v \in 0 .. w - 1} \X {row * h + u : u \in 0 .. h - 1}
    BY <1>3, <2>1 DEF Cell, c, r, column, row
  <2>4. /\ column \in Nat /\ row \in Nat /\ column \in 0 .. c - 1
        /\ i = c * row + column
    BY <2>2 DEF column, row
  <2>5. x \in {column * w + v : v \in 0 .. w - 1} <=> column = p
    <3>1. ASSUME NEW v \in 0 .. w - 1, x = column * w + v PROVE column = p
      <4>1. SamePlace(w, x % w, p, v, column)
        BY <1>4, <1>6, <2>4, <3>1 DEF SamePlace
      <4> QED BY <1>4, <1>6, <2>4, <4>1, RowAndColumn
    <3>2. ASSUME column = p PROVE \E v \in 0 .. w - 1 : x = column * w + v
      BY <1>4, <1>6, <3>2
    <3> QED BY <3>1, <3>2
  <2>6. y \in {row * h + u : u \in 0 .. h - 1} <=> row = q
    <3>1. ASSUME NEW u \in 0 .. h - 1, y = row * h + u PROVE row = q
      <4>1. SamePlace(h, y % h, q, u, row)
        BY <1>4, <1>6, <2>4, <3>1 DEF SamePlace
      <4> QED BY <1>4, <1>6, <2>4, <4>1, RowAndColumn
    <3>2. ASSUME row = q PROVE \E u \in 0 .. h - 1 : y = row * h + u
      BY <1>4, <1>6, <3>2
    <3> QED BY <3>1, <3>2
  <2>7. <<x, y>> \in cells[n] <=> column = p /\ row = q
    BY <2>3, <2>5, <2>6
  <2>8. column = p /\ row = q <=> i = c * q + p
    <3>1. ASSUME i = c * q + p PROVE column = p /\ row = q
      <4>1. SamePlace(c, p, q, column, row)
        BY <2>4, <3>1 DEF SamePlace
      <4> QED BY <1>6, <1>7, <1>8, <2>4, <4>1, RowAndColumn
    <3> QED BY <3>1, <2>4
  <2>9. i = c * q + p <=> n = c * q + p + 1
    <3> DEFINE a == c * q + p
    <3>1. a \in Nat
      BY <1>6, <1>8
    <3> HIDE DEF a
    <3>2. i = a <=> n = a + 1
      BY <2>0, <2>1, <3>1
    <3> QED BY <3>2 DEF a
  <2> QED BY <2>7, <2>8, <2>9
<1>12. DOMAIN cells = 1 .. r * c
  BY <1>3 DEF r, c
<1>13. {n \in DOMAIN cells : <<x, y>> \in cells[n]} = {c * q + p + 1}
  BY <1>10, <1>11, <1>12
<1>14. Cardinality({c * q + p + 1}) = 1
  BY FS_Singleton
<1> QED BY <1>13, <1>14

(* Robots of any kind, as long as there is a confidence to compare.        *)
HaveConfidence(R) == \A r \in R : r.conf \in Int

(* A list after a robot was added at a place: what is from there on moves  *)
(* one place on, and the last is lost when the list is full.               *)
IsPlaced(added, robots, robot, spot, most) ==
    /\ spot \in 1 .. Len(robots) + 1
    /\ Len(added) = IF Len(robots) < most THEN Len(robots) + 1 ELSE Len(robots)
    /\ \A k \in 1 .. Len(added) :
          added[k] = IF k < spot THEN robots[k]
                     ELSE IF k = spot THEN robot ELSE robots[k - 1]
    /\ \A k \in 1 .. Len(robots) :
          IF k < spot THEN robots[k].conf >= robot.conf
                       ELSE robots[k].conf < robot.conf

(* cmpattern_teamdetector.cpp:351-379: a robot is added after those that   *)
(* are at least as sure.                                                   *)
LEMMA RobotIsPlaced ==
  ASSUME NEW R, HaveConfidence(R), NEW robots \in Seq(R), NEW robot \in R,
         NEW most \in Nat, Len(robots) <= most, InOrderOfConfidence(robots)
  PROVE  /\ addRobot(robots, robot, most) \in Seq(R)
         /\ \E spot : IsPlaced(addRobot(robots, robot, most), robots, robot, spot, most)
<1> DEFINE n == Len(robots)
           below == {i \in DOMAIN robots : robots[i].conf < robot.conf}
           added == addRobot(robots, robot, most)
<1>1. n \in Nat /\ DOMAIN robots = 1 .. n /\ robot.conf \in Int
      /\ \A i \in 1 .. n : robots[i] \in R /\ robots[i].conf \in Int
  BY LenProperties, ElementOfSeq DEF HaveConfidence
<1>2. CASE below # {}
  <2> DEFINE spot == Min(below)
             all == InsertAt(robots, spot, robot)
  <2>1. PICK first \in below : \A j \in below : first <= j
    <3>1. below \subseteq Nat
      BY <1>1
    <3> QED BY <1>2, <3>1, LeastNatural
  <2>2. spot \in below /\ \A j \in below : spot <= j
    <3>1. \E x \in below : \A y \in below : x =< y
      BY <2>1
    <3> HIDE DEF below
    <3> QED BY <3>1 DEF Min
  <2>3. spot \in 1 .. n /\ robots[spot].conf < robot.conf
        /\ \A k \in 1 .. n : k < spot => robots[k].conf >= robot.conf
    <3>1. spot \in 1 .. n /\ robots[spot].conf < robot.conf
      BY <1>1, <2>2
    <3>2. ASSUME NEW k \in 1 .. n, k < spot PROVE robots[k].conf >= robot.conf
      <4>1. k \notin below
        <5>1. k \in below => spot <= k
          BY <2>2
        <5>2. ~(spot <= k)
          BY <1>1, <3>1, <3>2
        <5> QED BY <5>1, <5>2
      <4>2. ~(robots[k].conf < robot.conf)
        BY <1>1, <4>1
      <4> QED BY <1>1, <4>2
    <3> HIDE DEF spot
    <3> QED BY <3>1, <3>2
  <2>4. \A k \in 1 .. n : ~(k < spot) => robots[k].conf < robot.conf
    <3>1. TAKE k \in 1 .. n
    <3>2. HAVE ~(k < spot)
    <3>3. CASE k = spot
      BY <2>3, <3>3
    <3>4. CASE spot < k
      <4>1. robots[spot].conf >= robots[k].conf
        BY <1>1, <2>3, <3>4 DEF InOrderOfConfidence
      <4> QED BY <1>1, <2>3, <4>1
    <3> QED BY <1>1, <2>3, <3>2, <3>3, <3>4
  <2>5. spot \in 1 .. n + 1
    BY <1>1, <2>3
  <2> HIDE DEF spot
  <2>6. all \in Seq(R) /\ IsInserted(all, robots, spot, robot)
    BY <2>5, InsertedIs
  <2> HIDE DEF all
  <2>7. Len(all) = n + 1
        /\ \A k \in 1 .. n + 1 : all[k] = IF k < spot THEN robots[k]
                                 ELSE IF k = spot THEN robot ELSE robots[k - 1]
    BY <2>6 DEF IsInserted
  <2>8. CASE n < most
    <3>1. added = all
      BY <1>2, <2>8 DEF addRobot, spot, all
    <3> HIDE DEF below, added
    <3>2. IsPlaced(added, robots, robot, spot, most)
      BY <2>3, <2>4, <2>5, <2>7, <2>8, <3>1 DEF IsPlaced
    <3> QED BY <2>6, <3>1, <3>2 DEF added
  <2>9. CASE ~(n < most)
    <3>1. added = Front(all)
      BY <1>2, <2>9 DEF addRobot, spot, all
    <3>2. Front(all) = SubSeq(all, 1, n)
      BY <1>1, <2>7 DEF Front
    <3>3. \A k \in 1 .. n : all[k] \in R
      BY <1>1, <2>6, <2>7, ElementOfSeq
    <3>4. PICK one : one = 1 /\ one \in Int
      OBVIOUS
    <3>5. /\ SubSeq(all, one, n) \in Seq(R)
          /\ Len(SubSeq(all, one, n)) = IF one <= n THEN n - one + 1 ELSE 0
          /\ \A k \in 1 .. n - one + 1 : SubSeq(all, one, n)[k] = all[one + k - 1]
      BY <1>1, <3>3, <3>4, SubSeqProperties
    <3> HIDE DEF below, added
    <3>6. added \in Seq(R) /\ Len(added) = n /\ \A k \in 1 .. n : added[k] = all[k]
      BY <1>1, <3>1, <3>2, <3>4, <3>5
    <3>7. IsPlaced(added, robots, robot, spot, most)
      BY <1>1, <2>3, <2>4, <2>5, <2>7, <2>9, <3>6 DEF IsPlaced
    <3> QED BY <3>6, <3>7 DEF added
  <2> QED BY <2>8, <2>9
<1>3. CASE below = {}
  <2>1. \A k \in 1 .. n : robots[k].conf >= robot.conf
    BY <1>1, <1>3
  <2>2. CASE n < most
    <3>1. added = Append(robots, robot)
      BY <1>3, <2>2 DEF addRobot
    <3>2. added \in Seq(R) /\ Len(added) = n + 1
          /\ (\A i \in 1 .. n : added[i] = robots[i]) /\ added[n + 1] = robot
      BY <3>1, AppendProperties
    <3> HIDE DEF below, added
    <3>3. IsPlaced(added, robots, robot, n + 1, most)
      BY <1>1, <2>1, <2>2, <3>2 DEF IsPlaced
    <3> QED BY <3>2, <3>3 DEF added
  <2>3. CASE ~(n < most)
    <3>1. added = robots
      BY <1>3, <2>3 DEF addRobot
    <3> HIDE DEF below, added
    <3>2. IsPlaced(added, robots, robot, n + 1, most)
      BY <1>1, <2>1, <2>3, <3>1 DEF IsPlaced
    <3> QED BY <3>1, <3>2 DEF added
  <2> QED BY <2>2, <2>3
<1> QED BY <1>2, <1>3

(* What a list of robots is of the first so many that were found: in their *)
(* order, as many as there is room for, and those left out are the least   *)
(* sure.                                                                   *)
IsRankingOf(list, found, n, most) ==
    /\ Len(list) = IF n < most THEN n ELSE most
    /\ InOrderOfConfidence(list)
    /\ \A k \in 1 .. Len(list) : \E j \in 1 .. n : list[k] = found[j]
    /\ \A j \in 1 .. n :
          \/ \E k \in 1 .. Len(list) : list[k] = found[j]
          \/ /\ Len(list) = most
             /\ \A k \in 1 .. Len(list) : found[j].conf <= list[k].conf

(* Adding the next robot found keeps the ranking.                          *)
LEMMA RankingGoesOn ==
  ASSUME NEW R, HaveConfidence(R), NEW found \in Seq(R), NEW most \in Nat,
         NEW n \in Nat, n + 1 <= Len(found),
         NEW list \in Seq(R), IsRankingOf(list, found, n, most)
  PROVE  LET added == addRobot(list, found[n + 1], most)
         IN  added \in Seq(R) /\ IsRankingOf(added, found, n + 1, most)
<1> DEFINE robot == found[n + 1]
           added == addRobot(list, robot, most)
           m == Len(list)
<1>1. Len(found) \in Nat /\ \A j \in 1 .. Len(found) : found[j] \in R /\ found[j].conf \in Int
  BY LenProperties, ElementOfSeq DEF HaveConfidence
<1>2. m \in Nat /\ DOMAIN list = 1 .. m
      /\ \A k \in 1 .. m : list[k] \in R /\ list[k].conf \in Int
  BY LenProperties, ElementOfSeq DEF HaveConfidence
<1>3. robot \in R /\ robot.conf \in Int
  BY <1>1
<1>4. m = (IF n < most THEN n ELSE most) /\ m <= most /\ InOrderOfConfidence(list)
  BY DEF IsRankingOf
<1> HIDE DEF robot
<1>5. /\ added \in Seq(R)
      /\ \E spot : IsPlaced(added, list, robot, spot, most)
  BY <1>3, <1>4, RobotIsPlaced
<1> HIDE DEF added
<1>6. PICK spot : IsPlaced(added, list, robot, spot, most)
  BY <1>5
<1> DEFINE p == Len(added)
<1>7. /\ spot \in 1 .. m + 1
      /\ p = IF m < most THEN m + 1 ELSE m
      /\ \A k \in 1 .. p : added[k] = IF k < spot THEN list[k]
                                      ELSE IF k = spot THEN robot ELSE list[k - 1]
      /\ \A k \in 1 .. m : IF k < spot THEN list[k].conf >= robot.conf
                                        ELSE list[k].conf < robot.conf
  BY <1>6 DEF IsPlaced
<1>8. p = IF n + 1 < most THEN n + 1 ELSE most
  BY <1>2, <1>4, <1>7
<1>9. p \in Nat /\ DOMAIN added = 1 .. p
  BY <1>5, LenProperties
<1> HIDE DEF m, p
<1>10. InOrderOfConfidence(added)
  <2>1. ASSUME NEW i \in 1 .. p, NEW j \in 1 .. p, i < j
        PROVE  added[i].conf >= added[j].conf
    <3>1. \A a \in 1 .. m, b \in 1 .. m : a < b => list[a].conf >= list[b].conf
      BY <1>2, <1>4 DEF InOrderOfConfidence
    <3>2. CASE j < spot
      <4>1. i \in 1 .. m /\ j \in 1 .. m /\ i < spot
        BY <1>2, <1>7, <1>9, <2>1, <3>2
      <4> QED BY <1>7, <2>1, <3>1, <3>2, <4>1
    <3>3. CASE j = spot
      <4>1. i \in 1 .. m /\ i < spot
        BY <1>2, <1>7, <1>9, <2>1, <3>3
      <4> QED BY <1>7, <2>1, <3>3, <4>1
    <3>4. CASE spot < j /\ i < spot
      <4>2. added[i] = list[i] /\ added[j] = list[j - 1]
        BY <1>7, <2>1, <3>4
      <4>3. i \in 1 .. m /\ j - 1 \in 1 .. m /\ i < j - 1
        BY <1>2, <1>7, <1>9, <2>1, <3>4
      <4> QED BY <3>1, <4>2, <4>3
    <3>5. CASE spot < j /\ i = spot
      <4>1. j - 1 \in 1 .. m /\ ~(j - 1 < spot)
        BY <1>2, <1>7, <1>9, <2>1, <3>5
      <4>2. added[i] = robot /\ added[j] = list[j - 1]
        BY <1>7, <2>1, <3>5
      <4> QED BY <1>2, <1>3, <1>7, <4>1, <4>2
    <3>6. CASE spot < j /\ spot < i
      <4>1. i - 1 \in 1 .. m /\ j - 1 \in 1 .. m /\ i - 1 < j - 1
        BY <1>2, <1>7, <1>9, <2>1, <3>6
      <4>2. added[i] = list[i - 1] /\ added[j] = list[j - 1]
        BY <1>7, <2>1, <3>6
      <4> QED BY <3>1, <4>1, <4>2
    <3>7. i \in Int /\ j \in Int /\ spot \in Int
      BY <1>7, <1>9, <1>2
    <3> QED BY <2>1, <3>2, <3>3, <3>4, <3>5, <3>6, <3>7
  <2> QED BY <1>9, <2>1 DEF InOrderOfConfidence
<1>11. ASSUME NEW k \in 1 .. p
       PROVE  added[k] = robot \/ \E a \in 1 .. m : added[k] = list[a]
  <2>1. CASE k < spot
    BY <1>2, <1>7, <1>9, <2>1
  <2>2. CASE k = spot
    BY <1>7, <2>2
  <2>3. CASE spot < k
    <3>1. k - 1 \in 1 .. m
      BY <1>2, <1>7, <1>9, <2>3
    <3> QED BY <1>7, <2>3, <3>1
  <2> QED BY <1>2, <1>7, <1>9, <2>1, <2>2, <2>3
<1>12. ASSUME NEW k \in 1 .. p
       PROVE  \E j \in 1 .. n + 1 : added[k] = found[j]
  <2>1. CASE added[k] = robot
    BY <2>1 DEF robot
  <2>2. CASE \E a \in 1 .. m : added[k] = list[a]
    <3>1. PICK a \in 1 .. m : added[k] = list[a]
      BY <2>2
    <3>2. \E j \in 1 .. n : list[a] = found[j]
      BY <3>1 DEF IsRankingOf, m
    <3> QED BY <3>1, <3>2
  <2> QED BY <1>11, <2>1, <2>2
<1>13. m = most =>
          \A k \in 1 .. p : \E a \in 1 .. m : list[a].conf <= added[k].conf
  <2>1. HAVE m = most
  <2>2. TAKE k \in 1 .. p
  <2>3. p = m
    BY <1>2, <1>7, <2>1
  <2>4. CASE \E a \in 1 .. m : added[k] = list[a]
    BY <1>2, <2>4
  <2>5. CASE k = spot
    <3>1. spot \in 1 .. m /\ added[k] = robot
      BY <1>7, <2>3, <2>5
    <3>2. list[spot].conf < robot.conf
      BY <1>2, <1>7, <3>1
    <3> QED BY <1>2, <1>3, <3>1, <3>2
  <2>6. CASE k # spot
    <3>1. \E a \in 1 .. m : added[k] = list[a]
      <4>1. CASE k < spot
        BY <1>2, <1>7, <2>3, <4>1
      <4>2. CASE spot < k
        <5>1. k - 1 \in 1 .. m
          BY <1>2, <1>7, <1>9, <4>2
        <5> QED BY <1>7, <4>2, <5>1
      <4> QED BY <1>2, <1>7, <1>9, <2>6, <4>1, <4>2
    <3> QED BY <2>4, <3>1
  <2> QED BY <2>5, <2>6
<1>14. (\E k \in 1 .. p : added[k] = robot)
       \/ (p = most /\ \A k \in 1 .. p : robot.conf <= added[k].conf)
  <2>1. CASE spot \in 1 .. p
    BY <1>7, <2>1
  <2>2. CASE spot \notin 1 .. p
    <3>1. spot = m + 1 /\ p = m /\ m = most
      BY <1>2, <1>4, <1>7, <1>9, <2>2
    <3>2. \A k \in 1 .. p : added[k] = list[k] /\ list[k].conf >= robot.conf
      BY <1>2, <1>7, <3>1
    <3> QED BY <1>2, <1>3, <3>1, <3>2
  <2> QED BY <2>1, <2>2
<1>15. ASSUME NEW a \in 1 .. m
       PROVE  \/ \E k \in 1 .. p : added[k] = list[a]
              \/ p = most /\ \A k \in 1 .. p : list[a].conf <= added[k].conf
  <2>1. CASE a < spot /\ a \in 1 .. p
    BY <1>7, <2>1
  <2>2. CASE ~(a < spot) /\ a + 1 \in 1 .. p
    <3>1. added[a + 1] = list[a]
      BY <1>2, <1>7, <2>2
    <3> QED BY <2>2, <3>1
  <2>3. CASE ~(a < spot) /\ a + 1 \notin 1 .. p
    <3>1. p = m /\ a = m /\ m = most
      BY <1>2, <1>4, <1>7, <1>9, <2>3
    <3>2. p \in 1 .. p
      BY <1>9, <3>1
    <3>3. \A k \in 1 .. p : list[a].conf <= added[k].conf
      <4>1. TAKE k \in 1 .. p
      <4>2. PICK b \in 1 .. m : list[b].conf <= added[k].conf
        BY <1>13, <3>1
      <4>3. list[a].conf <= list[b].conf
        <5>1. CASE b = a
          BY <1>2, <5>1
        <5>2. CASE b # a
          <6>1. b < a
            BY <1>2, <3>1, <5>2
          <6> QED BY <1>2, <1>4, <6>1 DEF InOrderOfConfidence
        <5> QED BY <5>1, <5>2
      <4>4. added[k].conf \in Int
        BY <1>2, <1>3, <1>11
      <4> QED BY <1>2, <4>2, <4>3, <4>4
    <3> QED BY <3>1, <3>3
  <2>4. a < spot => a \in 1 .. p
    BY <1>2, <1>7, <1>9
  <2> QED BY <2>1, <2>2, <2>3, <2>4
<1>16. ASSUME NEW j \in 1 .. n + 1
       PROVE  \/ \E k \in 1 .. p : added[k] = found[j]
              \/ p = most /\ \A k \in 1 .. p : found[j].conf <= added[k].conf
  <2>1. CASE j = n + 1
    BY <1>14, <2>1 DEF robot
  <2>2. CASE j \in 1 .. n
    <3>1. CASE \E a \in 1 .. m : list[a] = found[j]
      BY <1>15, <3>1
    <3>2. CASE m = most /\ \A a \in 1 .. m : found[j].conf <= list[a].conf
      <4>1. p = most
        BY <1>2, <1>7, <3>2
      <4>2. \A k \in 1 .. p : found[j].conf <= added[k].conf
        <5>1. TAKE k \in 1 .. p
        <5>2. PICK a \in 1 .. m : list[a].conf <= added[k].conf
          BY <1>13, <3>2
        <5>3. added[k].conf \in Int /\ found[j].conf \in Int /\ list[a].conf \in Int
          BY <1>1, <1>2, <1>3, <1>11, <2>2
        <5> QED BY <3>2, <5>2, <5>3
      <4> QED BY <4>1, <4>2
    <3> QED BY <2>2, <3>1, <3>2 DEF IsRankingOf, m
  <2> QED BY <2>1, <2>2
<1>17. IsRankingOf(added, found, n + 1, most)
  BY <1>8, <1>10, <1>12, <1>16 DEF IsRankingOf, p
<1> QED BY <1>5, <1>17 DEF added, robot

(* The lists of one robot after another, counted from 0 on.                *)
IsAdding(list, found, most, n) ==
    list = [i \in 0 .. n |->
               IF i = 0 THEN <<>> ELSE addRobot(list[i - 1], found[i], most)]

(* Counting the robots from 0 on, the lists exist.                         *)
LEMMA RobotsAreAdded ==
  ASSUME NEW n \in Nat, NEW found, NEW most
  PROVE  \E f : IsAdding(f, found, most, n)
<1> DEFINE Missing == {i \in Nat : ~ \E f : IsAdding(f, found, most, i)}
<1>1. SUFFICES ASSUME Missing # {} PROVE FALSE
  OBVIOUS
<1>2. PICK i \in Missing : \A j \in Missing : i <= j
  <2>1. Missing \subseteq Nat
    OBVIOUS
  <2> QED BY <1>1, <2>1, LeastNatural
<1>3. i \in Nat
      /\ \A j \in Nat : j < i => \E f : IsAdding(f, found, most, j)
  BY <1>2
<1>4. CASE i = 0
  <2> DEFINE f == [j \in 0 .. 0 |-> <<>>]
  <2>1. IsAdding(f, found, most, 0)
    BY DEF IsAdding
  <2> QED BY <1>2, <1>4, <2>1
<1>5. CASE i # 0
  <2>1. PICK g : IsAdding(g, found, most, i - 1)
    BY <1>3, <1>5
  <2> DEFINE f == [j \in 0 .. i |->
                      IF j < i THEN g[j] ELSE addRobot(g[i - 1], found[i], most)]
  <2>2. \A j \in 0 .. i - 1 :
          g[j] = IF j = 0 THEN <<>> ELSE addRobot(g[j - 1], found[j], most)
    BY <2>1 DEF IsAdding
  <2>3. IsAdding(f, found, most, i)
    BY <1>3, <1>5, <2>2 DEF IsAdding
  <2> QED BY <1>2, <2>3
<1> QED BY <1>4, <1>5

(* cmpattern_teamdetector.cpp:206-233: the robots added one after another  *)
(* are ranked, whatever is found.                                          *)
LEMMA AddedAreRanked ==
  ASSUME NEW R, HaveConfidence(R), NEW found \in Seq(R), NEW most \in Nat
  PROVE  /\ AddedInTurn(found, most) \in Seq(R)
         /\ IsRankingOf(AddedInTurn(found, most), found, Len(found), most)
<1> DEFINE f == CHOOSE f : f = [i \in 0 .. Len(found) |->
                      IF i = 0 THEN <<>> ELSE addRobot(f[i - 1], found[i], most)]
<1>1. AddedInTurn(found, most) = f[Len(found)]
  BY DEF AddedInTurn
<1>2. Len(found) \in Nat
  BY LenProperties
<1>3. \E g : IsAdding(g, found, most, Len(found))
  BY <1>2, RobotsAreAdded
<1>4. f = [i \in 0 .. Len(found) |->
                      IF i = 0 THEN <<>> ELSE addRobot(f[i - 1], found[i], most)]
  BY <1>3 DEF IsAdding
<1> HIDE DEF f
<1>5. /\ f[0] = <<>>
      /\ \A i \in 1 .. Len(found) : f[i] = addRobot(f[i - 1], found[i], most)
  BY <1>2, <1>4
<1> DEFINE Good(i) == f[i] \in Seq(R) /\ IsRankingOf(f[i], found, i, most)
           Bad == {i \in 0 .. Len(found) : ~Good(i)}
<1>6. Good(0)
  <2>1. <<>> \in Seq(R) /\ Len(<<>>) = 0 /\ DOMAIN <<>> = 1 .. 0
    BY EmptySeq, LenProperties
  <2>2. IsRankingOf(<<>>, found, 0, most)
    BY <2>1 DEF IsRankingOf, InOrderOfConfidence
  <2> QED BY <1>5, <2>1, <2>2
<1>7. ASSUME NEW i \in 1 .. Len(found), Good(i - 1) PROVE Good(i)
  <2>1. PICK n \in Nat : n = i - 1 /\ n + 1 = i /\ n + 1 <= Len(found)
    <3>1. i - 1 \in Nat /\ (i - 1) + 1 = i /\ i <= Len(found)
      BY <1>2
    <3> QED BY <3>1
  <2>2. f[n] \in Seq(R) /\ IsRankingOf(f[n], found, n, most)
    BY <1>7, <2>1
  <2> DEFINE added == addRobot(f[n], found[n + 1], most)
  <2>3. added \in Seq(R) /\ IsRankingOf(added, found, n + 1, most)
    BY <2>1, <2>2, RankingGoesOn
  <2>4. f[i] = added
    BY <1>5, <2>1
  <2> HIDE DEF added
  <2> QED BY <2>1, <2>3, <2>4
<1> HIDE DEF Good
<1>8. Bad = {}
  <2>1. SUFFICES ASSUME Bad # {} PROVE FALSE
    OBVIOUS
  <2>2. PICK i \in Bad : \A j \in Bad : i <= j
    <3>1. Bad \subseteq Nat
      BY <1>2
    <3> QED BY <2>1, <3>1, LeastNatural
  <2>3. i \in 1 .. Len(found)
    BY <1>2, <1>6, <2>2
  <2>4. i - 1 \notin Bad /\ i - 1 \in 0 .. Len(found)
    BY <1>2, <2>2, <2>3
  <2>5. Good(i - 1)
    BY <2>4
  <2>6. Good(i)
    BY <1>7, <2>3, <2>5
  <2> QED BY <2>2, <2>6
<1>9. Good(Len(found))
  BY <1>2, <1>8
<1> QED BY <1>1, <1>9 DEF Good

(* What was picked of the first so many of a list, up to each place.       *)
IsPicking(upTo, list, places, n) ==
    upTo = [i \in 0 .. n |-> CASE i = 0 -> <<>>
                               [] i \in places -> Append(upTo[i - 1], list[i])
                               [] OTHER -> upTo[i - 1]]

(* Counting the places from 0 on, it exists.                               *)
LEMMA ListIsPicked ==
  ASSUME NEW n \in Nat, NEW list, NEW places, 0 \notin places
  PROVE  \E f : IsPicking(f, list, places, n)
<1> DEFINE Missing == {i \in Nat : ~ \E f : IsPicking(f, list, places, i)}
<1>1. SUFFICES ASSUME Missing # {} PROVE FALSE
  OBVIOUS
<1>2. PICK i \in Missing : \A j \in Missing : i <= j
  <2>1. Missing \subseteq Nat
    OBVIOUS
  <2> QED BY <1>1, <2>1, LeastNatural
<1>3. i \in Nat
      /\ \A j \in Nat : j < i => \E f : IsPicking(f, list, places, j)
  BY <1>2
<1>4. CASE i = 0
  <2> DEFINE f == [j \in 0 .. 0 |-> <<>>]
  <2>1. IsPicking(f, list, places, 0)
    BY DEF IsPicking
  <2> QED BY <1>2, <1>4, <2>1
<1>5. CASE i # 0
  <2>1. PICK g : IsPicking(g, list, places, i - 1)
    BY <1>3, <1>5
  <2> DEFINE last == IF i \in places THEN Append(g[i - 1], list[i]) ELSE g[i - 1]
             f == [j \in 0 .. i |-> IF j < i THEN g[j] ELSE last]
  <2>2. \A j \in 0 .. i - 1 :
          g[j] = CASE j = 0 -> <<>>
                   [] j \in places -> Append(g[j - 1], list[j])
                   [] OTHER -> g[j - 1]
    BY <2>1 DEF IsPicking
  <2>3. \A j \in 0 .. i :
          f[j] = CASE j = 0 -> <<>>
                   [] j \in places -> Append(f[j - 1], list[j])
                   [] OTHER -> f[j - 1]
    BY <1>3, <1>5, <2>2
  <2> HIDE DEF f
  <2>4. DOMAIN f = 0 .. i /\ f = [j \in 0 .. i |-> f[j]]
    BY DEF f
  <2>5. IsPicking(f, list, places, i)
    BY <2>3, <2>4 DEF IsPicking
  <2> QED BY <1>2, <2>5
<1> QED BY <1>4, <1>5

(* What is picked are the elements at those places, in their order.        *)
ArePicked(picked, list, places, n) ==
    \E at \in [1 .. Len(picked) -> 1 .. n] :
       /\ \A k \in 1 .. Len(picked) : at[k] \in places /\ picked[k] = list[at[k]]
       /\ \A k, l \in 1 .. Len(picked) : k < l => at[k] < at[l]
       /\ 1 .. n \subseteq places =>
             Len(picked) = n /\ \A k \in 1 .. n : picked[k] = list[k]

(* Picking goes on with the next place.                                    *)
LEMMA PickingGoesOn ==
  ASSUME NEW R, NEW list \in Seq(R), NEW places, NEW n \in Nat, n + 1 <= Len(list),
         NEW picked \in Seq(R), ArePicked(picked, list, places, n)
  PROVE  LET next == IF n + 1 \in places THEN Append(picked, list[n + 1]) ELSE picked
         IN  next \in Seq(R) /\ ArePicked(next, list, places, n + 1)
<1> DEFINE m == Len(picked)
<1>1. m \in Nat /\ list[n + 1] \in R
  BY LenProperties, ElementOfSeq
<1>2. PICK at \in [1 .. m -> 1 .. n] :
         /\ \A k \in 1 .. m : at[k] \in places /\ picked[k] = list[at[k]]
         /\ \A k, l \in 1 .. m : k < l => at[k] < at[l]
         /\ 1 .. n \subseteq places =>
               m = n /\ \A k \in 1 .. n : picked[k] = list[k]
  BY DEF ArePicked
<1>3. CASE n + 1 \in places
  <2> DEFINE next == Append(picked, list[n + 1])
             to == [k \in 1 .. m + 1 |-> IF k = m + 1 THEN n + 1 ELSE at[k]]
  <2>1. /\ next \in Seq(R) /\ Len(next) = m + 1 /\ next[m + 1] = list[n + 1]
        /\ \A k \in 1 .. m : next[k] = picked[k]
    BY <1>1, AppendProperties
  <2> HIDE DEF next
  <2>2. \A k \in 1 .. m + 1 : k \in 1 .. m \/ k = m + 1
    BY <1>1
  <2>3. to \in [1 .. Len(next) -> 1 .. n + 1]
    BY <1>1, <1>2, <2>1, <2>2
  <2>4. \A k \in 1 .. m : to[k] = at[k] /\ at[k] \in 1 .. n
    <3>1. TAKE k \in 1 .. m
    <3>2. k \in 1 .. m + 1 /\ k # m + 1
      BY <1>1
    <3>3. at[k] \in 1 .. n
      BY <1>2
    <3> QED BY <3>2, <3>3
  <2>5. to[m + 1] = n + 1
    BY <1>1
  <2> HIDE DEF to
  <2>6. ASSUME NEW k \in 1 .. m + 1 PROVE to[k] \in places /\ next[k] = list[to[k]]
    BY <1>2, <1>3, <2>1, <2>2, <2>4, <2>5
  <2>7. ASSUME NEW k \in 1 .. m + 1, NEW l \in 1 .. m + 1, k < l PROVE to[k] < to[l]
    <3>1. k \in 1 .. m
      BY <1>1, <2>7
    <3>2. CASE l = m + 1
      BY <2>4, <2>5, <3>1, <3>2
    <3>3. CASE l \in 1 .. m
      BY <1>2, <2>4, <2>7, <3>1, <3>3
    <3> QED BY <2>2, <3>2, <3>3
  <2>8. 1 .. n + 1 \subseteq places =>
           m + 1 = n + 1 /\ \A k \in 1 .. n + 1 : next[k] = list[k]
    <3>1. HAVE 1 .. n + 1 \subseteq places
    <3>2. m = n /\ \A k \in 1 .. n : picked[k] = list[k]
      BY <1>2, <3>1
    <3> QED BY <2>1, <2>2, <3>2
  <2>9. ArePicked(next, list, places, n + 1)
    BY <2>1, <2>3, <2>6, <2>7, <2>8 DEF ArePicked
  <2> QED BY <1>3, <2>1, <2>9 DEF next
<1>4. CASE n + 1 \notin places
  <2>1. at \in [1 .. m -> 1 .. n + 1]
    BY <1>2
  <2>2. ~(1 .. n + 1 \subseteq places)
    BY <1>4
  <2>3. ArePicked(picked, list, places, n + 1)
    BY <1>2, <2>1, <2>2 DEF ArePicked
  <2> QED BY <1>4, <2>3
<1> QED BY <1>3, <1>4

(* What is picked of a list is at the places asked for, in their order.    *)
LEMMA PickedInOrder ==
  ASSUME NEW R, NEW list \in Seq(R), NEW places, 0 \notin places
  PROVE  /\ Picked(list, places) \in Seq(R)
         /\ ArePicked(Picked(list, places), list, places, Len(list))
<1> DEFINE f == CHOOSE f : f = [i \in 0 .. Len(list) |->
                      CASE i = 0 -> <<>>
                        [] i \in places -> Append(f[i - 1], list[i])
                        [] OTHER -> f[i - 1]]
<1>1. Picked(list, places) = f[Len(list)]
  BY DEF Picked
<1>2. Len(list) \in Nat
  BY LenProperties
<1>3. \E g : IsPicking(g, list, places, Len(list))
  BY <1>2, ListIsPicked
<1>4. f = [i \in 0 .. Len(list) |->
                      CASE i = 0 -> <<>>
                        [] i \in places -> Append(f[i - 1], list[i])
                        [] OTHER -> f[i - 1]]
  BY <1>3 DEF IsPicking
<1> HIDE DEF f
<1>5. /\ f[0] = <<>>
      /\ \A i \in 1 .. Len(list) :
            f[i] = IF i \in places THEN Append(f[i - 1], list[i]) ELSE f[i - 1]
  <2>1. \A i \in 0 .. Len(list) :
          f[i] = CASE i = 0 -> <<>>
                   [] i \in places -> Append(f[i - 1], list[i])
                   [] OTHER -> f[i - 1]
    BY <1>4
  <2>2. f[0] = <<>>
    BY <1>2, <2>1
  <2>3. ASSUME NEW i \in 1 .. Len(list)
        PROVE  f[i] = IF i \in places THEN Append(f[i - 1], list[i]) ELSE f[i - 1]
    <3>1. i \in 0 .. Len(list) /\ i # 0
      BY <1>2
    <3>2. CASE i \in places
      BY <2>1, <3>1, <3>2
    <3>3. CASE i \notin places
      BY <2>1, <3>1, <3>3
    <3> QED BY <3>2, <3>3
  <2> QED BY <2>2, <2>3
<1> DEFINE Good(i) == f[i] \in Seq(R) /\ ArePicked(f[i], list, places, i)
           Bad == {i \in 0 .. Len(list) : ~Good(i)}
<1>6. Good(0)
  <2>1. <<>> \in Seq(R) /\ Len(<<>>) = 0
    BY EmptySeq
  <2> DEFINE at == [k \in 1 .. 0 |-> 1]
  <2>2. at \in [1 .. 0 -> 1 .. 0]
    OBVIOUS
  <2>3. PICK e \in Seq(R) : e = <<>> /\ Len(e) = 0
    BY <2>1
  <2>4. 1 .. Len(e) = {} /\ 1 .. 0 = {}
    BY <2>3
  <2> HIDE DEF at
  <2>5. ArePicked(e, list, places, 0)
    <3>1. at \in [1 .. Len(e) -> 1 .. 0]
      BY <2>2, <2>3
    <3> QED BY <2>3, <2>4, <3>1 DEF ArePicked
  <2> QED BY <1>5, <2>3, <2>5
<1>7. ASSUME NEW i \in 1 .. Len(list), Good(i - 1) PROVE Good(i)
  <2>1. PICK n \in Nat : n = i - 1 /\ n + 1 = i /\ n + 1 <= Len(list)
    <3>1. i - 1 \in Nat /\ (i - 1) + 1 = i /\ i <= Len(list)
      BY <1>2
    <3> QED BY <3>1
  <2>2. f[n] \in Seq(R) /\ ArePicked(f[n], list, places, n)
    BY <1>7, <2>1
  <2> DEFINE next == IF n + 1 \in places THEN Append(f[n], list[n + 1]) ELSE f[n]
  <2>3. next \in Seq(R) /\ ArePicked(next, list, places, n + 1)
    BY <2>1, <2>2, PickingGoesOn
  <2>4. f[i] = next
    BY <1>5, <2>1
  <2> HIDE DEF next
  <2> QED BY <2>1, <2>3, <2>4
<1> HIDE DEF Good
<1>8. Bad = {}
  <2>1. SUFFICES ASSUME Bad # {} PROVE FALSE
    OBVIOUS
  <2>2. PICK i \in Bad : \A j \in Bad : i <= j
    <3>1. Bad \subseteq Nat
      BY <1>2
    <3> QED BY <2>1, <3>1, LeastNatural
  <2>3. i \in 1 .. Len(list)
    BY <1>2, <1>6, <2>2
  <2>4. i - 1 \notin Bad /\ i - 1 \in 0 .. Len(list)
    BY <1>2, <2>2, <2>3
  <2>5. Good(i - 1)
    BY <2>4
  <2>6. Good(i)
    BY <1>7, <2>3, <2>5
  <2> QED BY <2>2, <2>6
<1>9. Good(Len(list))
  BY <1>2, <1>8
<1> QED BY <1>1, <1>9 DEF Good

(* Taking the first so many of a list that has that many or more.          *)
LEMMA FirstOfList ==
  ASSUME NEW R, NEW list \in Seq(R), NEW most \in Nat
  PROVE  /\ Shortened(list, most) \in Seq(R)
         /\ Len(Shortened(list, most)) = IF Len(list) > most THEN most ELSE Len(list)
         /\ \A k \in 1 .. Len(Shortened(list, most)) : Shortened(list, most)[k] = list[k]
<1>1. Len(list) \in Nat /\ \A k \in 1 .. Len(list) : list[k] \in R
  BY LenProperties, ElementOfSeq
<1>2. CASE Len(list) > most
  <2>1. PICK one : one = 1 /\ one \in Int
    OBVIOUS
  <2>2. \A k \in one .. most : list[k] \in R
    BY <1>1, <1>2, <2>1
  <2>3. /\ SubSeq(list, one, most) \in Seq(R)
        /\ Len(SubSeq(list, one, most)) = IF one <= most THEN most - one + 1 ELSE 0
        /\ \A k \in 1 .. most - one + 1 : SubSeq(list, one, most)[k] = list[one + k - 1]
    BY <2>1, <2>2, SubSeqProperties
  <2> DEFINE first == SubSeq(list, 1, most)
  <2>4. first \in Seq(R) /\ Len(first) = most /\ \A k \in 1 .. most : first[k] = list[k]
    BY <2>1, <2>3
  <2>5. Shortened(list, most) = first
    BY <1>2 DEF Shortened
  <2> HIDE DEF first
  <2> QED BY <1>2, <2>4, <2>5
<1>3. CASE ~(Len(list) > most)
  BY <1>3 DEF Shortened
<1> QED BY <1>2, <1>3

(* cmpattern_teamdetector.cpp:410-500: whatever robots are recognised by   *)
(* their patterns, those sent are the surest, the surest first, and as     *)
(* many as there may be.                                                   *)
THEOREM SurestAreKept ==
  ASSUME NEW R, HaveConfidence(R), \A r \in R : r.conf > 0,
         NEW patterns, NEW centres, NEW s, s.most \in Nat,
         RobotsSeen(patterns, centres, s) \in Seq(R)
  PROVE  /\ InOrderOfConfidence(ByModel(patterns, centres, s))
         /\ BestOf(ByModel(patterns, centres, s), RobotsSeen(patterns, centres, s), s)
<1> DEFINE seen == RobotsSeen(patterns, centres, s)
           list == AddedInTurn(seen, 2 * s.most)
           stripped == stripRobots(list)
           sent == Shortened(stripped, s.most)
           n == Len(seen)
           m == Len(list)
<1>1. ByModel(patterns, centres, s) = sent
  BY DEF ByModel
<1> HIDE DEF seen
<1>2. seen \in Seq(R) /\ n \in Nat /\ DOMAIN seen = 1 .. n
  BY LenProperties DEF seen
<1>3. list \in Seq(R) /\ IsRankingOf(list, seen, n, 2 * s.most)
  <2>1. 2 * s.most \in Nat
    OBVIOUS
  <2> QED BY <1>2, <2>1, AddedAreRanked
<1> HIDE DEF list
<1>4. m \in Nat /\ DOMAIN list = 1 .. m
      /\ \A k \in 1 .. m : list[k].conf \in Int /\ list[k].conf # 0
  BY <1>3, LenProperties, ElementOfSeq DEF HaveConfidence
<1>5. stripped \in Seq(R) /\ Len(stripped) = m /\ \A k \in 1 .. m : stripped[k] = list[k]
  <2> DEFINE places == {i \in DOMAIN list : list[i].conf # 0}
  <2>1. places = 1 .. m /\ 0 \notin places
    BY <1>4
  <2>2. stripped = Picked(list, places)
    BY DEF stripRobots
  <2> HIDE DEF places
  <2>3. stripped \in Seq(R) /\ ArePicked(stripped, list, places, m)
    BY <1>3, <2>1, <2>2, PickedInOrder
  <2> QED BY <2>1, <2>3 DEF ArePicked
<1> HIDE DEF stripped
<1>6. /\ sent \in Seq(R) /\ Len(sent) = IF m > s.most THEN s.most ELSE m
      /\ \A k \in 1 .. Len(sent) : sent[k] = stripped[k]
  BY <1>5, FirstOfList
<1> HIDE DEF sent
<1> DEFINE p == Len(sent)
<1>7. p \in Nat /\ p <= m /\ DOMAIN sent = 1 .. p /\ \A k \in 1 .. p : sent[k] = list[k]
  <2>1. p \in Nat /\ DOMAIN sent = 1 .. p
    BY <1>6, LenProperties
  <2>2. p <= m
    BY <1>4, <1>6
  <2> QED BY <1>4, <1>5, <1>6, <2>1, <2>2
<1>8. /\ m = (IF n < 2 * s.most THEN n ELSE 2 * s.most)
      /\ \A i \in 1 .. m, j \in 1 .. m : i < j => list[i].conf >= list[j].conf
      /\ \A j \in 1 .. n :
            \/ \E k \in 1 .. m : list[k] = seen[j]
            \/ \A k \in 1 .. m : seen[j].conf <= list[k].conf
  BY <1>3, <1>4 DEF IsRankingOf, InOrderOfConfidence
<1>9. p = IF s.most <= n THEN s.most ELSE n
  BY <1>2, <1>4, <1>6, <1>8
<1> HIDE DEF n, m, p
<1>10. InOrderOfConfidence(sent)
  <2>1. \A i \in 1 .. p, j \in 1 .. p : i < j => sent[i].conf >= sent[j].conf
    BY <1>4, <1>7, <1>8
  <2> QED BY <1>7, <2>1 DEF InOrderOfConfidence
<1>11. Len(sent) = Min({s.most, Len(seen)})
  <2>1. Min({s.most, n}) = IF s.most <= n THEN s.most ELSE n
    BY <1>2, OfTwo
  <2> QED BY <1>9, <2>1 DEF p, n
<1>12. ASSUME NEW r \in ToSet(seen) \ ToSet(sent), NEW x \in ToSet(sent)
       PROVE  r.conf <= x.conf
  <2>1. PICK j \in 1 .. n : r = seen[j]
    BY <1>2 DEF ToSet
  <2>2. PICK l \in 1 .. p : x = list[l]
    BY <1>7 DEF ToSet
  <2>3. CASE \E k \in 1 .. m : list[k] = seen[j]
    <3>1. PICK k \in 1 .. m : list[k] = r
      BY <2>1, <2>3
    <3>2. k \notin 1 .. p
      BY <1>7, <3>1 DEF ToSet
    <3>3. l < k /\ l \in 1 .. m
      BY <1>4, <1>7, <2>2, <3>2
    <3> QED BY <1>4, <1>8, <2>2, <3>1, <3>3
  <2>4. CASE \A k \in 1 .. m : seen[j].conf <= list[k].conf
    <3>1. l \in 1 .. m
      BY <1>4, <1>7, <2>2
    <3> QED BY <2>1, <2>2, <2>4, <3>1
  <2> QED BY <1>8, <2>3, <2>4
<1>13. BestOf(sent, seen, s)
  BY <1>11, <1>12 DEF BestOf
<1> QED BY <1>1, <1>10, <1>13 DEF seen

(* Any regions of the colour of a team without patterns, and any settings. *)
AnyCounts == [team : Nat, markers : Nat, green : Nat, blackWhite : Nat, all : Nat]
AnyRegion == [at : Int \X Int, conf : Nat, count : AnyCounts]
AnyField == [length : Nat, width : Nat, boundary : Nat]
AnyShares == Nat \X Nat
AnyCentres ==
    [about : {"centres"}, regions : Seq(AnyRegion),
     settings : [field : AnyField, histogram : BOOLEAN, radius : Nat,
                 markeryness : AnyShares, greenness : AnyShares,
                 blackWhiteness : AnyShares, distance : Nat, most : Nat]]

(* A robot that is known by its centre alone.                              *)
Centred == [at : Int \X Int, conf : Nat]

(* What is near a surer robot or another that is as sure has no confidence *)
(* left.                                                                   *)
LEMMA DuplicatesAreMarked ==
  ASSUME NEW found \in Seq(Centred), NEW d \in Nat
  PROVE  LET marked == MarkDuplicates(found, d)
         IN  /\ marked \in Seq(Centred) /\ Len(marked) = Len(found)
             /\ \A i \in 1 .. Len(found) : marked[i].conf # 0 =>
                  /\ marked[i] = found[i]
                  /\ \A j \in 1 .. Len(found) : i < j =>
                       ~(SquaredGap(found[i].at, found[j].at) < Square(d))
<1> DEFINE n == Len(found)
           Near(i) == \E j \in DOMAIN found :
                         i < j /\ SquaredGap(found[i].at, found[j].at) < Square(d)
           marked == MarkDuplicates(found, d)
<1>1. n \in Nat /\ DOMAIN found = 1 .. n /\ \A i \in 1 .. n : found[i] \in Centred
  BY LenProperties, ElementOfSeq
<1>2. marked = [i \in 1 .. n |->
                   IF Near(i) THEN [found[i] EXCEPT !.conf = 0] ELSE found[i]]
  BY <1>1 DEF MarkDuplicates
<1> HIDE DEF Near, marked, n
<1>3. ASSUME NEW i \in 1 .. n
      PROVE  marked[i] \in Centred /\ (marked[i].conf # 0 => ~Near(i) /\ marked[i] = found[i])
  <2>1. CASE Near(i)
    <3>1. marked[i] = [found[i] EXCEPT !.conf = 0]
      BY <1>2, <2>1
    <3>2. found[i] \in Centred
      BY <1>1
    <3>3. [found[i] EXCEPT !.conf = 0] \in Centred /\ [found[i] EXCEPT !.conf = 0].conf = 0
      BY <3>2 DEF Centred
    <3> QED BY <3>1, <3>3
  <2>2. CASE ~Near(i)
    BY <1>1, <1>2, <2>2
  <2> QED BY <2>1, <2>2
<1>4. marked \in [1 .. n -> Centred]
  BY <1>2, <1>3
<1>5. marked \in Seq(Centred) /\ Len(marked) = n
  BY <1>1, <1>4
<1>6. ASSUME NEW i \in 1 .. n, marked[i].conf # 0
      PROVE  /\ marked[i] = found[i]
             /\ \A j \in 1 .. n : i < j =>
                  ~(SquaredGap(found[i].at, found[j].at) < Square(d))
  BY <1>1, <1>3, <1>6 DEF Near
<1> QED BY <1>5, <1>6 DEF marked, n

(* cmpattern_teamdetector.cpp:192-255: whatever the regions and the        *)
(* settings, the robots of a team without patterns are ranked.             *)
THEOREM RobotsRanked == ASSUME input \in AnyCentres PROVE RobotsAreRanked
<1> DEFINE regions == input.regions
           s == input.settings
           robots == [i \in DOMAIN regions |->
                         [at |-> regions[i].at, conf |-> regions[i].conf]]
           Seen(r) == /\ InPlay(r.at, s.field)
                      /\ ~s.histogram \/ checkHistogram(r.count, s)
           places == {i \in DOMAIN regions : Seen(regions[i])}
           picked == Picked(robots, places)
           found == AddedInTurn(picked, 2 * s.most)
           marked == MarkDuplicates(found, s.distance)
           stripped == stripRobots(marked)
           sent == Shortened(stripped, s.most)
<1>1. regions \in Seq(AnyRegion) /\ s.most \in Nat /\ s.distance \in Nat
  BY DEF AnyCentres
<1>2. ByMarkerOnly(regions, s) = sent
  BY DEF ByMarkerOnly
<1>3. Len(regions) \in Nat /\ DOMAIN regions = 1 .. Len(regions)
      /\ \A i \in 1 .. Len(regions) : regions[i] \in AnyRegion
  BY <1>1, LenProperties, ElementOfSeq
<1>4. robots \in Seq(Centred)
  <2>1. \A i \in 1 .. Len(regions) : robots[i] \in Centred
    BY <1>3 DEF AnyRegion, Centred
  <2>2. robots \in [1 .. Len(regions) -> Centred]
    BY <1>3, <2>1
  <2> HIDE DEF robots
  <2> QED BY <1>3, <2>2
<1>5. 0 \notin places
  BY <1>3
<1> HIDE DEF robots, places
<1>6. picked \in Seq(Centred)
  BY <1>4, <1>5, PickedInOrder
<1> HIDE DEF picked
<1>7. HaveConfidence(Centred)
  BY DEF HaveConfidence, Centred
<1>8. found \in Seq(Centred) /\ InOrderOfConfidence(found)
  <2>1. 2 * s.most \in Nat
    BY <1>1
  <2>2. /\ found \in Seq(Centred)
        /\ IsRankingOf(found, picked, Len(picked), 2 * s.most)
    BY <1>6, <1>7, <2>1, AddedAreRanked
  <2> QED BY <2>2 DEF IsRankingOf
<1> HIDE DEF found
<1> DEFINE n == Len(found)
           Apart(i, j) == ~(SquaredGap(found[i].at, found[j].at) < Square(s.distance))
<1>9. n \in Nat /\ DOMAIN found = 1 .. n /\ \A i \in 1 .. n : found[i] \in Centred
  BY <1>8, LenProperties, ElementOfSeq
<1>10. /\ marked \in Seq(Centred) /\ Len(marked) = n
       /\ \A i \in 1 .. n : marked[i].conf # 0 =>
            marked[i] = found[i] /\ \A j \in 1 .. n : i < j => Apart(i, j)
  BY <1>1, <1>8, DuplicatesAreMarked
<1> HIDE DEF marked, n
<1> DEFINE kept == {i \in DOMAIN marked : marked[i].conf # 0}
<1>11. DOMAIN marked = 1 .. n /\ 0 \notin kept
  BY <1>9, <1>10, LenProperties
<1>12. stripped = Picked(marked, kept)
  BY DEF stripRobots
<1> HIDE DEF kept
<1>13. stripped \in Seq(Centred) /\ ArePicked(stripped, marked, kept, n)
  BY <1>10, <1>11, <1>12, PickedInOrder
<1> HIDE DEF stripped
<1>14. /\ sent \in Seq(Centred)
       /\ Len(sent) = IF Len(stripped) > s.most THEN s.most ELSE Len(stripped)
       /\ \A k \in 1 .. Len(sent) : sent[k] = stripped[k]
  BY <1>1, <1>13, FirstOfList
<1> HIDE DEF sent
<1>15. Len(stripped) \in Nat /\ Len(sent) \in Nat /\ DOMAIN sent = 1 .. Len(sent)
       /\ Len(sent) <= s.most /\ Len(sent) <= Len(stripped)
  BY <1>1, <1>13, <1>14, LenProperties
<1>16. PICK at \in [1 .. Len(stripped) -> 1 .. n] :
          /\ \A k \in 1 .. Len(stripped) : at[k] \in kept /\ stripped[k] = marked[at[k]]
          /\ \A k, l \in 1 .. Len(stripped) : k < l => at[k] < at[l]
  BY <1>13 DEF ArePicked
<1>17. ASSUME NEW k \in 1 .. Len(sent)
       PROVE  /\ k \in 1 .. Len(stripped) /\ at[k] \in 1 .. n
              /\ sent[k] = found[at[k]] /\ sent[k].conf # 0 /\ sent[k].conf \in Nat
              /\ \A j \in 1 .. n : at[k] < j => Apart(at[k], j)
  <2>1. k \in 1 .. Len(stripped)
    BY <1>15
  <2>2. at[k] \in 1 .. n /\ sent[k] = marked[at[k]] /\ marked[at[k]].conf # 0
    BY <1>14, <1>16, <2>1 DEF kept
  <2>3. /\ marked[at[k]] = found[at[k]]
        /\ \A j \in 1 .. n : at[k] < j => Apart(at[k], j)
    BY <1>10, <2>2
  <2>4. found[at[k]].conf \in Nat
    BY <1>9, <2>2 DEF Centred
  <2> HIDE DEF Apart
  <2> QED BY <2>1, <2>2, <2>3, <2>4
<1>18. ASSUME NEW i \in 1 .. Len(sent), NEW j \in 1 .. Len(sent), i < j
       PROVE  /\ sent[i].conf >= sent[j].conf
              /\ SquaredGap(sent[i].at, sent[j].at) >= Square(s.distance)
  <2>1. at[i] < at[j] /\ at[i] \in 1 .. n /\ at[j] \in 1 .. n
    BY <1>16, <1>17, <1>18
  <2>2. found[at[i]].conf >= found[at[j]].conf
    BY <1>8, <1>9, <2>1 DEF InOrderOfConfidence
  <2>3. Apart(at[i], at[j])
    BY <1>17, <2>1
  <2>4. sent[i] = found[at[i]] /\ sent[j] = found[at[j]]
    BY <1>17
  <2>5. SquaredGap(found[at[i]].at, found[at[j]].at) \in Int
    <3>1. found[at[i]] \in Centred /\ found[at[j]] \in Centred
      BY <1>9, <2>1
    <3>2. \A p, q \in Int \X Int : SquaredGap(p, q) \in Int
      BY DEF SquaredGap, Square
    <3> QED BY <3>1, <3>2 DEF Centred
  <2>6. Square(s.distance) \in Int
    BY <1>1 DEF Square
  <2>7. SquaredGap(found[at[i]].at, found[at[j]].at) >= Square(s.distance)
    BY <2>3, <2>5, <2>6
  <2> QED BY <2>2, <2>4, <2>7
<1>19. \A i \in 1 .. Len(sent) : sent[i].conf > 0
  BY <1>17
<1> QED BY <1>2, <1>15, <1>18, <1>19 DEF RobotsAreRanked

(* The powers of two as far as a table of 24 bits needs them.              *)
LEMMA PowersOfTwo ==
  ASSUME NEW n \in 0 .. 24
  PROVE  2 ^ n \in Nat \ {0} /\ 2 ^ (n + 1) = 2 * 2 ^ n
<1>1. \/ n = 0 \/ n = 1 \/ n = 2 \/ n = 3 \/ n = 4 \/ n = 5 \/ n = 6
      \/ n = 7 \/ n = 8 \/ n = 9 \/ n = 10 \/ n = 11 \/ n = 12 \/ n = 13
      \/ n = 14 \/ n = 15 \/ n = 16 \/ n = 17 \/ n = 18 \/ n = 19 \/ n = 20
      \/ n = 21 \/ n = 22 \/ n = 23 \/ n = 24
  OBVIOUS
<1>2. CASE n = 0 BY <1>2
<1>3. CASE n = 1 BY <1>3
<1>4. CASE n = 2 BY <1>4
<1>5. CASE n = 3 BY <1>5
<1>6. CASE n = 4 BY <1>6
<1>7. CASE n = 5 BY <1>7
<1>8. CASE n = 6 BY <1>8
<1>9. CASE n = 7 BY <1>9
<1>10. CASE n = 8 BY <1>10
<1>11. CASE n = 9 BY <1>11
<1>12. CASE n = 10 BY <1>12
<1>13. CASE n = 11 BY <1>13
<1>14. CASE n = 12 BY <1>14
<1>15. CASE n = 13 BY <1>15
<1>16. CASE n = 14 BY <1>16
<1>17. CASE n = 15 BY <1>17
<1>18. CASE n = 16 BY <1>18
<1>19. CASE n = 17 BY <1>19
<1>20. CASE n = 18 BY <1>20
<1>21. CASE n = 19 BY <1>21
<1>22. CASE n = 20 BY <1>22
<1>23. CASE n = 21 BY <1>23
<1>24. CASE n = 22 BY <1>24
<1>25. CASE n = 23 BY <1>25
<1>26. CASE n = 24 BY <1>26
<1> QED
  BY <1>1, <1>2, <1>3, <1>4, <1>5, <1>6, <1>7, <1>8, <1>9, <1>10, <1>11,
     <1>12, <1>13, <1>14, <1>15, <1>16, <1>17, <1>18, <1>19, <1>20, <1>21,
     <1>22, <1>23, <1>24, <1>25, <1>26

(* Shifting by one number of bits and by another.                          *)
LEMMA PowerOfSum ==
  ASSUME NEW a \in 0 .. 8, NEW b \in 0 .. 16
  PROVE  2 ^ (a + b) = 2 ^ a * 2 ^ b
<1> DEFINE P(i) == 2 ^ (i + b) = 2 ^ i * 2 ^ b
<1>1. P(0)
  <2>1. 0 + b = b /\ 2 ^ 0 = 1 /\ b \in 0 .. 24
    OBVIOUS
  <2>2. 2 ^ b \in Nat
    BY <2>1, PowersOfTwo
  <2> QED BY <2>1, <2>2
<1>2. ASSUME NEW i \in 0 .. 7, P(i) PROVE P(i + 1)
  <2>1. i + b \in 0 .. 24 /\ i \in 0 .. 24 /\ b \in 0 .. 24
        /\ (i + 1) + b = (i + b) + 1
    OBVIOUS
  <2>2. 2 ^ (i + 1) = 2 * 2 ^ i /\ 2 ^ ((i + b) + 1) = 2 * 2 ^ (i + b)
        /\ 2 ^ i \in Nat /\ 2 ^ b \in Nat
    BY <2>1, PowersOfTwo
  <2>3. PICK u, v : u = 2 ^ i /\ v = 2 ^ b
    OBVIOUS
  <2>4. 2 ^ ((i + 1) + b) = 2 * (u * v) /\ 2 ^ (i + 1) = 2 * u
    BY <1>2, <2>1, <2>2, <2>3
  <2>5. 2 * (u * v) = (2 * u) * v
    BY <2>2, <2>3
  <2> QED BY <2>3, <2>4, <2>5
<1> HIDE DEF P
<1>3. P(0 + 1) /\ P(1 + 1) /\ P(2 + 1) /\ P(3 + 1) /\ P(4 + 1) /\ P(5 + 1)
      /\ P(6 + 1) /\ P(7 + 1)
  <2>1. P(1) BY <1>1, <1>2
  <2>2. P(2) BY <2>1, <1>2
  <2>3. P(3) BY <2>2, <1>2
  <2>4. P(4) BY <2>3, <1>2
  <2>5. P(5) BY <2>4, <1>2
  <2>6. P(6) BY <2>5, <1>2
  <2>7. P(7) BY <2>6, <1>2
  <2>8. P(8) BY <2>7, <1>2
  <2> QED BY <2>1, <2>2, <2>3, <2>4, <2>5, <2>6, <2>7, <2>8
<1>4. P(a)
  BY <1>1, <1>3
<1> QED BY <1>4 DEF P

(* A table of at most 8 bits for each axis, a colour of three bytes, and a *)
(* cell of the table.                                                      *)
AnyBits == [Axes -> 0 .. 8]
AnyTriple == [Axes -> Byte]
IsCell(cell, bits) ==
    /\ cell = [a \in Axes |-> cell[a]]
    /\ \A a \in Axes : cell[a] \in 0 .. 2 ^ bits[a] - 1

(* How many values an axis tells apart and how many fall together.         *)
LEMMA BitsOfAxis ==
  ASSUME NEW b \in 0 .. 8
  PROVE  \E s \in Nat \ {0}, d \in Nat \ {0} :
            2 ^ b = s /\ 2 ^ (8 - b) = d /\ s * d = 256
<1>1. \/ b = 0 \/ b = 1 \/ b = 2 \/ b = 3 \/ b = 4 \/ b = 5 \/ b = 6 \/ b = 7
      \/ b = 8
  OBVIOUS
<1>2. CASE b = 0
  <2>1. 2 ^ b = 1 /\ 2 ^ (8 - b) = 256 /\ 1 * 256 = 256 BY <1>2
  <2> QED BY <2>1
<1>3. CASE b = 1
  <2>1. 2 ^ b = 2 /\ 2 ^ (8 - b) = 128 /\ 2 * 128 = 256 BY <1>3
  <2> QED BY <2>1
<1>4. CASE b = 2
  <2>1. 2 ^ b = 4 /\ 2 ^ (8 - b) = 64 /\ 4 * 64 = 256 BY <1>4
  <2> QED BY <2>1
<1>5. CASE b = 3
  <2>1. 2 ^ b = 8 /\ 2 ^ (8 - b) = 32 /\ 8 * 32 = 256 BY <1>5
  <2> QED BY <2>1
<1>6. CASE b = 4
  <2>1. 2 ^ b = 16 /\ 2 ^ (8 - b) = 16 /\ 16 * 16 = 256 BY <1>6
  <2> QED BY <2>1
<1>7. CASE b = 5
  <2>1. 2 ^ b = 32 /\ 2 ^ (8 - b) = 8 /\ 32 * 8 = 256 BY <1>7
  <2> QED BY <2>1
<1>8. CASE b = 6
  <2>1. 2 ^ b = 64 /\ 2 ^ (8 - b) = 4 /\ 64 * 4 = 256 BY <1>8
  <2> QED BY <2>1
<1>9. CASE b = 7
  <2>1. 2 ^ b = 128 /\ 2 ^ (8 - b) = 2 /\ 128 * 2 = 256 BY <1>9
  <2> QED BY <2>1
<1>10. CASE b = 8
  <2>1. 2 ^ b = 256 /\ 2 ^ (8 - b) = 1 /\ 256 * 1 = 256 BY <1>10
  <2> QED BY <2>1
<1> QED
  BY <1>1, <1>2, <1>3, <1>4, <1>5, <1>6, <1>7, <1>8, <1>9, <1>10

(* A product of less by less.                                              *)
LEMMA LessTimes ==
  ASSUME NEW s \in Nat, NEW d \in Nat \ {0}, NEW q \in Nat, NEW r \in 0 .. d - 1
  PROVE  (d * q + r < s * d) <=> (q < s)
<1>1. ASSUME q < s PROVE d * q + r < s * d
  <2>1. PICK k \in Nat : s = q + 1 + k
    <3>1. s - q - 1 \in Nat /\ s = q + 1 + (s - q - 1)
      BY <1>1
    <3> QED BY <3>1
  <2>2. PICK a \in Nat, c \in Nat : a = d * q /\ c = d * k
    OBVIOUS
  <2>3. s * d = a + d + c
    BY <2>1, <2>2
  <2> QED BY <2>2, <2>3
<1>2. ASSUME s <= q PROVE s * d <= d * q + r
  <2>1. PICK k \in Nat : q = s + k
    <3>1. q - s \in Nat /\ q = s + (q - s)
      BY <1>2
    <3> QED BY <3>1
  <2>2. PICK a \in Nat, c \in Nat : a = s * d /\ c = d * k
    OBVIOUS
  <2>3. d * q = a + c
    BY <2>1, <2>2
  <2> QED BY <2>2, <2>3
<1>3. d * q + r \in Nat /\ s * d \in Nat
  OBVIOUS
<1> QED BY <1>1, <1>2, <1>3

(* What a byte keeps of its bits, and its corner's.                        *)
LEMMA KeptBits ==
  ASSUME NEW b \in 0 .. 8
  PROVE  /\ \A n \in Byte : n \div 2 ^ (8 - b) \in 0 .. 2 ^ b - 1
         /\ \A c \in 0 .. 2 ^ b - 1 :
               /\ (c * 2 ^ (8 - b)) % 256 = c * 2 ^ (8 - b)
               /\ c * 2 ^ (8 - b) \in Byte
               /\ (c * 2 ^ (8 - b)) \div 2 ^ (8 - b) = c
<1>1. PICK s \in Nat \ {0}, d \in Nat \ {0} :
         2 ^ b = s /\ 2 ^ (8 - b) = d /\ s * d = 256
  BY BitsOfAxis
<1>2. ASSUME NEW n \in Byte PROVE n \div d \in 0 .. s - 1
  <2>1. n \in Nat /\ n < 256
    BY DEF Byte
  <2>2. PICK q \in Nat, r \in 0 .. d - 1 : q = n \div d /\ n = d * q + r
    <3>1. /\ n \div d \in Nat /\ n % d \in 0 .. d - 1
          /\ n = d * (n \div d) + (n % d)
      BY <2>1, Divided
    <3> QED BY <3>1
  <2>3. q < s
    BY <1>1, <2>1, <2>2, LessTimes
  <2> QED BY <2>2, <2>3
<1>3. ASSUME NEW c \in 0 .. s - 1
      PROVE  /\ (c * d) % 256 = c * d /\ c * d \in Byte /\ (c * d) \div d = c
  <2>1. PICK zero : zero = 0 /\ zero \in Int
    OBVIOUS
  <2>2. zero \in 0 .. d - 1 /\ d * c + zero = c * d /\ d * c + zero = d * c
        /\ c \in Nat /\ c * d \in Nat /\ s \in Nat
    BY <2>1
  <2>3. c * d < 256
    <3>1. d * c + zero < s * d
      BY <2>2, LessTimes
    <3> QED BY <1>1, <2>2, <3>1
  <2>4. (c * d) \div d = c
    BY <2>2, QuotientIs
  <2>5. c * d \in 0 .. 255
    BY <2>2, <2>3
  <2> QED BY <2>4, <2>5 DEF Byte
<1> QED BY <1>1, <1>2, <1>3

(* A colour's cell is in the table, and a cell's corner in the cell.       *)
LEMMA ColourInCell ==
  ASSUME NEW bits \in AnyBits
  PROVE  /\ \A colour \in AnyTriple : IsCell(norm2lut(bits, colour), bits)
         /\ \A cell : IsCell(cell, bits) =>
               /\ lut2norm(bits, cell) \in AnyTriple
               /\ norm2lut(bits, lut2norm(bits, cell)) = cell
<1>1. \A a \in Axes : bits[a] \in 0 .. 8
  BY DEF AnyBits
<1>2. ASSUME NEW colour \in AnyTriple PROVE IsCell(norm2lut(bits, colour), bits)
  <2>1. \A a \in Axes : colour[a] \in Byte
    BY DEF AnyTriple
  <2>2. \A a \in Axes : norm2lut(bits, colour)[a] = colour[a] \div 2 ^ (8 - bits[a])
    BY Zenon DEF norm2lut
  <2>3. \A a \in Axes : norm2lut(bits, colour)[a] \in 0 .. 2 ^ bits[a] - 1
    <3> SUFFICES ASSUME NEW a \in Axes
                 PROVE  norm2lut(bits, colour)[a] \in 0 .. 2 ^ bits[a] - 1
      OBVIOUS
    <3>1. colour[a] \div 2 ^ (8 - bits[a]) \in 0 .. 2 ^ bits[a] - 1
      BY <1>1, <2>1, KeptBits, Zenon
    <3> QED BY <2>2, <3>1, Zenon
  <2>4. norm2lut(bits, colour) = [a \in Axes |-> norm2lut(bits, colour)[a]]
    BY Zenon DEF norm2lut
  <2> QED BY <2>3, <2>4, Zenon DEF IsCell
<1>3. ASSUME NEW cell, IsCell(cell, bits)
      PROVE  /\ lut2norm(bits, cell) \in AnyTriple
             /\ norm2lut(bits, lut2norm(bits, cell)) = cell
  <2> DEFINE corner == lut2norm(bits, cell)
  <2>1. \A a \in Axes : cell[a] \in 0 .. 2 ^ bits[a] - 1
    BY <1>3, Zenon DEF IsCell
  <2>2. \A a \in Axes : corner[a] = (cell[a] * 2 ^ (8 - bits[a])) % 256
    BY Zenon DEF lut2norm
  <2>3. \A a \in Axes : /\ corner[a] \in Byte
                        /\ corner[a] \div 2 ^ (8 - bits[a]) = cell[a]
    <3> SUFFICES ASSUME NEW a \in Axes
                 PROVE  /\ corner[a] \in Byte
                        /\ corner[a] \div 2 ^ (8 - bits[a]) = cell[a]
      OBVIOUS
    <3>1. /\ (cell[a] * 2 ^ (8 - bits[a])) % 256 = cell[a] * 2 ^ (8 - bits[a])
          /\ cell[a] * 2 ^ (8 - bits[a]) \in Byte
          /\ (cell[a] * 2 ^ (8 - bits[a])) \div 2 ^ (8 - bits[a]) = cell[a]
      BY <1>1, <2>1, KeptBits, Zenon
    <3> HIDE DEF corner
    <3> QED BY <2>2, <3>1, Zenon
  <2>4. corner = [a \in Axes |-> corner[a]]
    BY Zenon DEF lut2norm
  <2>5. norm2lut(bits, corner) = [a \in Axes |-> corner[a] \div 2 ^ (8 - bits[a])]
    BY Zenon DEF norm2lut
  <2>6. cell = [a \in Axes |-> cell[a]]
    BY <1>3, Zenon DEF IsCell
  <2> HIDE DEF corner
  <2>7. corner \in AnyTriple
    BY <2>3, <2>4 DEF AnyTriple
  <2>8. norm2lut(bits, corner) = cell
    BY <2>3, <2>5, <2>6, Zenon
  <2> QED BY <2>7, <2>8 DEF corner
<1> QED BY <1>2, <1>3

(* A cell has a place of its own, from which it can be told.               *)
LEMMA PlaceOfCell ==
  ASSUME NEW bits \in AnyBits, NEW cell, IsCell(cell, bits)
  PROVE  /\ place(bits, cell) \in 0 .. CellCount(bits) - 1
         /\ CellCount(bits) \in Nat /\ LUT_SIZE(bits) = 2 * CellCount(bits)
         /\ cellAt(bits, place(bits, cell)) = cell
<1>1. bits[1] \in 0 .. 8 /\ bits[2] \in 0 .. 8 /\ bits[3] \in 0 .. 8
  BY DEF AnyBits, Axes
<1>2. PICK r, s, t : r = 2 ^ bits[1] /\ s = 2 ^ bits[2] /\ t = 2 ^ bits[3]
  OBVIOUS
<1>3. r \in Nat \ {0} /\ s \in Nat \ {0} /\ t \in Nat \ {0}
  <2>1. bits[1] \in 0 .. 24 /\ bits[2] \in 0 .. 24 /\ bits[3] \in 0 .. 24
    BY <1>1
  <2> QED BY <1>2, <2>1, PowersOfTwo, Zenon
<1>4. 2 ^ (bits[2] + bits[3]) = s * t
  <2>1. bits[2] \in 0 .. 8 /\ bits[3] \in 0 .. 16
    BY <1>1
  <2> QED BY <1>2, <2>1, PowerOfSum, Zenon
<1>5. PICK x, y, z : x = cell[1] /\ y = cell[2] /\ z = cell[3]
  OBVIOUS
<1>6. x \in 0 .. r - 1 /\ y \in 0 .. s - 1 /\ z \in 0 .. t - 1
  BY <1>2, <1>5 DEF IsCell, Axes
<1>7. CellCount(bits) = (r * s) * t
  BY <1>2 DEF CellCount, sizes, Axes
<1>8. LUT_SIZE(bits) = 2 * ((r * s) * t)
  <2>1. bits[2] + bits[3] \in 0 .. 16 /\ bits[1] + (bits[2] + bits[3]) \in 0 .. 24
        /\ bits[1] + bits[2] + bits[3] + 1 = (bits[1] + (bits[2] + bits[3])) + 1
    BY <1>1
  <2>2. 2 ^ (bits[1] + (bits[2] + bits[3])) = r * (s * t)
    BY <1>1, <1>2, <1>4, <2>1, PowerOfSum
  <2>3. 2 ^ ((bits[1] + (bits[2] + bits[3])) + 1) = 2 * (r * (s * t))
    BY <2>1, <2>2, PowersOfTwo
  <2>4. r * (s * t) = (r * s) * t
    BY <1>3
  <2> QED BY <2>1, <2>3, <2>4 DEF LUT_SIZE
<1>9. PICK line : line = s * x + y /\ line \in Nat
  BY <1>3, <1>6
<1>10. place(bits, cell) = t * line + z /\ t * line + z \in Nat
  <2>1. place(bits, cell) = x * (s * t) + y * t + z
    BY <1>2, <1>4, <1>5 DEF place
  <2>2. x * (s * t) + y * t + z = t * (s * x + y) + z
    BY <1>3, <1>6
  <2> QED BY <1>3, <1>6, <1>9, <2>1, <2>2
<1>11. line < r * s
  <2>1. s * x + y < r * s
    BY <1>3, <1>6, LessTimes
  <2> QED BY <1>9, <2>1
<1>12. t * line + z < (r * s) * t
  <2>1. r * s \in Nat
    BY <1>3
  <2> QED BY <1>3, <1>6, <1>9, <1>11, <2>1, LessTimes
<1>13. (t * line + z) \div t = line /\ (t * line + z) % t = z
  <2>1. PICK n \in Nat : n = t * line + z
    BY <1>10
  <2>2. n \div t = line /\ n % t = z
    BY <1>3, <1>6, <1>9, <2>1, QuotientIs
  <2> QED BY <2>1, <2>2
<1>14. line % s = y /\ line \div s = x
  BY <1>3, <1>6, <1>9, QuotientIs
<1>15. (t * line + z) \div (s * t) = x
  <2>1. PICK rest : rest = t * y + z /\ rest \in Nat
    BY <1>3, <1>6
  <2>2. t * line + z = (s * t) * x + rest
    BY <1>3, <1>6, <1>9, <2>1
  <2>3. rest < s * t
    BY <1>3, <1>6, <2>1, LessTimes
  <2>4. s * t \in Nat \ {0}
    BY <1>3
  <2>5. rest \in 0 .. s * t - 1
    BY <2>1, <2>3, <2>4
  <2> QED BY <1>6, <1>10, <2>2, <2>4, <2>5, QuotientIs
<1>16. cellAt(bits, place(bits, cell)) = <<x, y, z>>
  BY <1>2, <1>4, <1>10, <1>13, <1>14, <1>15 DEF cellAt
<1>17. cell = <<x, y, z>>
  <2>1. cell = [a \in Axes |-> cell[a]]
    BY DEF IsCell
  <2>2. DOMAIN cell = {1, 2, 3} /\ cell = [a \in {1, 2, 3} |-> cell[a]]
    BY <2>1 DEF Axes
  <2> QED BY <1>5, <2>1 DEF Axes
<1>18. (r * s) * t \in Nat
  BY <1>3
<1> QED BY <1>7, <1>8, <1>10, <1>12, <1>16, <1>17, <1>18

(* A cell's colours of bytes, in a table of at most 8 bits for each axis.  *)
AnyCell == [about : {"cell"}, bits : AnyBits, colour : AnyTriple, other : AnyTriple]

(* lut3d.h:300-337: cells are apart in a table of any size.                *)
THEOREM EveryCellApart == ASSUME input \in AnyCell PROVE CellsApart
<1>1. input.bits \in AnyBits /\ input.colour \in AnyTriple /\ input.other \in AnyTriple
  BY DEF AnyCell
<1>2. PICK bits, cell, other : /\ bits = input.bits
                               /\ cell = norm2lut(input.bits, input.colour)
                               /\ other = norm2lut(input.bits, input.other)
  OBVIOUS
<1>3. bits \in AnyBits /\ IsCell(cell, bits) /\ IsCell(other, bits)
  BY <1>1, <1>2, ColourInCell
<1>4. /\ place(bits, cell) \in 0 .. CellCount(bits) - 1
      /\ CellCount(bits) \in Nat /\ LUT_SIZE(bits) = 2 * CellCount(bits)
      /\ cellAt(bits, place(bits, cell)) = cell
      /\ cellAt(bits, place(bits, other)) = other
  BY <1>3, PlaceOfCell
<1>5. place(bits, cell) \in 0 .. LUT_SIZE(bits) - 1
  BY <1>4
<1>6. norm2lut(bits, lut2norm(bits, cell)) = cell
  BY <1>3, ColourInCell
<1>7. \A a \in Axes : cell[a] < sizes(bits)[a]
  <2> SUFFICES ASSUME NEW a \in Axes PROVE cell[a] < sizes(bits)[a]
    OBVIOUS
  <2>1. sizes(bits)[a] = 2 ^ bits[a]
    BY DEF sizes
  <2>2. bits[a] \in 0 .. 8 /\ bits[a] \in 0 .. 24
    BY <1>3 DEF AnyBits
  <2>3. 2 ^ bits[a] \in Nat
    BY <2>2, PowersOfTwo
  <2>4. cell[a] \in 0 .. 2 ^ bits[a] - 1
    BY <1>3 DEF IsCell
  <2> QED BY <2>1, <2>3, <2>4
<1>8. place(bits, cell) = place(bits, other) => cell = other
  BY <1>4
<1> QED BY <1>2, <1>5, <1>6, <1>7, <1>8 DEF CellsApart

(* A colour has three numbers.                                             *)
LEMMA ColourIsInt ==
  ASSUME NEW c \in AnyTriple
  PROVE  c[1] \in Int /\ c[2] \in Int /\ c[3] \in Int
<1>1. 1 \in Axes /\ 2 \in Axes /\ 3 \in Axes
  BY DEF Axes
<1>2. \A a \in Axes : c[a] \in Byte
  BY DEF AnyTriple
<1>3. c[1] \in Byte /\ c[2] \in Byte /\ c[3] \in Byte
  BY <1>1, <1>2, Zenon
<1> QED BY <1>3 DEF Byte

(* The nearest labels of the first so many, counted from 0 on.             *)
IsNearing(upTo, colours, at, most, n) ==
    upTo = [i \in 0 .. n |->
               IF i = 0 THEN [dist |-> 0, idx |-> 0]
               ELSE Closer(upTo[i - 1], i, colours, at, most)]

(* Counting the labels from 0 on, they exist.                              *)
LEMMA LabelsAreTried ==
  ASSUME NEW n \in Nat, NEW colours, NEW at, NEW most
  PROVE  \E f : IsNearing(f, colours, at, most, n)
<1> DEFINE Missing == {i \in Nat : ~ \E f : IsNearing(f, colours, at, most, i)}
<1>1. SUFFICES ASSUME Missing # {} PROVE FALSE
  OBVIOUS
<1>2. PICK i \in Missing : \A j \in Missing : i <= j
  <2>1. Missing \subseteq Nat
    OBVIOUS
  <2> QED BY <1>1, <2>1, LeastNatural
<1>3. i \in Nat
      /\ \A j \in Nat : j < i => \E f : IsNearing(f, colours, at, most, j)
  BY <1>2
<1>4. CASE i = 0
  <2> DEFINE f == [j \in 0 .. 0 |-> [dist |-> 0, idx |-> 0]]
  <2>1. IsNearing(f, colours, at, most, 0)
    BY DEF IsNearing
  <2> QED BY <1>2, <1>4, <2>1
<1>5. CASE i # 0
  <2>1. PICK g : IsNearing(g, colours, at, most, i - 1)
    BY <1>3, <1>5
  <2> DEFINE f == [j \in 0 .. i |-> IF j < i THEN g[j]
                                    ELSE Closer(g[i - 1], i, colours, at, most)]
  <2>2. \A j \in 0 .. i - 1 :
          g[j] = IF j = 0 THEN [dist |-> 0, idx |-> 0]
                 ELSE Closer(g[j - 1], j, colours, at, most)
    BY <2>1 DEF IsNearing
  <2>3. IsNearing(f, colours, at, most, i)
    BY <1>3, <1>5, <2>2 DEF IsNearing
  <2> QED BY <1>2, <2>3
<1> QED BY <1>4, <1>5

(* The nearest of the first so many labels, and none when it is too far.   *)
IsNearestOf(best, colours, at, most, i) ==
    /\ best.dist \in Int /\ best.idx \in Nat
    /\ \E k \in 1 .. i : best.dist = Distance(at, colours[k])
    /\ \A k \in 1 .. i : best.dist <= Distance(at, colours[k])
    /\ IF most # 0 /\ best.dist > most THEN best.idx = 0
       ELSE best.idx \in 1 .. i /\ best.dist = Distance(at, colours[best.idx])

(* Trying one label more keeps it.                                         *)
LEMMA LabelIsTried ==
  ASSUME NEW colours, NEW at, NEW most \in Nat, NEW i \in Nat \ {0}, NEW best,
         \A k \in 1 .. i : Distance(at, colours[k]) \in Int,
         i > 1 => IsNearestOf(best, colours, at, most, i - 1)
  PROVE  IsNearestOf(Closer(best, i, colours, at, most), colours, at, most, i)
<1> DEFINE D(k) == Distance(at, colours[k])
           got == Closer(best, i, colours, at, most)
<1> HIDE DEF D
<1>1. \A k \in 1 .. i : D(k) \in Int
  BY DEF D
<1>2. i > 1 => /\ best.dist \in Int /\ best.idx \in Nat
               /\ \E k \in 1 .. i - 1 : best.dist = D(k)
               /\ \A k \in 1 .. i - 1 : best.dist <= D(k)
               /\ IF most # 0 /\ best.dist > most THEN best.idx = 0
                  ELSE best.idx \in 1 .. i - 1 /\ best.dist = D(best.idx)
  BY DEF IsNearestOf, D
<1> DEFINE better == i = 1 \/ D(i) < best.dist
           d == IF better THEN D(i) ELSE best.dist
<1>3. /\ got.dist = d
      /\ got.idx = IF most # 0 /\ d > most THEN 0
                   ELSE IF better THEN i ELSE best.idx
  BY DEF Closer, D
<1> HIDE DEF got
<1>4. CASE better
  <2>1. d = D(i) /\ D(i) \in Int
    BY <1>1, <1>4
  <2>2. \A k \in 1 .. i : d <= D(k)
    <3> SUFFICES ASSUME NEW k \in 1 .. i PROVE d <= D(k)
      OBVIOUS
    <3>1. CASE k = i
      BY <2>1, <3>1
    <3>2. CASE k # i
      <4>1. i > 1 /\ k \in 1 .. i - 1 /\ D(k) \in Int
        BY <1>1, <3>2
      <4> QED BY <1>2, <1>4, <2>1, <4>1
    <3> QED BY <3>1, <3>2
  <2>3. i \in 1 .. i
    OBVIOUS
  <2>4. \E k \in 1 .. i : d = D(k)
    BY <2>1, <2>3
  <2>5. got.dist = d /\ d \in Int /\ got.idx \in Nat
        /\ IF most # 0 /\ d > most THEN got.idx = 0
           ELSE got.idx \in 1 .. i /\ d = D(got.idx)
    BY <1>3, <1>4, <2>1, <2>3
  <2> HIDE DEF d
  <2>6. IsNearestOf(got, colours, at, most, i)
    BY <2>2, <2>4, <2>5, Zenon DEF IsNearestOf, D
  <2> QED BY <2>6 DEF got
<1>5. CASE ~better
  <2>1. d = best.dist /\ i > 1 /\ best.dist <= D(i) /\ D(i) \in Int
    BY <1>1, <1>2, <1>5
  <2>2. \A k \in 1 .. i : d <= D(k)
    <3> SUFFICES ASSUME NEW k \in 1 .. i PROVE d <= D(k)
      OBVIOUS
    <3>1. CASE k = i
      BY <2>1, <3>1
    <3>2. CASE k # i
      <4>1. k \in 1 .. i - 1
        BY <3>2
      <4> QED BY <1>2, <2>1, <4>1
    <3> QED BY <3>1, <3>2
  <2>3. \E k \in 1 .. i : d = D(k)
    BY <1>2, <2>1
  <2>4. IF most # 0 /\ d > most THEN got.idx = 0
        ELSE got.idx \in 1 .. i /\ d = D(got.idx)
    BY <1>2, <1>3, <1>5, <2>1
  <2>5. got.idx \in Nat /\ got.dist \in Int
    BY <1>2, <1>3, <1>5, <2>1
  <2> HIDE DEF d
  <2>6. IsNearestOf(got, colours, at, most, i)
    BY <1>3, <2>2, <2>3, <2>4, <2>5, Zenon DEF IsNearestOf, D
  <2> QED BY <2>6 DEF got
<1> QED BY <1>4, <1>5

(* Labels of any colours and a cell's corner.                              *)
AnyLabels ==
    [about : {"label"}, colours : Seq(AnyTriple), at : AnyTriple, most : Nat]

(* lut3d.h:560-589: whatever the labels, a cell gets the nearest.          *)
THEOREM NearestOfLabels == ASSUME input \in AnyLabels PROVE LabelIsNearest
<1> DEFINE colours == input.colours
           at == input.at
           most == input.most
           n == Len(colours)
           D(k) == Distance(at, colours[k])
           f == CHOOSE f : f = [i \in 0 .. n |->
                    IF i = 0 THEN [dist |-> 0, idx |-> 0]
                    ELSE Closer(f[i - 1], i, colours, at, most)]
<1>1. colours \in Seq(AnyTriple) /\ at \in AnyTriple /\ most \in Nat
  BY DEF AnyLabels
<1>2. NearestLabel(colours, at, most) = f[n].idx
  BY DEF NearestLabel
<1>3. n \in Nat /\ DOMAIN colours = 1 .. n /\ \A k \in 1 .. n : colours[k] \in AnyTriple
  BY <1>1, LenProperties, ElementOfSeq
<1>4. \E g : IsNearing(g, colours, at, most, n)
  <2> HIDE DEF colours, at, most, n
  <2> QED BY <1>3, LabelsAreTried
<1>5. f = [i \in 0 .. n |-> IF i = 0 THEN [dist |-> 0, idx |-> 0]
                            ELSE Closer(f[i - 1], i, colours, at, most)]
  BY <1>4 DEF IsNearing
<1>6. \A k \in 1 .. n : D(k) \in Int
  <2> SUFFICES ASSUME NEW k \in 1 .. n PROVE D(k) \in Int
    OBVIOUS
  <2>1. PICK p \in AnyTriple : p = colours[k]
    BY <1>3
  <2>2. \A c \in AnyTriple : c[1] \in Int /\ c[2] \in Int /\ c[3] \in Int
    BY ColourIsInt
  <2>3. PICK x \in Int, y \in Int, z \in Int :
           x = at[1] - p[1] /\ y = at[2] - p[2] /\ z = at[3] - p[3]
    <3>1. at[1] - p[1] \in Int /\ at[2] - p[2] \in Int /\ at[3] - p[3] \in Int
      BY <1>1, <2>2
    <3> QED BY <3>1
  <2>4. D(k) = x * x + y * y + z * z
    BY <2>1, <2>3 DEF Distance, sq
  <2> QED BY <2>4
<1> HIDE DEF f
<1>7. \A i \in 1 .. n : f[i] = Closer(f[i - 1], i, colours, at, most)
  BY <1>3, <1>5
<1> DEFINE Good(i) == IsNearestOf(f[i], colours, at, most, i)
           Bad == {i \in 1 .. n : ~Good(i)}
<1> HIDE DEF colours, at, most, n
<1>8. ASSUME NEW i \in 1 .. n, i > 1 => Good(i - 1) PROVE Good(i)
  <2>1. i \in Nat \ {0} /\ \A k \in 1 .. i : D(k) \in Int
    BY <1>3, <1>6
  <2> QED BY <1>1, <1>7, <1>8, <2>1, LabelIsTried DEF D
<1> HIDE DEF Good
<1>9. Bad = {}
  <2>1. SUFFICES ASSUME Bad # {} PROVE FALSE
    OBVIOUS
  <2>2. PICK i \in Bad : \A j \in Bad : i <= j
    <3>1. Bad \subseteq Nat
      BY <1>3
    <3> QED BY <2>1, <3>1, LeastNatural
  <2>3. i > 1 => Good(i - 1)
    <3>1. i > 1 => i - 1 \in 1 .. n /\ ~(i <= i - 1)
      BY <1>3, <2>2
    <3> QED BY <2>2, <3>1
  <2> QED BY <1>8, <2>2, <2>3
<1>10. n > 0 => IsNearestOf(f[n], colours, at, most, n)
  BY <1>3, <1>9 DEF Good
<1>11. n = 0 => f[n].idx = 0
  BY <1>3, <1>5
<1>12. PICK best : best = f[n]
  OBVIOUS
<1>13. CASE n = 0
  BY <1>2, <1>3, <1>11, <1>13 DEF LabelIsNearest, colours, at, most
<1>14. CASE n > 0
  <2>1. /\ best.dist \in Int /\ best.idx \in Nat
        /\ \A k \in 1 .. n : best.dist <= D(k)
        /\ IF most # 0 /\ best.dist > most THEN best.idx = 0
           ELSE best.idx \in 1 .. n /\ best.dist = D(best.idx)
    BY <1>10, <1>12, <1>14 DEF IsNearestOf
  <2> HIDE DEF D
  <2>2. IF best.idx = 0 THEN \A k \in 1 .. n : most # 0 /\ D(k) > most
        ELSE \A k \in 1 .. n : D(best.idx) <= D(k)
    BY <1>1, <1>3, <1>6, <1>14, <2>1
  <2> QED BY <1>2, <1>3, <1>12, <2>2, Zenon DEF LabelIsNearest, colours, at, most, D
<1> QED BY <1>3, <1>13, <1>14

(* A click anywhere on the slice of a table of any size.                   *)
AnyCross == [about : {"cross"}, x : Nat, y : Nat, n : Nat \ {0}, size : Nat \ {0}]

(* glLUTwidget.cpp:114-138: what is clicked on is a cell.                  *)
LEMMA ClickedCell ==
  ASSUME NEW pos \in Nat, NEW n \in Nat \ {0}, NEW size \in Nat \ {0}
  PROVE  LutCoordinate(pos, n, size) \in 0 .. size - 1
<1>1. pos * size \in Nat
  OBVIOUS
<1>2. (pos * size) \div n \in Nat
  BY <1>1, Divided
<1> QED BY <1>2 DEF LutCoordinate

(* The points of a cross are in the square of their cell.                  *)
LEMMA CrossInSquare ==
  ASSUME NEW x \in Nat, NEW y \in Nat, NEW point \in SampleCross(x, y)
  PROVE  \E i \in 0 .. 4, j \in 0 .. 4 : point = <<5 * x + i, 5 * y + j>>
<1>1. PICK p \in 0 .. 4 : \/ point = <<x * 5 + p, y * 5 + p>>
                          \/ point = <<x * 5 + (5 - (p + 1)), y * 5 + p>>
  BY DEF SampleCross, sampler_scale
<1>2. 5 - (p + 1) \in 0 .. 4 /\ x * 5 = 5 * x /\ y * 5 = 5 * y
  OBVIOUS
<1> QED BY <1>1, <1>2

(* glLUTwidget.cpp:1032-1045: the crosses of two cells never touch.        *)
THEOREM CrossesNeverTouch == ASSUME input \in AnyCross PROVE CrossesApart
<1> DEFINE x == LutCoordinate(input.x, input.n, input.size)
           y == LutCoordinate(input.y, input.n, input.size)
           side == 0 .. input.size * sampler_scale - 1
<1>1. input.size \in Nat \ {0} /\ x \in 0 .. input.size - 1 /\ y \in 0 .. input.size - 1
  BY ClickedCell DEF AnyCross
<1> HIDE DEF x, y
<1>2. SampleCross(x, y) \subseteq side \X side
  <2> SUFFICES ASSUME NEW point \in SampleCross(x, y) PROVE point \in side \X side
    OBVIOUS
  <2>1. PICK i \in 0 .. 4, j \in 0 .. 4 : point = <<5 * x + i, 5 * y + j>>
    BY <1>1, CrossInSquare
  <2>2. 5 * x + i \in side /\ 5 * y + j \in side
    BY <1>1 DEF sampler_scale
  <2> QED BY <2>1, <2>2
<1>3. x # y => SampleCross(x, y) \cap SampleCross(y, x) = {}
  <2> SUFFICES ASSUME x # y, NEW point \in SampleCross(x, y),
                      point \in SampleCross(y, x)
               PROVE  FALSE
    OBVIOUS
  <2>1. PICK i \in 0 .. 4, j \in 0 .. 4 : point = <<5 * x + i, 5 * y + j>>
    BY <1>1, CrossInSquare
  <2>2. PICK k \in 0 .. 4, l \in 0 .. 4 : point = <<5 * y + k, 5 * x + l>>
    BY <1>1, CrossInSquare
  <2>3. 5 * x + i = 5 * y + k
    BY <2>1, <2>2
  <2> QED BY <1>1, <2>3
<1> QED BY <1>2, <1>3 DEF CrossesApart, x, y

(* A click on a pixel of a picture of pairs of pixels.                     *)
AnyPick ==
    {i \in [about : {"pick"}, bytes : Seq(Byte), width : Nat, loc : Nat \X Nat] :
        /\ i.width % 2 = 0 /\ i.loc[1] < i.width
        /\ \E h \in Nat : i.loc[2] < h /\ Len(i.bytes) = 2 * (i.width * h)}

(* plugin_colorcalib.cpp:54-92: the colour picked is that of the pixel, and*)
(* the sampler marks it.                                                   *)
THEOREM PickedIsSampled == ASSUME input \in AnyPick PROVE PickIsSampled
<1>1. PICK bytes \in Seq(Byte), width \in Nat, x \in Nat, y \in Nat, h \in Nat :
         /\ bytes = input.bytes /\ width = input.width
         /\ input.loc = <<x, y>> /\ width % 2 = 0 /\ x < width
         /\ y < h /\ Len(bytes) = 2 * (width * h)
  <2>1. input.loc = <<input.loc[1], input.loc[2]>>
        /\ input.loc[1] \in Nat /\ input.loc[2] \in Nat
    BY DEF AnyPick
  <2> QED BY <2>1 DEF AnyPick
<1>2. PICK v \in Nat : width = 2 * v
  <2>1. width \div 2 \in Nat /\ width = 2 * (width \div 2) + (width % 2)
    OBVIOUS
  <2> QED BY <1>1, <2>1
<1>3. PICK q \in Nat, r \in 0 .. 1 : x = 2 * q + r /\ r = x % 2
  <2>1. x \div 2 \in Nat /\ x % 2 \in 0 .. 1 /\ x = 2 * (x \div 2) + (x % 2)
    OBVIOUS
  <2> QED BY <2>1
<1>4. q \in 0 .. v - 1 /\ v \in Nat \ {0}
  BY <1>1, <1>2, <1>3
<1>5. PICK i \in Nat : i = v * y + q
  BY <1>4
<1>6. i < h * v
  BY <1>1, <1>4, <1>5, LessTimes
<1>7. y * width + x = 2 * i + r
  BY <1>2, <1>3, <1>5
<1>8. (y * width + x) \div 2 = i
  BY <1>3, <1>7
<1>9. PICK area \in Nat : area = h * v /\ Len(bytes) = 4 * area
  <2>1. 2 * (width * h) = 4 * (h * v)
    BY <1>2
  <2> QED BY <1>1, <2>1
<1>10. Len(bytes) \div 4 = area
  BY <1>9
<1>11. i \in 0 .. (Len(bytes) \div 4) - 1
  BY <1>6, <1>9, <1>10
<1> DEFINE colour == PickedYUV422(bytes, width, <<x, y>>)
<1>12. colour = <<IF r = 0 THEN bytes[4 * i + 2] ELSE bytes[4 * i + 4],
                  bytes[4 * i + 1], bytes[4 * i + 3]>>
  BY <1>3, <1>8 DEF PickedYUV422
<1> HIDE DEF colour
<1>13. colour \in SampledYUV422(bytes)
  BY <1>3, <1>11, <1>12, Zenon DEF SampledYUV422
<1>14. colour[1] = bytes[2 * (y * width + x) + 2]
  <2>1. CASE r = 0
    <3>1. 2 * (y * width + x) + 2 = 4 * i + 2
      BY <1>7, <2>1
    <3> QED BY <1>12, <2>1, <3>1
  <2>2. CASE r # 0
    <3>1. 2 * (y * width + x) + 2 = 4 * i + 4
      BY <1>3, <1>7, <2>2
    <3> QED BY <1>12, <2>2, <3>1
  <2> QED BY <2>1, <2>2
<1>15. input.loc[1] = x /\ input.loc[2] = y
  BY <1>1
<1>16. colour = PickedYUV422(input.bytes, input.width, input.loc)
  BY <1>1 DEF colour
<1> QED BY <1>1, <1>13, <1>14, <1>15, <1>16 DEF PickIsSampled

(* The channels of a table, in the order they are loaded.                  *)
LEMMA ChannelsInOrder ==
  /\ Len(RoboCupChannels("numeric")) = 10
  /\ DOMAIN RoboCupChannels("numeric") = 1 .. 10
  /\ \A i, j \in 1 .. 10 :
        RoboCupChannels("numeric")[i] = RoboCupChannels("numeric")[j] => i = j
  /\ ToSet(RoboCupChannels("bitwise"))
       = {RoboCupChannels("numeric")[i] : i \in 2 .. 10}
<1> DEFINE c == <<"Field Green", "Orange", "Yellow", "Blue", "Pink", "Cyan",
                  "Green", "White", "Black">>
           all == RoboCupChannels("numeric")
           S == {"<Clear>", "Field Green", "Orange", "Yellow", "Blue", "Pink",
                 "Cyan", "Green", "White", "Black"}
<1>1. c \in Seq(S) /\ <<"<Clear>">> \in Seq(S) /\ Len(c) = 9
      /\ Len(<<"<Clear>">>) = 1 /\ DOMAIN c = 1 .. 9
  <2>1. c \in Seq(S)
    OBVIOUS
  <2>2. <<"<Clear>">> \in Seq(S)
    OBVIOUS
  <2>3. Len(c) = 9
    OBVIOUS
  <2>4. Len(<<"<Clear>">>) = 1
    OBVIOUS
  <2>5. DOMAIN c = 1 .. 9
    BY <2>1, <2>3, LenProperties
  <2> QED BY <2>1, <2>2, <2>3, <2>4, <2>5
<1>2. /\ c[1] = "Field Green" /\ c[2] = "Orange" /\ c[3] = "Yellow"
      /\ c[4] = "Blue" /\ c[5] = "Pink" /\ c[6] = "Cyan" /\ c[7] = "Green"
      /\ c[8] = "White" /\ c[9] = "Black"
  OBVIOUS
<1>3. \A i \in 1 .. 9 : \/ i = 1 \/ i = 2 \/ i = 3 \/ i = 4 \/ i = 5
                        \/ i = 6 \/ i = 7 \/ i = 8 \/ i = 9
  OBVIOUS
<1>4. \A i, j \in 1 .. 9 : c[i] = c[j] => i = j
  <2> HIDE DEF c
  <2> QED BY <1>2, <1>3
<1>5. \A i \in 1 .. 9 : c[i] # "<Clear>"
  <2> HIDE DEF c
  <2> QED BY <1>2, <1>3
<1>6. all = <<"<Clear>">> \o c
  BY DEF RoboCupChannels
<1>7. RoboCupChannels("bitwise") = <<>> \o c
  BY DEF RoboCupChannels
<1>8. <<>> \o c = c
  BY <1>1, ConcatEmptySeq
<1>9. PICK clear : clear = <<"<Clear>">>
  OBVIOUS
<1>10. clear \in Seq(S) /\ Len(clear) = 1 /\ clear[1] = "<Clear>"
  BY <1>1, <1>9
<1> HIDE DEF c
<1>11. /\ Len(clear \o c) = Len(clear) + Len(c)
       /\ \A i \in 1 .. Len(clear) + Len(c) :
             (clear \o c)[i] = IF i <= Len(clear) THEN clear[i] ELSE c[i - Len(clear)]
  BY <1>1, <1>10, ConcatProperties
<1>12. clear \o c \in Seq(S)
  BY <1>1, <1>10, ConcatProperties
<1>13. all = clear \o c
  BY <1>6, <1>9
<1> HIDE DEF all, S
<1>14. Len(all) = 10 /\ all \in Seq(S) /\ all[1] = "<Clear>"
       /\ \A i \in 2 .. 10 : all[i] = c[i - 1] /\ i - 1 \in 1 .. 9
  <2>1. Len(clear \o c) = 10
    BY <1>1, <1>10, <1>11
  <2>2. Len(all) = 10 /\ all \in Seq(S)
    BY <1>12, <1>13, <2>1, Zenon
  <2>3. ASSUME NEW i \in 1 .. 10
        PROVE  all[i] = IF i <= 1 THEN clear[i] ELSE c[i - 1]
    <3>1. i \in 1 .. Len(clear) + Len(c)
      BY <1>1, <1>10
    <3>2. (clear \o c)[i] = IF i <= Len(clear) THEN clear[i] ELSE c[i - Len(clear)]
      BY <1>11, <3>1, Zenon
    <3>3. all[i] = IF i <= Len(clear) THEN clear[i] ELSE c[i - Len(clear)]
      BY <1>13, <3>2, Zenon
    <3> QED BY <1>10, <3>3, Zenon
  <2>4. all[1] = "<Clear>"
    <3>1. all[1] = clear[1]
      BY <2>3
    <3> QED BY <1>10, <3>1, Zenon
  <2>5. \A i \in 2 .. 10 : all[i] = c[i - 1] /\ i - 1 \in 1 .. 9
    BY <2>3
  <2> QED BY <2>2, <2>4, <2>5
<1>15. DOMAIN all = 1 .. 10
  BY <1>14, LenProperties
<1>16. \A i, j \in 1 .. 10 : all[i] = all[j] => i = j
  <2> SUFFICES ASSUME NEW i \in 1 .. 10, NEW j \in 1 .. 10, all[i] = all[j]
               PROVE  i = j
    OBVIOUS
  <2>1. CASE i = 1 /\ j # 1
    <3>1. j \in 2 .. 10
      BY <2>1
    <3> QED BY <1>5, <1>14, <2>1, <3>1
  <2>2. CASE j = 1 /\ i # 1
    <3>1. i \in 2 .. 10
      BY <2>2
    <3> QED BY <1>5, <1>14, <2>2, <3>1
  <2>3. CASE i # 1 /\ j # 1
    <3>1. i \in 2 .. 10 /\ j \in 2 .. 10
      BY <2>3
    <3>2. i - 1 \in 1 .. 9 /\ j - 1 \in 1 .. 9 /\ c[i - 1] = c[j - 1]
      BY <1>14, <3>1
    <3>3. i - 1 = j - 1
      BY <1>4, <3>2
    <3> QED BY <3>1, <3>3
  <2> QED BY <2>1, <2>2, <2>3
<1>17. ToSet(RoboCupChannels("bitwise")) = {c[i] : i \in 1 .. 9}
  BY <1>1, <1>7, <1>8 DEF ToSet
<1>18. {c[i] : i \in 1 .. 9} = {all[i] : i \in 2 .. 10}
  <2>1. ASSUME NEW i \in 1 .. 9 PROVE \E j \in 2 .. 10 : c[i] = all[j]
    <3>1. i + 1 \in 2 .. 10 /\ (i + 1) - 1 = i
      OBVIOUS
    <3> QED BY <1>14, <3>1
  <2>2. \A j \in 2 .. 10 : \E i \in 1 .. 9 : all[j] = c[i]
    BY <1>14
  <2> QED BY <2>1, <2>2
<1> QED BY <1>14, <1>15, <1>16, <1>17, <1>18 DEF all

(* Any label that the plugins look up.                                     *)
AnyChannel == [about : {"channel"}, label : ToSet(RoboCupChannels("bitwise"))]

(* lut3d.h:226-231, 349-363: the channels looked up by name are there,     *)
(* apart, and none stands for nothing.                                     *)
LEMMA ChannelsAreApart == ASSUME input \in AnyChannel PROVE ChannelsApart
<1> DEFINE channels == RoboCupChannels("numeric")
           Id(label) == getChannelID(channels, label)
<1>1. /\ Len(channels) = 10 /\ DOMAIN channels = 1 .. 10
      /\ \A i, j \in 1 .. 10 : channels[i] = channels[j] => i = j
      /\ ToSet(RoboCupChannels("bitwise")) = {channels[i] : i \in 2 .. 10}
  BY ChannelsInOrder
<1> HIDE DEF channels
<1>2. ASSUME NEW i \in 1 .. 10 PROVE Id(channels[i]) = i - 1
  <2> DEFINE First(j) == /\ channels[j] = channels[i]
                         /\ \A k \in 1 .. j - 1 : channels[k] # channels[i]
  <2>1. First(i)
    BY <1>1
  <2>2. \A j \in DOMAIN channels : First(j) => j = i
    BY <1>1
  <2>3. (CHOOSE j \in DOMAIN channels : First(j)) = i
    BY <1>1, <2>1, <2>2
  <2>4. \E j \in DOMAIN channels : channels[j] = channels[i]
    BY <1>1
  <2> QED BY <2>3, <2>4 DEF getChannelID
<1>3. PICK i \in 2 .. 10 : input.label = channels[i]
  BY <1>1 DEF AnyChannel
<1>4. Id(input.label) = i - 1 /\ i - 1 \in 1 .. 9
  BY <1>2, <1>3
<1>5. \A n \in 0 .. 9 : ChannelMask("numeric", n) = n
  BY DEF ChannelMask
<1>6. ASSUME NEW other \in ToSet(channels) \ {input.label}
      PROVE  ChannelMask("numeric", Id(other)) # ChannelMask("numeric", Id(input.label))
  <2>1. PICK j \in 1 .. 10 : other = channels[j]
    BY <1>1 DEF ToSet
  <2>2. j # i
    BY <1>3, <1>6, <2>1
  <2>3. Id(other) = j - 1 /\ j - 1 \in 0 .. 9
    BY <1>2, <2>1
  <2> HIDE DEF Id
  <2> QED BY <1>4, <1>5, <2>2, <2>3
<1>7. i - 1 \in 0 .. 9
  BY <1>4
<1>8. ChannelMask("numeric", Id(input.label)) # 0
  BY <1>4, <1>5, <1>7
<1>9. Id(input.label) \in 1 .. Len(channels) - 1
  BY <1>1, <1>4
<1> QED BY <1>6, <1>8, <1>9, Zenon DEF ChannelsApart, channels

(* A colour is a triple.                                                   *)
LEMMA TripleIsColour ==
  ASSUME NEW x \in Byte, NEW y \in Byte, NEW z \in Byte
  PROVE  <<x, y, z>> \in AnyTriple
BY DEF AnyTriple, Axes

(* Whatever colour becomes a colour of three bytes.                        *)
LEMMA YuvIsColour ==
  ASSUME NEW c \in AnyTriple PROVE rgb2yuv(c[1], c[2], c[3]) \in AnyTriple
<1>1. \A n \in Int : InByte(n) \in Byte
  BY DEF InByte, Byte
<1>2. c[1] \in Int /\ c[2] \in Int /\ c[3] \in Int
  BY ColourIsInt
<1>3. PICK r \in Int, g \in Int, b \in Int : r = c[1] /\ g = c[2] /\ b = c[3]
  BY <1>2
<1>4. /\ (306 * r + 601 * g + 117 * b) \div 1024 \in Int
      /\ (-172 * r - 340 * g + 512 * b) \div 1024 + 128 \in Int
      /\ (512 * r - 429 * g - 83 * b) \div 1024 + 128 \in Int
  OBVIOUS
<1>5. rgb2yuv(r, g, b) \in AnyTriple
  BY <1>1, <1>4, TripleIsColour DEF rgb2yuv
<1> QED BY <1>3, <1>5

(* A table with the mask of one colour: what is of the same cell has it.   *)
LEMMA TableOfOne ==
  ASSUME NEW bits \in AnyBits, NEW p \in AnyTriple, NEW c \in AnyTriple
  PROVE  getMask(bits, setMask(bits, resetTable(bits), p, 3), c)
           = IF norm2lut(bits, c) = norm2lut(bits, p) THEN 3 ELSE 0
<1> DEFINE at(colour) == place(bits, norm2lut(bits, colour))
           all == 0 .. LUT_SIZE(bits) - 1
<1>1. IsCell(norm2lut(bits, p), bits) /\ IsCell(norm2lut(bits, c), bits)
  BY ColourInCell
<1>2. at(p) \in all /\ at(c) \in all
      /\ cellAt(bits, at(p)) = norm2lut(bits, p)
      /\ cellAt(bits, at(c)) = norm2lut(bits, c)
  BY <1>1, PlaceOfCell
<1>3. resetTable(bits) = [n \in all |-> 0]
  BY DEF resetTable
<1>4. setMask(bits, resetTable(bits), p, 3) = [[n \in all |-> 0] EXCEPT ![at(p)] = 3]
  BY <1>3, Zenon DEF setMask
<1>5. getMask(bits, setMask(bits, resetTable(bits), p, 3), c)
        = [[n \in all |-> 0] EXCEPT ![at(p)] = 3][at(c)]
  BY <1>4, Zenon DEF getMask
<1>6. at(p) = at(c) <=> norm2lut(bits, p) = norm2lut(bits, c)
  BY <1>2, Zenon
<1> HIDE DEF at, all
<1>7. [[n \in all |-> 0] EXCEPT ![at(p)] = 3][at(c)] = IF at(c) = at(p) THEN 3 ELSE 0
  BY <1>2
<1> QED BY <1>5, <1>6, <1>7

(* A table of two bits for each axis: the corner of a colour's cell.       *)
LEMMA CornerOfFour ==
  ASSUME NEW c \in AnyTriple
  PROVE  LET four == <<2, 2, 2>>
             p == place(four, norm2lut(four, c))
         IN  /\ four \in AnyBits /\ p \in 0 .. CellCount(four) - 1
             /\ p \in 0 .. LUT_SIZE(four) - 1
             /\ CornerColour(four, p) = [a \in Axes |-> (c[a] \div 64) * 64]
             /\ CornerColour(four, p) \in AnyTriple
<1>1. PICK four : four = <<2, 2, 2>>
  OBVIOUS
<1>2. four \in AnyBits /\ \A a \in Axes : four[a] = 2
  BY <1>1 DEF AnyBits, Axes
<1>3. PICK cell : cell = norm2lut(four, c)
  OBVIOUS
<1>4. IsCell(cell, four)
  BY <1>2, <1>3, ColourInCell
<1>5. PICK p : p = place(four, cell)
  OBVIOUS
<1>6. /\ p \in 0 .. CellCount(four) - 1 /\ p \in 0 .. LUT_SIZE(four) - 1
      /\ cellAt(four, p) = cell
  BY <1>2, <1>4, <1>5, PlaceOfCell
<1>7. CornerColour(four, p) = lut2norm(four, cell)
  BY <1>6 DEF CornerColour
<1>8. lut2norm(four, cell) = [a \in Axes |-> (c[a] \div 64) * 64]
  <2>1. ASSUME NEW a \in Axes
        PROVE  (cell[a] * 2 ^ (8 - four[a])) % 256 = (c[a] \div 64) * 64
    <3>0. PICK two : two = four[a] /\ two = 2
      BY <1>2, Zenon
    <3>1. four[a] = 2 /\ 2 ^ (8 - four[a]) = 64
      <4>1. 2 ^ (8 - two) = 64
        BY <3>0
      <4> QED BY <3>0, <4>1, Zenon
    <3>2. cell[a] = c[a] \div 2 ^ (8 - four[a])
      BY <1>3 DEF norm2lut
    <3>3. c[a] \in 0 .. 255
      BY DEF AnyTriple, Byte
    <3>4. cell[a] = c[a] \div 64
      BY <3>1, <3>2
    <3>5. PICK n \in 0 .. 3 : n = c[a] \div 64
      BY <3>3
    <3>6. (n * 64) % 256 = n * 64
      OBVIOUS
    <3> QED BY <3>1, <3>4, <3>5, <3>6
  <2> QED BY <2>1, Zenon DEF lut2norm
<1>9. lut2norm(four, cell) \in AnyTriple
  BY <1>2, <1>4, ColourInCell
<1> QED BY <1>1, <1>2, <1>3, <1>5, <1>6, <1>7, <1>8, <1>9

(* What a table derived for RGB says of a colour.                          *)
LEMMA DerivedMask ==
  ASSUME NEW bits, NEW table, NEW lut, NEW c \in AnyTriple,
         lut.space = "YUV", lut.bits = bits, lut.table = table,
         NEW four, four = <<2, 2, 2>>,
         NEW corner, corner = [a \in Axes |-> (c[a] \div 64) * 64]
  PROVE  getMask(four, deriveFromLUT(four, resetTable(four), lut), c)
           = getMask(bits, table, rgb2yuv(corner[1], corner[2], corner[3]))
<1> DEFINE p == place(four, norm2lut(four, c))
           new == deriveFromLUT(four, resetTable(four), lut)
           Mask(n) == LET d == CornerColour(four, n)
                      IN  getMask(lut.bits, lut.table, rgb2yuv(d[1], d[2], d[3]))
<1>1. /\ p \in 0 .. CellCount(four) - 1 /\ p \in 0 .. LUT_SIZE(four) - 1
      /\ CornerColour(four, p) = corner
  BY CornerOfFour, Zenon
<1>2. CellCount(four) \in Nat
  <2>1. CellCount(four) = 4 * 4 * 4
    <3>1. 2 ^ 2 = 4
      OBVIOUS
    <3>2. \A a \in Axes : sizes(four)[a] = 2 ^ four[a]
      BY Zenon DEF sizes
    <3>3. \A a \in Axes : four[a] = 2
      BY DEF Axes
    <3>4. \A a \in Axes : sizes(four)[a] = 4
      BY <3>1, <3>2, <3>3, Zenon
    <3> QED BY <3>4 DEF CellCount, Axes
  <2> QED BY <2>1
<1>3. DOMAIN resetTable(four) = 0 .. LUT_SIZE(four) - 1
  BY DEF resetTable
<1>4. new = [n \in DOMAIN resetTable(four) |->
                IF n < CellCount(four) THEN Mask(n) ELSE resetTable(four)[n]]
  BY Zenon DEF deriveFromLUT
<1> HIDE DEF p, new, Mask
<1>5. p < CellCount(four)
  BY <1>1, <1>2
<1>6. new[p] = Mask(p)
  BY <1>1, <1>3, <1>4, <1>5, Zenon
<1>7. Mask(p) = getMask(bits, table, rgb2yuv(corner[1], corner[2], corner[3]))
  BY <1>1, Zenon DEF Mask
<1>8. getMask(four, new, c) = new[p]
  BY Zenon DEF getMask, p
<1>9. getMask(four, new, c) = getMask(bits, table, rgb2yuv(corner[1], corner[2], corner[3]))
  BY <1>6, <1>7, <1>8, Zenon
<1> QED BY <1>9, Zenon DEF new

(* A picture to be segmented, of whatever size.                            *)
IsSource(source) ==
    /\ source \in [format : {"YUV422_UYVY", "YUV444", "RGB8"}, pixels : Nat,
                   bytes : Seq(Byte)]
    /\ IF source.format = "YUV422_UYVY"
       THEN source.pixels % 2 = 0 /\ Len(source.bytes) = 2 * source.pixels
       ELSE Len(source.bytes) = 3 * source.pixels

(* The colour of a pixel of three bytes.                                   *)
LEMMA PixelOfThree ==
  ASSUME NEW source, IsSource(source), source.format # "YUV422_UYVY",
         NEW i \in 1 .. source.pixels
  PROVE  /\ PixelOf3(source, i) = [c \in 1 .. 3 |-> source.bytes[3 * i + c - 3]]
         /\ PixelOf3(source, i) \in AnyTriple
<1>1. PICK bytes \in Seq(Byte) : bytes = source.bytes /\ Len(bytes) = 3 * source.pixels
  BY DEF IsSource
<1>2. source.pixels \in Nat /\ i \in Nat
  BY DEF IsSource
<1>3. DOMAIN bytes = 1 .. 3 * source.pixels
  BY <1>1, LenProperties
<1>4. \A j \in 1 .. 3 * source.pixels : bytes[j] \in Byte
  BY <1>1, ElementOfSeq
<1>5. PICK m \in Int, n \in Int : m = 3 * i - 2 /\ n = 3 * i
  BY <1>2
<1>6. \A j \in m .. n : bytes[j] \in Byte
  BY <1>2, <1>4, <1>5
<1>7. PICK s : s = SubSeq(bytes, m, n)
  OBVIOUS
<1>8. /\ s \in Seq(Byte) /\ Len(s) = IF m <= n THEN n - m + 1 ELSE 0
      /\ \A j \in 1 .. n - m + 1 : s[j] = bytes[m + j - 1]
  <2>1. /\ SubSeq(bytes, m, n) \in Seq(Byte)
        /\ Len(SubSeq(bytes, m, n)) = IF m <= n THEN n - m + 1 ELSE 0
        /\ \A j \in 1 .. n - m + 1 : SubSeq(bytes, m, n)[j] = bytes[m + j - 1]
    BY <1>6, SubSeqProperties
  <2> QED BY <1>7, <2>1, Zenon
<1>9. m <= n /\ n - m + 1 = 3
  BY <1>2, <1>5
<1>10. Len(s) = 3 /\ DOMAIN s = 1 .. 3
  <2>1. Len(s) = 3
    BY <1>8, <1>9, Zenon
  <2> QED BY <1>8, <2>1, LenProperties
<1>11. \A c \in 1 .. 3 : s[c] = bytes[3 * i + c - 3] /\ s[c] \in Byte
  <2> SUFFICES ASSUME NEW c \in 1 .. 3
               PROVE  s[c] = bytes[3 * i + c - 3] /\ s[c] \in Byte
    OBVIOUS
  <2>1. s[c] = bytes[m + c - 1]
    BY <1>8, <1>9
  <2>2. m + c - 1 = 3 * i + c - 3 /\ m + c - 1 \in m .. n
    BY <1>2, <1>5
  <2> QED BY <1>6, <2>1, <2>2, Zenon
<1>12. s = [c \in 1 .. 3 |-> s[c]]
  BY <1>8, <1>10
<1>13. s = [c \in 1 .. 3 |-> bytes[3 * i + c - 3]]
  BY <1>11, <1>12, Zenon
<1>14. s \in AnyTriple
  BY <1>11, <1>12 DEF AnyTriple, Axes
<1>15. PixelOf3(source, i) = s
  BY <1>1, <1>5, <1>7, Zenon DEF PixelOf3
<1> QED BY <1>1, <1>13, <1>14, <1>15, Zenon

(* The colour of a pixel of a pair.                                        *)
LEMMA PixelOfPair ==
  ASSUME NEW source, IsSource(source), source.format = "YUV422_UYVY",
         NEW i \in 1 .. source.pixels
  PROVE  /\ PixelYUV422(source, i) =
              <<source.bytes[2 * i], source.bytes[4 * ((i + 1) \div 2) - 3],
                source.bytes[4 * ((i + 1) \div 2) - 1]>>
         /\ PixelYUV422(source, i) \in AnyTriple
<1>1. PICK bytes \in Seq(Byte) : bytes = source.bytes /\ Len(bytes) = 2 * source.pixels
  BY DEF IsSource
<1>2. source.pixels \in Nat /\ i \in Nat /\ source.pixels % 2 = 0
  BY DEF IsSource
<1>3. PICK h \in Nat : source.pixels = 2 * h
  <2>1. source.pixels = 2 * (source.pixels \div 2) + (source.pixels % 2)
        /\ source.pixels \div 2 \in Nat
    BY <1>2
  <2> QED BY <1>2, <2>1
<1>4. DOMAIN bytes = 1 .. 4 * h
  BY <1>1, <1>3, LenProperties
<1>5. \A j \in 1 .. 4 * h : bytes[j] \in Byte
  BY <1>1, <1>3, ElementOfSeq
<1>6. PICK k \in Nat, r \in 0 .. 1 : i - 1 = 2 * k + r
  <2>1. /\ (i - 1) \div 2 \in Nat /\ (i - 1) % 2 \in 0 .. 1
        /\ i - 1 = 2 * ((i - 1) \div 2) + ((i - 1) % 2)
    BY <1>2
  <2> QED BY <2>1
<1>7. k < h
  BY <1>2, <1>3, <1>6
<1>8. /\ (i - 1) \div 2 = k /\ (i + 1) \div 2 = k + 1
      /\ i % 2 = 1 - r /\ 2 * i = 4 * k + 2 + 2 * r
  BY <1>2, <1>6
<1>9. 4 * k + (IF i % 2 = 1 THEN 2 ELSE 4) = 2 * i
  BY <1>2, <1>6, <1>8
<1>10. /\ 4 * k + 1 = 4 * ((i + 1) \div 2) - 3
       /\ 4 * k + 3 = 4 * ((i + 1) \div 2) - 1
  BY <1>8
<1>11. 2 * i \in 1 .. 4 * h /\ 4 * k + 1 \in 1 .. 4 * h /\ 4 * k + 3 \in 1 .. 4 * h
  BY <1>6, <1>7, <1>8
<1>12. PixelYUV422(source, i) =
         <<bytes[4 * k + (IF i % 2 = 1 THEN 2 ELSE 4)], bytes[4 * k + 1],
           bytes[4 * k + 3]>>
  BY <1>1, <1>8, Zenon DEF PixelYUV422
<1>13. PixelYUV422(source, i) = <<bytes[2 * i], bytes[4 * k + 1], bytes[4 * k + 3]>>
  BY <1>9, <1>12, Zenon
<1>14. PixelYUV422(source, i) \in AnyTriple
  <2>1. bytes[2 * i] \in Byte /\ bytes[4 * k + 1] \in Byte /\ bytes[4 * k + 3] \in Byte
    BY <1>5, <1>11
  <2> QED BY <1>13, <2>1, TripleIsColour
<1> QED BY <1>1, <1>10, <1>13, <1>14

(* What the masks of the segmentation are drawn in.                        *)
LEMMA YellowOrBlack ==
  /\ DrawColours("numeric")[0 + 1] = "Black"
  /\ DrawColours("numeric")[3 + 1] = "Yellow"
<1> DEFINE S == {"DarkGreen", "Orange", "Yellow", "Blue", "Pink", "Cyan",
                 "Green", "White", "Black"}
           c == <<"DarkGreen", "Orange", "Yellow", "Blue", "Pink", "Cyan",
                  "Green", "White", "Black">>
<1>1. c \in Seq(S) /\ <<"Black">> \in Seq(S) /\ Len(c) = 9 /\ Len(<<"Black">>) = 1
      /\ c[3] = "Yellow"
  OBVIOUS
<1>2. PICK none : none = <<"Black">>
  OBVIOUS
<1>3. none \in Seq(S) /\ Len(none) = 1 /\ none[1] = "Black"
  BY <1>1, <1>2
<1>4. DrawColours("numeric") = none \o c
  BY <1>2 DEF DrawColours
<1> HIDE DEF c, S
<1>5. \A i \in 1 .. Len(none) + Len(c) :
         (none \o c)[i] = IF i <= Len(none) THEN none[i] ELSE c[i - Len(none)]
  BY <1>1, <1>3, ConcatProperties
<1>6. (none \o c)[1] = none[1]
  BY <1>1, <1>3, <1>5
<1>7. (none \o c)[4] = c[3]
  <2>1. PICK n : n = 4 /\ n \in 1 .. Len(none) + Len(c)
    BY <1>1, <1>3
  <2>2. (none \o c)[n] = IF n <= Len(none) THEN none[n] ELSE c[n - Len(none)]
    BY <1>5, <2>1, Zenon
  <2>3. ~(n <= Len(none)) /\ n - Len(none) = 3
    BY <1>3, <2>1
  <2> QED BY <2>1, <2>2, <2>3, Zenon
<1> QED BY <1>1, <1>3, <1>4, <1>6, <1>7

(* The masks of a picture, looked up in the table of the picture's format. *)
IsSegmented(m, source, target, lut, d) ==
    /\ Len(target) # source.pixels => m = target
    /\ Len(target) = source.pixels =>
        /\ source.format = "YUV422_UYVY" =>
             m = [i \in DOMAIN target |->
                    getMask(lut.bits, lut.table, PixelYUV422(source, i))]
        /\ source.format = "YUV444" =>
             m = [i \in DOMAIN target |->
                    getMask(lut.bits, lut.table, PixelOf3(source, i))]
        /\ source.format = "RGB8" =>
             m = [i \in DOMAIN target |->
                    getMask(d.bits, d.table, PixelOf3(source, i))]
    /\ source.format = "RGB8" => segmentation(target, source, lut, <<>>) = target

(* The segmentation takes the table of the picture's format.               *)
LEMMA SegmentedBy ==
  ASSUME NEW source, IsSource(source), NEW target, NEW lut, NEW yuv, NEW d,
         yuv.space = "YUV", d.space = "RGB",
         NEW m, m = segmentation(target, source, lut, <<yuv, d>>)
  PROVE  IsSegmented(m, source, target, lut, d)
<1>1. source.format \in {"YUV422_UYVY", "YUV444", "RGB8"}
  BY DEF IsSource
<1>2. PICK two : two = <<yuv, d>>
  OBVIOUS
<1>3. {i \in DOMAIN two : two[i].space = "RGB"} = {2}
  BY <1>2
<1>4. Min({i \in DOMAIN two : two[i].space = "RGB"}) = 2
  <2>1. \A x \in {2} : (\A y \in {2} : x <= y) => x = 2
    OBVIOUS
  <2>2. 2 \in {2} /\ \A y \in {2} : 2 <= y
    OBVIOUS
  <2>3. Min({2}) = 2
    BY <2>1, <2>2 DEF Min
  <2> QED BY <1>3, <2>3, Zenon
<1>5. two[2] = d
  BY <1>2
<1>6. CASE source.format = "YUV422_UYVY"
  <2>1. m = thresholdImageYUV422_UYVY(target, source, lut)
    BY <1>6 DEF segmentation
  <2> QED BY <1>6, <2>1 DEF IsSegmented, thresholdImageYUV422_UYVY, Threshable
<1>7. CASE source.format = "YUV444"
  <2>1. m = thresholdImageYUV444(target, source, lut)
    BY <1>7 DEF segmentation
  <2> QED BY <1>7, <2>1 DEF IsSegmented, thresholdImageYUV444, Threshable
<1>8. CASE source.format = "RGB8"
  <2>1. segmentation(target, source, lut, two) = thresholdImageRGB(target, source, two[2])
    <3>1. source.format # "YUV422_UYVY" /\ source.format # "YUV444"
      BY <1>8
    <3>2. {i \in DOMAIN two : two[i].space = "RGB"} # {}
      BY <1>3
    <3> QED BY <1>4, <1>8, <3>1, <3>2 DEF segmentation
  <2>2. m = thresholdImageRGB(target, source, d)
    BY <1>2, <1>5, <2>1
  <2>3. segmentation(target, source, lut, <<>>) = target
    <3>1. PICK none : none = <<>> /\ DOMAIN none = {}
      OBVIOUS
    <3>2. {i \in DOMAIN none : none[i].space = "RGB"} = {}
      BY <3>1
    <3>3. segmentation(target, source, lut, none) = target
      BY <1>8, <3>2 DEF segmentation
    <3> QED BY <3>1, <3>3
  <2>4. Threshable(source, "RGB8", target) <=> Len(target) = source.pixels
    BY <1>8 DEF Threshable
  <2>5. Len(target) # source.pixels => m = target
    BY <2>2, <2>4, Zenon DEF thresholdImageRGB
  <2>6. Len(target) = source.pixels =>
          m = [i \in DOMAIN target |-> getMask(d.bits, d.table, PixelOf3(source, i))]
    BY <2>2, <2>4, Zenon DEF thresholdImageRGB
  <2> QED BY <1>8, <2>3, <2>5, <2>6 DEF IsSegmented
<1> QED BY <1>1, <1>6, <1>7, <1>8

(* A picture of any size and a table of at most 8 bits for each axis, of   *)
(* which some pixel is picked, and a target of any size.                   *)
AnySegment ==
    {i \in [about : {"segment"}, bits : AnyBits, picked : Nat, pixels : Nat,
            source : [format : {"YUV422_UYVY", "YUV444", "RGB8"}, pixels : Nat,
                      bytes : Seq(Byte)]] :
        IsSource(i.source) /\ i.picked \in 1 .. i.source.pixels}

(* A target of so many pixels, none of which is looked at.                 *)
LEMMA TargetOf ==
  ASSUME NEW n \in Nat
  PROVE  Len([i \in 1 .. n |-> 9]) = n /\ DOMAIN [i \in 1 .. n |-> 9] = 1 .. n
<1>1. [i \in 1 .. n |-> 9] \in Seq(Nat)
  OBVIOUS
<1>2. DOMAIN [i \in 1 .. n |-> 9] = 1 .. n
  OBVIOUS
<1>3. Len([i \in 1 .. n |-> 9]) = n
  BY <1>1, <1>2, LenProperties
<1> QED BY <1>2, <1>3

(* cmvision_threshold.cpp:28-120, lut3d.h:495-541: what is picked is found,*)
(* in a picture of any size and by a table of any number of bits.          *)
THEOREM PickedIsSegmented == ASSUME input \in AnySegment PROVE PickIsSegmented
<1> DEFINE bits == input.bits
           source == input.source
           Byte3(i) == [c \in 1 .. 3 |-> source.bytes[3 * i + c - 3]]
           Shared(i) == <<source.bytes[2 * i],
                          source.bytes[4 * ((i + 1) \div 2) - 3],
                          source.bytes[4 * ((i + 1) \div 2) - 1]>>
           Colour(i) == IF source.format = "YUV422_UYVY" THEN Shared(i) ELSE Byte3(i)
           Rounded(i) == [c \in 1 .. 3 |-> (Colour(i)[c] \div 64) * 64]
           Yuv(c) == IF source.format = "RGB8" THEN rgb2yuv(c[1], c[2], c[3]) ELSE c
           InCell(c) == [a \in Axes |-> Yuv(c)[a] \div 2 ^ (8 - bits[a])]
           lut == [space |-> "YUV", bits |-> bits,
                   table |-> setMask(bits, resetTable(bits),
                                     Yuv(Colour(input.picked)), 3)]
           four == <<2, 2, 2>>
           Derived(space) ==
               [space |-> "RGB", bits |-> four,
                table |-> deriveFromLUT(four, resetTable(four),
                                        [lut EXCEPT !.space = space])]
           target == [i \in 1 .. input.pixels |-> 9]
           masks == segmentation(target, source, lut,
                                 <<[space |-> "YUV"], Derived("YUV")>>)
           At(i) == IF source.format = "RGB8" THEN Rounded(i) ELSE Colour(i)
           Of(i) == IF InCell(At(i)) = InCell(Colour(input.picked)) THEN 3 ELSE 0
<1>1. /\ IsSource(source) /\ bits \in AnyBits /\ input.pixels \in Nat
      /\ input.picked \in 1 .. source.pixels
      /\ source.format \in {"YUV422_UYVY", "YUV444", "RGB8"}
  BY DEF AnySegment, IsSource
<1>2. \A i \in 1 .. source.pixels :
         /\ Colour(i) \in AnyTriple
         /\ IF source.format = "YUV422_UYVY" THEN PixelYUV422(source, i) = Colour(i)
            ELSE PixelOf3(source, i) = Colour(i)
  <2> SUFFICES ASSUME NEW i \in 1 .. source.pixels
               PROVE  /\ Colour(i) \in AnyTriple
                      /\ IF source.format = "YUV422_UYVY"
                         THEN PixelYUV422(source, i) = Colour(i)
                         ELSE PixelOf3(source, i) = Colour(i)
    OBVIOUS
  <2> HIDE DEF source
  <2>1. CASE source.format = "YUV422_UYVY"
    <3>1. PixelYUV422(source, i) = Shared(i) /\ PixelYUV422(source, i) \in AnyTriple
      BY <1>1, <2>1, PixelOfPair
    <3> QED BY <2>1, <3>1, Zenon
  <2>2. CASE source.format # "YUV422_UYVY"
    <3>1. PixelOf3(source, i) = Byte3(i) /\ PixelOf3(source, i) \in AnyTriple
      BY <1>1, <2>2, PixelOfThree
    <3> QED BY <2>2, <3>1, Zenon
  <2> QED BY <2>1, <2>2
<1> HIDE DEF Colour
<1>3. \A i \in 1 .. source.pixels : Rounded(i) \in AnyTriple
                                    /\ Rounded(i) = [a \in Axes |-> (Colour(i)[a] \div 64) * 64]
  <2> SUFFICES ASSUME NEW i \in 1 .. source.pixels
               PROVE  Rounded(i) \in AnyTriple
                      /\ Rounded(i) = [a \in Axes |-> (Colour(i)[a] \div 64) * 64]
    OBVIOUS
  <2>1. PICK c \in AnyTriple : c = Colour(i)
    BY <1>2
  <2>2. [a \in Axes |-> (c[a] \div 64) * 64] \in AnyTriple
    BY CornerOfFour, Zenon
  <2> QED BY <2>1, <2>2 DEF Axes
<1> HIDE DEF Rounded
<1>4. \A c \in AnyTriple : Yuv(c) \in AnyTriple
  BY YuvIsColour, Zenon
<1>5. \A c : InCell(c) = norm2lut(bits, Yuv(c))
  BY Zenon DEF norm2lut
<1>6. \A i \in 1 .. source.pixels : At(i) \in AnyTriple
  BY <1>2, <1>3, Zenon
<1>7. Yuv(Colour(input.picked)) \in AnyTriple
  BY <1>1, <1>2, <1>4, Zenon
<1>8. lut.space = "YUV" /\ lut.bits = bits
      /\ lut.table = setMask(bits, resetTable(bits), Yuv(Colour(input.picked)), 3)
      /\ [lut EXCEPT !.space = "YUV"] = lut
      /\ [lut EXCEPT !.space = "RGB"].space = "RGB"
  <2> HIDE DEF Yuv, bits
  <2> QED OBVIOUS
<1>9. Derived("YUV").space = "RGB" /\ Derived("YUV").bits = four
      /\ Derived("YUV").table = deriveFromLUT(four, resetTable(four), lut)
      /\ Derived("RGB").table = deriveFromLUT(four, resetTable(four),
                                              [lut EXCEPT !.space = "RGB"])
  <2>1. Derived("YUV").table = deriveFromLUT(four, resetTable(four),
                                             [lut EXCEPT !.space = "YUV"])
    BY Zenon
  <2>2. Derived("YUV").space = "RGB" /\ Derived("YUV").bits = four
    BY Zenon
  <2>3. Derived("RGB").table = deriveFromLUT(four, resetTable(four),
                                             [lut EXCEPT !.space = "RGB"])
    BY Zenon
  <2> HIDE DEF lut, Derived, four
  <2> QED BY <1>8, <2>1, <2>2, <2>3
<1>10. Derived("RGB").table = resetTable(four)
  <2> HIDE DEF lut, Derived, four
  <2> QED BY <1>8, <1>9 DEF deriveFromLUT
<1> HIDE DEF lut
<1>11. \A i \in 1 .. source.pixels : getMask(bits, lut.table, Yuv(At(i))) = Of(i)
  <2> SUFFICES ASSUME NEW i \in 1 .. source.pixels
               PROVE  getMask(bits, lut.table, Yuv(At(i))) = Of(i)
    OBVIOUS
  <2>1. PICK p \in AnyTriple, c \in AnyTriple :
           p = Yuv(Colour(input.picked)) /\ c = Yuv(At(i))
    BY <1>4, <1>6, <1>7, Zenon
  <2>2. getMask(bits, setMask(bits, resetTable(bits), p, 3), c)
           = IF norm2lut(bits, c) = norm2lut(bits, p) THEN 3 ELSE 0
    BY <1>1, TableOfOne, Zenon
  <2>3. InCell(At(i)) = norm2lut(bits, c) /\ InCell(Colour(input.picked)) = norm2lut(bits, p)
    BY <1>5, <2>1, Zenon
  <2> HIDE DEF InCell, At, Yuv, bits
  <2> QED BY <1>8, <2>1, <2>2, <2>3, Zenon
<1>12. \A i \in 1 .. source.pixels : source.format = "RGB8" =>
          getMask(four, Derived("YUV").table, Colour(i)) = Of(i)
  <2> SUFFICES ASSUME NEW i \in 1 .. source.pixels, source.format = "RGB8"
               PROVE  getMask(four, Derived("YUV").table, Colour(i)) = Of(i)
    OBVIOUS
  <2>1. PICK c \in AnyTriple : c = Colour(i)
    BY <1>2
  <2>2. PICK corner : corner = [a \in Axes |-> (c[a] \div 64) * 64]
    OBVIOUS
  <2>3. corner = At(i) /\ Yuv(At(i)) = rgb2yuv(corner[1], corner[2], corner[3])
    BY <1>3, <2>1, <2>2, Zenon
  <2>4. getMask(four, deriveFromLUT(four, resetTable(four), lut), c)
           = getMask(bits, lut.table, rgb2yuv(corner[1], corner[2], corner[3]))
    <3>1. PICK b, t, l : b = bits /\ t = lut.table /\ l = lut
      OBVIOUS
    <3>2. l.space = "YUV" /\ l.bits = b /\ l.table = t
      BY <1>8, <3>1, Zenon
    <3>3. PICK f : f = <<2, 2, 2>>
      OBVIOUS
    <3>4. getMask(f, deriveFromLUT(f, resetTable(f), l), c)
             = getMask(b, t, rgb2yuv(corner[1], corner[2], corner[3]))
      BY <2>2, <3>2, <3>3, DerivedMask
    <3> QED BY <3>1, <3>3, <3>4, Zenon
  <2> HIDE DEF At, Yuv, Of, bits, four, Derived
  <2> QED BY <1>9, <1>11, <2>1, <2>3, <2>4, Zenon
<1> HIDE DEF At, Of, InCell, Yuv
<1>13. Len(target) = input.pixels /\ DOMAIN target = 1 .. input.pixels
  BY <1>1, TargetOf, Zenon
<1> HIDE DEF target
<1>14. /\ Len(target) # source.pixels => masks = target
       /\ Len(target) = source.pixels =>
           /\ source.format = "YUV422_UYVY" =>
                masks = [i \in DOMAIN target |->
                           getMask(lut.bits, lut.table, PixelYUV422(source, i))]
           /\ source.format = "YUV444" =>
                masks = [i \in DOMAIN target |->
                           getMask(lut.bits, lut.table, PixelOf3(source, i))]
           /\ source.format = "RGB8" =>
                masks = [i \in DOMAIN target |->
                           getMask(Derived("YUV").bits, Derived("YUV").table,
                                   PixelOf3(source, i))]
       /\ source.format = "RGB8" =>
            segmentation(target, source, lut, <<>>) = target
  <2>1. PICK yuv, d, t, l :
           yuv = [space |-> "YUV"] /\ d = Derived("YUV") /\ t = target /\ l = lut
    OBVIOUS
  <2>2. yuv.space = "YUV"
    BY <2>1
  <2>3. d.space = "RGB"
    BY <1>9, <2>1, Zenon
  <2> HIDE DEF Derived, source
  <2>4. PICK m : m = segmentation(t, source, l, <<yuv, d>>)
    OBVIOUS
  <2>5. IsSegmented(m, source, t, l, d)
    BY <1>1, <2>2, <2>3, <2>4, SegmentedBy, Zenon
  <2>6. m = masks
    BY <2>1, <2>4, Zenon
  <2> HIDE DEF masks
  <2> QED BY <2>1, <2>5, <2>6, Zenon DEF IsSegmented
<1>15. input.pixels = source.pixels =>
         DOMAIN masks = 1 .. input.pixels
         /\ \A i \in 1 .. input.pixels : masks[i] = Of(i)
  <2> SUFFICES ASSUME input.pixels = source.pixels
               PROVE  DOMAIN masks = 1 .. input.pixels
                      /\ \A i \in 1 .. input.pixels : masks[i] = Of(i)
    OBVIOUS
  <2> HIDE DEF masks, Derived, source
  <2>1. CASE source.format = "YUV422_UYVY"
    <3>1. masks = [i \in 1 .. source.pixels |->
                     getMask(bits, lut.table, PixelYUV422(source, i))]
      BY <1>8, <1>13, <1>14, <2>1, Zenon
    <3>2. \A i \in 1 .. source.pixels : PixelYUV422(source, i) = Yuv(At(i))
      BY <1>2, <2>1 DEF Yuv, At
    <3> QED BY <1>11, <3>1, <3>2, Zenon
  <2>2. CASE source.format = "YUV444"
    <3>1. masks = [i \in 1 .. source.pixels |->
                     getMask(bits, lut.table, PixelOf3(source, i))]
      BY <1>8, <1>13, <1>14, <2>2, Zenon
    <3>2. \A i \in 1 .. source.pixels : PixelOf3(source, i) = Yuv(At(i))
      BY <1>2, <2>2 DEF Yuv, At
    <3> QED BY <1>11, <3>1, <3>2, Zenon
  <2>3. CASE source.format = "RGB8"
    <3>1. masks = [i \in 1 .. source.pixels |->
                     getMask(four, Derived("YUV").table, PixelOf3(source, i))]
      BY <1>9, <1>13, <1>14, <2>3, Zenon
    <3>2. \A i \in 1 .. source.pixels : PixelOf3(source, i) = Colour(i)
      BY <1>2, <2>3
    <3>3. \A i \in 1 .. source.pixels :
             getMask(four, Derived("YUV").table, PixelOf3(source, i)) = Of(i)
      BY <1>12, <2>3, <3>2, Zenon
    <3> QED BY <3>1, <3>3, Zenon
  <2> QED BY <1>1, <2>1, <2>2, <2>3
<1> HIDE DEF masks
<1>16. \A i \in 1 .. source.pixels : Of(i) = 3 \/ Of(i) = 0
  BY Zenon DEF Of
<1>17. input.pixels = source.pixels =>
         \A i \in 1 .. input.pixels :
            colorize(masks, DrawColours("numeric"))[i] =
               IF masks[i] = 3 THEN "Yellow" ELSE "Black"
  <2> SUFFICES ASSUME input.pixels = source.pixels, NEW i \in 1 .. input.pixels
               PROVE  colorize(masks, DrawColours("numeric"))[i] =
                         IF masks[i] = 3 THEN "Yellow" ELSE "Black"
    OBVIOUS
  <2> DEFINE colours == DrawColours("numeric")
  <2>1. colours[0 + 1] = "Black" /\ colours[3 + 1] = "Yellow"
    BY YellowOrBlack, Zenon
  <2> HIDE DEF colours
  <2>2. colorize(masks, colours)[i] = colours[masks[i] + 1]
    BY <1>15, Zenon DEF colorize
  <2>3. masks[i] = 3 \/ masks[i] = 0
    BY <1>15, <1>16, Zenon
  <2>4. colorize(masks, colours)[i] = IF masks[i] = 3 THEN "Yellow" ELSE "Black"
    BY <2>1, <2>2, <2>3
  <2> QED BY <2>4 DEF colours
<1>18. /\ IF input.pixels # source.pixels THEN masks = target
          ELSE \A i \in 1 .. input.pixels : masks[i] = Of(i)
       /\ source.format = "RGB8" => segmentation(target, source, lut, <<>>) = target
  BY <1>13, <1>14, <1>15, Zenon
<1> QED
  BY <1>10, <1>17, <1>18, Zenon
  DEF PickIsSegmented, target, masks, Of, At, InCell, Yuv, Rounded, Colour, lut
=============================================================================
