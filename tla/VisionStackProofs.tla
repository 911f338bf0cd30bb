------------------------- MODULE VisionStackProofs -------------------------
(* Theorems about VisionStack for any cameras, buffers, interval and       *)
(* bounds.                                                                 *)
EXTENDS VisionStack, TLAPS

(* What the plugins of a camera leave in the map of a bin: all of it is of *)
(* what was thresholded, or empty, but balls that could not be looked for. *)
LEMMA MapAfterOwn ==
  ASSUME NEW c \in Cameras, NEW V, 0 \in V, number[c] \in V,
         NEW map \in [Entries -> V]
  PROVE  /\ AfterOwn(c, map) \in [Entries -> V]
         /\ format[c] => AfterOwn(c, map)["robots"] \in {0, number[c]}
         /\ format[c] /\ choice.label =>
               AfterOwn(c, map)["balls"] \in {0, number[c]}
<1> DEFINE m4 == Threshold(c, map)
           m5 == RunlengthEncode(m4)
           m6 == FindBlobs(m5)
           m7 == DetectRobots(m6)
           m8 == DetectBalls(m7)
<1>1. AfterOwn(c, map) = m8
  BY DEF AfterOwn
<1>2. m4 \in [Entries -> V] /\ (format[c] => m4["threshold"] = number[c])
  BY DEF Threshold, Supported, Entries
<1> HIDE DEF m4
<1>3. m5 \in [Entries -> V] /\ (format[c] => m5["runs"] = number[c])
  BY <1>2 DEF RunlengthEncode, Entries
<1> HIDE DEF m5
<1>4. m6 \in [Entries -> V] /\ (format[c] => m6["regions"] \in {0, number[c]})
  BY <1>3 DEF FindBlobs, Entries
<1> HIDE DEF m6
<1>5. /\ m7 \in [Entries -> V]
      /\ format[c] => /\ m7["regions"] \in {0, number[c]}
                      /\ m7["robots"] \in {0, number[c]}
  BY <1>4 DEF DetectRobots, Entries
<1> HIDE DEF m7
<1>6. /\ m8 \in [Entries -> V]
      /\ format[c] => m8["robots"] \in {0, number[c]}
      /\ format[c] /\ choice.label => m8["balls"] \in {0, number[c]}
  BY <1>5 DEF DetectBalls, Entries
<1> HIDE DEF m8
<1> QED
  BY <1>1, <1>6

(* The bin of a frame is one of the buffer's.                              *)
LEMMA BinOfFrame ==
  ASSUME NEW c \in Cameras, number[c] \in Nat
  PROVE  Bin(c) \in Bins
BY VisionAssumption DEF Bin, Bins

(* An address that was read is not the mark that none was.                 *)
LEMMA AddressesAreReal ==
  ASSUME netServer \in [open : BOOLEAN, port : Versions, address : Versions]
  PROVE  ServerDest \in Dests /\ ServerDest # NoDest
BY VisionAssumption DEF ServerDest, Dests, NoDest, Versions

(* Where the GUI thread goes next.                                         *)
LEMMA GuiGoes ==
  ASSUME eventAt \in [doing : EventPlaces, camera : Cameras],
         NEW what \in EventPlaces, GuiDoes(what)
  PROVE  /\ eventAt' \in [doing : EventPlaces, camera : Cameras]
         /\ eventAt'.doing = what
         /\ eventAt'.camera = eventAt.camera
BY DEF GuiDoes

(* Every edit leaves settings that can be, and fewer edits to come.        *)
LEMMA ChoiceAfterEdit ==
  ASSUME NEW old \in [net : Versions, label : BOOLEAN, blobs : BOOLEAN,
                      edits : 0 .. Edits],
         NEW new, old.edits > 0, old.net + old.edits <= Edits,
         \/ new = [old EXCEPT !.edits = @ - 1]
         \/ new = [old EXCEPT !.edits = @ - 1, !.label = ~@]
         \/ new = [old EXCEPT !.edits = @ - 1, !.blobs = ~@]
         \/ new = [old EXCEPT !.edits = @ - 1, !.net = @ + 1]
  PROVE  /\ new \in [net : Versions, label : BOOLEAN, blobs : BOOLEAN,
                     edits : 0 .. Edits]
         /\ new.net + new.edits <= Edits
<1>1. /\ old.edits - 1 \in 0 .. Edits
      /\ old.net + 1 \in Versions
      /\ old.net \in Nat /\ old.edits \in Nat
  <2>1. old.edits \in 0 .. Edits /\ old.net \in 0 .. Edits
    BY DEF Versions
  <2> QED
    BY <2>1, VisionAssumption DEF Versions
<1>2. new \in [net : Versions, label : BOOLEAN, blobs : BOOLEAN,
               edits : 0 .. Edits]
  <2>1. (~old.label) \in BOOLEAN /\ (~old.blobs) \in BOOLEAN
    OBVIOUS
  <2> QED
    BY <1>1, <2>1
<1>3. /\ new.edits = old.edits - 1
      /\ new.net = old.net \/ new.net = old.net + 1
  OBVIOUS
<1> QED
  BY <1>1, <1>2, <1>3, VisionAssumption

(* The server through its closing, its new address and its opening.        *)
LEMMA ServerAfterStep ==
  ASSUME NEW old \in [open : BOOLEAN, port : Versions, address : Versions],
         NEW v \in Versions, NEW new,
         \/ new = [old EXCEPT !.open = FALSE, !.port = v]
         \/ new = [old EXCEPT !.address = v]
         \/ new = [old EXCEPT !.open = TRUE]
  PROVE  new \in [open : BOOLEAN, port : Versions, address : Versions]
OBVIOUS

(* Every step keeps the types.                                             *)
LEMMA TypesKept ==
  ASSUME StackTypeOK, choice.net + choice.edits <= Edits,
         [StackNext]_stackVars
  PROVE  StackTypeOK'
<1> USE VisionAssumption DEF StackTypeOK, threadStackVars, geometryVars,
                             netVars, StackPlaces, EventPlaces
<1>1. ServerDest \in Dests
  BY AddressesAreReal
<1>2. CASE Tick
  BY <1>2 DEF Tick
<1>3. ASSUME NEW c \in Cameras, BeginFrame(c)
      PROVE  StackTypeOK'
  BY <1>3 DEF BeginFrame
<1>4. ASSUME NEW c \in Cameras, ProcessOwn(c)
      PROVE  StackTypeOK'
  <2>1. /\ number[c] \in 0 .. Frames /\ Bin(c) \in Bins
        /\ results[c][Bin(c)] \in [Entries -> 0 .. Frames]
    BY BinOfFrame
  <2>2. AfterOwn(c, results[c][Bin(c)]) \in [Entries -> 0 .. Frames]
    <3>1. 0 \in 0 .. Frames
      OBVIOUS
    <3> QED
      BY <2>1, <3>1, MapAfterOwn
  <2>3. results' \in [Cameras -> [Bins -> [Entries -> 0 .. Frames]]]
    BY <1>4, <2>1, <2>2 DEF ProcessOwn
  <2>4. failed' \in [Cameras -> BOOLEAN]
    BY <1>4 DEF ProcessOwn, OwnFails, Supported
  <2>5. at' \in [Cameras -> StackPlaces]
    BY <1>4 DEF ProcessOwn, Advance
  <2> QED
    BY <1>4, <2>3, <2>4, <2>5 DEF ProcessOwn
<1>5. ASSUME NEW t \in Threads, PacketOut(t)
      PROVE  /\ dest' \in [Threads -> Dests]
             /\ late' \in [Cameras -> 0 .. 2]
             /\ UNCHANGED <<netServer, netLock>>
  <2>1. ASSUME t \in Cameras
        PROVE  late[t] < 2 => late[t] + 1 \in 0 .. 2
    <3>1. late[t] \in 0 .. 2
      BY <2>1
    <3> QED
      BY <3>1
  <2>2. late' \in [Cameras -> 0 .. 2]
    BY <1>5, <2>1 DEF PacketOut
  <2> QED
    BY <1>5, <2>2 DEF PacketOut, Dests
<1>6. ASSUME NEW c \in Cameras, PrepareDetection(c) \/ PrepareGeometry(c)
      PROVE  StackTypeOK'
  <2>1. dest' \in [Threads -> Dests]
    BY <1>1, <1>6 DEF PrepareDetection, PrepareGeometry, Prepare
  <2> QED
    BY <1>6, <2>1 DEF PrepareDetection, PrepareGeometry, Threads
<1>7. ASSUME NEW c \in Cameras, SendDetection(c) \/ SendGeometry(c)
      PROVE  StackTypeOK'
  <2>1. PacketOut(c) /\ c \in Threads
    BY <1>7 DEF SendDetection, SendGeometry, Threads
  <2>2. at' \in [Cameras -> StackPlaces]
    <3>1. \E place \in StackPlaces : at' = [at EXCEPT ![c] = place]
      BY <1>7 DEF SendDetection, SendGeometry, Advance
    <3> QED
      BY <3>1
  <2>3. lastTime' \in -Interval .. LastTime /\ published' \in -Interval .. LastTime
    BY <1>7 DEF SendDetection, SendGeometry
  <2>4. /\ dest' \in [Threads -> Dests]
        /\ late' \in [Cameras -> 0 .. 2]
        /\ UNCHANGED <<netServer, netLock>>
    BY <1>5, <2>1
  <2>5. holder' \in Threads \cup {"nobody"}
    BY <1>7 DEF SendDetection, SendGeometry
  <2> QED
    BY <1>7, <2>2, <2>3, <2>4, <2>5 DEF SendDetection, SendGeometry
<1>8. ASSUME NEW c \in Cameras, SkipGeometry(c) \/ PostProcess(c)
      PROVE  StackTypeOK'
  <2>1. at' \in [Cameras -> StackPlaces]
    <3>1. \E place \in StackPlaces : at' = [at EXCEPT ![c] = place]
      BY <1>8 DEF SkipGeometry, PostProcess, Advance
    <3> QED
      BY <3>1
  <2>2. holder' \in Threads \cup {"nobody"}
    BY <1>8 DEF SkipGeometry, PostProcess
  <2> QED
    BY <1>8, <2>1, <2>2 DEF SkipGeometry, PostProcess
<1>9. CASE HandleEvent
  <2>1. PICK what \in EventPlaces : GuiDoes(what)
    BY <1>9 DEF HandleEvent, EventAtOwn, EventAtNetwork, EventAtGeometry
  <2>2. eventAt' \in [doing : EventPlaces, camera : Cameras]
    BY <2>1, GuiGoes
  <2> QED
    BY <1>9, <2>2
       DEF HandleEvent, EventAtOwn, EventAtNetwork, EventAtGeometry
<1>10. CASE Publish
  <2>1. PacketOut("gui") /\ "gui" \in Threads
    BY <1>10 DEF Publish, Threads
  <2>2. eventAt' \in [doing : EventPlaces, camera : Cameras]
    BY <1>10, GuiGoes DEF Publish
  <2> QED
    BY <1>5, <1>10, <2>1, <2>2 DEF Publish
<1>11. CASE CloseServer \/ AssignAddress \/ ReopenServer
  <2>1. PICK what \in EventPlaces : GuiDoes(what)
    BY <1>11 DEF CloseServer, AssignAddress, ReopenServer
  <2>2. eventAt' \in [doing : EventPlaces, camera : Cameras]
    BY <2>1, GuiGoes
  <2>3. netServer' \in [open : BOOLEAN, port : Versions, address : Versions]
    <3>1. /\ choice.net \in Versions
          /\ netServer \in [open : BOOLEAN, port : Versions,
                            address : Versions]
      OBVIOUS
    <3>2. \/ netServer' = [netServer EXCEPT !.open = FALSE,
                                           !.port = choice.net]
          \/ netServer' = [netServer EXCEPT !.address = choice.net]
          \/ netServer' = [netServer EXCEPT !.open = TRUE]
      BY <1>11 DEF CloseServer, AssignAddress, ReopenServer
    <3> HIDE DEF StackTypeOK
    <3> QED
      BY <3>1, <3>2, ServerAfterStep
  <2>4. late' \in [Cameras -> 0 .. 2] /\ netLock' \in {"gui", "nobody"}
    BY <1>11 DEF CloseServer, AssignAddress, ReopenServer
  <2> QED
    BY <1>11, <2>2, <2>3, <2>4 DEF CloseServer, AssignAddress, ReopenServer
<1>12. CASE PressPublish
  <2>1. dest' \in [Threads -> Dests]
    BY <1>1, <1>12 DEF PressPublish, Prepare
  <2>2. eventAt' \in [doing : EventPlaces, camera : Cameras]
    BY <1>12, GuiGoes DEF PressPublish
  <2>3. choice' \in [net : Versions, label : BOOLEAN, blobs : BOOLEAN,
                     edits : 0 .. Edits]
    BY <1>12, ChoiceAfterEdit DEF PressPublish
  <2> QED
    BY <1>12, <2>1, <2>2, <2>3 DEF PressPublish, Threads
<1>13. CASE (\E c \in Cameras : BeginEvent(c)) \/ EditDetection
  <2>1. choice' \in [net : Versions, label : BOOLEAN, blobs : BOOLEAN,
                     edits : 0 .. Edits]
    BY <1>13, ChoiceAfterEdit DEF BeginEvent, EditDetection
  <2>2. eventAt' \in [doing : EventPlaces, camera : Cameras]
    BY <1>13 DEF BeginEvent, EditDetection
  <2> QED
    BY <1>13, <2>1, <2>2 DEF BeginEvent, EditDetection
<1>14. CASE EditNetwork
  <2>2. eventAt' \in [doing : EventPlaces, camera : Cameras]
    BY <1>14, GuiGoes DEF EditNetwork
  <2>3. choice' \in [net : Versions, label : BOOLEAN, blobs : BOOLEAN,
                     edits : 0 .. Edits]
    BY <1>14, ChoiceAfterEdit DEF EditNetwork
  <2> QED
    BY <1>14, <2>2, <2>3 DEF EditNetwork
<1>15. CASE UNCHANGED stackVars
  BY <1>15 DEF stackVars
<1> QED
  BY <1>2, <1>3, <1>4, <1>6, <1>7, <1>8, <1>9, <1>10, <1>11, <1>12, <1>13,
     <1>14, <1>15
     DEF StackNext, StackThread, ThreadWorks, GuiWorks, GuiBegins

-----------------------------------------------------------------------------
(* The locks of the GUI thread, whoever steps.                             *)
LEMMA GuiLocksKept ==
  ASSUME StackTypeOK, LocksFollowPlaces, [StackNext]_stackVars
  PROVE  LocksOfGui'
<1> USE VisionAssumption DEF threadStackVars, geometryVars, netVars
<1>1. LocksOfGui
  BY DEF LocksFollowPlaces
<1>2. /\ eventAt \in [doing : EventPlaces, camera : Cameras]
      /\ dest \in [Threads -> Dests] /\ "gui" \in Threads
      /\ netServer \in [open : BOOLEAN, port : Versions, address : Versions]
      /\ holder \in Threads \cup {"nobody"}
      /\ choice \in [net : Versions, label : BOOLEAN, blobs : BOOLEAN,
                     edits : 0 .. Edits]
  BY DEF StackTypeOK, Threads
<1>3. ASSUME NEW c \in Cameras, StackThread(c)
      PROVE  LocksOfGui'
  <2>1. c # "gui" /\ c \in Threads
    BY DEF Threads
  <2>2. UNCHANGED <<netServer, netLock, choice, eventAt>>
    BY <1>3
       DEF StackThread, ThreadWorks, BeginFrame, ProcessOwn, PrepareDetection,
           SendDetection, PrepareGeometry, SendGeometry, SkipGeometry,
           PostProcess, PacketOut
  <2>3. dest'["gui"] = dest["gui"]
    BY <1>2, <1>3, <2>1
       DEF StackThread, ThreadWorks, BeginFrame, ProcessOwn, PrepareDetection,
           SendDetection, PrepareGeometry, SendGeometry, SkipGeometry,
           PostProcess, PacketOut, Prepare
  <2>4. (holder' = "gui" <=> holder = "gui") /\ published' = lastTime'
    <3>1. CASE PrepareGeometry(c)
      BY <1>1, <2>1, <3>1 DEF PrepareGeometry, LocksOfGui
    <3>2. CASE SendGeometry(c)
      <4>1. at[c] = "geometry" /\ Prepared(c) /\ holder' = "nobody"
            /\ published' = lastTime'
        BY <3>2 DEF SendGeometry, PacketOut
      <4>2. holder = c
        BY <4>1 DEF LocksFollowPlaces, LocksOfCamera
      <4> QED
        BY <2>1, <4>1, <4>2
    <3>3. CASE ~PrepareGeometry(c) /\ ~SendGeometry(c)
      BY <1>1, <1>3, <3>3
         DEF StackThread, ThreadWorks, BeginFrame, ProcessOwn,
             PrepareDetection, SendDetection, SkipGeometry, PostProcess,
             LocksOfGui
    <3> QED
      BY <3>1, <3>2, <3>3
  <2> QED
    BY <1>1, <2>2, <2>3, <2>4 DEF LocksOfGui, Prepared
<1>4. CASE Tick
  BY <1>1, <1>4 DEF Tick, LocksOfGui, Prepared
<1>5. CASE HandleEvent
  <2>1. PICK what \in {"network", "idle", "geometry"} : GuiDoes(what)
    BY <1>5 DEF HandleEvent, EventAtOwn, EventAtNetwork, EventAtGeometry
  <2>2. eventAt'.doing = what /\ what \in EventPlaces
    BY <1>2, <2>1, GuiGoes DEF EventPlaces, StackPlaces
  <2>3. eventAt.doing \in {"own", "network", "geometry"}
    BY <1>5 DEF HandleEvent, EventAtOwn, EventAtNetwork, EventAtGeometry
  <2>4. UNCHANGED <<geometryVars, netVars, choice>>
    BY <1>5 DEF HandleEvent, EventAtOwn, EventAtNetwork, EventAtGeometry
  <2> QED
    BY <1>1, <2>2, <2>3, <2>4 DEF LocksOfGui, Prepared
<1>6. CASE Publish
  <2>1. eventAt'.doing = "idle" /\ "idle" \in EventPlaces
    BY <1>2, <1>6, GuiGoes DEF Publish, EventPlaces, StackPlaces
  <2>2. dest'["gui"] = NoDest
    BY <1>2, <1>6 DEF Publish, PacketOut
  <2> QED
    BY <1>1, <1>6, <2>1, <2>2 DEF Publish, PacketOut, LocksOfGui, Prepared
<1>7. CASE CloseServer
  <2>1. eventAt'.doing = "assign"
    BY <1>2, <1>7, GuiGoes DEF CloseServer, EventPlaces, StackPlaces
  <2> QED
    BY <1>1, <1>7, <2>1 DEF CloseServer, LocksOfGui, Prepared
<1>8. CASE AssignAddress
  <2>1. eventAt'.doing = "reopen"
    BY <1>2, <1>8, GuiGoes DEF AssignAddress, EventPlaces, StackPlaces
  <2> QED
    BY <1>1, <1>8, <2>1 DEF AssignAddress, LocksOfGui, Prepared
<1>9. CASE ReopenServer
  <2>1. eventAt'.doing = "idle"
    BY <1>2, <1>9, GuiGoes DEF ReopenServer, EventPlaces, StackPlaces
  <2>2. netServer'.open
    BY <1>2, <1>9 DEF ReopenServer
  <2> QED
    BY <1>1, <1>9, <2>1, <2>2 DEF ReopenServer, LocksOfGui, Prepared
<1>10. CASE PressPublish
  <2>1. eventAt'.doing = "publish" /\ eventAt.doing = "idle"
    BY <1>2, <1>10, GuiGoes
       DEF PressPublish, GuiIdle, EventPlaces, StackPlaces
  <2>2. dest'["gui"] # NoDest
    BY <1>2, <1>10, AddressesAreReal DEF PressPublish, Prepare
  <2>3. choice'.net + choice'.edits <= Edits
    BY <1>1, <1>2, <1>10, ChoiceAfterEdit DEF PressPublish, LocksOfGui
  <2> QED
    BY <1>1, <1>10, <2>1, <2>2, <2>3 DEF PressPublish, LocksOfGui, Prepared
<1>11. CASE EditDetection
  <2>1. choice'.net + choice'.edits <= Edits
    BY <1>1, <1>2, <1>11, ChoiceAfterEdit DEF EditDetection, LocksOfGui
  <2> QED
    BY <1>1, <1>11, <2>1 DEF EditDetection, LocksOfGui, Prepared
<1>12. CASE EditNetwork
  <2>1. eventAt'.doing = "refresh" /\ eventAt.doing = "idle"
    BY <1>2, <1>12, GuiGoes
       DEF EditNetwork, GuiIdle, EventPlaces, StackPlaces
  <2>2. choice'.net + choice'.edits <= Edits
    BY <1>1, <1>2, <1>12, ChoiceAfterEdit DEF EditNetwork, LocksOfGui
  <2> QED
    BY <1>1, <1>12, <2>1, <2>2 DEF EditNetwork, LocksOfGui, Prepared
<1>13. ASSUME NEW c \in Cameras, BeginEvent(c)
       PROVE  LocksOfGui'
  <2>1. eventAt'.doing = "own" /\ eventAt.doing = "idle"
    BY <1>13 DEF BeginEvent, GuiIdle
  <2> QED
    BY <1>1, <1>13, <2>1 DEF BeginEvent, LocksOfGui, Prepared
<1>14. CASE UNCHANGED stackVars
  BY <1>1, <1>14 DEF stackVars, LocksOfGui, Prepared
<1> QED
  BY <1>3, <1>4, <1>5, <1>6, <1>7, <1>8, <1>9, <1>10, <1>11, <1>12, <1>13,
     <1>14 DEF StackNext, GuiWorks, GuiBegins

(* The locks of a camera: another camera that has the shared plugin's or   *)
(* takes it leaves this one where it was.                                  *)
LEMMA CameraLocksKept ==
  ASSUME StackTypeOK, LocksFollowPlaces, [StackNext]_stackVars,
         NEW c \in Cameras
  PROVE  LocksOfCamera(c)'
<1> USE VisionAssumption DEF threadStackVars, geometryVars, netVars
<1>1. LocksOfCamera(c) /\ LocksOfGui /\ c # "gui" /\ c # "nobody"
  BY DEF LocksFollowPlaces
<1>2. /\ at \in [Cameras -> StackPlaces] /\ time \in [Cameras -> 0 .. LastTime]
      /\ dest \in [Threads -> Dests] /\ "gui" \in Threads /\ c \in Threads
      /\ netServer \in [open : BOOLEAN, port : Versions, address : Versions]
      /\ ServerDest # NoDest
  BY AddressesAreReal DEF StackTypeOK, Threads
<1>3. ASSUME at'[c] = at[c], dest'[c] = dest[c], holder' = holder,
             time'[c] = time[c], lastTime' = lastTime
      PROVE  LocksOfCamera(c)'
  BY <1>1, <1>3 DEF LocksOfCamera, Prepared, Due
<1>4. CASE BeginFrame(c)
  <2>1. at'[c] = "own" /\ at[c] = "idle" /\ UNCHANGED <<dest, holder>>
    BY <1>2, <1>4 DEF BeginFrame
  <2> QED
    BY <1>1, <2>1 DEF LocksOfCamera, Prepared
<1>5. CASE ProcessOwn(c)
  <2>1. at'[c] = "network" /\ at[c] = "own" /\ UNCHANGED <<dest, holder>>
    BY <1>2, <1>5 DEF ProcessOwn, Advance
  <2> QED
    BY <1>1, <2>1 DEF LocksOfCamera, Prepared
<1>6. CASE PrepareDetection(c)
  <2>1. at'[c] = "network" /\ at[c] = "network" /\ UNCHANGED holder
    BY <1>6 DEF PrepareDetection
  <2> QED
    BY <1>1, <2>1 DEF LocksOfCamera
<1>7. CASE SendDetection(c)
  <2>1. /\ at'[c] = "geometry" /\ at[c] = "network" /\ UNCHANGED holder
        /\ dest'[c] = NoDest
    BY <1>2, <1>7 DEF SendDetection, PacketOut, Advance
  <2> QED
    BY <1>1, <2>1 DEF LocksOfCamera, Prepared
<1>8. CASE PrepareGeometry(c)
  <2>1. /\ at'[c] = "geometry" /\ at[c] = "geometry" /\ holder' = c
        /\ dest'[c] = ServerDest /\ UNCHANGED <<time, lastTime>> /\ Due(c)
    BY <1>2, <1>8 DEF PrepareGeometry, Prepare
  <2> QED
    BY <1>2, <2>1 DEF LocksOfCamera, Prepared, Due
<1>9. CASE SendGeometry(c)
  <2>1. at'[c] = "post" /\ holder' = "nobody" /\ dest'[c] = NoDest
    BY <1>2, <1>9 DEF SendGeometry, PacketOut, Advance
  <2> QED
    BY <1>1, <2>1 DEF LocksOfCamera, Prepared
<1>10. CASE SkipGeometry(c) \/ PostProcess(c)
  <2>1. /\ at'[c] \in {"post", "idle"} /\ at[c] \in {"geometry", "post"}
        /\ holder' = "nobody" /\ holder = "nobody" /\ UNCHANGED dest
    BY <1>2, <1>10 DEF SkipGeometry, PostProcess, Advance
  <2>2. ~Prepared(c)
    BY <1>1, <2>1 DEF LocksOfCamera
  <2> QED
    BY <1>1, <2>1, <2>2 DEF LocksOfCamera, Prepared
<1>11. ASSUME NEW d \in Cameras \ {c}, StackThread(d)
       PROVE  LocksOfCamera(c)'
  <2>1. d \in Threads
    BY DEF Threads
  <2>2. /\ at'[c] = at[c] /\ dest'[c] = dest[c] /\ time'[c] = time[c]
        /\ time' = time \/ lastTime' = lastTime
    BY <1>2, <1>11, <2>1
       DEF StackThread, ThreadWorks, BeginFrame, ProcessOwn, PrepareDetection,
           SendDetection, PrepareGeometry, SendGeometry, SkipGeometry,
           PostProcess, PacketOut, Prepare, Advance
  <2>3. CASE PrepareGeometry(d)
    <3>1. holder = "nobody" /\ holder' = d /\ lastTime' = lastTime
      BY <2>3 DEF PrepareGeometry
    <3> QED
      BY <1>1, <2>2, <3>1 DEF LocksOfCamera, Prepared
  <2>4. CASE SendGeometry(d)
    <3>1. holder = d /\ holder' = "nobody"
      BY <2>4 DEF SendGeometry, PacketOut, LocksFollowPlaces, LocksOfCamera
    <3> QED
      BY <1>1, <2>2, <3>1 DEF LocksOfCamera, Prepared
  <2>5. CASE ~PrepareGeometry(d) /\ ~SendGeometry(d)
    <3>1. holder' = holder /\ lastTime' = lastTime
      BY <1>11, <2>5
         DEF StackThread, ThreadWorks, BeginFrame, ProcessOwn,
             PrepareDetection, SendDetection, SkipGeometry, PostProcess
    <3> QED
      BY <1>3, <2>2, <3>1
  <2> QED
    BY <2>3, <2>4, <2>5
<1>12. CASE Tick
  BY <1>3, <1>12 DEF Tick
<1>13. CASE HandleEvent \/ CloseServer \/ AssignAddress \/ ReopenServer
  BY <1>3, <1>13
     DEF HandleEvent, EventAtOwn, EventAtNetwork, EventAtGeometry,
         CloseServer, AssignAddress, ReopenServer
<1>14. CASE Publish
  <2>1. holder = "gui" /\ holder' = "nobody" /\ UNCHANGED <<at, lastTime>>
    BY <1>1, <1>14 DEF Publish, LocksOfGui
  <2>2. dest'[c] = dest[c]
    BY <1>1, <1>2, <1>14 DEF Publish, PacketOut
  <2> QED
    BY <1>1, <2>1, <2>2 DEF LocksOfCamera, Prepared
<1>15. CASE PressPublish
  <2>1. holder = "nobody" /\ holder' = "gui" /\ UNCHANGED <<at, lastTime>>
    BY <1>15 DEF PressPublish
  <2>2. dest'[c] = dest[c]
    BY <1>1, <1>2, <1>15 DEF PressPublish, Prepare
  <2> QED
    BY <1>1, <2>1, <2>2 DEF LocksOfCamera, Prepared
<1>16. CASE EditDetection \/ EditNetwork \/ \E d \in Cameras : BeginEvent(d)
  BY <1>3, <1>16 DEF EditDetection, EditNetwork, BeginEvent
<1>17. CASE UNCHANGED stackVars
  BY <1>3, <1>17 DEF stackVars
<1> QED
  BY <1>4, <1>5, <1>6, <1>7, <1>8, <1>9, <1>10, <1>11, <1>12, <1>13, <1>14,
     <1>15, <1>16, <1>17
     DEF StackNext, StackThread, ThreadWorks, GuiWorks, GuiBegins

(* The packets to an address given up.                                     *)
LEMMA LateOnceKept ==
  ASSUME StackTypeOK, LocksFollowPlaces, LateOnce, [StackNext]_stackVars
  PROVE  LateOnce'
<1> SUFFICES ASSUME NEW c \in Cameras
             PROVE  \/ late'[c] = 0
                    \/ /\ late'[c] = 1 /\ netLock' = "nobody"
                       /\ dest'[c] \in {NoDest, ServerDest'}
  BY DEF LateOnce
<1> USE VisionAssumption DEF threadStackVars, geometryVars, netVars
<1>1. \/ late[c] = 0
      \/ late[c] = 1 /\ netLock = "nobody" /\ dest[c] \in {NoDest, ServerDest}
  BY DEF LateOnce
<1>2. /\ dest \in [Threads -> Dests] /\ c \in Threads /\ "gui" \in Threads
      /\ late \in [Cameras -> 0 .. 2] /\ c # "gui"
  BY DEF StackTypeOK, Threads
<1>3. ASSUME UNCHANGED <<netServer, netLock>>, late'[c] = late[c],
             dest'[c] = dest[c] \/ dest'[c] = ServerDest
      PROVE  \/ late'[c] = 0
             \/ /\ late'[c] = 1 /\ netLock' = "nobody"
                /\ dest'[c] \in {NoDest, ServerDest'}
  BY <1>1, <1>3 DEF ServerDest
<1>4. ASSUME NEW t \in Threads, PacketOut(t)
      PROVE  \/ late'[c] = 0
             \/ /\ late'[c] = 1 /\ netLock' = "nobody"
                /\ dest'[c] \in {NoDest, ServerDest'}
  <2>1. CASE t # c
    <3>1. UNCHANGED <<netServer, netLock>> /\ late'[c] = late[c]
          /\ dest'[c] = dest[c]
      BY <1>2, <1>4, <2>1 DEF PacketOut
    <3> QED
      BY <1>3, <3>1
  <2>2. CASE t = c
    <3>1. /\ dest'[c] = NoDest /\ netLock' = "nobody" /\ dest[c] # NoDest
          /\ late'[c] = IF dest[c] # ServerDest /\ late[c] < 2
                        THEN late[c] + 1 ELSE late[c]
      BY <1>2, <1>4, <2>2 DEF PacketOut, Prepared
    <3> QED
      BY <1>1, <3>1
  <2> QED
    BY <2>1, <2>2
<1>5. ASSUME NEW d \in Cameras, StackThread(d)
      PROVE  \/ late'[c] = 0
             \/ /\ late'[c] = 1 /\ netLock' = "nobody"
                /\ dest'[c] \in {NoDest, ServerDest'}
  <2>1. d \in Threads
    BY DEF Threads
  <2>2. CASE SendDetection(d) \/ SendGeometry(d)
    BY <1>4, <2>1, <2>2 DEF SendDetection, SendGeometry
  <2>3. CASE PrepareDetection(d) \/ PrepareGeometry(d)
    <3>1. dest' = [dest EXCEPT ![d] = ServerDest]
          /\ UNCHANGED <<netServer, netLock, late>>
      BY <2>3 DEF PrepareDetection, PrepareGeometry, Prepare
    <3>2. dest'[c] = dest[c] \/ dest'[c] = ServerDest
      BY <1>2, <3>1
    <3> QED
      BY <1>3, <3>1, <3>2
  <2>4. CASE \/ BeginFrame(d) \/ ProcessOwn(d) \/ SkipGeometry(d)
             \/ PostProcess(d)
    BY <1>3, <2>4 DEF BeginFrame, ProcessOwn, SkipGeometry, PostProcess
  <2> QED
    BY <1>5, <2>2, <2>3, <2>4 DEF StackThread, ThreadWorks
<1>6. CASE CloseServer
  BY <1>6 DEF CloseServer
<1>7. CASE AssignAddress \/ ReopenServer
  <2>1. netLock = "gui" /\ UNCHANGED late
    BY <1>7 DEF AssignAddress, ReopenServer, LocksFollowPlaces, LocksOfGui
  <2> QED
    BY <1>1, <2>1
<1>8. CASE Publish
  BY <1>2, <1>4, <1>8 DEF Publish
<1>9. CASE PressPublish
  <2>1. dest'[c] = dest[c]
    BY <1>2, <1>9 DEF PressPublish, Prepare
  <2> QED
    BY <1>3, <1>9, <2>1 DEF PressPublish
<1>10. CASE \/ Tick \/ HandleEvent \/ EditDetection \/ EditNetwork
            \/ \E d \in Cameras : BeginEvent(d)
  BY <1>3, <1>10
     DEF Tick, HandleEvent, EventAtOwn, EventAtNetwork, EventAtGeometry,
         EditDetection, EditNetwork, BeginEvent
<1>11. CASE UNCHANGED stackVars
  BY <1>3, <1>11 DEF stackVars
<1> QED
  BY <1>5, <1>6, <1>7, <1>8, <1>9, <1>10, <1>11
     DEF StackNext, GuiWorks, GuiBegins


(* What is in the map of a frame that goes out.                            *)
LEMMA DetectionKept ==
  ASSUME StackTypeOK, DetectionIsOfFrame, [StackNext]_stackVars
  PROVE  DetectionIsOfFrame'
<1> USE VisionAssumption DEF threadStackVars, geometryVars, netVars
<1> SUFFICES ASSUME NEW c \in Cameras, at'[c] = "network", ~failed'[c],
                    NEW e \in {"robots", "balls"}
             PROVE  results'[c][Bin(c)'][e] \in {0, number'[c]}
  BY DEF DetectionIsOfFrame
<1>1. /\ at \in [Cameras -> StackPlaces]
      /\ number \in [Cameras -> 0 .. Frames]
      /\ results \in [Cameras -> [Bins -> [Entries -> 0 .. Frames]]]
      /\ format \in [Cameras -> BOOLEAN]
      /\ failed \in [Cameras -> BOOLEAN]
  BY DEF StackTypeOK
<1>2. ASSUME at[c] = "network", number'[c] = number[c],
             results'[c] = results[c], failed'[c] = failed[c]
      PROVE  results'[c][Bin(c)'][e] \in {0, number'[c]}
  BY <1>2 DEF DetectionIsOfFrame, Bin
<1>3. CASE ProcessOwn(c)
  <2>1. /\ number[c] \in 0 .. Frames /\ Bin(c) \in Bins /\ 0 \in 0 .. Frames
        /\ results[c][Bin(c)] \in [Entries -> 0 .. Frames]
    BY <1>1, BinOfFrame
  <2>2. /\ number' = number /\ Bin(c)' = Bin(c)
        /\ results'[c][Bin(c)] = AfterOwn(c, results[c][Bin(c)])
    BY <1>1, <1>3, <2>1 DEF ProcessOwn, Bin
  <2>3. format[c] /\ choice.label
    BY <1>1, <1>3 DEF ProcessOwn, OwnFails, Supported
  <2> QED
    BY <2>1, <2>2, <2>3, MapAfterOwn
<1>4. CASE BeginFrame(c) \/ SendDetection(c) \/ SendGeometry(c)
             \/ SkipGeometry(c) \/ PostProcess(c)
  BY <1>1, <1>4
     DEF BeginFrame, SendDetection, SendGeometry, SkipGeometry, PostProcess,
         Advance
<1>5. CASE PrepareDetection(c) \/ PrepareGeometry(c)
  BY <1>2, <1>5 DEF PrepareDetection, PrepareGeometry
<1>6. ASSUME NEW d \in Cameras \ {c}, StackThread(d)
      PROVE  results'[c][Bin(c)'][e] \in {0, number'[c]}
  <2>1. /\ at'[c] = at[c] /\ number'[c] = number[c]
        /\ results'[c] = results[c] /\ failed'[c] = failed[c]
    BY <1>1, <1>6
       DEF StackThread, ThreadWorks, BeginFrame, ProcessOwn, PrepareDetection,
           SendDetection, PrepareGeometry, SendGeometry, SkipGeometry,
           PostProcess, Advance
  <2> QED
    BY <1>2, <2>1
<1>7. CASE Tick \/ GuiWorks \/ GuiBegins
  BY <1>2, <1>7
     DEF Tick, GuiWorks, GuiBegins, HandleEvent, EventAtOwn, EventAtNetwork,
         EventAtGeometry, Publish, CloseServer, AssignAddress, ReopenServer,
         BeginEvent, PressPublish, EditDetection, EditNetwork
<1>8. CASE UNCHANGED stackVars
  BY <1>2, <1>8 DEF stackVars
<1> QED
  BY <1>3, <1>4, <1>5, <1>6, <1>7, <1>8 DEF StackNext, StackThread, ThreadWorks

(* From where the locks are held it follows that no circle of threads      *)
(* waits: who holds the server's does not wait, nor then who holds the     *)
(* shared plugin's.                                                        *)
LEMMA LocksMakeNoCircle ==
  ASSUME StackTypeOK, LocksFollowPlaces
  PROVE  NoCircle
<1> SUFFICES ASSUME (\E c \in Cameras : at[c] # "idle")
                       \/ eventAt.doing # "idle"
             PROVE  \/ \E c \in Cameras : at[c] # "idle" /\ ~ThreadWaits(c)
                    \/ eventAt.doing # "idle" /\ ~GuiWaits
  BY DEF NoCircle
<1>1. /\ LocksOfGui /\ \A c \in Cameras : LocksOfCamera(c)
      /\ netLock \in {"gui", "nobody"}
      /\ holder \in Cameras \cup {"gui", "nobody"}
      /\ eventAt.camera \in Cameras
  BY DEF LocksFollowPlaces, StackTypeOK, Threads
<1>2. CASE netLock = "gui"
  BY <1>1, <1>2 DEF LocksOfGui, GuiWaits
<1>3. CASE netLock = "nobody" /\ holder = "gui"
  BY <1>1, <1>3 DEF LocksOfGui, GuiWaits
<1>4. CASE netLock = "nobody" /\ holder \in Cameras
  BY <1>1, <1>4 DEF LocksOfCamera, ThreadWaits
<1>5. CASE netLock = "nobody" /\ holder = "nobody"
  <2>1. \A c \in Cameras : ~ThreadWaits(c)
    BY <1>5 DEF ThreadWaits
  <2>2. ASSUME \A c \in Cameras : at[c] = "idle"
        PROVE  eventAt.doing # "idle" /\ ~GuiWaits
    BY <1>1, <1>5, <2>2 DEF GuiWaits
  <2> QED
    BY <2>1, <2>2
<1> QED
  BY <1>1, <1>2, <1>3, <1>4, <1>5

(* It begins so.                                                           *)
LEMMA StackStartsSound ==
  ASSUME StackInit
  PROVE  StackIsSound
<1> USE VisionAssumption DEF StackInit
<1>1. StackTypeOK
  <2>1. eventAt \in [doing : EventPlaces, camera : Cameras]
    BY DEF EventPlaces, StackPlaces
  <2>2. dest \in [Threads -> Dests]
    BY DEF Dests
  <2>3. results \in [Cameras -> [Bins -> [Entries -> 0 .. Frames]]]
    OBVIOUS
  <2>4. lastTime \in -Interval .. LastTime /\ published \in -Interval .. LastTime
    OBVIOUS
  <2>5. /\ at \in [Cameras -> StackPlaces]
        /\ format \in [Cameras -> BOOLEAN] /\ failed \in [Cameras -> BOOLEAN]
    BY DEF StackPlaces
  <2>6. /\ number \in [Cameras -> 0 .. Frames]
        /\ time \in [Cameras -> 0 .. LastTime]
        /\ clock \in 0 .. LastTime
        /\ late \in [Cameras -> 0 .. 2]
    OBVIOUS
  <2>7. /\ netServer \in [open : BOOLEAN, port : Versions, address : Versions]
        /\ choice \in [net : Versions, label : BOOLEAN, blobs : BOOLEAN,
                       edits : 0 .. Edits]
    BY DEF Versions
  <2>8. holder \in Threads \cup {"nobody"} /\ netLock \in {"gui", "nobody"}
    OBVIOUS
  <2> QED
    BY <2>1, <2>2, <2>3, <2>4, <2>5, <2>6, <2>7, <2>8 DEF StackTypeOK
<1>2. DetectionIsOfFrame /\ OneLatePacket /\ LateOnce
  BY DEF DetectionIsOfFrame, OneLatePacket, LateOnce
<1>3. LocksFollowPlaces
  BY DEF LocksFollowPlaces, LocksOfGui, LocksOfCamera, Prepared, Threads
<1> QED
  BY <1>1, <1>2, <1>3, LocksMakeNoCircle DEF StackIsSound

(* What every step keeps; the rest of what is sound follows from it.       *)
StackInv == /\ StackTypeOK /\ DetectionIsOfFrame /\ LocksFollowPlaces
            /\ LateOnce

(* It is kept.                                                             *)
LEMMA StackInvKept ==
  ASSUME StackInv, [StackNext]_stackVars
  PROVE  StackInv'
<1>1. /\ StackTypeOK /\ DetectionIsOfFrame /\ LocksFollowPlaces /\ LateOnce
      /\ choice.net + choice.edits <= Edits
  BY DEF StackInv, LocksFollowPlaces, LocksOfGui
<1>2. StackTypeOK'
  BY <1>1, TypesKept
<1>3. LocksFollowPlaces'
  BY <1>1, GuiLocksKept, CameraLocksKept DEF LocksFollowPlaces
<1> QED
  BY <1>1, <1>2, <1>3, LateOnceKept, DetectionKept DEF StackInv

(* Whatever the cameras and the GUI do, in whatever order: a detection is  *)
(* of the frame it is sent with, at most one packet goes to an address     *)
(* given up, each lock is held where it should be, and nobody waits in a   *)
(* circle.                                                                 *)
THEOREM StackSoundness == StackSpec => []StackIsSound
<1>1. StackInit => StackInv
  BY StackStartsSound DEF StackIsSound, StackInv
<1>2. StackInv => StackIsSound
  BY LocksMakeNoCircle DEF StackInv, StackIsSound, LateOnce, OneLatePacket
<1> QED
  BY <1>1, <1>2, StackInvKept, PTL DEF StackSpec

(* No packet leaves while the server is closed, and the geometry is not    *)
(* published automatically twice within the interval.                      *)
THEOREM PacketSoundness == StackSpec => PacketsAreSound
<1> USE DEF threadStackVars, geometryVars, netVars
<1>1. StackIsSound /\ [StackNext]_stackVars =>
        [\A t \in Threads :
            Prepared(t) /\ dest'[t] = NoDest => netServer.open]_stackVars
  <2> SUFFICES ASSUME StackIsSound, StackNext, NEW t \in Threads,
                      Prepared(t), dest'[t] = NoDest
               PROVE  netServer.open
    OBVIOUS
  <2>1. /\ dest \in [Threads -> Dests] /\ ServerDest # NoDest
        /\ netServer.open \/ netLock = "gui"
    BY AddressesAreReal
       DEF StackIsSound, StackTypeOK, LocksFollowPlaces, LocksOfGui
  <2>2. ASSUME NEW u \in Threads, PacketOut(u)
        PROVE  netServer.open
    BY <2>1, <2>2 DEF PacketOut
  <2>3. ASSUME NEW u \in Threads, Prepare(u)
        PROVE  FALSE
    BY <2>1, <2>3 DEF Prepare, Prepared
  <2>4. ASSUME UNCHANGED dest
        PROVE  FALSE
    BY <2>4 DEF Prepared
  <2>5. ASSUME NEW c \in Cameras, StackThread(c)
        PROVE  netServer.open
    <3>1. c \in Threads
      BY DEF Threads
    <3>2. PacketOut(c) \/ Prepare(c) \/ UNCHANGED dest
      BY <2>5
         DEF StackThread, ThreadWorks, BeginFrame, ProcessOwn,
             PrepareDetection, SendDetection, PrepareGeometry, SendGeometry,
             SkipGeometry, PostProcess
    <3> QED
      BY <2>2, <2>3, <2>4, <3>1, <3>2
  <2>6. CASE Tick \/ GuiWorks \/ GuiBegins
    <3>1. "gui" \in Threads
      BY DEF Threads
    <3>2. PacketOut("gui") \/ Prepare("gui") \/ UNCHANGED dest
      BY <2>6
         DEF Tick, GuiWorks, GuiBegins, HandleEvent, EventAtOwn,
             EventAtNetwork, EventAtGeometry, Publish, CloseServer,
             AssignAddress, ReopenServer, BeginEvent, PressPublish,
             EditDetection, EditNetwork
    <3> QED
      BY <2>2, <2>3, <2>4, <3>1, <3>2
  <2> QED
    BY <2>5, <2>6 DEF StackNext
<1>2. StackIsSound /\ [StackNext]_stackVars =>
        [published' # published =>
            published' - published > Interval]_stackVars
  <2> SUFFICES ASSUME StackIsSound, StackNext, published' # published
               PROVE  published' - published > Interval
    OBVIOUS
  <2>1. PICK c \in Cameras : SendGeometry(c)
    BY DEF StackNext, StackThread, ThreadWorks, BeginFrame, ProcessOwn,
           PrepareDetection, SendDetection, PrepareGeometry, SkipGeometry,
           PostProcess, Tick, GuiWorks, GuiBegins, HandleEvent, EventAtOwn,
           EventAtNetwork, EventAtGeometry, Publish, CloseServer,
           AssignAddress, ReopenServer, BeginEvent, PressPublish,
           EditDetection, EditNetwork
  <2>2. at[c] = "geometry" /\ Prepared(c) /\ published' = time[c]
    BY <2>1 DEF SendGeometry, PacketOut
  <2>3. published = lastTime /\ Due(c)
    BY <2>2 DEF StackIsSound, LocksFollowPlaces, LocksOfGui, LocksOfCamera
  <2> QED
    BY <2>2, <2>3 DEF Due
<1> QED
  BY <1>1, <1>2, StackSoundness, PTL
     DEF StackSpec, PacketsAreSound, SentThroughOpenServer, GeometrySpaced
=============================================================================
