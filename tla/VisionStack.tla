---------------------------- MODULE VisionStack ----------------------------
(***************************************************************************)
(* The image processing of the SSL-Vision application                      *)
(* (dep/ssl-vision/src/app/stacks and app/plugins): the thread of each     *)
(* camera takes its frame through a stack of plugins, one after the other, *)
(* each under the mutex of the plugin; the GUI thread takes its events     *)
(* through the same stack, edits the settings and publishes the geometry.  *)
(* One plugin is shared by the stacks of all cameras, and two plugins send *)
(* through the one network server.  The plugins before those two keep their*)
(* locks for as long as they work and touch nothing of the other threads,  *)
(* so their turns are one step; the sending plugins are split where the    *)
(* server's mutex is taken.                                                *)
(***************************************************************************)
EXTENDS Integers, Sequences

CONSTANTS Cameras,
          BinCount,    (* bins of a frame buffer *)
          Frames,      (* bound: frames taken from each camera *)
          LastTime,    (* bound: where the clock stops *)
          Interval,    (* of the automatic publishing *)
          Edits        (* bound: edits of the settings *)

ASSUME VisionAssumption ==
    /\ Cameras # {} /\ "gui" \notin Cameras /\ "nobody" \notin Cameras
    /\ BinCount \in Nat \ {0} /\ LastTime \in Nat \ {0}
    /\ Frames \in Nat /\ Interval \in Nat /\ Edits \in Nat

VARIABLES
  at,          (* where each camera's thread is in the stack *)
  number,      (* number of the frame it is working on *)
  time,        (* when that frame was captured *)
  results,     (* the data map of each bin of each camera *)
  format,      (* the frame has a colour format the threshold plugin knows *)
  failed,      (* a plugin has returned ProcessingFailed for the frame *)
  clock,
  holder,      (* who holds the mutex of the shared plugin *)
  lastTime,    (* last_t of the shared plugin *)
  published,   (* capture time of the last geometry sent automatically *)
  netServer,   (* the socket and the address of the UDP server *)
  netLock,     (* who holds the mutex of the server *)
  dest,        (* address each thread has prepared its packet for *)
  late,        (* packets sent to an address given up since the last edit *)
  choice,      (* settings: network address, ball label, blobs, edits left *)
  eventAt      (* what the GUI thread is doing *)

threadStackVars == <<at, number, time, results, format, failed, clock>>
geometryVars == <<holder, lastTime, published>>
netVars == <<netServer, netLock, dest, late>>
stackVars == <<threadStackVars, geometryVars, netVars, choice, eventAt>>

(* The constructor of StackRoboCupSSL.                                     *)
Stack == <<"DVR", "YUV Calibration", "Camera Calibration", "Threshold",
           "Runlength", "Blobs", "DetectRobots", "DetectBalls",
           "Network Output", "Publish Geometry", "Visualize">>

(* Those whose handlers may accept an event.                               *)
Accepting == {"YUV Calibration", "Camera Calibration"}

OwnPlugins == SubSeq(Stack, 1, 8)

(* Between frames, at the plugins of the camera, at the two that send, and *)
(* at the last plugin and postProcess().                                   *)
StackPlaces == {"idle", "own", "network", "geometry", "post"}

(* An event ends at the last plugin that sends; a button or an edit has    *)
(* its own way.                                                            *)
EventPlaces == (StackPlaces \ {"post"})
                   \cup {"publish", "refresh", "assign", "reopen"}

Threads == Cameras \cup {"gui"}
Bins == 0 .. BinCount - 1
Versions == 0 .. Edits
NoDest == [port |-> -1, address |-> -1]
Dests == [port : Versions, address : Versions] \cup {NoDest}

(* What a bin's map holds, by the number of the frame it was made from; 0  *)
(* is an entry that is empty.                                              *)
Entries == {"threshold", "runs", "regions", "robots", "balls"}

StackTypeOK ==
    /\ at \in [Cameras -> StackPlaces]
    /\ number \in [Cameras -> 0 .. Frames]
    /\ time \in [Cameras -> 0 .. LastTime]
    /\ results \in [Cameras -> [Bins -> [Entries -> 0 .. Frames]]]
    /\ format \in [Cameras -> BOOLEAN]
    /\ failed \in [Cameras -> BOOLEAN]
    /\ clock \in 0 .. LastTime
    /\ holder \in Threads \cup {"nobody"}
    /\ lastTime \in -Interval .. LastTime
    /\ published \in -Interval .. LastTime
    /\ netServer \in [open : BOOLEAN, port : Versions, address : Versions]
    /\ netLock \in {"gui", "nobody"}
    /\ dest \in [Threads -> Dests]
    /\ late \in [Cameras -> 0 .. 2]
    /\ choice \in [net : Versions, label : BOOLEAN, blobs : BOOLEAN,
                   edits : 0 .. Edits]
    /\ eventAt \in [doing : EventPlaces, camera : Cameras]

(* main(): the server is opened before the threads start.  lastTime is 0   *)
(* and the clock of the machine is far from it.                            *)
StackInit ==
    /\ at = [c \in Cameras |-> "idle"]
    /\ number = [c \in Cameras |-> 0]
    /\ time = [c \in Cameras |-> 0]
    /\ results = [c \in Cameras |->
                     [b \in Bins |-> [e \in Entries |-> 0]]]
    /\ format = [c \in Cameras |-> TRUE]
    /\ failed = [c \in Cameras |-> FALSE]
    /\ clock = 1
    /\ holder = "nobody"
    /\ lastTime = -Interval /\ published = -Interval
    /\ netServer = [open |-> TRUE, port |-> 0, address |-> 0]
    /\ netLock = "nobody"
    /\ dest = [t \in Threads |-> NoDest]
    /\ late = [c \in Cameras |-> 0]
    /\ choice = [net |-> 0, label |-> TRUE, blobs |-> TRUE, edits |-> Edits]
    /\ eventAt = [doing |-> "idle", camera |-> CHOOSE c \in Cameras : TRUE]

----------------------------------------------------------------------------
(* What the plugins of one camera make of the entries of a bin.            *)

Supported(c) == format[c]

Threshold(c, map) ==
    [map EXCEPT !["threshold"] = IF Supported(c) THEN number[c] ELSE @]

RunlengthEncode(map) == [map EXCEPT !["runs"] = map["threshold"]]

FindBlobs(map) ==
    [map EXCEPT !["regions"] = IF choice.blobs THEN map["runs"] ELSE 0]

DetectRobots(map) == [map EXCEPT !["robots"] = map["regions"]]

(* A mistake: the balls of an earlier frame are not cleared when there are *)
(* no regions.                                                             *)
DetectBallsOnly(map) ==
    IF map["regions"] # 0 THEN [map EXCEPT !["balls"] = map["regions"]]
    ELSE map

(* Without the label of the ball the plugin fails before it clears them.   *)
DetectBalls(map) ==
    [map EXCEPT !["balls"] = IF choice.label THEN map["regions"] ELSE @]

(* The map after the plugins of the camera; the first three put nothing    *)
(* into it.                                                                *)
AfterOwn(c, map) ==
    DetectBalls(DetectRobots(FindBlobs(RunlengthEncode(Threshold(c, map)))))

(* Whether a plugin of the camera returns ProcessingFailed.                *)
OwnFails(c) == ~Supported(c) \/ ~choice.label

----------------------------------------------------------------------------
(* The thread of a camera.                                                 *)

Bin(c) == number[c] % BinCount

Tick ==
    /\ clock < LastTime /\ clock' = clock + 1
    /\ UNCHANGED <<at, number, time, results, format, failed, geometryVars,
                   netVars, choice, eventAt>>

BeginFrame(c) ==
    /\ at[c] = "idle" /\ number[c] < Frames
    /\ at' = [at EXCEPT ![c] = "own"]
    /\ number' = [number EXCEPT ![c] = @ + 1]
    /\ time' = [time EXCEPT ![c] = clock]
    /\ \E known \in BOOLEAN : format' = [format EXCEPT ![c] = known]
    /\ failed' = [failed EXCEPT ![c] = FALSE]
    /\ UNCHANGED <<results, clock, geometryVars, netVars, choice, eventAt>>

Advance(c, place) == at' = [at EXCEPT ![c] = place]

(* VisionStack::process() up to the first plugin that sends: what the      *)
(* plugins return is ignored.                                              *)
ProcessOwn(c) ==
    /\ at[c] = "own"
    /\ results' = [results EXCEPT ![c][Bin(c)] = AfterOwn(c, @)]
    /\ failed' = [failed EXCEPT ![c] = OwnFails(c)]
    /\ Advance(c, "network")
    /\ UNCHANGED <<number, time, format, clock, geometryVars, netVars,
                   choice, eventAt>>

(* send() reads the address before it takes the server's mutex.            *)
ServerDest == [port |-> netServer.port, address |-> netServer.address]
Prepare(t) == dest' = [dest EXCEPT ![t] = ServerDest]

Prepared(t) == dest[t] # NoDest

(* A mistake: an address once read is kept for the next packets.           *)
PacketOutKeepingDest(t) ==
    /\ Prepared(t)
    /\ netLock = "nobody"
    /\ UNCHANGED dest
    /\ late' = IF t \in Cameras /\ dest[t] # ServerDest /\ late[t] < 2
               THEN [late EXCEPT ![t] = @ + 1] ELSE late
    /\ UNCHANGED <<netServer, netLock>>

(* A mistake: the mutex of the server is not taken.                        *)
PacketOutUnlocked(t) ==
    /\ Prepared(t)
    /\ dest' = [dest EXCEPT ![t] = NoDest]
    /\ UNCHANGED <<late, netServer, netLock>>

PacketOut(t) ==
    /\ Prepared(t)
    /\ netLock = "nobody"
    /\ dest' = [dest EXCEPT ![t] = NoDest]
    /\ late' = IF t \in Cameras /\ dest[t] # ServerDest /\ late[t] < 2
               THEN [late EXCEPT ![t] = @ + 1] ELSE late
    /\ UNCHANGED <<netServer, netLock>>

PrepareDetection(c) ==
    /\ at[c] = "network" /\ ~Prepared(c)
    /\ Prepare(c)
    /\ UNCHANGED <<threadStackVars, geometryVars, netServer, netLock, late,
                   choice, eventAt>>

SendDetection(c) ==
    /\ at[c] = "network"
    /\ PacketOut(c)
    /\ Advance(c, "geometry")
    /\ UNCHANGED <<number, time, results, format, failed, clock,
                   geometryVars, choice, eventAt>>

Due(c) == time[c] - lastTime > Interval

(* A mistake: the shared plugin is not locked.                             *)
GeometryWithoutLock(c) ==
    /\ at[c] = "geometry" /\ Due(c) /\ ~Prepared(c)
    /\ Prepare(c)
    /\ UNCHANGED <<threadStackVars, geometryVars, netServer, netLock, late,
                   choice, eventAt>>

(* PluginPublishGeometry::process() when the interval has gone by: it      *)
(* keeps the lock of the shared plugin while it waits for the server, ...  *)
PrepareGeometry(c) ==
    /\ at[c] = "geometry" /\ Due(c)
    /\ holder = "nobody" /\ holder' = c
    /\ Prepare(c)
    /\ UNCHANGED <<threadStackVars, lastTime, published, netServer, netLock,
                   late, choice, eventAt>>

SendGeometry(c) ==
    /\ at[c] = "geometry"
    /\ PacketOut(c)
    /\ lastTime' = time[c] /\ published' = time[c]
    /\ holder' = "nobody"
    /\ Advance(c, "post")
    /\ UNCHANGED <<number, time, results, format, failed, clock, choice,
                   eventAt>>

(* ... and when it has not.                                                *)
SkipGeometry(c) ==
    /\ at[c] = "geometry" /\ ~Due(c) /\ holder = "nobody"
    /\ Advance(c, "post")
    /\ UNCHANGED <<number, time, results, format, failed, clock,
                   geometryVars, netVars, choice, eventAt>>

(* The last plugin, and VisionStack::postProcess(): no plugin does         *)
(* anything there, but every lock is taken once more.                      *)
PostProcess(c) ==
    /\ at[c] = "post" /\ holder = "nobody"
    /\ Advance(c, "idle")
    /\ UNCHANGED <<number, time, results, format, failed, clock,
                   geometryVars, netVars, choice, eventAt>>

ThreadWorks(c) ==
    \/ ProcessOwn(c) \/ PrepareDetection(c) \/ SendDetection(c)
    \/ PrepareGeometry(c) \/ SendGeometry(c) \/ SkipGeometry(c)
    \/ PostProcess(c)

StackThread(c) == BeginFrame(c) \/ ThreadWorks(c)

----------------------------------------------------------------------------
(* The GUI thread.                                                         *)

GuiIdle == eventAt.doing = "idle"
GuiDoes(what) == eventAt' = [eventAt EXCEPT !.doing = what]

(* keyPressEvent() and the four mouse handlers of VisionStack.             *)
BeginEvent(c) ==
    /\ GuiIdle
    /\ eventAt' = [doing |-> "own", camera |-> c]
    /\ UNCHANGED <<threadStackVars, geometryVars, netVars, choice>>

(* A plugin before those that send may accept the event, ...               *)
EventAtOwn ==
    /\ eventAt.doing = "own"
    /\ \/ GuiDoes("network")
       \/ (\E i \in DOMAIN OwnPlugins : OwnPlugins[i] \in Accepting)
          /\ GuiDoes("idle")
    /\ UNCHANGED <<threadStackVars, geometryVars, netVars, choice>>

(* ... and a plugin that is sending keeps its lock: the event waits.       *)
EventAtNetwork ==
    /\ eventAt.doing = "network"
    /\ ~(at[eventAt.camera] = "network" /\ Prepared(eventAt.camera))
    /\ GuiDoes("geometry")
    /\ UNCHANGED <<threadStackVars, geometryVars, netVars, choice>>

EventAtGeometry ==
    /\ eventAt.doing = "geometry" /\ holder = "nobody"
    /\ GuiDoes("idle")
    /\ UNCHANGED <<threadStackVars, geometryVars, netVars, choice>>

HandleEvent == EventAtOwn \/ EventAtNetwork \/ EventAtGeometry

(* slotPublishTriggered(), at the button or at any time.                   *)
PressPublish ==
    /\ GuiIdle /\ choice.edits > 0
    /\ holder = "nobody" /\ holder' = "gui"
    /\ choice' = [choice EXCEPT !.edits = @ - 1]
    /\ Prepare("gui")
    /\ GuiDoes("publish")
    /\ UNCHANGED <<threadStackVars, lastTime, published, netServer, netLock,
                   late>>

Publish ==
    /\ eventAt.doing = "publish"
    /\ PacketOut("gui")
    /\ holder' = "nobody"
    /\ GuiDoes("idle")
    /\ UNCHANGED <<threadStackVars, lastTime, published, choice>>

(* Settings that the plugins read whenever they use them.                  *)
EditDetection ==
    /\ GuiIdle /\ choice.edits > 0
    /\ \/ choice' = [choice EXCEPT !.edits = @ - 1, !.label = ~@]
       \/ choice' = [choice EXCEPT !.edits = @ - 1, !.blobs = ~@]
    /\ UNCHANGED <<threadStackVars, geometryVars, netVars, eventAt>>

(* A setting of the network is edited: RefreshNetworkOutput() locks the    *)
(* server, closes it, assigns the new values one by one, opens it again.   *)
EditNetwork ==
    /\ GuiIdle /\ choice.edits > 0
    /\ choice' = [choice EXCEPT !.edits = @ - 1, !.net = @ + 1]
    /\ GuiDoes("refresh")
    /\ UNCHANGED <<threadStackVars, geometryVars, netVars>>

CloseServer ==
    /\ eventAt.doing = "refresh"
    /\ netLock = "nobody" /\ netLock' = "gui"
    /\ netServer' = [netServer EXCEPT !.open = FALSE, !.port = choice.net]
    /\ late' = [c \in Cameras |-> 0]
    /\ GuiDoes("assign")
    /\ UNCHANGED <<threadStackVars, geometryVars, dest, choice>>

AssignAddress ==
    /\ eventAt.doing = "assign"
    /\ netServer' = [netServer EXCEPT !.address = choice.net]
    /\ GuiDoes("reopen")
    /\ UNCHANGED <<threadStackVars, geometryVars, netLock, dest, late,
                   choice>>

(* A mistake: the server stays locked when it cannot be opened.            *)
ReopenStaysLocked ==
    /\ eventAt.doing = "reopen"
    /\ netServer' = [netServer EXCEPT !.open = TRUE]
    /\ UNCHANGED netLock
    /\ GuiDoes("idle")
    /\ UNCHANGED <<threadStackVars, geometryVars, dest, late, choice>>

(* open(): joining the group may fail, the socket is there all the same.   *)
ReopenServer ==
    /\ eventAt.doing = "reopen"
    /\ netServer' = [netServer EXCEPT !.open = TRUE]
    /\ netLock' = "nobody"
    /\ GuiDoes("idle")
    /\ UNCHANGED <<threadStackVars, geometryVars, dest, late, choice>>

GuiWorks == \/ HandleEvent \/ Publish \/ CloseServer \/ AssignAddress
            \/ ReopenServer

GuiBegins == \/ \E c \in Cameras : BeginEvent(c)
             \/ PressPublish \/ EditDetection \/ EditNetwork

StackNext == Tick \/ (\E c \in Cameras : StackThread(c)) \/ GuiWorks
             \/ GuiBegins

StackSpec == StackInit /\ [][StackNext]_stackVars

----------------------------------------------------------------------------
(* A packet leaves while the server is open: RefreshNetworkOutput() closes *)
(* and opens it while all the cameras go on sending.                       *)
SentThroughOpenServer ==
    [][\A t \in Threads :
          Prepared(t) /\ dest'[t] = NoDest => netServer.open]_stackVars

(* The geometry that two cameras publish automatically is never published  *)
(* twice within the interval, as counted in the times of the frames.       *)
GeometrySpaced ==
    [][published' # published => published' - published > Interval]_stackVars

(* What is sent under the number of a frame was seen in that frame, though *)
(* the bins and all they hold are used over and over, unless a plugin has  *)
(* failed on the frame.                                                    *)
DetectionIsOfFrame ==
    \A c \in Cameras :
        at[c] = "network" /\ ~failed[c] =>
            \A e \in {"robots", "balls"} :
                results[c][Bin(c)][e] \in {0, number[c]}

(* From the moment the address is edited a camera sends at most one more   *)
(* packet to the old address or to a mixture of the two.                   *)
OneLatePacket == \A c \in Cameras : late[c] <= 1

(* A camera has an address prepared only where it sends, and holds the     *)
(* shared plugin from the look at the interval to the packet.              *)
LocksOfCamera(c) ==
    /\ Prepared(c) => at[c] \in {"network", "geometry"}
    /\ holder = c <=> at[c] = "geometry" /\ Prepared(c)
    /\ holder = c => Due(c)

(* The GUI thread holds the shared plugin while it publishes, and the      *)
(* server, which is closed at no other time, while it changes the address. *)
LocksOfGui ==
    /\ holder = "gui" <=> eventAt.doing = "publish"
    /\ Prepared("gui") <=> eventAt.doing = "publish"
    /\ netLock = "gui" <=> eventAt.doing \in {"assign", "reopen"}
    /\ netServer.open \/ netLock = "gui"
    /\ published = lastTime
    /\ choice.net + choice.edits <= Edits

(* Who holds a lock is where it is held for, and nowhere else.             *)
LocksFollowPlaces == LocksOfGui /\ \A c \in Cameras : LocksOfCamera(c)

(* Once a camera has sent its one late packet, it has none prepared for an *)
(* address given up, and none is given up before the count starts anew.    *)
LateOnce ==
    \A c \in Cameras :
        \/ late[c] = 0
        \/ late[c] = 1 /\ netLock = "nobody" /\ dest[c] \in {NoDest, ServerDest}

(* The waiting of a camera's thread for a lock, and that of the GUI.       *)
ThreadWaits(c) ==
    \/ Prepared(c) /\ netLock # "nobody"
    \/ at[c] \in {"geometry", "post"} /\ holder \notin {"nobody", c}

GuiWaits ==
    \/ /\ eventAt.doing = "network"
       /\ at[eventAt.camera] = "network" /\ Prepared(eventAt.camera)
    \/ eventAt.doing = "geometry" /\ holder # "nobody"
    \/ eventAt.doing \in {"publish", "refresh"} /\ netLock # "nobody"

(* The camera threads and the GUI never wait for each other in a circle:   *)
(* the shared plugin's mutex is held while the server's is waited for, and *)
(* the GUI thread takes both, at different times.                          *)
NoCircle ==
    (\E c \in Cameras : at[c] # "idle") \/ eventAt.doing # "idle" =>
        \/ \E c \in Cameras : at[c] # "idle" /\ ~ThreadWaits(c)
        \/ eventAt.doing # "idle" /\ ~GuiWaits

(* What holds for every camera, at every moment (visionstack.cpp,          *)
(* plugin_publishgeometry.cpp, robocup_ssl_server.cpp).                    *)
StackIsSound == /\ StackTypeOK /\ DetectionIsOfFrame /\ OneLatePacket
                /\ LocksFollowPlaces /\ LateOnce /\ NoCircle

(* And so, as long as a thread or the GUI is at work, one of them can go   *)
(* on, in whatever order they take the locks.                              *)
NoDeadlock ==
    (\E c \in Cameras : at[c] # "idle") \/ eventAt.doing # "idle" =>
        ENABLED (GuiWorks \/ \E c \in Cameras : ThreadWorks(c))

(* What holds of every packet that leaves (robocup_ssl_server.cpp,         *)
(* plugin_publishgeometry.cpp).                                            *)
PacketsAreSound == SentThroughOpenServer /\ GeometrySpaced
=============================================================================
