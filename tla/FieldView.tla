------------------------------ MODULE FieldView ------------------------------
(***************************************************************************)
(* The picture of the field in the graphical client (dep/ssl-vision/src/   *)
(* graphicalClient/GraphicsPrimitives.cpp) and the packets it is made of   *)
(* (ClientThreading.cpp, shared/net/robocup_ssl_client.cpp, netraw.cpp).   *)
(* UDP may lose, repeat and reorder packets: a packet received is any of   *)
(* those the cameras can send.  Robots are items that are never deleted:   *)
(* a detection moves the items its camera has for the team, adds what is   *)
(* missing and makes what is left over invisible.                          *)
(*                                                                         *)
(* A sighting is [id, conf, at]; lengths are in half millimetres.          *)
(***************************************************************************)
EXTENDS Integers, Sequences, FiniteSets

CONSTANTS Detections,     (* [camera, blue, yellow, balls]: lists of sightings *)
          FieldLengths    (* the lengths the vision program sends *)

VARIABLES client,         (* the socket: "closed", "bound" or "joined" *)
          play,           (* a record is played *)
          robots,         (* the items: [key, team, label, conf, at] *)
          ballItems,      (* camera -> the places of its balls *)
          fieldLength,    (* the field's drawn length *)
          received        (* camera -> the last detection shown (history) *)

viewVars == <<client, play, robots, ballItems, fieldLength, received>>

Teams == {"blue", "yellow"}
Sightings == UNION {{d[team][k] : k \in DOMAIN d[team]} :
                       d \in Detections, team \in Teams}
ASSUME ViewAssumption ==
    /\ FieldLengths \subseteq Nat
    /\ \A d \in Detections, team \in Teams : d[team] \in Seq(Sightings)
    /\ \A s \in Sightings : s.conf \in Nat

NA == 65535
ViewCameras == {d.camera : d \in Detections}
NothingSeen(c) == [camera |-> c, blue |-> <<>>, yellow |-> <<>>,
                   balls |-> <<>>]
NoDetection == [camera |-> -1]
Packets == [detection: Detections \cup {NoDetection},
            length: FieldLengths \cup {0}]
NoPacket == [detection |-> NoDetection, length |-> 0]

ViewInit ==
    /\ client = "closed" /\ play = FALSE /\ robots = <<>>
    /\ ballItems = [c \in ViewCameras |-> <<>>]
    /\ fieldLength = 6050
    /\ received = [c \in ViewCameras |-> NothingSeen(c)]
----------------------------------------------------------------------------
(* The place of i in S, the k-th of S, and what a list has at the places   *)
(* S, in their order.                                                      *)
Rank(S, i) == Cardinality({j \in S : j <= i})
NthOf(S, k) == CHOOSE i \in S : Rank(S, i) = k
Among(list, S) == [k \in 1 .. Cardinality(S) |-> list[NthOf(S, k)]]

(* The items of a camera's team, in the order they were added.             *)
IsFor(robot, c, team) == robot.key = c /\ robot.team = team
Items(rs, c, team) == {j \in DOMAIN rs : IsFor(rs[j], c, team)}
Place(rs, j) == Rank(Items(rs, rs[j].key, rs[j].team), j)

Label(s) == IF s.id = NA THEN "?" ELSE s.id
AddRobot(s, c, team) == [key |-> c, team |-> team, label |-> Label(s),
                         conf |-> s.conf, at |-> s.at]
SetPose(robot, s) == AddRobot(s, robot.key, robot.team)
Added(rs, d, team) ==
    LET have == Cardinality(Items(rs, d.camera, team))
    IN  [k \in 1 .. Len(d[team]) - have |->
            AddRobot(d[team][have + k], d.camera, team)]

(* A mistake: what is left over stays as it was.                           *)
LeftOverStays(rs, d) ==
    [j \in DOMAIN rs |->
        IF rs[j].key = d.camera /\ Place(rs, j) <= Len(d[rs[j].team])
        THEN SetPose(rs[j], d[rs[j].team][Place(rs, j)]) ELSE rs[j]]
    \o Added(rs, d, "blue") \o Added(rs, d, "yellow")
UpdateRobots(rs, d) ==
    [j \in DOMAIN rs |->
        IF rs[j].key # d.camera THEN rs[j]
        ELSE IF Place(rs, j) <= Len(d[rs[j].team])
        THEN SetPose(rs[j], d[rs[j].team][Place(rs, j)])
        ELSE [rs[j] EXCEPT !.conf = 0]]
    \o Added(rs, d, "blue") \o Added(rs, d, "yellow")

Sure(list) == Among(list, {k \in DOMAIN list : list[k].conf > 0})
Places(list) == [k \in DOMAIN list |-> list[k].at]
UpdateBalls(d) ==
    ballItems' = [ballItems EXCEPT ![d.camera] = Places(Sure(d.balls))]
----------------------------------------------------------------------------
(* The view thread.  When the group cannot be joined, run() goes on.       *)
OpenClient ==
    /\ client = "closed" /\ client' \in {"bound", "joined"}
    /\ UNCHANGED <<play, robots, ballItems, fieldLength, received>>

(* Balls and robots change under one hold of drawMutex.                    *)
Show(d) ==
    /\ UpdateBalls(d) /\ robots' = UpdateRobots(robots, d)
    /\ received' = [received EXCEPT ![d.camera] = d]

(* The length stands for the fourteen measures of the field, which change  *)
(* together; the field is drawn anew.                                      *)
LoadFieldGeometry(p) ==
    fieldLength' = (IF p.length = 0 THEN fieldLength ELSE p.length)

(* A packet that comes while a record is played is read and dropped; one   *)
(* that is none of the protocol's stops at ParseFromArray().               *)
Receive(p) ==
    /\ client = "joined" /\ ~play
    /\ IF p.detection # NoDetection THEN Show(p.detection)
       ELSE UNCHANGED <<robots, ballItems, received>>
    /\ LoadFieldGeometry(p)
    /\ UNCHANGED <<client, play>>

(* A frame of the record.                                                  *)
PlayFrame(d) ==
    /\ client # "closed" /\ play /\ Show(d)
    /\ UNCHANGED <<client, play, fieldLength>>

(* The GUI thread starts and stops a record at any time (LogPlayer).       *)
PlayToggled ==
    /\ play' = ~play
    /\ UNCHANGED <<client, robots, ballItems, fieldLength, received>>

ViewNext ==
    \/ OpenClient \/ PlayToggled
    \/ \E p \in Packets \ {NoPacket} : Receive(p)
    \/ \E d \in Detections : PlayFrame(d)
ViewSpec == ViewInit /\ [][ViewNext]_viewVars
----------------------------------------------------------------------------
(* ConstructField(): strokes between points, and arcs of ninety degrees,   *)
(* given as arcTo() takes them.  sx is the side, sy the half.              *)
field_width == 4050
goal_width == 700
goal_depth == 180
defense_radius == 500
defense_stretch == 350

(* A mistake: the arc of the far half is that of the near one.             *)
DefenseArcCrossed(length, sx, sy) ==
    [from |-> <<sx * (length - 2 * defense_radius), sy * defense_stretch>>,
     x |-> (IF sx = 1 THEN length - 2 * defense_radius
                      ELSE -(length + 2 * defense_radius)),
     y |-> -(2 * defense_radius - defense_stretch),
     size |-> 4 * defense_radius,
     start |-> (IF sx = 1 THEN 180 ELSE 0),
     sweep |-> 90 * sx * sy]
DefenseArc(length, sx, sy) ==
    [from |-> <<sx * (length - 2 * defense_radius), sy * defense_stretch>>,
     x |-> (IF sx = 1 THEN length - 2 * defense_radius
                      ELSE -(length + 2 * defense_radius)),
     y |-> -(2 * defense_radius - sy * defense_stretch),
     size |-> 4 * defense_radius,
     start |-> (IF sx = 1 THEN 180 ELSE 0),
     sweep |-> 90 * sx * sy]

FieldSides == {-1, 1}
ConstructField(length) ==
    LET goal == length + 2 * goal_depth
        edge == length - 2 * defense_radius
    IN  [lines |->
            {{<<0, -field_width>>, <<0, field_width>>}}
            \cup {{<<s * length, -field_width>>, <<s * length, field_width>>} :
                  s \in FieldSides}
            \cup {{<<-length, s * field_width>>, <<length, s * field_width>>} :
                  s \in FieldSides}
            \cup {{<<s * length, t * goal_width>>, <<s * goal, t * goal_width>>} :
                  s \in FieldSides, t \in FieldSides}
            \cup {{<<s * goal, -goal_width>>, <<s * goal, goal_width>>} :
                  s \in FieldSides}
            \cup {{<<s * edge, -defense_stretch>>,
                   <<s * edge, defense_stretch>>} : s \in FieldSides},
         arcs |-> {DefenseArc(length, s, t) : s \in FieldSides, t \in FieldSides}]

(* The point of an arc at an angle that is a multiple of ninety degrees;   *)
(* angles turn against the clock, y grows downwards.                       *)
OnArc(arc, angle) ==
    LET r == arc.size \div 2
        a == ((angle + 360) % 360) \div 90
    IN  <<arc.x + r + <<r, 0, -r, 0>>[a + 1],
          arc.y + r + <<0, -r, 0, r>>[a + 1]>>
----------------------------------------------------------------------------
(* Properties.                                                             *)

(* What a camera's items show is what its last detection reports: nothing  *)
(* of an earlier detection, of another camera or of the other team stays   *)
(* visible, whatever was lost, repeated or reordered before it.            *)
Visible(c, team) ==
    LET mine == Among(robots, {j \in Items(robots, c, team) : robots[j].conf > 0})
    IN  [k \in DOMAIN mine |-> <<mine[k].label, mine[k].at>>]
Reported(c, team) ==
    LET sure == Sure(received[c][team])
    IN  [k \in DOMAIN sure |-> <<Label(sure[k]), sure[k].at>>]
ShowsLastDetection ==
    \A c \in ViewCameras :
        /\ ballItems[c] = Places(Sure(received[c].balls))
        /\ \A team \in Teams : Visible(c, team) = Reported(c, team)

(* However many packets come, a camera's team has no more items than one   *)
(* detection can hold.                                                     *)
ItemsAreBounded ==
    \A c \in ViewCameras, team \in Teams :
        \E d \in Detections :
            /\ d.camera = c
            /\ Cardinality(Items(robots, c, team)) <= Len(d[team])

(* The lines of the field that is drawn join: an arc of a defence area     *)
(* begins where its straight line ends and ends on the goal line.          *)
FieldIsClosed ==
    LET drawn == ConstructField(fieldLength)
    IN  \A arc \in drawn.arcs :
            /\ OnArc(arc, arc.start) = arc.from
            /\ \E line \in drawn.lines : arc.from \in line
            /\ OnArc(arc, arc.start + arc.sweep)[1] \in
                  {-fieldLength, fieldLength}

(* The items on the scene are those of the last detection of each camera,  *)
(* and no more than that, and the field's lines join.                      *)
ViewFollowsDetections ==
    ShowsLastDetection /\ ItemsAreBounded /\ FieldIsClosed
=============================================================================
