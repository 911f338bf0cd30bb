--------------------------- MODULE FieldMessages ---------------------------
(***************************************************************************)
(* src/messages.py: the compression of numbers to bytes, the objects sent  *)
(* over the wire, FieldInfo.send_data(), which writes them one by one, and *)
(* FieldInfo.unpack(), which reads them back, used one after the other as  *)
(* full_test() of bluetooth_test.py does.                                  *)
(*                                                                         *)
(* A float is an integer number of grid steps, Step of them to the 0.5     *)
(* that one unit of a packed byte stands for; round() of Python 2 takes    *)
(* halves away from zero.  Angles are on the same grid, pi being the 254   *)
(* packed units that pack_angle() scales it to.  Errors of floating point  *)
(* below the grid are left out.                                            *)
(***************************************************************************)
EXTENDS Integers, Sequences, SequencesExt

CONSTANTS
  DetectionFrames,    (* the SSL_DetectionFrames: records of the sequences *)
                      (* robots_yellow, robots_blue and balls              *)
  XShift, YShift,     (* arguments x_shift, y_shift of FieldInfo(), and    *)
  Scale               (* scale, as a number of grid steps per frame unit   *)

Step == 4

DetectionRobots ==
  [robot_id : Nat, orientation : Int, x : Int, y : Int]

DetectionBalls == [x : Int, y : Int]

ASSUME FrameAssumption ==
  /\ XShift \in Int /\ YShift \in Int /\ Scale \in Int
  /\ DetectionFrames \subseteq
       [robots_yellow : Seq(DetectionRobots), robots_blue : Seq(DetectionRobots),
        balls : Seq(DetectionBalls)]
-----------------------------------------------------------------------------
(* Numbers.                                                                *)

round(v) ==                       \* round(num*2.0), num being v grid steps
  IF v >= 0 THEN (v + Step \div 2) \div Step
            ELSE -((-v + Step \div 2) \div Step)

compress_float_255(v) ==          \* mutant: the limit is off by one
  IF round(v) > 255 THEN 255 ELSE round(v)

compress_float_uncapped(v) ==     \* mutant: no limit
  round(v)

compress_float(v) == IF round(v) > 254 THEN 254 ELSE round(v)

uncompress_float(b) == b * Step

compress_int(n) == IF n > 254 THEN 254 ELSE n

uncompress_int(b) == b

HalfTurn == 254 * Step            \* math.pi
Turn == 2 * HalfTurn

(* pack_angle(): the two bytes.                                            *)
wrapped(a) == IF a % Turn > HalfTurn THEN (a % Turn) - Turn ELSE a % Turn

pack_angle_no_wrap(a) ==          \* mutant: excess turns are kept
  <<IF a < 0 THEN 1 ELSE 0, compress_float(IF a < 0 THEN -a ELSE a)>>

pack_angle(a) ==
  LET w == wrapped(a)
  IN <<IF w < 0 THEN 1 ELSE 0, compress_float(IF w < 0 THEN -w ELSE w)>>

unpack_angle(data, offset) ==
  LET angle == uncompress_float(data[offset + 2])
  IN IF data[offset + 1] # 0 THEN -angle ELSE angle
-----------------------------------------------------------------------------
(* Objects.  struct.pack('B') raises unless it is given 0 .. 255.          *)

Packs(bytes) == \A i \in DOMAIN bytes : bytes[i] \in 0 .. 255

VectorSize == 2
RobotSize == 1 + 2 + VectorSize
HeaderSize == 2

PackVector(p) == <<compress_float(p.x), compress_float(p.y)>>

UnpackVector(data, offset) ==
  [x |-> uncompress_float(data[offset + 1]),
   y |-> uncompress_float(data[offset + 2])]

PackRobot(r) ==
  LET angle == pack_angle(r.heading)
      pos == PackVector(r.pos)
  IN <<compress_int(r.id), angle[1], angle[2], pos[1], pos[2]>>

UnpackRobot(data, offset) ==
  [id |-> uncompress_int(data[offset + 1]),
   heading |-> unpack_angle(data, offset + 1),
   pos |-> UnpackVector(data, offset + 3)]

PackHeader(h) == <<compress_int(h.num_robots), compress_int(h.num_balls)>>

UnpackHeader(data) ==
  [num_robots |-> uncompress_int(data[1]),
   num_balls |-> uncompress_int(data[2])]

(* FieldInfo.__init__(): yellow robots, then blue ones, then balls.        *)
ParsePos(obj) ==
  [x |-> obj.x * Scale + XShift, y |-> obj.y * Scale + YShift]

Robots(f) ==
  LET found == f.robots_yellow \o f.robots_blue
  IN [i \in 1 .. Len(found) |->
        [id |-> found[i].robot_id, heading |-> found[i].orientation,
         pos |-> ParsePos(found[i])]]

Balls(f) == [i \in 1 .. Len(f.balls) |-> ParsePos(f.balls[i])]

Header(f) ==
  [num_robots |-> Len(f.robots_yellow) + Len(f.robots_blue),
   num_balls |-> Len(f.balls)]
-----------------------------------------------------------------------------
(* send_data() to a file object, then unpack() of what it holds.           *)

VARIABLES
  frame,         (* the detection packet                                   *)
  phase,         (* what is written or read next, "raised" or "done"       *)
  index,         (* how many robots or balls of the phase are done         *)
  data,          (* what the file object holds                             *)
  offset,        (* local of unpack()                                      *)
  info           (* the FieldInfo that unpack() builds                     *)

messageVars == <<frame, phase, index, data, offset, info>>

Init ==
  /\ frame \in DetectionFrames
  /\ phase = "write header"
  /\ index = 0
  /\ data = <<>>
  /\ offset = 0
  /\ info = [header |-> Header(frame), robots |-> <<>>, balls |-> <<>>]

(* One round of the loop over to_send: write, or struct.error.             *)
Write(bytes) ==
  IF Packs(bytes)
  THEN /\ data' = data \o bytes
       /\ index' = index + 1
       /\ UNCHANGED phase
  ELSE /\ phase' = "raised"
       /\ UNCHANGED <<data, index>>

NextPhase(from, to) == phase = from /\ phase' = to /\ index' = 0

WriteHeader ==
  /\ NextPhase("write header", "write robots")
  /\ data' = data \o PackHeader(Header(frame))
  /\ UNCHANGED <<frame, offset, info>>

WriteRobot ==
  /\ phase = "write robots"
  /\ index < Len(Robots(frame))
  /\ Write(PackRobot(Robots(frame)[index + 1]))
  /\ UNCHANGED <<frame, offset, info>>

RobotsWritten ==
  /\ NextPhase("write robots", "write balls")
  /\ index = Len(Robots(frame))
  /\ UNCHANGED <<frame, data, offset, info>>

WriteBall ==
  /\ phase = "write balls"
  /\ index < Len(Balls(frame))
  /\ Write(PackVector(Balls(frame)[index + 1]))
  /\ UNCHANGED <<frame, offset, info>>

BallsWritten ==
  /\ NextPhase("write balls", "read header")
  /\ index = Len(Balls(frame))
  /\ UNCHANGED <<frame, data, offset, info>>

ReadHeader ==
  /\ NextPhase("read header", "read robots")
  /\ info' = [info EXCEPT !.header = UnpackHeader(data)]
  /\ offset' = offset + HeaderSize
  /\ UNCHANGED <<frame, data>>

ReadRobot ==
  /\ phase = "read robots"
  /\ index < info.header.num_robots
  /\ info' = [info EXCEPT !.robots = Append(@, UnpackRobot(data, offset))]
  /\ offset' = offset + RobotSize
  /\ index' = index + 1
  /\ UNCHANGED <<frame, phase, data>>

RobotsRead ==
  /\ NextPhase("read robots", "read balls")
  /\ index = info.header.num_robots
  /\ UNCHANGED <<frame, data, offset, info>>

ReadBall ==
  /\ phase = "read balls"
  /\ index < info.header.num_balls
  /\ info' = [info EXCEPT !.balls = Append(@, UnpackVector(data, offset))]
  /\ offset' = offset + VectorSize
  /\ index' = index + 1
  /\ UNCHANGED <<frame, phase, data>>

BallsRead ==
  /\ NextPhase("read balls", "done")
  /\ index = info.header.num_balls
  /\ UNCHANGED <<frame, data, offset, info>>

Next ==
  \/ WriteHeader
  \/ WriteRobot
  \/ RobotsWritten
  \/ WriteBall
  \/ BallsWritten
  \/ ReadHeader
  \/ ReadRobot
  \/ RobotsRead
  \/ ReadBall
  \/ BallsRead

Spec == Init /\ [][Next]_messageVars
-----------------------------------------------------------------------------
(* 254 is the largest byte packed, so that the two bytes 255 that precede  *)
(* a message never occur inside one, not even for numbers out of range.    *)
NoSyncMarker == \A i \in 1 .. Len(data) : data[i] \in 0 .. 254

Near(a, b) == 2 * a - 2 * b \in -Step .. Step
InRange(v) == v \in 0 .. 254 * Step
PosInRange(p) == InRange(p.x) /\ InRange(p.y)
PosNear(p, q) == Near(p.x, q.x) /\ Near(p.y, q.y)
AngleNear(a, b) == \E k \in {-1, 0, 1} : Near(a, wrapped(b) + k * Turn)

(* unpack() gives back what send_data() was given: every robot and ball in *)
(* its place, to half a packed unit if its coordinates are in the range    *)
(* 0.0 to 127.0 of compress_float(), and headings to half a packed unit    *)
(* modulo a full turn.                                                     *)
UnpackInvertsSend ==
  phase = "done" /\ Len(Robots(frame)) <= 254 /\ Len(Balls(frame)) <= 254 =>
    /\ info.header = Header(frame)
    /\ Len(info.robots) = Len(Robots(frame))
    /\ Len(info.balls) = Len(Balls(frame))
    /\ offset = Len(data)
    /\ \A i \in 1 .. Len(info.robots) :
         LET got == info.robots[i]
             was == Robots(frame)[i]
         IN /\ was.id <= 254 => got.id = was.id
            /\ AngleNear(got.heading, was.heading)
            /\ PosInRange(was.pos) => PosNear(got.pos, was.pos)
    /\ \A i \in 1 .. Len(info.balls) :
         PosInRange(Balls(frame)[i]) => PosNear(info.balls[i], Balls(frame)[i])

(* Only a coordinate below zero, by half a packed unit or more, keeps a    *)
(* frame from being sent.                                                  *)
OnlyNegativeRaises ==
  phase = "raised" =>
    \E p \in Range(Balls(frame)) \union {r.pos : r \in Range(Robots(frame))} :
      p.x < 0 \/ p.y < 0

=============================================================================
