---------------------------- MODULE ProcessProofs ----------------------------
(* Theorems about the parts of MCProcesses: the messages to a robot and    *)
(* the robot that reads them, the choice of a team, the calibration, the   *)
(* player of recorded games and the capturing from files, each for any     *)
(* values of its constants.                                                *)
EXTENDS FieldMessages, RobotLink, TeamSelection, Calibrator, LogPlayer,
        CaptureFiles, SequenceTheorems, FiniteSetTheorems, TLAPS

(***************************************************************************)
(* FieldMessages: one message, written and read back.                      *)
(***************************************************************************)
(* A packed number is at most 254, and not negative unless the number was. *)
LEMMA CompressBounds ==
  ASSUME NEW v \in Int
  PROVE  /\ compress_float(v) \in Int
         /\ compress_float(v) <= 254
         /\ v >= 0 => compress_float(v) >= 0
BY DEF compress_float, round, Step

(* In the range that fits, packing loses at most half a packed unit.       *)
LEMMA CompressPrecision ==
  ASSUME NEW v \in Int, InRange(v)
  PROVE  Near(uncompress_float(compress_float(v)), v)
BY DEF InRange, Near, compress_float, uncompress_float, round, Step

(* What unpack() reads of a byte up to 254 packs to the same byte again.   *)
LEMMA CompressOfUncompress ==
  ASSUME NEW b \in 0 .. 254
  PROVE  compress_float(uncompress_float(b)) = b
BY DEF compress_float, uncompress_float, round, Step

(* The wrapped angle lies between -pi, exclusively, and pi.                *)
LEMMA WrappedRange ==
  ASSUME NEW a \in Int
  PROVE  /\ wrapped(a) \in Int
         /\ -HalfTurn < wrapped(a) /\ wrapped(a) <= HalfTurn
BY DEF wrapped, Turn, HalfTurn, Step

(* A heading packs to a sign and a byte up to 254, and is read back to     *)
(* half a packed unit of the wrapped angle.                                *)
LEMMA AnglePrecision ==
  ASSUME NEW a \in Int
  PROVE  /\ pack_angle(a)[1] \in {0, 1}
         /\ pack_angle(a)[2] \in 0 .. 254
         /\ Near(unpack_angle(pack_angle(a), 0), wrapped(a))
<1> DEFINE w == wrapped(a)
           m == IF w < 0 THEN -w ELSE w
<1>1. w \in Int /\ m \in Int /\ InRange(m)
  <2>1. w \in Int /\ -HalfTurn < w /\ w <= HalfTurn
    BY WrappedRange
  <2> QED
    BY <2>1, SMTT(30) DEF InRange, HalfTurn, Step
<1> HIDE DEF w, m
<1>2. /\ compress_float(m) \in 0 .. 254
      /\ Near(uncompress_float(compress_float(m)), m)
  <2>1. m >= 0
    BY <1>1 DEF InRange, Step
  <2>2. compress_float(m) \in Int /\ compress_float(m) <= 254
          /\ compress_float(m) >= 0
    BY <1>1, <2>1, CompressBounds
  <2>3. Near(uncompress_float(compress_float(m)), m)
    BY <1>1, CompressPrecision
  <2> QED
    BY <2>2, <2>3
<1>3. pack_angle(a) = <<IF w < 0 THEN 1 ELSE 0, compress_float(m)>>
  BY DEF pack_angle, w, m
<1>4. unpack_angle(pack_angle(a), 0)
        = IF w < 0 THEN -uncompress_float(compress_float(m))
                   ELSE uncompress_float(compress_float(m))
  BY <1>3 DEF unpack_angle
<1>5. Near(unpack_angle(pack_angle(a), 0), w)
  <2>1. uncompress_float(compress_float(m)) \in Int
    BY <1>2 DEF uncompress_float, Step
  <2> QED
    BY <1>1, <1>2, <1>4, <2>1 DEF Near, Step, m
<1> QED
  BY <1>2, <1>3, <1>5 DEF w
-----------------------------------------------------------------------------
(* The bytes of a message.                                                 *)

Sendable == 0 .. 254

(* A position, if it packs, packs to bytes up to 254.                      *)
LEMMA VectorBytes ==
  ASSUME NEW p, p.x \in Int, p.y \in Int, Packs(PackVector(p))
  PROVE  PackVector(p) \in Seq(Sendable)
<1>1. /\ compress_float(p.x) \in Int /\ compress_float(p.x) <= 254
      /\ compress_float(p.y) \in Int /\ compress_float(p.y) <= 254
  BY CompressBounds
<1>2. compress_float(p.x) \in 0 .. 255 /\ compress_float(p.y) \in 0 .. 255
  <2>1. \A i \in {1, 2} : PackVector(p)[i] \in 0 .. 255
    BY DEF Packs, PackVector
  <2> QED
    BY <2>1 DEF PackVector
<1>3. compress_float(p.x) \in Sendable /\ compress_float(p.y) \in Sendable
  BY <1>1, <1>2 DEF Sendable
<1> QED
  BY <1>3 DEF PackVector

(* Shifting and scaling gives numbers on the grid.                         *)
LEMMA ParsedPositions ==
  ASSUME NEW obj, obj.x \in Int, obj.y \in Int
  PROVE  ParsePos(obj) \in [x : Int, y : Int]
<1>1. obj.x * Scale + XShift \in Int /\ obj.y * Scale + YShift \in Int
  BY FrameAssumption
<1> QED
  BY <1>1 DEF ParsePos

(* Every object the FieldInfo of a frame sends has integer coordinates,    *)
(* heading and a natural id.                                               *)
LEMMA ItemsAreNumbers ==
  ASSUME NEW f \in DetectionFrames
  PROVE  /\ Robots(f) \in Seq([id : Nat, heading : Int, pos : [x : Int, y : Int]])
         /\ Balls(f) \in Seq([x : Int, y : Int])
<1>1. /\ f.robots_yellow \in Seq(DetectionRobots)
      /\ f.robots_blue \in Seq(DetectionRobots)
      /\ f.balls \in Seq(DetectionBalls)
  BY FrameAssumption
<1> DEFINE found == f.robots_yellow \o f.robots_blue
<1>2. found \in Seq(DetectionRobots)
  BY <1>1, ConcatProperties
<1> HIDE DEF found
<1>3. \A i \in 1 .. Len(found) :
        [id |-> found[i].robot_id, heading |-> found[i].orientation,
         pos |-> ParsePos(found[i])]
          \in [id : Nat, heading : Int, pos : [x : Int, y : Int]]
  <2>1. \A i \in 1 .. Len(found) : found[i] \in DetectionRobots
    BY <1>2, ElementOfSeq
  <2> QED
    BY <2>1, ParsedPositions DEF DetectionRobots
<1>4. \A i \in 1 .. Len(f.balls) : ParsePos(f.balls[i]) \in [x : Int, y : Int]
  <2>1. \A i \in 1 .. Len(f.balls) : f.balls[i] \in DetectionBalls
    BY <1>1, ElementOfSeq
  <2> QED
    BY <2>1, ParsedPositions DEF DetectionBalls
<1>5. Len(found) \in Nat /\ Len(f.balls) \in Nat
  BY <1>1, <1>2, LenProperties
<1>6. \A S : \A n \in Nat : [1 .. n -> S] \subseteq Seq(S)
  BY SeqDef
<1>7. Robots(f) \in [1 .. Len(found) ->
                      [id : Nat, heading : Int, pos : [x : Int, y : Int]]]
  BY <1>3 DEF Robots, found
<1>8. Balls(f) \in [1 .. Len(f.balls) -> [x : Int, y : Int]]
  BY <1>4 DEF Balls
<1> QED
  BY <1>5, <1>6, <1>7, <1>8

(* A robot, if it packs, packs to bytes up to 254.                         *)
LEMMA RobotBytes ==
  ASSUME NEW r \in [id : Nat, heading : Int, pos : [x : Int, y : Int]],
         Packs(PackRobot(r))
  PROVE  PackRobot(r) \in Seq(Sendable)
<1> DEFINE a == pack_angle(r.heading)
           v == PackVector(r.pos)
           i == compress_int(r.id)
<1>1. PackRobot(r) = <<i, a[1], a[2], v[1], v[2]>>
  BY DEF PackRobot
<1>2. i \in Sendable
  BY DEF compress_int, Sendable
<1>3. a[1] \in Sendable /\ a[2] \in Sendable
  BY AnglePrecision, SMTT(30) DEF Sendable
<1>4. v[1] \in 0 .. 255 /\ v[2] \in 0 .. 255
  <2> HIDE DEF a, v, i
  <2>1. ASSUME NEW b1, NEW b2, NEW b3, NEW b4, NEW b5,
               Packs(<<b1, b2, b3, b4, b5>>)
        PROVE  b4 \in 0 .. 255 /\ b5 \in 0 .. 255
    BY <2>1 DEF Packs
  <2> QED
    BY <1>1, <2>1
<1>5. v[1] \in Int /\ v[2] \in Int /\ v[1] <= 254 /\ v[2] <= 254
  BY CompressBounds DEF PackVector
<1>6. v[1] \in Sendable /\ v[2] \in Sendable
  BY <1>4, <1>5 DEF Sendable
<1> HIDE DEF a, v, i
<1> QED
  BY <1>1, <1>2, <1>3, <1>6

(* The header packs, because its counts are capped.                        *)
LEMMA HeaderBytes ==
  ASSUME NEW f \in DetectionFrames
  PROVE  PackHeader(Header(f)) \in Seq(Sendable)
<1> DEFINE y == Len(f.robots_yellow)
           b == Len(f.robots_blue)
           n == Len(f.balls)
<1>1. y \in Nat /\ b \in Nat /\ n \in Nat
  BY FrameAssumption, LenProperties
<1>2. Header(f).num_robots = y + b /\ Header(f).num_balls = n
  BY DEF Header
<1> HIDE DEF y, b, n
<1>3. \A m \in Nat : compress_int(m) \in Sendable
  BY DEF compress_int, Sendable
<1>4. /\ compress_int(Header(f).num_robots) \in Sendable
      /\ compress_int(Header(f).num_balls) \in Sendable
  BY <1>1, <1>2, <1>3
<1> QED
  BY <1>4 DEF PackHeader

(* One write of bytes that are sendable if they pack.                      *)
LEMMA WriteKeepsBytes ==
  ASSUME NEW bytes, Write(bytes),
         data \in Seq(Sendable), index \in Nat,
         Packs(bytes) => bytes \in Seq(Sendable)
  PROVE  data' \in Seq(Sendable) /\ index' \in Nat
<1>1. CASE Packs(bytes)
  <2>1. data' = data \o bytes /\ index' = index + 1
    BY <1>1 DEF Write
  <2>2. bytes \in Seq(Sendable)
    BY <1>1
  <2> QED
    BY <2>1, <2>2, ConcatProperties
<1>2. CASE ~Packs(bytes)
  BY <1>2 DEF Write
<1> QED
  BY <1>1, <1>2

(* No byte of a message is 255, whatever the frame.                        *)
THEOREM MessagesHaveNoSyncMarker == Spec => []NoSyncMarker
<1> DEFINE Inv == frame \in DetectionFrames /\ data \in Seq(Sendable)
                    /\ index \in Nat
<1>1. Init => Inv
  <2>1. <<>> \in Seq(Sendable)
    BY EmptySeq
  <2> SUFFICES ASSUME Init
               PROVE  Inv
    OBVIOUS
  <2>2. frame \in DetectionFrames /\ data = <<>> /\ index = 0
    BY DEF Init
  <2> QED
    BY <2>1, <2>2
<1>2. ASSUME Inv, [Next]_messageVars
      PROVE  Inv'
  <2>1. CASE UNCHANGED messageVars
    BY <1>2, <2>1 DEF messageVars
  <2>2. CASE WriteHeader
    <3>1. PackHeader(Header(frame)) \in Seq(Sendable)
      BY <1>2, HeaderBytes
    <3>2. /\ frame' = frame /\ index' = 0
          /\ data' = data \o PackHeader(Header(frame))
      BY <2>2 DEF WriteHeader, NextPhase
    <3> QED
      BY <1>2, <3>1, <3>2, ConcatProperties
  <2>3. CASE WriteRobot
    <3> DEFINE r == Robots(frame)[index + 1]
    <3>1. r \in [id : Nat, heading : Int, pos : [x : Int, y : Int]]
      <4>1. Robots(frame)
              \in Seq([id : Nat, heading : Int, pos : [x : Int, y : Int]])
        BY <1>2, ItemsAreNumbers
      <4>2. index + 1 \in 1 .. Len(Robots(frame))
        <5>1. Len(Robots(frame)) \in Nat
          BY <4>1, LenProperties
        <5>2. index < Len(Robots(frame))
          BY <2>3 DEF WriteRobot
        <5> QED
          BY <1>2, <5>1, <5>2
      <4> QED
        BY <4>1, <4>2, ElementOfSeq
    <3>2. frame' = frame /\ Write(PackRobot(r))
      BY <2>3 DEF WriteRobot
    <3> HIDE DEF r
    <3> QED
      BY <1>2, <3>1, <3>2, RobotBytes, WriteKeepsBytes
  <2>4. CASE WriteBall
    <3> DEFINE b == Balls(frame)[index + 1]
    <3>1. b \in [x : Int, y : Int]
      <4>1. Balls(frame) \in Seq([x : Int, y : Int])
        BY <1>2, ItemsAreNumbers
      <4>2. index + 1 \in 1 .. Len(Balls(frame))
        <5>1. Len(Balls(frame)) \in Nat
          BY <4>1, LenProperties
        <5>2. index < Len(Balls(frame))
          BY <2>4 DEF WriteBall
        <5> QED
          BY <1>2, <5>1, <5>2
      <4> QED
        BY <4>1, <4>2, ElementOfSeq
    <3>2. frame' = frame /\ Write(PackVector(b))
      BY <2>4 DEF WriteBall
    <3> HIDE DEF b
    <3> QED
      BY <1>2, <3>1, <3>2, VectorBytes, WriteKeepsBytes
  <2>5. CASE RobotsWritten \/ BallsWritten \/ ReadHeader \/ ReadRobot
               \/ RobotsRead \/ ReadBall \/ BallsRead
    <3>1. UNCHANGED <<frame, data>>
      BY <2>5 DEF RobotsWritten, BallsWritten, ReadHeader, ReadRobot,
                  RobotsRead, ReadBall, BallsRead
    <3>2. index' \in {0, index + 1}
      BY <2>5 DEF RobotsWritten, BallsWritten, ReadHeader, ReadRobot,
                  RobotsRead, ReadBall, BallsRead, NextPhase
    <3> QED
      BY <1>2, <3>1, <3>2
  <2> QED
    BY <1>2, <2>1, <2>2, <2>3, <2>4, <2>5 DEF Next
<1>3. Inv => NoSyncMarker
  BY ElementOfSeq DEF NoSyncMarker, Sendable
<1> QED
  BY <1>1, <1>2, <1>3, PTL DEF Spec

(* Only a negative coordinate keeps an object from packing.                *)
LEMMA WhatPacks ==
  ASSUME NEW p \in [x : Int, y : Int], p.x >= 0, p.y >= 0
  PROVE  /\ Packs(PackVector(p))
         /\ \A r \in [id : Nat, heading : Int, pos : {p}] : Packs(PackRobot(r))
<1>1. /\ compress_float(p.x) \in 0 .. 255
      /\ compress_float(p.y) \in 0 .. 255
  <2>1. /\ compress_float(p.x) \in Int /\ compress_float(p.y) \in Int
        /\ compress_float(p.x) <= 254 /\ compress_float(p.y) <= 254
        /\ compress_float(p.x) >= 0 /\ compress_float(p.y) >= 0
    BY CompressBounds
  <2> QED
    BY <2>1
<1>2. ASSUME NEW r \in [id : Nat, heading : Int, pos : {p}]
      PROVE  Packs(PackRobot(r))
  <2> DEFINE a == pack_angle(r.heading)
             v == PackVector(r.pos)
             i == compress_int(r.id)
  <2>1. PackRobot(r) = <<i, a[1], a[2], v[1], v[2]>>
    BY DEF PackRobot
  <2>2. i \in 0 .. 255
    BY DEF compress_int
  <2>3. a[1] \in 0 .. 255 /\ a[2] \in 0 .. 255
    BY AnglePrecision, SMTT(30)
  <2>4. v[1] \in 0 .. 255 /\ v[2] \in 0 .. 255
    BY <1>1 DEF PackVector
  <2> HIDE DEF a, v, i
  <2> QED
    BY <2>1, <2>2, <2>3, <2>4 DEF Packs
<1>3. Packs(PackVector(p))
  BY <1>1 DEF Packs, PackVector
<1> QED
  BY <1>2, <1>3

(* send_data() fails on no frame but one with a negative coordinate.       *)
THEOREM FailsOnlyOnNegative == Spec => []OnlyNegativeRaises
<1> DEFINE Inv == frame \in DetectionFrames /\ index \in Nat
                    /\ OnlyNegativeRaises
           Rob == [id : Nat, heading : Int, pos : [x : Int, y : Int]]
           Pos == [x : Int, y : Int]
<1>1. Init => Inv
  <2> SUFFICES ASSUME Init
               PROVE  Inv
    OBVIOUS
  <2>1. frame \in DetectionFrames /\ index = 0 /\ phase # "raised"
    BY DEF Init
  <2> QED
    BY <2>1 DEF OnlyNegativeRaises
<1>2. ASSUME Inv, [Next]_messageVars
      PROVE  Inv'
  <2>1. CASE UNCHANGED messageVars
    BY <1>2, <2>1 DEF messageVars, OnlyNegativeRaises
  <2>2. CASE WriteRobot
    <3> DEFINE r == Robots(frame)[index + 1]
    <3>1. Robots(frame) \in Seq(Rob)
      BY <1>2, ItemsAreNumbers
    <3>2. index + 1 \in 1 .. Len(Robots(frame))
      <4>1. Len(Robots(frame)) \in Nat /\ index < Len(Robots(frame))
        BY <2>2, <3>1, LenProperties DEF WriteRobot
      <4> QED
        BY <1>2, <4>1
    <3>3. r \in Rob /\ r \in Range(Robots(frame))
      BY <3>1, <3>2, ElementOfSeq, LenProperties DEF Range
    <3>4. frame' = frame /\ phase = "write robots" /\ Write(PackRobot(r))
      BY <2>2 DEF WriteRobot
    <3> HIDE DEF r
    <3>5. CASE Packs(PackRobot(r))
      <4>1. frame' = frame /\ phase' # "raised" /\ index' = index + 1
        BY <3>4, <3>5 DEF Write
      <4> QED
        BY <1>2, <4>1 DEF OnlyNegativeRaises
    <3>6. CASE ~Packs(PackRobot(r))
      <4>1. r.pos \in Pos /\ r \in [id : Nat, heading : Int, pos : {r.pos}]
        BY <3>3
      <4>2. r.pos.x < 0 \/ r.pos.y < 0
        BY <3>6, <4>1, WhatPacks
      <4>3. OnlyNegativeRaises'
        BY <3>3, <3>4, <4>2 DEF OnlyNegativeRaises
      <4> QED
        BY <1>2, <3>4, <3>6, <4>3 DEF Write
    <3> QED
      BY <3>5, <3>6
  <2>3. CASE WriteBall
    <3> DEFINE b == Balls(frame)[index + 1]
    <3>1. Balls(frame) \in Seq(Pos)
      BY <1>2, ItemsAreNumbers
    <3>2. index + 1 \in 1 .. Len(Balls(frame))
      <4>1. Len(Balls(frame)) \in Nat /\ index < Len(Balls(frame))
        BY <2>3, <3>1, LenProperties DEF WriteBall
      <4> QED
        BY <1>2, <4>1
    <3>3. b \in Pos /\ b \in Range(Balls(frame))
      BY <3>1, <3>2, ElementOfSeq, LenProperties DEF Range
    <3>4. frame' = frame /\ phase = "write balls" /\ Write(PackVector(b))
      BY <2>3 DEF WriteBall
    <3> HIDE DEF b
    <3>5. CASE Packs(PackVector(b))
      <4>1. frame' = frame /\ phase' # "raised" /\ index' = index + 1
        BY <3>4, <3>5 DEF Write
      <4> QED
        BY <1>2, <4>1 DEF OnlyNegativeRaises
    <3>6. CASE ~Packs(PackVector(b))
      <4>1. b.x < 0 \/ b.y < 0
        BY <3>3, <3>6, WhatPacks
      <4>2. OnlyNegativeRaises'
        BY <3>3, <3>4, <4>1 DEF OnlyNegativeRaises
      <4> QED
        BY <1>2, <3>4, <3>6, <4>2 DEF Write
    <3> QED
      BY <3>5, <3>6
  <2>4. CASE WriteHeader \/ RobotsWritten \/ BallsWritten \/ ReadHeader
               \/ ReadRobot \/ RobotsRead \/ ReadBall \/ BallsRead
    <3>1. frame' = frame /\ phase' # "raised"
      BY <2>4 DEF WriteHeader, RobotsWritten, BallsWritten, ReadHeader,
                  ReadRobot, RobotsRead, ReadBall, BallsRead, NextPhase
    <3>2. index' \in {0, index + 1}
      BY <2>4 DEF WriteHeader, RobotsWritten, BallsWritten, ReadHeader,
                  ReadRobot, RobotsRead, ReadBall, BallsRead, NextPhase
    <3> QED
      BY <1>2, <3>1, <3>2 DEF OnlyNegativeRaises
  <2> QED
    BY <1>2, <2>1, <2>2, <2>3, <2>4 DEF Next
<1> QED
  BY <1>1, <1>2, PTL DEF Spec
-----------------------------------------------------------------------------
(* What is read back of a robot is near to what was sent.                  *)
RobotNear(got, was) ==
  /\ was.id <= 254 => got.id = was.id
  /\ AngleNear(got.heading, was.heading)
  /\ PosInRange(was.pos) => PosNear(got.pos, was.pos)

SentPositions == [x : Int, y : Int]
SentRobots == [id : Nat, heading : Int, pos : SentPositions]
ReadRobots == [id : Int, heading : Int, pos : SentPositions]

(* A position is read back near to what was sent, wherever it lies.        *)
LEMMA PositionReadBack ==
  ASSUME NEW p \in SentPositions, NEW d, NEW o \in Nat,
         \A k \in 1 .. 2 : d[o + k] = PackVector(p)[k]
  PROVE  /\ UnpackVector(d, o) \in SentPositions
         /\ PosInRange(p) => PosNear(UnpackVector(d, o), p)
<1>1. d[o + 1] = compress_float(p.x) /\ d[o + 2] = compress_float(p.y)
  BY DEF PackVector
<1>2. UnpackVector(d, o) = [x |-> uncompress_float(compress_float(p.x)),
                            y |-> uncompress_float(compress_float(p.y))]
  BY <1>1 DEF UnpackVector
<1>3. p.x \in Int /\ p.y \in Int
  BY DEF SentPositions
<1>4. compress_float(p.x) \in Int /\ compress_float(p.y) \in Int
  BY <1>3, CompressBounds
<1>5. \A b \in Int : uncompress_float(b) \in Int
  BY DEF uncompress_float, Step
<1>6. PosInRange(p) => PosNear(UnpackVector(d, o), p)
  BY <1>2, <1>3, CompressPrecision DEF PosInRange, PosNear
<1> QED
  BY <1>2, <1>4, <1>5, <1>6 DEF SentPositions

(* And so is a robot.                                                      *)
LEMMA RobotReadBack ==
  ASSUME NEW r \in SentRobots, NEW d, NEW o \in Nat,
         \A k \in 1 .. 5 : d[o + k] = PackRobot(r)[k]
  PROVE  /\ UnpackRobot(d, o) \in ReadRobots
         /\ RobotNear(UnpackRobot(d, o), r)
<1> DEFINE a == pack_angle(r.heading)
           v == PackVector(r.pos)
           got == UnpackRobot(d, o)
<1>1. PackRobot(r) = <<compress_int(r.id), a[1], a[2], v[1], v[2]>>
  BY DEF PackRobot
<1>2. r.id \in Nat /\ r.heading \in Int /\ r.pos \in SentPositions
  BY DEF SentRobots
<1>3. /\ got.id = d[o + 1] /\ got.heading = unpack_angle(d, o + 1)
      /\ got.pos = UnpackVector(d, o + 3)
      /\ got = [id |-> got.id, heading |-> got.heading, pos |-> got.pos]
  BY DEF UnpackRobot, uncompress_int
<1> HIDE DEF got
<1>4. /\ d[o + 1] = compress_int(r.id)
      /\ d[o + 2] = a[1] /\ d[o + 3] = a[2]
      /\ d[o + 4] = v[1] /\ d[o + 5] = v[2]
  <2> HIDE DEF a, v
  <2> QED
    BY <1>1
<1>5. got.id \in Int /\ (r.id <= 254 => got.id = r.id)
  BY <1>2, <1>3, <1>4 DEF compress_int
<1>6. got.heading = unpack_angle(a, 0)
  <2> HIDE DEF a
  <2>1. (o + 1) + 1 = o + 2 /\ (o + 1) + 2 = o + 3
    OBVIOUS
  <2> QED
    BY <1>3, <1>4, <2>1 DEF unpack_angle
<1>7. /\ a[1] \in {0, 1} /\ a[2] \in 0 .. 254
      /\ Near(unpack_angle(a, 0), wrapped(r.heading))
  BY <1>2, AnglePrecision
<1>8. got.heading \in Int
  <2> HIDE DEF a
  <2> QED
    BY <1>6, <1>7 DEF unpack_angle, uncompress_float, Step
<1>9. AngleNear(got.heading, r.heading)
  <2>1. wrapped(r.heading) \in Int
    BY <1>2, WrappedRange
  <2>2. wrapped(r.heading) + 0 * Turn = wrapped(r.heading)
    BY <2>1 DEF Turn, HalfTurn, Step
  <2>3. Near(got.heading, wrapped(r.heading) + 0 * Turn)
    BY <1>6, <1>7, <2>2
  <2> QED
    BY <2>3 DEF AngleNear
<1>10. /\ got.pos \in SentPositions
       /\ PosInRange(r.pos) => PosNear(got.pos, r.pos)
  <2>1. \A k \in 1 .. 2 : d[(o + 3) + k] = v[k]
    <3> HIDE DEF v
    <3>1. (o + 3) + 1 = o + 4 /\ (o + 3) + 2 = o + 5
      OBVIOUS
    <3> QED
      BY <1>4, <3>1
  <2> QED
    BY <1>2, <1>3, <2>1, PositionReadBack
<1>11. got \in ReadRobots
  BY <1>3, <1>5, <1>8, <1>10 DEF ReadRobots
<1>12. RobotNear(got, r)
  BY <1>5, <1>9, <1>10 DEF RobotNear
<1> QED
  BY <1>11, <1>12 DEF got

(* The bytes d of a message of which r robots and b balls are written.     *)
LaidOut(f, d, r, b) ==
  /\ d \in Seq(Sendable) /\ Len(d) = 2 + 5 * r + 2 * b
  /\ d[1] = compress_int(Len(Robots(f))) /\ d[2] = compress_int(Len(Balls(f)))
  /\ \A i \in 1 .. r : \A k \in 1 .. 5 :
        d[2 + 5 * (i - 1) + k] = PackRobot(Robots(f)[i])[k]
  /\ \A i \in 1 .. b : \A k \in 1 .. 2 :
        d[2 + 5 * r + 2 * (i - 1) + k] = PackVector(Balls(f)[i])[k]

(* Bytes written come behind those before.                                 *)
LEMMA BytesAdded ==
  ASSUME NEW d \in Seq(Sendable), NEW p \in Seq(Sendable)
  PROVE  /\ d \o p \in Seq(Sendable) /\ Len(d \o p) = Len(d) + Len(p)
         /\ \A j \in 1 .. Len(d) : (d \o p)[j] = d[j]
         /\ \A k \in 1 .. Len(p) : (d \o p)[Len(d) + k] = p[k]
<1> DEFINE n == Len(d)
           m == Len(p)
<1>1. n \in Nat /\ m \in Nat
  BY LenProperties
<1>2. /\ d \o p \in Seq(Sendable) /\ Len(d \o p) = n + m
      /\ \A i \in 1 .. n + m : (d \o p)[i] = IF i <= n THEN d[i] ELSE p[i - n]
  BY ConcatProperties
<1> HIDE DEF n, m
<1>3. ASSUME NEW k \in 1 .. m
      PROVE  (d \o p)[n + k] = p[k]
  <2>1. n + k \in 1 .. n + m /\ ~(n + k <= n) /\ (n + k) - n = k
    BY <1>1
  <2> QED
    BY <1>2, <2>1
<1>4. ASSUME NEW j \in 1 .. n
      PROVE  (d \o p)[j] = d[j]
  <2>1. j \in 1 .. n + m /\ j <= n
    BY <1>1
  <2> QED
    BY <1>2, <2>1
<1> QED
  BY <1>2, <1>3, <1>4 DEF n, m

(* The places of r robots and b balls are within their message.            *)
LEMMA PlacesOfRobots ==
  ASSUME NEW r \in Nat, NEW b \in Nat, NEW i \in 1 .. r, NEW k \in 1 .. 5
  PROVE  2 + 5 * (i - 1) + k \in 1 .. 2 + 5 * r + 2 * b
OBVIOUS

(* And those of the balls.                                                 *)
LEMMA PlacesOfBalls ==
  ASSUME NEW r \in Nat, NEW b \in Nat, NEW i \in 1 .. b, NEW k \in 1 .. 2
  PROVE  2 + 5 * r + 2 * (i - 1) + k \in 1 .. 2 + 5 * r + 2 * b
OBVIOUS

(* A robot written lies behind those before.                               *)
LEMMA RobotIsLaidOut ==
  ASSUME NEW f, NEW d, NEW r \in Nat, LaidOut(f, d, r, 0),
         NEW p \in Seq(Sendable), Len(p) = 5,
         \A k \in 1 .. 5 : p[k] = PackRobot(Robots(f)[r + 1])[k]
  PROVE  LaidOut(f, d \o p, r + 1, 0)
<1>1. d \in Seq(Sendable) /\ Len(d) = 2 + 5 * r + 2 * 0
  BY DEF LaidOut
<1>2. /\ d \o p \in Seq(Sendable) /\ Len(d \o p) = 2 + 5 * (r + 1) + 2 * 0
      /\ \A j \in 1 .. Len(d) : (d \o p)[j] = d[j]
      /\ \A k \in 1 .. 5 : (d \o p)[Len(d) + k] = p[k]
  <2>1. /\ d \o p \in Seq(Sendable) /\ Len(d \o p) = Len(d) + Len(p)
        /\ \A j \in 1 .. Len(d) : (d \o p)[j] = d[j]
        /\ \A k \in 1 .. Len(p) : (d \o p)[Len(d) + k] = p[k]
    BY <1>1, BytesAdded, Zenon
  <2> DEFINE e == d \o p
  <2> HIDE DEF e
  <2>2. Len(e) = 2 + 5 * (r + 1) + 2 * 0
    BY <1>1, <2>1 DEF e
  <2> QED
    BY <2>1, <2>2 DEF e
<1> DEFINE e == d \o p
<1> HIDE DEF e
<1>3. e[1] = d[1] /\ e[2] = d[2]
  BY <1>1, <1>2 DEF e
<1>4. ASSUME NEW i \in 1 .. r + 1, NEW k \in 1 .. 5
      PROVE  e[2 + 5 * (i - 1) + k] = PackRobot(Robots(f)[i])[k]
  <2>1. CASE i = r + 1
    <3>1. 2 + 5 * (i - 1) + k = Len(d) + k
      BY <1>1, <2>1
    <3> QED
      BY <1>2, <2>1, <3>1 DEF e
  <2>2. CASE i \in 1 .. r
    <3>1. 0 \in Nat
      OBVIOUS
    <3>2. 2 + 5 * (i - 1) + k \in 1 .. Len(d)
      BY <1>1, <2>2, <3>1, PlacesOfRobots, Zenon
    <3>3. e[2 + 5 * (i - 1) + k] = d[2 + 5 * (i - 1) + k]
      BY <1>2, <3>2 DEF e
    <3> QED
      BY <2>2, <3>3 DEF LaidOut
  <2> QED
    BY <2>1, <2>2
<1>5. LaidOut(f, e, r + 1, 0)
  <2>1. e \in Seq(Sendable) /\ Len(e) = 2 + 5 * (r + 1) + 2 * 0
    BY <1>2 DEF e
  <2>2. /\ e[1] = compress_int(Len(Robots(f)))
        /\ e[2] = compress_int(Len(Balls(f)))
    BY <1>3 DEF LaidOut
  <2> QED
    BY <1>4, <2>1, <2>2 DEF LaidOut
<1> QED
  BY <1>5 DEF e

(* And a ball behind the robots.                                           *)
LEMMA BallIsLaidOut ==
  ASSUME NEW f, NEW d, NEW r \in Nat, NEW b \in Nat, LaidOut(f, d, r, b),
         NEW p \in Seq(Sendable), Len(p) = 2,
         \A k \in 1 .. 2 : p[k] = PackVector(Balls(f)[b + 1])[k]
  PROVE  LaidOut(f, d \o p, r, b + 1)
<1>1. d \in Seq(Sendable) /\ Len(d) = 2 + 5 * r + 2 * b
  BY DEF LaidOut
<1>2. /\ d \o p \in Seq(Sendable) /\ Len(d \o p) = 2 + 5 * r + 2 * (b + 1)
      /\ \A j \in 1 .. Len(d) : (d \o p)[j] = d[j]
      /\ \A k \in 1 .. 2 : (d \o p)[Len(d) + k] = p[k]
  <2>1. /\ d \o p \in Seq(Sendable) /\ Len(d \o p) = Len(d) + Len(p)
        /\ \A j \in 1 .. Len(d) : (d \o p)[j] = d[j]
        /\ \A k \in 1 .. Len(p) : (d \o p)[Len(d) + k] = p[k]
    BY <1>1, BytesAdded, Zenon
  <2> DEFINE e == d \o p
  <2> HIDE DEF e
  <2>2. Len(e) = 2 + 5 * r + 2 * (b + 1)
    BY <1>1, <2>1 DEF e
  <2> QED
    BY <2>1, <2>2 DEF e
<1> DEFINE e == d \o p
<1> HIDE DEF e
<1>3. e[1] = d[1] /\ e[2] = d[2]
  BY <1>1, <1>2 DEF e
<1>4. ASSUME NEW i \in 1 .. r, NEW k \in 1 .. 5
      PROVE  e[2 + 5 * (i - 1) + k] = PackRobot(Robots(f)[i])[k]
  <2>1. 2 + 5 * (i - 1) + k \in 1 .. Len(d)
    BY <1>1, PlacesOfRobots, Zenon
  <2>2. e[2 + 5 * (i - 1) + k] = d[2 + 5 * (i - 1) + k]
    BY <1>2, <2>1 DEF e
  <2> QED
    BY <2>2 DEF LaidOut
<1>5. ASSUME NEW i \in 1 .. b + 1, NEW k \in 1 .. 2
      PROVE  e[2 + 5 * r + 2 * (i - 1) + k] = PackVector(Balls(f)[i])[k]
  <2>1. CASE i = b + 1
    <3>1. 2 + 5 * r + 2 * (i - 1) + k = Len(d) + k
      BY <1>1, <2>1
    <3> QED
      BY <1>2, <2>1, <3>1 DEF e
  <2>2. CASE i \in 1 .. b
    <3>1. 2 + 5 * r + 2 * (i - 1) + k \in 1 .. Len(d)
      BY <1>1, <2>2, PlacesOfBalls, Zenon
    <3>2. e[2 + 5 * r + 2 * (i - 1) + k] = d[2 + 5 * r + 2 * (i - 1) + k]
      BY <1>2, <3>1 DEF e
    <3> QED
      BY <2>2, <3>2 DEF LaidOut
  <2> QED
    BY <2>1, <2>2
<1>6. LaidOut(f, e, r, b + 1)
  <2>1. e \in Seq(Sendable) /\ Len(e) = 2 + 5 * r + 2 * (b + 1)
    BY <1>2 DEF e
  <2>2. /\ e[1] = compress_int(Len(Robots(f)))
        /\ e[2] = compress_int(Len(Balls(f)))
    BY <1>3 DEF LaidOut
  <2> QED
    BY <1>4, <1>5, <2>1, <2>2 DEF LaidOut
<1> QED
  BY <1>6 DEF e

(***************************************************************************)
(* send_data() lays out the bytes, unpack() reads them in the same places. *)
(***************************************************************************)
NumRobots(f) == Len(Robots(f))
NumBalls(f) == Len(Balls(f))
FitsHeader(f) == NumRobots(f) <= 254 /\ NumBalls(f) <= 254

NothingRead(f, off, inf) ==
  off = 0 /\ inf = [header |-> Header(f), robots |-> <<>>, balls |-> <<>>]

(* The first r robots and b balls have been read, up to the offset.        *)
ReadSoFar(f, off, inf, r, b) ==
  /\ off = 2 + 5 * r + 2 * b
  /\ inf = [header |-> Header(f), robots |-> inf.robots, balls |-> inf.balls]
  /\ inf.robots \in Seq(ReadRobots) /\ Len(inf.robots) = r
  /\ \A i \in 1 .. r : RobotNear(inf.robots[i], Robots(f)[i])
  /\ inf.balls \in Seq(SentPositions) /\ Len(inf.balls) = b
  /\ \A i \in 1 .. b :
        PosInRange(Balls(f)[i]) => PosNear(inf.balls[i], Balls(f)[i])

(* What has been written and read in the phase p, with i objects done.     *)
Stage(f, p, i, d, off, inf) ==
  CASE p = "write header" -> NothingRead(f, off, inf) /\ d = <<>>
    [] p = "write robots" -> /\ NothingRead(f, off, inf)
                             /\ i <= NumRobots(f) /\ LaidOut(f, d, i, 0)
    [] p = "write balls" ->
          /\ NothingRead(f, off, inf)
          /\ i <= NumBalls(f) /\ LaidOut(f, d, NumRobots(f), i)
    [] p = "read header" -> /\ NothingRead(f, off, inf)
                            /\ LaidOut(f, d, NumRobots(f), NumBalls(f))
    [] p = "read robots" -> FitsHeader(f) =>
          /\ i <= NumRobots(f) /\ ReadSoFar(f, off, inf, i, 0)
          /\ LaidOut(f, d, NumRobots(f), NumBalls(f))
    [] p = "read balls" -> FitsHeader(f) =>
          /\ i <= NumBalls(f) /\ ReadSoFar(f, off, inf, NumRobots(f), i)
          /\ LaidOut(f, d, NumRobots(f), NumBalls(f))
    [] p = "done" -> FitsHeader(f) =>
          /\ ReadSoFar(f, off, inf, NumRobots(f), NumBalls(f))
          /\ LaidOut(f, d, NumRobots(f), NumBalls(f))
    [] OTHER -> p = "raised"

MessageInv == /\ frame \in DetectionFrames /\ index \in Nat
              /\ Stage(frame, phase, index, data, offset, info)

(* What is read at the end is what was sent.                               *)
LEMMA MessageInvInverts == MessageInv => UnpackInvertsSend
<1> DEFINE n == NumRobots(frame)
           m == NumBalls(frame)
<1> SUFFICES ASSUME MessageInv, phase = "done", FitsHeader(frame)
             PROVE  /\ info.header = Header(frame)
                    /\ Len(info.robots) = n /\ Len(info.balls) = m
                    /\ offset = Len(data)
                    /\ \A i \in 1 .. n :
                          RobotNear(info.robots[i], Robots(frame)[i])
                    /\ \A i \in 1 .. m :
                          PosInRange(Balls(frame)[i])
                             => PosNear(info.balls[i], Balls(frame)[i])
  BY DEF UnpackInvertsSend, FitsHeader, NumRobots, NumBalls, RobotNear
<1>1. ReadSoFar(frame, offset, info, n, m) /\ LaidOut(frame, data, n, m)
  BY DEF MessageInv, Stage
<1> HIDE DEF n, m
<1>2. info.header = Header(frame)
  BY <1>1 DEF ReadSoFar
<1> QED
  BY <1>1, <1>2 DEF ReadSoFar, LaidOut

(* What a frame has of robots and balls.                                   *)
LEMMA CountsAreNatural ==
  ASSUME NEW f \in DetectionFrames
  PROVE  /\ Robots(f) \in Seq(SentRobots) /\ NumRobots(f) \in Nat
         /\ Balls(f) \in Seq(SentPositions) /\ NumBalls(f) \in Nat
         /\ Header(f) = [num_robots |-> NumRobots(f), num_balls |-> NumBalls(f)]
<1>1. Robots(f) \in Seq(SentRobots) /\ Balls(f) \in Seq(SentPositions)
  BY ItemsAreNumbers DEF SentRobots, SentPositions
<1>2. Header(f) = [num_robots |-> NumRobots(f), num_balls |-> NumBalls(f)]
  <2> DEFINE y == f.robots_yellow
             b == f.robots_blue
             found == y \o b
  <2>1. /\ y \in Seq(DetectionRobots) /\ b \in Seq(DetectionRobots)
        /\ f.balls \in Seq(DetectionBalls)
    BY FrameAssumption
  <2>2. found \in Seq(DetectionRobots) /\ Len(found) = Len(y) + Len(b)
    BY <2>1, ConcatProperties
  <2>3. Len(found) \in Nat /\ Len(f.balls) \in Nat
    BY <2>1, <2>2, LenProperties
  <2>4. DOMAIN Robots(f) = 1 .. Len(found)
        /\ DOMAIN Balls(f) = 1 .. Len(f.balls)
    BY DEF Robots, Balls
  <2> HIDE DEF found
  <2>5. NumRobots(f) = Len(found) /\ NumBalls(f) = Len(f.balls)
    BY <1>1, <2>3, <2>4, LenProperties DEF NumRobots, NumBalls
  <2> QED
    BY <2>2, <2>5 DEF Header
<1> QED
  BY <1>1, <1>2, LenProperties DEF NumRobots, NumBalls

(* The object that is next is one of the frame's.                          *)
LEMMA NextIsSent ==
  ASSUME NEW S, NEW s \in Seq(S), NEW i \in Nat, i < Len(s)
  PROVE  s[i + 1] \in S /\ i + 1 \in 1 .. Len(s) /\ i + 1 <= Len(s)
<1>1. Len(s) \in Nat
  BY LenProperties
<1>2. i + 1 \in 1 .. Len(s) /\ i + 1 <= Len(s)
  BY <1>1
<1> QED
  BY <1>2, ElementOfSeq

(* A step keeps the invariant if the stage that it comes to holds.         *)
LEMMA StageIsReached ==
  ASSUME frame \in DetectionFrames, frame' = frame,
         NEW p, NEW i \in Nat, NEW d, NEW off, NEW inf,
         phase' = p, index' = i, data' = d, offset' = off, info' = inf,
         Stage(frame, p, i, d, off, inf)
  PROVE  MessageInv'
<1>1. Stage(frame', phase', index', data', offset', info')
  OBVIOUS
<1>2. frame' \in DetectionFrames /\ index' \in Nat
  OBVIOUS
<1> QED
  BY <1>1, <1>2 DEF MessageInv

(* The header comes first.                                                 *)
LEMMA HeaderIsWritten ==
  ASSUME MessageInv, WriteHeader
  PROVE  MessageInv'
<1> DEFINE bytes == PackHeader(Header(frame))
<1>1. /\ frame' = frame /\ info' = info /\ offset' = offset /\ index' = 0
      /\ phase = "write header" /\ phase' = "write robots"
      /\ data' = data \o bytes
  BY DEF WriteHeader, NextPhase
<1>2. frame \in DetectionFrames /\ NothingRead(frame, offset, info) /\ data = <<>>
  BY <1>1 DEF MessageInv, Stage
<1>3. bytes = <<compress_int(NumRobots(frame)), compress_int(NumBalls(frame))>>
  BY <1>2, CountsAreNatural DEF PackHeader
<1>4. bytes \in Seq(Sendable)
  BY <1>2, HeaderBytes
<1>5. data' = bytes
  BY <1>1, <1>2, <1>4, ConcatEmptySeq
<1> HIDE DEF bytes
<1>6. LaidOut(frame, bytes, 0, 0)
  <2>1. /\ Len(bytes) = 2 /\ bytes[1] = compress_int(NumRobots(frame))
        /\ bytes[2] = compress_int(NumBalls(frame))
    BY <1>3
  <2> QED
    BY <1>4, <2>1 DEF LaidOut, NumRobots, NumBalls
<1>7. 0 <= NumRobots(frame)
  BY <1>2, CountsAreNatural
<1>8. Stage(frame, "write robots", 0, bytes, offset, info)
  BY <1>2, <1>6, <1>7 DEF Stage
<1> QED
  BY <1>1, <1>2, <1>5, <1>8, StageIsReached

(* A robot is written behind those before, or the message is given up.     *)
LEMMA RobotIsWritten ==
  ASSUME MessageInv, WriteRobot
  PROVE  MessageInv'
<1> DEFINE r == Robots(frame)[index + 1]
           bytes == PackRobot(r)
<1>1. /\ frame' = frame /\ info' = info /\ offset' = offset
      /\ phase = "write robots" /\ Write(bytes)
  BY DEF WriteRobot
<1>2. /\ frame \in DetectionFrames /\ index \in Nat
      /\ NothingRead(frame, offset, info) /\ LaidOut(frame, data, index, 0)
  BY <1>1 DEF MessageInv, Stage
<1>3. r \in SentRobots /\ index + 1 <= NumRobots(frame)
  <2>1. index < Len(Robots(frame))
    BY DEF WriteRobot
  <2>2. Robots(frame) \in Seq(SentRobots)
    BY <1>2, CountsAreNatural
  <2> QED
    BY <1>2, <2>1, <2>2, NextIsSent DEF NumRobots
<1>4. index + 1 \in Nat
  BY <1>2
<1>5. CASE Packs(bytes)
  <2>1. /\ data' = data \o bytes /\ index' = index + 1 /\ phase' = phase
    BY <1>1, <1>5 DEF Write
  <2>2. bytes \in Seq(Sendable)
    BY <1>3, <1>5, RobotBytes DEF SentRobots, SentPositions
  <2>3. Len(bytes) = 5
    BY DEF PackRobot
  <2>4. \A k \in 1 .. 5 : bytes[k] = PackRobot(Robots(frame)[index + 1])[k]
    OBVIOUS
  <2> HIDE DEF bytes
  <2>5. LaidOut(frame, data \o bytes, index + 1, 0)
    BY <1>2, <2>2, <2>3, <2>4, RobotIsLaidOut
  <2>6. Stage(frame, "write robots", index + 1, data \o bytes, offset, info)
    BY <1>2, <1>3, <2>5 DEF Stage
  <2> HIDE DEF r
  <2> QED
    BY <1>1, <1>2, <1>4, <2>1, <2>6, StageIsReached
<1>6. CASE ~Packs(bytes)
  <2>1. phase' = "raised" /\ UNCHANGED <<data, index>>
    BY <1>1, <1>6 DEF Write
  <2>2. Stage(frame, "raised", index, data, offset, info)
    BY DEF Stage
  <2> QED
    BY <1>1, <1>2, <2>1, <2>2, StageIsReached
<1> QED
  BY <1>5, <1>6

(* A ball is written behind the robots, or the message is given up.        *)
LEMMA BallIsWritten ==
  ASSUME MessageInv, WriteBall
  PROVE  MessageInv'
<1> DEFINE b == Balls(frame)[index + 1]
           bytes == PackVector(b)
<1>1. /\ frame' = frame /\ info' = info /\ offset' = offset
      /\ phase = "write balls" /\ Write(bytes)
  BY DEF WriteBall
<1>2. /\ frame \in DetectionFrames /\ index \in Nat
      /\ NothingRead(frame, offset, info)
      /\ LaidOut(frame, data, NumRobots(frame), index)
  BY <1>1 DEF MessageInv, Stage
<1>3. b \in SentPositions /\ index + 1 <= NumBalls(frame)
  <2>1. index < Len(Balls(frame))
    BY DEF WriteBall
  <2>2. Balls(frame) \in Seq(SentPositions)
    BY <1>2, CountsAreNatural
  <2> QED
    BY <1>2, <2>1, <2>2, NextIsSent DEF NumBalls
<1>4. index + 1 \in Nat
  BY <1>2
<1>5. CASE Packs(bytes)
  <2>1. /\ data' = data \o bytes /\ index' = index + 1 /\ phase' = phase
    BY <1>1, <1>5 DEF Write
  <2>2. bytes \in Seq(Sendable)
    <3>1. b.x \in Int /\ b.y \in Int
      BY <1>3 DEF SentPositions
    <3> HIDE DEF b
    <3> QED
      BY <1>5, <3>1, VectorBytes
  <2>3. Len(bytes) = 2
    BY DEF PackVector
  <2>4. \A k \in 1 .. 2 : bytes[k] = PackVector(Balls(frame)[index + 1])[k]
    OBVIOUS
  <2>5. NumRobots(frame) \in Nat
    BY <1>2, CountsAreNatural
  <2> HIDE DEF bytes
  <2>6. LaidOut(frame, data \o bytes, NumRobots(frame), index + 1)
    BY <1>2, <2>2, <2>3, <2>4, <2>5, BallIsLaidOut
  <2>7. Stage(frame, "write balls", index + 1, data \o bytes, offset, info)
    BY <1>2, <1>3, <2>6 DEF Stage
  <2> HIDE DEF b
  <2> QED
    BY <1>1, <1>2, <1>4, <2>1, <2>7, StageIsReached
<1>6. CASE ~Packs(bytes)
  <2>1. phase' = "raised" /\ UNCHANGED <<data, index>>
    BY <1>1, <1>6 DEF Write
  <2>2. Stage(frame, "raised", index, data, offset, info)
    BY DEF Stage
  <2> QED
    BY <1>1, <1>2, <2>1, <2>2, StageIsReached
<1> QED
  BY <1>5, <1>6

(* From one part of the message to the next.                               *)
LEMMA PartsFollow ==
  ASSUME MessageInv,
         RobotsWritten \/ BallsWritten \/ RobotsRead \/ BallsRead
  PROVE  MessageInv'
<1> DEFINE n == NumRobots(frame)
           m == NumBalls(frame)
           Moved(from, to) ==
             /\ phase = from /\ phase' = to /\ index' = 0
             /\ UNCHANGED <<frame, data, offset, info>>
<1>1. /\ frame \in DetectionFrames /\ index \in Nat
      /\ Stage(frame, phase, index, data, offset, info)
  BY DEF MessageInv
<1>2. n \in Nat /\ m \in Nat /\ Header(frame) = [num_robots |-> n, num_balls |-> m]
  BY <1>1, CountsAreNatural
<1>3. ASSUME NEW to, index' = 0, phase' = to,
             UNCHANGED <<frame, data, offset, info>>,
             Stage(frame, to, 0, data, offset, info)
      PROVE  MessageInv'
  BY <1>1, <1>3, StageIsReached
<1>4. CASE RobotsWritten
  <2>1. Moved("write robots", "write balls") /\ index = n
    BY <1>4 DEF RobotsWritten, NextPhase, NumRobots
  <2>2. NothingRead(frame, offset, info) /\ LaidOut(frame, data, n, 0)
    BY <1>1, <2>1 DEF Stage
  <2>3. 0 <= m
    BY <1>2
  <2>4. Stage(frame, "write balls", 0, data, offset, info)
    BY <2>2, <2>3 DEF Stage
  <2> QED
    BY <1>3, <2>1, <2>4
<1>5. CASE BallsWritten
  <2>1. Moved("write balls", "read header") /\ index = m
    BY <1>5 DEF BallsWritten, NextPhase, NumBalls
  <2>2. NothingRead(frame, offset, info) /\ LaidOut(frame, data, n, m)
    BY <1>1, <2>1 DEF Stage
  <2>3. Stage(frame, "read header", 0, data, offset, info)
    BY <2>2 DEF Stage
  <2> QED
    BY <1>3, <2>1, <2>3
<1>6. CASE RobotsRead
  <2>1. Moved("read robots", "read balls") /\ index = info.header.num_robots
    BY <1>6 DEF RobotsRead, NextPhase
  <2>2. ASSUME FitsHeader(frame)
        PROVE  /\ 0 <= m /\ ReadSoFar(frame, offset, info, n, 0)
               /\ LaidOut(frame, data, n, m)
    <3>1. ReadSoFar(frame, offset, info, index, 0) /\ LaidOut(frame, data, n, m)
      BY <1>1, <2>1, <2>2 DEF Stage
    <3>2. info.header = Header(frame)
      BY <3>1 DEF ReadSoFar
    <3>3. index = info.header.num_robots
      BY <2>1
    <3>4. Header(frame).num_robots = n
      BY <1>2
    <3>5. index = n
      BY <3>2, <3>3, <3>4
    <3> QED
      BY <1>2, <3>1, <3>5
  <2>3. Stage(frame, "read balls", 0, data, offset, info)
    BY <2>2 DEF Stage
  <2> QED
    BY <1>3, <2>1, <2>3
<1>7. CASE BallsRead
  <2>1. Moved("read balls", "done") /\ index = info.header.num_balls
    BY <1>7 DEF BallsRead, NextPhase
  <2>2. ASSUME FitsHeader(frame)
        PROVE  /\ ReadSoFar(frame, offset, info, n, m)
               /\ LaidOut(frame, data, n, m)
    <3>1. ReadSoFar(frame, offset, info, n, index) /\ LaidOut(frame, data, n, m)
      BY <1>1, <2>1, <2>2 DEF Stage
    <3>2. info.header = Header(frame)
      BY <3>1 DEF ReadSoFar
    <3>3. index = info.header.num_balls
      BY <2>1
    <3>4. Header(frame).num_balls = m
      BY <1>2
    <3>5. index = m
      BY <3>2, <3>3, <3>4
    <3> QED
      BY <3>1, <3>5
  <2>3. Stage(frame, "done", 0, data, offset, info)
    BY <2>2 DEF Stage
  <2> QED
    BY <1>3, <2>1, <2>3
<1> QED
  BY <1>4, <1>5, <1>6, <1>7

(* The counts of the header say how many objects are to be read.           *)
LEMMA HeaderIsRead ==
  ASSUME MessageInv, ReadHeader
  PROVE  MessageInv'
<1> DEFINE n == NumRobots(frame)
           m == NumBalls(frame)
           new == [info EXCEPT !.header = UnpackHeader(data)]
<1>1. /\ frame \in DetectionFrames /\ NothingRead(frame, offset, info)
      /\ LaidOut(frame, data, n, m)
  BY DEF MessageInv, Stage, ReadHeader, NextPhase
<1>2. /\ frame' = frame /\ phase' = "read robots" /\ index' = 0 /\ data' = data
      /\ offset' = offset + HeaderSize /\ info' = new
  BY DEF ReadHeader, NextPhase
<1>3. /\ n \in Nat /\ m \in Nat
      /\ Header(frame) = [num_robots |-> n, num_balls |-> m]
  BY <1>1, CountsAreNatural
<1>4. ASSUME FitsHeader(frame)
      PROVE  UnpackHeader(data) = Header(frame)
  <2>1. data[1] = compress_int(n) /\ data[2] = compress_int(m)
    BY <1>1 DEF LaidOut, NumRobots, NumBalls
  <2>2. compress_int(n) = n /\ compress_int(m) = m
    BY <1>3, <1>4 DEF FitsHeader, compress_int
  <2>3. UnpackHeader(data) = [num_robots |-> n, num_balls |-> m]
    BY <2>1, <2>2 DEF UnpackHeader, uncompress_int
  <2> QED
    BY <1>3, <2>3
<1>5. new = [header |-> UnpackHeader(data), robots |-> <<>>, balls |-> <<>>]
  BY <1>1 DEF NothingRead
<1>6. ASSUME FitsHeader(frame)
      PROVE  ReadSoFar(frame, offset + HeaderSize, new, 0, 0)
  <2>1. offset + HeaderSize = 2 + 5 * 0 + 2 * 0
    BY <1>1 DEF NothingRead, HeaderSize
  <2>2. new = [header |-> Header(frame), robots |-> <<>>, balls |-> <<>>]
    BY <1>4, <1>5, <1>6
  <2>3. /\ <<>> \in Seq(ReadRobots) /\ <<>> \in Seq(SentPositions)
        /\ Len(<<>>) = 0
    OBVIOUS
  <2> HIDE DEF new
  <2> QED
    BY <2>1, <2>2, <2>3 DEF ReadSoFar
<1>7. 0 <= n
  BY <1>3
<1> HIDE DEF n, m, new
<1>8. Stage(frame, "read robots", 0, data, offset + HeaderSize, new)
  BY <1>1, <1>6, <1>7 DEF Stage, n, m
<1> QED
  BY <1>1, <1>2, <1>8, StageIsReached

(* A robot is read from where it was written.                              *)
LEMMA RobotIsRead ==
  ASSUME MessageInv, ReadRobot
  PROVE  MessageInv'
<1> DEFINE n == NumRobots(frame)
           m == NumBalls(frame)
           got == UnpackRobot(data, offset)
           new == [info EXCEPT !.robots = Append(@, got)]
<1>1. /\ frame \in DetectionFrames /\ index \in Nat /\ phase = "read robots"
      /\ Stage(frame, "read robots", index, data, offset, info)
  BY DEF MessageInv, ReadRobot
<1>2. /\ frame' = frame /\ phase' = "read robots" /\ index' = index + 1
      /\ data' = data /\ offset' = offset + RobotSize /\ info' = new
      /\ index < info.header.num_robots
  BY DEF ReadRobot
<1>3. index \in Nat /\ index + 1 \in Nat
  <2>1. index \in Nat
    BY <1>1
  <2> QED
    BY <2>1
<1>4. /\ n \in Nat /\ m \in Nat
      /\ Header(frame) = [num_robots |-> n, num_balls |-> m]
      /\ Robots(frame) \in Seq(SentRobots)
  BY <1>1, CountsAreNatural
<1>5. ASSUME FitsHeader(frame)
      PROVE  /\ index + 1 <= n
             /\ ReadSoFar(frame, offset + RobotSize, new, index + 1, 0)
             /\ LaidOut(frame, data, n, m)
  <2>1. ReadSoFar(frame, offset, info, index, 0) /\ LaidOut(frame, data, n, m)
    BY <1>1, <1>5 DEF Stage
  <2>2. info.header = Header(frame)
    BY <2>1 DEF ReadSoFar
  <2>3. Header(frame).num_robots = n
    BY <1>4
  <2>4. index < n
    BY <1>2, <2>2, <2>3
  <2> DEFINE r == Robots(frame)[index + 1]
  <2>5. r \in SentRobots /\ index + 1 \in 1 .. n /\ index + 1 <= n
    BY <1>1, <1>4, <2>4, NextIsSent DEF NumRobots
  <2>6. offset = 2 + 5 * index + 2 * 0
    BY <2>1 DEF ReadSoFar
  <2>7. /\ offset = 2 + 5 * ((index + 1) - 1) /\ offset \in Nat
        /\ offset + RobotSize = 2 + 5 * (index + 1) + 2 * 0
    BY <1>3, <2>6 DEF RobotSize, VectorSize
  <2>8. got \in ReadRobots /\ RobotNear(got, r)
    <3>1. \A k \in 1 .. 5 : data[offset + k] = PackRobot(r)[k]
      BY <2>1, <2>5, <2>7 DEF LaidOut
    <3> HIDE DEF r
    <3> QED
      BY <2>5, <2>7, <3>1, RobotReadBack
  <2> HIDE DEF r, got
  <2>9. /\ new = [header |-> Header(frame),
                  robots |-> Append(info.robots, got), balls |-> info.balls]
        /\ info.robots \in Seq(ReadRobots) /\ Len(info.robots) = index
        /\ info.balls \in Seq(SentPositions) /\ Len(info.balls) = 0
    <3> DEFINE rs == info.robots
               bs == info.balls
    <3>1. info = [header |-> Header(frame), robots |-> rs, balls |-> bs]
      BY <2>1 DEF ReadSoFar
    <3> HIDE DEF rs, bs
    <3>2. new = [header |-> Header(frame), robots |-> Append(rs, got), balls |-> bs]
      BY <3>1
    <3> QED
      BY <2>1, <3>2 DEF ReadSoFar, rs, bs
  <2> HIDE DEF new
  <2>10. /\ Append(info.robots, got) \in Seq(ReadRobots)
         /\ Len(Append(info.robots, got)) = index + 1
         /\ \A i \in 1 .. index : Append(info.robots, got)[i] = info.robots[i]
         /\ Append(info.robots, got)[index + 1] = got
    BY <2>8, <2>9, AppendProperties
  <2>11. \A i \in 1 .. index + 1 : RobotNear(new.robots[i], Robots(frame)[i])
    <3> TAKE i \in 1 .. index + 1
    <3>1. CASE i = index + 1
      BY <2>8, <2>9, <2>10, <3>1 DEF r
    <3>2. CASE i \in 1 .. index
      BY <2>1, <2>9, <2>10, <3>2 DEF ReadSoFar
    <3> QED
      BY <1>3, <3>1, <3>2
  <2>12. \A i \in 1 .. 0 :
            PosInRange(Balls(frame)[i]) => PosNear(new.balls[i], Balls(frame)[i])
    OBVIOUS
  <2>13. ReadSoFar(frame, offset + RobotSize, new, index + 1, 0)
    BY <2>7, <2>9, <2>10, <2>11, <2>12 DEF ReadSoFar
  <2> QED
    BY <2>1, <2>5, <2>13
<1> HIDE DEF n, m, got, new
<1>6. Stage(frame, "read robots", index + 1, data, offset + RobotSize, new)
  BY <1>5 DEF Stage, n, m
<1> QED
  BY <1>1, <1>2, <1>3, <1>6, StageIsReached

(* And a ball behind the robots.                                           *)
LEMMA BallIsRead ==
  ASSUME MessageInv, ReadBall
  PROVE  MessageInv'
<1> DEFINE n == NumRobots(frame)
           m == NumBalls(frame)
           got == UnpackVector(data, offset)
           new == [info EXCEPT !.balls = Append(@, got)]
<1>1. /\ frame \in DetectionFrames /\ index \in Nat /\ phase = "read balls"
      /\ Stage(frame, "read balls", index, data, offset, info)
  BY DEF MessageInv, ReadBall
<1>2. /\ frame' = frame /\ phase' = "read balls" /\ index' = index + 1
      /\ data' = data /\ offset' = offset + VectorSize /\ info' = new
      /\ index < info.header.num_balls
  BY DEF ReadBall
<1>3. index \in Nat /\ index + 1 \in Nat
  <2>1. index \in Nat
    BY <1>1
  <2> QED
    BY <2>1
<1>4. /\ n \in Nat /\ m \in Nat
      /\ Header(frame) = [num_robots |-> n, num_balls |-> m]
      /\ Balls(frame) \in Seq(SentPositions)
  BY <1>1, CountsAreNatural
<1>5. ASSUME FitsHeader(frame)
      PROVE  /\ index + 1 <= m
             /\ ReadSoFar(frame, offset + VectorSize, new, n, index + 1)
             /\ LaidOut(frame, data, n, m)
  <2>1. ReadSoFar(frame, offset, info, n, index) /\ LaidOut(frame, data, n, m)
    BY <1>1, <1>5 DEF Stage
  <2>2. info.header = Header(frame)
    BY <2>1 DEF ReadSoFar
  <2>3. Header(frame).num_balls = m
    BY <1>4
  <2>4. index < m
    BY <1>2, <2>2, <2>3
  <2> DEFINE b == Balls(frame)[index + 1]
  <2>5. b \in SentPositions /\ index + 1 \in 1 .. m /\ index + 1 <= m
    BY <1>1, <1>4, <2>4, NextIsSent DEF NumBalls
  <2>6. offset = 2 + 5 * n + 2 * index
    BY <2>1 DEF ReadSoFar
  <2>7. /\ offset = 2 + 5 * n + 2 * ((index + 1) - 1) /\ offset \in Nat
        /\ offset + VectorSize = 2 + 5 * n + 2 * (index + 1)
    <3>1. n \in Nat
      BY <1>4
    <3> HIDE DEF n
    <3> QED
      BY <1>3, <2>6, <3>1 DEF VectorSize
  <2>8. got \in SentPositions /\ (PosInRange(b) => PosNear(got, b))
    <3>1. \A k \in 1 .. 2 : data[offset + k] = PackVector(b)[k]
      BY <2>1, <2>5, <2>7 DEF LaidOut
    <3> HIDE DEF b
    <3> QED
      BY <2>5, <2>7, <3>1, PositionReadBack
  <2> HIDE DEF b, got
  <2>9. /\ new = [header |-> Header(frame),
                  robots |-> info.robots, balls |-> Append(info.balls, got)]
        /\ info.robots \in Seq(ReadRobots) /\ Len(info.robots) = n
        /\ info.balls \in Seq(SentPositions) /\ Len(info.balls) = index
    <3> DEFINE rs == info.robots
               bs == info.balls
    <3>1. info = [header |-> Header(frame), robots |-> rs, balls |-> bs]
      BY <2>1 DEF ReadSoFar
    <3> HIDE DEF rs, bs
    <3>2. new = [header |-> Header(frame), robots |-> rs, balls |-> Append(bs, got)]
      BY <3>1
    <3> QED
      BY <2>1, <3>2 DEF ReadSoFar, rs, bs
  <2> HIDE DEF new
  <2>10. /\ Append(info.balls, got) \in Seq(SentPositions)
         /\ Len(Append(info.balls, got)) = index + 1
         /\ \A i \in 1 .. index : Append(info.balls, got)[i] = info.balls[i]
         /\ Append(info.balls, got)[index + 1] = got
    BY <2>8, <2>9, AppendProperties
  <2>11. \A i \in 1 .. index + 1 :
            PosInRange(Balls(frame)[i]) => PosNear(new.balls[i], Balls(frame)[i])
    <3> TAKE i \in 1 .. index + 1
    <3>1. CASE i = index + 1
      BY <2>8, <2>9, <2>10, <3>1 DEF b
    <3>2. CASE i \in 1 .. index
      BY <2>1, <2>9, <2>10, <3>2 DEF ReadSoFar
    <3> QED
      BY <1>3, <3>1, <3>2
  <2>12. \A i \in 1 .. n : RobotNear(new.robots[i], Robots(frame)[i])
    BY <2>1, <2>9 DEF ReadSoFar
  <2> HIDE DEF n
  <2>13. ReadSoFar(frame, offset + VectorSize, new, n, index + 1)
    BY <2>7, <2>9, <2>10, <2>11, <2>12 DEF ReadSoFar
  <2> QED
    BY <2>1, <2>5, <2>13
<1> HIDE DEF n, m, got, new
<1>6. Stage(frame, "read balls", index + 1, data, offset + VectorSize, new)
  BY <1>5 DEF Stage, n, m
<1> QED
  BY <1>1, <1>2, <1>3, <1>6, StageIsReached

(***************************************************************************)
(* FieldInfo.unpack() gives back what FieldInfo.send_data() was given, for *)
(* every frame: each robot and ball comes back in its place, to half a     *)
(* packed unit, as long as the counts fit the header's two bytes.          *)
(***************************************************************************)
THEOREM MessagesComeBack == Spec => []UnpackInvertsSend
<1>1. Init => MessageInv
  <2> SUFFICES ASSUME Init PROVE MessageInv
    OBVIOUS
  <2>1. frame \in DetectionFrames /\ index = 0 /\ phase = "write header"
    BY DEF Init
  <2>2. NothingRead(frame, offset, info) /\ data = <<>>
    BY DEF Init, NothingRead
  <2>3. Stage(frame, "write header", index, data, offset, info)
    BY <2>2 DEF Stage
  <2> QED
    BY <2>1, <2>3 DEF MessageInv
<1>2. MessageInv /\ [Next]_messageVars => MessageInv'
  <2>1. MessageInv /\ UNCHANGED messageVars => MessageInv'
    BY DEF MessageInv, messageVars
  <2> QED
    BY <2>1, HeaderIsWritten, RobotIsWritten, BallIsWritten, PartsFollow,
       HeaderIsRead, RobotIsRead, BallIsRead DEF Next
<1>3. MessageInv => UnpackInvertsSend
  BY MessageInvInverts
<1> QED
  BY <1>1, <1>2, <1>3, PTL DEF Spec

(***************************************************************************)
(* RobotLink: the bytes of messages at the robot. The robot reads some     *)
(* bytes at a time, a header, a robot or a ball, from a stream that may    *)
(* break off or lack a byte.                                               *)
(***************************************************************************)
(* Every byte of a message is a number.                                    *)
LEMMA MessageBytes ==
  ASSUME NEW n \in Counts
  PROVE  Message(n[1], n[2]) \in Seq(Nat)
<1>1. n[1] \in Nat /\ n[2] \in Nat
  BY LinkAssumption
<1>2. ASSUME NEW i \in Nat, NEW j \in 1 .. 5 PROVE Robot(i)[j] \in Nat
  BY DEF Robot
<1>3. ASSUME NEW i \in Nat, NEW j \in 1 .. 2 PROVE Ball(i)[j] \in Nat
  BY DEF Ball
<1>4. ASSUME NEW m \in Nat PROVE RobotsSent(m) \in Seq(Nat)
  <2>1. ASSUME NEW k \in 1 .. 5 * m
        PROVE  1 + (k - 1) \div 5 \in Nat /\ 1 + ((k - 1) % 5) \in 1 .. 5
    OBVIOUS
  <2>2. ASSUME NEW k \in 1 .. 5 * m
        PROVE  Robot(1 + (k - 1) \div 5)[1 + ((k - 1) % 5)] \in Nat
    BY <1>2, <2>1
  <2>3. RobotsSent(m) \in [1 .. 5 * m -> Nat]
    BY <2>2 DEF RobotsSent
  <2> QED BY <2>3
<1>5. ASSUME NEW m \in Nat PROVE BallsSent(m) \in Seq(Nat)
  <2>1. ASSUME NEW k \in 1 .. 2 * m
        PROVE  1 + (k - 1) \div 2 \in Nat /\ 1 + ((k - 1) % 2) \in 1 .. 2
    OBVIOUS
  <2>2. ASSUME NEW k \in 1 .. 2 * m
        PROVE  Ball(1 + (k - 1) \div 2)[1 + ((k - 1) % 2)] \in Nat
    BY <1>3, <2>1
  <2>3. BallsSent(m) \in [1 .. 2 * m -> Nat]
    BY <2>2 DEF BallsSent
  <2> QED BY <2>3
<1>6. <<n[1], n[2]>> \in Seq(Nat)
  BY <1>1
<1>7. RobotsSent(n[1]) \in Seq(Nat) /\ BallsSent(n[2]) \in Seq(Nat)
  BY <1>1, <1>4, <1>5
<1> QED BY <1>6, <1>7 DEF Message

(* The smaller of two numbers.                                             *)
LEMMA MinOfTwo ==
  ASSUME NEW a \in Nat, NEW b \in Nat
  PROVE  Min({a, b}) \in Nat /\ Min({a, b}) <= b
<1>1. \E x \in {a, b} : \A y \in {a, b} : x <= y
  BY Z3
<1>2. Min({a, b}) \in {a, b} /\ \A y \in {a, b} : Min({a, b}) <= y
  BY <1>1 DEF Min
<1> QED BY <1>2

(* The larger of two numbers.                                              *)
LEMMA MaxOfTwo ==
  ASSUME NEW a \in Nat, NEW b \in Nat
  PROVE  Max({a, b}) \in Nat
<1>1. \E x \in {a, b} : \A y \in {a, b} : x >= y
  BY Z3
<1>2. Max({a, b}) \in {a, b}
  BY <1>1 DEF Max
<1> QED BY <1>2
----------------------------------------------------------------------------
(* The places in the program of the robot, what it enters for a robot, and *)
(* what it keeps of a message's header.                                    *)
Phases == {"check", "raw", "write", "text", "header", "robots", "balls",
           "done", "stopped"}
Infos == [id : Nat, pos : Nat \X Nat]
Headers == [numRobots : 0 .. MAX_ROBOTS, numBalls : Int,
            robots : Nat, balls : Nat]

InMessage == robotPc \in {"robots", "balls"}

(* Every variable has its type, the header within a message only.          *)
LinkTypes ==
  /\ robotPc \in Phases
  /\ toRobot \in Seq(Nat) /\ buffer \in Seq(Nat) /\ taken \in Seq(Nat)
  /\ robotInfo \in Seq(Infos)
  /\ InMessage => header \in Headers

(* The buffer holds the bytes read last, no more than were asked for.      *)
BufferIsTail ==
  /\ Reading \/ buffer = <<>>
  /\ Reading => Len(buffer) <= Wanted[robotPc]
  /\ Len(buffer) <= Len(taken)
  /\ \A j \in 1 .. Len(buffer) :
        buffer[j] = taken[Len(taken) - Len(buffer) + j]

(* How many of the robots have been read.                                  *)
RobotsCounted ==
  /\ InMessage => header.robots <= Len(robotInfo)
  /\ robotPc = "robots" => header.robots < header.numRobots
  /\ robotPc = "balls" => header.robots = header.numRobots

(* The entry i is of the five bytes after the first p.                     *)
FromPlace(i, p) ==
  p \in Nat /\ robotInfo[i] = [id |-> taken[p + 1],
                               pos |-> <<taken[p + 4], taken[p + 5]>>]
Place(i) == Len(taken) - Len(buffer) - 5 * (header.robots - i) - 5

RobotsFromStream ==
  robotPc = "robots" \/ (robotPc = "balls" /\ header.balls = 0) =>
      \A i \in 1 .. header.robots : FromPlace(i, Place(i))

LinkInv == LinkTypes /\ BufferIsTail /\ RobotsCounted /\ RobotsFromStream

(* The invariant holds before the robot has read anything.                 *)
LEMMA LinkInitially == LinkInit => LinkInv
<1> SUFFICES ASSUME LinkInit PROVE LinkInv OBVIOUS
<1>1. /\ robotPc = "check" /\ buffer = <<>> /\ taken = <<>>
      /\ robotInfo = <<>> /\ toRobot = <<>>
  BY DEF LinkInit
<1>2. LinkTypes
  BY <1>1 DEF LinkTypes, Phases, InMessage
<1>3. BufferIsTail
  BY <1>1 DEF BufferIsTail, Reading, Wanted
<1> QED BY <1>1, <1>2, <1>3
        DEF LinkInv, RobotsCounted, RobotsFromStream, InMessage

(* What the computer does puts bytes on the link and nothing else.         *)
LEMMA ComputerKeeps == LinkInv /\ ComputerStep => LinkInv'
<1> SUFFICES ASSUME LinkInv, ComputerStep PROVE LinkInv' OBVIOUS
<1>1. UNCHANGED readerVars
  BY DEF ComputerStep, ReadHello, WriteHello, WriteMarker, WriteMessage
<1>2. ASSUME NEW bytes \in Seq(Nat), WriteToRobot(bytes)
      PROVE  toRobot' \in Seq(Nat)
  BY <1>2 DEF WriteToRobot, LinkInv, LinkTypes
<1>3. toRobot' \in Seq(Nat)
  <2>1. CASE ReadHello
    BY <2>1 DEF ReadHello, LinkInv, LinkTypes
  <2>2. CASE WriteHello
    <3>1. HelloRobot \in Seq(Nat)
      BY DEF HelloRobot
    <3> QED BY <2>2, <3>1, <1>2 DEF WriteHello
  <2>3. CASE WriteMarker
    <3>1. <<255, 255>> \in Seq(Nat)
      OBVIOUS
    <3> QED BY <2>3, <3>1, <1>2 DEF WriteMarker
  <2>4. CASE WriteMessage
    BY <2>4, <1>2, MessageBytes DEF WriteMessage
  <2> QED BY <2>1, <2>2, <2>3, <2>4 DEF ComputerStep
<1> QED BY <1>1, <1>3 DEF readerVars, LinkInv, LinkTypes, BufferIsTail,
       Reading, RobotsCounted, RobotsFromStream, InMessage, FromPlace, Place

(* Before and after the messages nothing is read, or a text.               *)
LEMMA OutsideKeeps ==
  /\ LinkInv
  /\ BTcheckLinkConnected \/ BTenableRawMode \/ WriteToPC \/ TextRead
  => LinkInv'
<1> SUFFICES ASSUME LinkInv,
                    \/ BTcheckLinkConnected \/ BTenableRawMode
                    \/ WriteToPC \/ TextRead
             PROVE  LinkInv'
  OBVIOUS
<1>1. /\ UNCHANGED <<toRobot, header, robotInfo, ballPositions, taken>>
      /\ robotPc' \in Phases \ {"robots", "balls"}
  BY DEF BTcheckLinkConnected, BTenableRawMode, WriteToPC, TextRead,
     HaveRead, Phases
<1>2. buffer' = <<>>
  <2>1. CASE TextRead
    BY <2>1 DEF TextRead, HaveRead
  <2>2. CASE BTcheckLinkConnected \/ BTenableRawMode \/ WriteToPC
    <3>1. robotPc \in {"check", "raw", "write"} /\ buffer' = buffer
      BY <2>2 DEF BTcheckLinkConnected, BTenableRawMode, WriteToPC
    <3>2. ~Reading
      BY <3>1 DEF Reading, Wanted
    <3> QED BY <3>1, <3>2 DEF LinkInv, BufferIsTail
  <2> QED BY <2>1, <2>2
<1>3. LinkTypes'
  BY <1>1, <1>2 DEF LinkInv, LinkTypes, InMessage
<1>4. BufferIsTail'
  BY <1>1, <1>2 DEF LinkInv, LinkTypes, BufferIsTail, Reading, Wanted
<1> QED BY <1>1, <1>3, <1>4 DEF LinkInv, RobotsCounted, RobotsFromStream,
       InMessage

(* A byte goes to the end of the buffer and of what was taken.             *)
LEMMA ReadKeeps == LinkInv /\ BTreadBytes => LinkInv'
<1> SUFFICES ASSUME LinkInv, BTreadBytes PROVE LinkInv' OBVIOUS
<1> DEFINE b == Head(toRobot)
<1>1. /\ UNCHANGED <<robotPc, header, robotInfo>>
      /\ Reading /\ Len(buffer) < Wanted[robotPc] /\ toRobot # <<>>
      /\ buffer' = Append(buffer, b) /\ taken' = Append(taken, b)
      /\ toRobot' = Tail(toRobot)
  BY DEF BTreadBytes
<1>2. /\ toRobot \in Seq(Nat) /\ buffer \in Seq(Nat) /\ taken \in Seq(Nat)
  BY DEF LinkInv, LinkTypes
<1>3. b \in Nat /\ toRobot' \in Seq(Nat)
  BY <1>1, <1>2
<1> HIDE DEF b
<1>4. /\ buffer' \in Seq(Nat) /\ Len(buffer') = Len(buffer) + 1
      /\ taken' \in Seq(Nat) /\ Len(taken') = Len(taken) + 1
      /\ buffer'[Len(buffer) + 1] = b /\ taken'[Len(taken) + 1] = b
      /\ \A j \in 1 .. Len(buffer) : buffer'[j] = buffer[j]
      /\ \A j \in 1 .. Len(taken) : taken'[j] = taken[j]
  BY <1>1, <1>2, <1>3
<1>5. LinkTypes'
  BY <1>1, <1>3, <1>4 DEF LinkInv, LinkTypes, InMessage
<1>6. Len(buffer) \in Nat /\ Len(taken) \in Nat
  BY <1>2
<1>7. BufferIsTail'
  <2>1. Reading' /\ Len(buffer') <= Wanted[robotPc']
    <3>1. Wanted[robotPc] \in Nat
      BY <1>1 DEF Reading, Wanted
    <3> QED BY <1>1, <1>4, <1>6, <3>1 DEF Reading
  <2>2. Len(buffer') <= Len(taken')
    BY <1>4, <1>6 DEF LinkInv, BufferIsTail
  <2>3. ASSUME NEW j \in 1 .. Len(buffer')
        PROVE  buffer'[j] = taken'[Len(taken') - Len(buffer') + j]
    <3>1. Len(taken') - Len(buffer') + j = Len(taken) - Len(buffer) + j
      BY <1>4, <1>6
    <3>2. CASE j = Len(buffer) + 1
      <4>1. Len(taken) - Len(buffer) + j = Len(taken) + 1
        BY <3>2, <1>6
      <4> QED BY <3>1, <3>2, <4>1, <1>4
    <3>3. CASE j \in 1 .. Len(buffer)
      <4>1. Len(taken) - Len(buffer) + j \in 1 .. Len(taken)
        BY <3>3, <1>6 DEF LinkInv, BufferIsTail
      <4>2. buffer[j] = taken[Len(taken) - Len(buffer) + j]
        BY <3>3 DEF LinkInv, BufferIsTail
      <4> QED BY <3>1, <3>3, <4>1, <4>2, <1>4
    <3> QED BY <3>2, <3>3, <1>4, <1>6
  <2> QED BY <2>1, <2>2, <2>3 DEF BufferIsTail
<1>8. RobotsCounted'
  BY <1>1 DEF LinkInv, RobotsCounted, InMessage
<1>9. RobotsFromStream'
  <2> SUFFICES ASSUME \/ robotPc = "robots"
                      \/ robotPc = "balls" /\ header.balls = 0,
                      NEW i \in 1 .. header.robots
               PROVE  FromPlace(i, Place(i))'
    BY <1>1 DEF RobotsFromStream
  <2>1. FromPlace(i, Place(i))
    BY DEF LinkInv, RobotsFromStream
  <2>2. header.robots \in Nat
    BY DEF LinkInv, LinkTypes, InMessage, Headers
  <2>3. Place(i)' = Place(i) /\ Place(i) + 5 <= Len(taken)
    <3> DEFINE h == header.robots
               a == Len(taken)
               b2 == Len(buffer)
    <3>1. /\ Place(i) = a - b2 - 5 * (h - i) - 5
          /\ Place(i)' = (a + 1) - (b2 + 1) - 5 * (h - i) - 5
      BY <1>1, <1>4 DEF Place
    <3>2. a \in Nat /\ b2 \in Nat /\ h \in Nat /\ i \in 1 .. h
      BY <1>6, <2>2
    <3> HIDE DEF h, a, b2
    <3>3. /\ (a + 1) - (b2 + 1) - 5 * (h - i) - 5 = a - b2 - 5 * (h - i) - 5
          /\ a - b2 - 5 * (h - i) - 5 + 5 <= a
      BY <3>2
    <3> QED BY <3>1, <3>3 DEF a
  <2>4. Place(i) \in Nat
    BY <2>1 DEF FromPlace
  <2> DEFINE p == Place(i)
  <2> HIDE DEF p
  <2>5. /\ p + 1 \in 1 .. Len(taken) /\ p + 4 \in 1 .. Len(taken)
        /\ p + 5 \in 1 .. Len(taken)
    BY <2>3, <2>4, <1>6 DEF p
  <2>6. /\ taken'[p + 1] = taken[p + 1] /\ taken'[p + 4] = taken[p + 4]
        /\ taken'[p + 5] = taken[p + 5]
    BY <2>5, <1>4
  <2>7. FromPlace(i, p)'
    BY <2>1, <2>3, <2>4, <2>6, <1>1 DEF FromPlace, p
  <2> QED BY <2>7 DEF p
<1> QED BY <1>5, <1>7, <1>8, <1>9 DEF LinkInv

(* Where a whole part of a message has been read.                          *)
LEMMA PartRead ==
  ASSUME LinkInv, NEW at \in {"header", "robots", "balls"}, HaveRead(at)
  PROVE  /\ UNCHANGED <<toRobot, taken>> /\ buffer' = <<>>
         /\ buffer \in Seq(Nat) /\ taken \in Seq(Nat)
         /\ Len(buffer) = Wanted[at] /\ Len(buffer) <= Len(taken)
         /\ \A j \in 1 .. Len(buffer) :
               buffer[j] = taken[Len(taken) - Len(buffer) + j]
         /\ robotPc' \in {"header", "robots", "balls"} => BufferIsTail'
<1>1. /\ UNCHANGED <<toRobot, taken>> /\ buffer' = <<>>
      /\ Len(buffer) = Wanted[at]
  BY DEF HaveRead
<1>2. ASSUME robotPc' \in {"header", "robots", "balls"}
      PROVE  BufferIsTail'
  <2>1. Len(buffer') = 0 /\ Reading' /\ Wanted[robotPc'] \in Nat
    BY <1>1, <1>2 DEF Reading, Wanted
  <2>2. Len(taken') \in Nat
    BY <1>1 DEF LinkInv, LinkTypes
  <2> QED BY <2>1, <2>2 DEF BufferIsTail
<1> QED BY <1>1, <1>2 DEF LinkInv, LinkTypes, BufferIsTail

(* A header starts the lists again, for no more robots than they hold.     *)
LEMMA HeaderKeeps == LinkInv /\ COMreadHeader => LinkInv'
<1> SUFFICES ASSUME LinkInv, COMreadHeader PROVE LinkInv' OBVIOUS
<1>1. HaveRead("header")
  BY DEF COMreadHeader
<1>0. /\ UNCHANGED <<toRobot, taken>> /\ buffer' = <<>>
      /\ buffer \in Seq(Nat) /\ Len(buffer) = Wanted["header"]
  BY <1>1, PartRead
<1>2. buffer[1] \in Nat /\ buffer[2] \in Nat
  <2>1. Wanted["header"] = 2
    BY DEF Wanted
  <2>2. buffer \in Seq(Nat) /\ Len(buffer) = 2
    BY <1>0, <2>1
  <2>3. \A j \in 1 .. Len(buffer) : buffer[j] \in Nat
    BY <2>2, ElementOfSeq, Zenon
  <2>4. 1 \in 1 .. Len(buffer) /\ 2 \in 1 .. Len(buffer)
    BY <2>2
  <2> QED BY <2>3, <2>4
<1> DEFINE robots == Min({buffer[1], MAX_ROBOTS})
           balls == Max({buffer[2], MAX_BALLS})
<1>3. robots \in 0 .. MAX_ROBOTS
  BY <1>2, MinOfTwo, LinkAssumption
<1>4. balls \in Nat
  BY <1>2, MaxOfTwo, LinkAssumption
<1>5. /\ header' = [numRobots |-> robots, numBalls |-> balls,
                    robots |-> 0, balls |-> 0]
      /\ robotPc' = (IF header'.numRobots = 0 THEN "balls" ELSE "robots")
      /\ UNCHANGED <<robotInfo, ballPositions>>
  BY DEF COMreadHeader
<1> HIDE DEF robots, balls
<1>6. header' \in Headers /\ header'.robots = 0
  BY <1>3, <1>4, <1>5 DEF Headers
<1>7. robotPc' \in {"robots", "balls"}
  BY <1>5
<1>8. LinkTypes'
  BY <1>0, <1>5, <1>6, <1>7 DEF LinkInv, LinkTypes, Phases
<1>9. RobotsCounted'
  <2>1. Len(robotInfo) \in Nat
    BY DEF LinkInv, LinkTypes
  <2>2. CASE robots = 0
    BY <1>5, <2>1, <2>2 DEF RobotsCounted
  <2>3. CASE robots # 0
    BY <1>3, <1>5, <2>1, <2>3, LinkAssumption DEF RobotsCounted
  <2> QED BY <2>2, <2>3
<1>10. RobotsFromStream'
  BY <1>6 DEF RobotsFromStream
<1> QED BY <1>1, <1>7, <1>8, <1>9, <1>10, PartRead DEF LinkInv

(* The balls leave the robots where they are.                              *)
LEMMA BallsKeep == LinkInv /\ COMreadBalls => LinkInv'
<1> SUFFICES ASSUME LinkInv, COMreadBalls PROVE LinkInv' OBVIOUS
<1>1. HaveRead("balls") /\ robotPc = "balls"
  BY DEF COMreadBalls, HaveRead
<1>2. header \in Headers
  BY <1>1 DEF LinkInv, LinkTypes, InMessage
<1>3. /\ header' = [header EXCEPT !.balls = @ + 1]
      /\ UNCHANGED robotInfo
      /\ robotPc' = (IF header'.balls = header.numBalls
                     THEN "header" ELSE "balls")
  BY DEF COMreadBalls
<1>4. /\ header' \in Headers /\ header'.robots = header.robots
      /\ header'.numRobots = header.numRobots
      /\ header'.balls = header.balls + 1
  BY <1>2, <1>3 DEF Headers
<1>5. header'.balls # 0
  BY <1>2, <1>4 DEF Headers
<1>6. robotPc' \in {"header", "balls"}
  BY <1>3
<1>7. LinkTypes'
  <2>1. UNCHANGED <<toRobot, taken>> /\ buffer' = <<>>
    BY <1>1, PartRead
  <2> QED BY <2>1, <1>3, <1>4, <1>6 DEF LinkInv, LinkTypes, Phases
<1>8. RobotsCounted'
  BY <1>1, <1>3, <1>4, <1>6 DEF LinkInv, RobotsCounted, InMessage
<1>9. RobotsFromStream'
  BY <1>5, <1>6 DEF RobotsFromStream
<1> QED BY <1>1, <1>6, <1>7, <1>8, <1>9, PartRead DEF LinkInv

(* An entry goes to its place, and the ones before it stay.                *)
LEMMA PutEntry ==
  ASSUME NEW S, NEW list \in Seq(S), NEW e \in S,
         NEW i \in 1 .. Len(list) + 1
  PROVE  /\ Put(list, i, e) \in Seq(S) /\ i <= Len(Put(list, i, e))
         /\ Put(list, i, e)[i] = e
         /\ \A j \in 1 .. i - 1 : Put(list, i, e)[j] = list[j]
<1>1. CASE i <= Len(list)
  <2>1. Put(list, i, e) = [list EXCEPT ![i] = e]
    BY <1>1 DEF Put
  <2> QED BY <1>1, <2>1
<1>2. CASE i = Len(list) + 1
  <2>1. Put(list, i, e) = Append(list, e)
    BY <1>2 DEF Put
  <2> QED BY <1>2, <2>1
<1> QED BY <1>1, <1>2

(* A robot is entered from the five bytes read last.                       *)
LEMMA RobotsKeep == LinkInv /\ COMreadRoboInfo => LinkInv'
<1> SUFFICES ASSUME LinkInv, COMreadRoboInfo PROVE LinkInv' OBVIOUS
<1>1. HaveRead("robots") /\ robotPc = "robots"
  BY DEF COMreadRoboInfo, HaveRead
<1>2. /\ UNCHANGED <<toRobot, taken>> /\ buffer' = <<>>
      /\ buffer \in Seq(Nat) /\ taken \in Seq(Nat)
      /\ Len(buffer) = 5 /\ 5 <= Len(taken)
      /\ \A j \in 1 .. 5 : buffer[j] = taken[Len(taken) - 5 + j]
      /\ robotPc' \in {"header", "robots", "balls"} => BufferIsTail'
  <2>1. Wanted["robots"] = 5
    BY DEF Wanted
  <2> QED BY <1>1, <2>1, PartRead
<1>3. header \in Headers
  BY <1>1 DEF LinkInv, LinkTypes, InMessage
<1> DEFINE r == header.robots
           e == [id |-> buffer[1], pos |-> <<buffer[4], buffer[5]>>]
<1>4. /\ header' = [header EXCEPT !.robots = @ + 1]
      /\ robotInfo' = Put(robotInfo, header'.robots, e)
      /\ robotPc' = (IF header'.robots = header.numRobots
                     THEN "balls" ELSE "robots")
  BY DEF COMreadRoboInfo
<1>5. /\ header' \in Headers /\ header'.robots = r + 1
      /\ header'.numRobots = header.numRobots /\ r \in Nat
      /\ header.numRobots \in Nat
  BY <1>3, <1>4, LinkAssumption DEF Headers
<1>6. e \in Infos
  <2>1. buffer \in Seq(Nat)
    BY <1>2
  <2>2. \A j \in 1 .. Len(buffer) : buffer[j] \in Nat
    BY <2>1, ElementOfSeq, Zenon
  <2>3. \A j \in {1, 4, 5} : j \in 1 .. Len(buffer)
    BY <1>2
  <2>4. buffer[1] \in Nat /\ buffer[4] \in Nat /\ buffer[5] \in Nat
    BY <2>2, <2>3, Zenon
  <2> QED BY <2>4 DEF Infos
<1>7. /\ robotInfo \in Seq(Infos) /\ r <= Len(robotInfo)
      /\ r < header.numRobots
  BY <1>1 DEF LinkInv, LinkTypes, RobotsCounted, InMessage
<1>8. robotPc' \in {"robots", "balls"}
  BY <1>4
<1>9. e = [id |-> taken[Len(taken) - 5 + 1],
           pos |-> <<taken[Len(taken) - 5 + 4], taken[Len(taken) - 5 + 5]>>]
  <2>1. \A j \in 1 .. 5 : buffer[j] = taken[Len(taken) - 5 + j]
    BY <1>2
  <2>2. /\ buffer[1] = taken[Len(taken) - 5 + 1]
        /\ buffer[4] = taken[Len(taken) - 5 + 4]
        /\ buffer[5] = taken[Len(taken) - 5 + 5]
    BY <2>1
  <2> QED BY <2>2
<1> HIDE DEF r, e
<1>10. r + 1 \in 1 .. Len(robotInfo) + 1
  BY <1>5, <1>7
<1>11. /\ robotInfo' \in Seq(Infos) /\ r + 1 <= Len(robotInfo')
       /\ robotInfo'[r + 1] = e
       /\ \A j \in 1 .. (r + 1) - 1 : robotInfo'[j] = robotInfo[j]
  BY <1>4, <1>5, <1>6, <1>7, <1>10, PutEntry
<1>12. LinkTypes'
  BY <1>2, <1>5, <1>8, <1>11 DEF LinkInv, LinkTypes, Phases
<1>13. RobotsCounted'
  <2>1. robotPc' = "balls" => header'.robots = header'.numRobots
    BY <1>4, <1>5
  <2>2. robotPc' = "robots" => header'.robots < header'.numRobots
    <3>1. robotPc' = "robots" => r + 1 # header.numRobots
      BY <1>4, <1>5
    <3> QED BY <1>5, <1>7, <3>1
  <2> QED BY <1>5, <1>11, <2>1, <2>2 DEF RobotsCounted
<1>14. RobotsFromStream'
  <2> SUFFICES ASSUME NEW i \in 1 .. r + 1 PROVE FromPlace(i, Place(i))'
    BY <1>5 DEF RobotsFromStream
  <2>1. /\ Len(taken) \in Nat /\ Len(buffer) = 5 /\ Len(buffer') = 0
        /\ r \in Nat /\ i \in Nat
    BY <1>2, <1>5
  <2>2. Place(i)' = Len(taken) - 5 * (r + 1 - i) - 5
    BY <1>2, <1>5, <2>1 DEF Place
  <2>3. CASE i = r + 1
    <3> DEFINE p == Len(taken) - 5
    <3>1. Place(i)' = p
      BY <2>1, <2>2, <2>3
    <3>2. p \in Nat
      BY <1>2, <2>1
    <3>3. robotInfo'[i] = [id |-> taken[p + 1],
                           pos |-> <<taken[p + 4], taken[p + 5]>>]
      BY <1>9, <1>11, <2>3
    <3> HIDE DEF p
    <3>4. robotInfo'[i] = [id |-> taken'[p + 1],
                           pos |-> <<taken'[p + 4], taken'[p + 5]>>]
      BY <3>3, <1>2
    <3> QED BY <3>1, <3>2, <3>4 DEF FromPlace
  <2>4. CASE i \in 1 .. r
    <3>1. FromPlace(i, Place(i))
      BY <1>1, <2>4 DEF LinkInv, RobotsFromStream, r
    <3>2. Place(i)' = Place(i)
      <4>1. Place(i) = Len(taken) - 5 - 5 * (r - i) - 5
        BY <1>2 DEF Place, r
      <4> QED BY <2>1, <2>2, <4>1
    <3>3. robotInfo'[i] = robotInfo[i]
      BY <1>11, <2>1, <2>4
    <3> DEFINE p == Place(i)
    <3>4. FromPlace(i, p)'
      BY <3>1, <3>2, <3>3, <1>2 DEF FromPlace
    <3> QED BY <3>4
  <2> QED BY <2>1, <2>3, <2>4
<1> QED BY <1>2, <1>8, <1>12, <1>13, <1>14 DEF LinkInv

(* The invariant of the robot's reader holds whatever is sent, and when.   *)
THEOREM LinkInvariance == LinkSpec => []LinkInv
<1>1. LinkInv /\ [LinkNext]_linkVars => LinkInv'
  <2> SUFFICES ASSUME LinkInv, [LinkNext]_linkVars PROVE LinkInv' OBVIOUS
  <2>1. CASE UNCHANGED linkVars
    BY <2>1 DEF linkVars, readerVars, LinkInv, LinkTypes, BufferIsTail,
       Reading, RobotsCounted, RobotsFromStream, InMessage, FromPlace, Place
  <2> QED BY <2>1, ComputerKeeps, OutsideKeeps, ReadKeeps, HeaderKeeps,
             RobotsKeep, BallsKeep DEF LinkNext, RobotStep
<1> QED BY LinkInitially, <1>1, PTL DEF LinkSpec

(* When the robots of a message have been read the list holds them, each   *)
(* from its own place in what was read, and there is room for them.        *)
THEOREM ListsHoldTheMessage == LinkSpec => []ListsFollowStream
<1>1. ASSUME LinkInv PROVE ListsFollowStream
  <2> SUFFICES ASSUME robotPc = "balls", buffer = <<>>, header.balls = 0
               PROVE  /\ header.numRobots <= MAX_ROBOTS
                      /\ \A i \in 1 .. header.numRobots :
                           LET e == Entry(5 * (header.numRobots - i), 5)
                           IN  robotInfo[i] = [id |-> e[1],
                                               pos |-> <<e[4], e[5]>>]
    BY DEF ListsFollowStream
  <2>1. /\ header.numRobots \in 0 .. MAX_ROBOTS
        /\ header.robots = header.numRobots
        /\ taken \in Seq(Nat)
    BY <1>1 DEF LinkInv, LinkTypes, RobotsCounted, InMessage, Headers
  <2>2. header.numRobots \in Nat /\ header.numRobots <= MAX_ROBOTS
    BY <2>1, LinkAssumption
  <2>3. ASSUME NEW i \in 1 .. header.numRobots
        PROVE  LET e == Entry(5 * (header.numRobots - i), 5)
               IN  robotInfo[i] = [id |-> e[1], pos |-> <<e[4], e[5]>>]
    <3> DEFINE k == 5 * (header.numRobots - i)
               p == Place(i)
               e == Entry(k, 5)
    <3>1. FromPlace(i, p)
      BY <1>1, <2>1 DEF LinkInv, RobotsFromStream
    <3>2. k \in Nat /\ Len(taken) \in Nat
      BY <2>1, <2>2
    <3>3. p = Len(taken) - k - 5
      BY <2>1, <2>2 DEF Place
    <3>4. e = SubSeq(taken, Len(taken) - k - 5 + 1, Len(taken) - k)
      BY DEF Entry
    <3>5. p \in Nat /\ robotInfo[i] = [id |-> taken[p + 1],
                                       pos |-> <<taken[p + 4], taken[p + 5]>>]
      BY <3>1 DEF FromPlace
    <3> HIDE DEF k, p, e
    <3>6. Len(taken) - k - 5 + 1 = p + 1 /\ Len(taken) - k = p + 5
      BY <3>2, <3>3, <3>5
    <3>7. e = SubSeq(taken, p + 1, p + 5)
      BY <3>4, <3>6
    <3>8. p + 5 <= Len(taken)
      BY <3>2, <3>3, <3>5
    <3>9. /\ e[1] = taken[p + 1] /\ e[4] = taken[p + 4]
          /\ e[5] = taken[p + 5]
      BY <2>1, <3>5, <3>7, <3>8
    <3>10. robotInfo[i] = [id |-> e[1], pos |-> <<e[4], e[5]>>]
      BY <3>5, <3>9
    <3> QED BY <3>10 DEF e, k
  <2> QED BY <2>2, <2>3
<1> QED BY <1>1, LinkInvariance, PTL

(***************************************************************************)
(* TeamSelection: one team is chosen in three places, and a detector that  *)
(* is made for it while frames are processed.                              *)
(***************************************************************************)
(* What process() can be about.                                            *)
Frames == [at : {"none", "lookup", "update", "use"}, reinit : BOOLEAN,
           team : 0 .. Len(teamNames)]

(* What the threads know of the teams has a type.                          *)
TeamTypes ==
  /\ teamNames \in Seq(TeamNames)
  /\ teamData \in Seq(Nat) /\ Len(teamData) = Len(teamNames)
  /\ currentTeam \in 0 .. Len(teamNames) /\ edited \in 0 .. Len(teamNames)
  /\ notified \in BOOLEAN /\ postedChange \in BOOLEAN
  /\ process \in Frames

(* Without a detector the next frame makes one, or the one under way.      *)
DetectorToCome ==
  detector = NoTeam => IF process.at = "none" THEN notified
                                              ELSE process.reinit

(* A frame works with the current team, or the change has been signalled.  *)
FrameHasTeam ==
  process.at = "use" /\ process.team # currentTeam => notified \/ postedChange

(* Where the detector is not the current team's, somebody will notice.     *)
Unnoticed == ~notified /\ ~postedChange /\ edited # currentTeam
FrameWillInit == process.reinit /\ process.at # "none"
ChangeIsNoticed ==
  /\ currentTeam # 0 /\ Unnoticed /\ ~FrameWillInit
  => detector = [team |-> currentTeam, data |-> teamData[currentTeam]]

TeamInv == /\ TeamTypes /\ DetectorToCome /\ FrameHasTeam /\ ChangeIsNoticed

(* A team is selected from the list, whatever the selector shows.          *)
LEMMA SelectedIsTeam ==
  ASSUME NEW t \in Threads, TeamTypes, SelectTeam(t)
  PROVE  currentTeam' \in 0 .. Len(teamNames)
<1> DEFINE named == {i \in DOMAIN labels : labels[i] = chosen'}
           i == CHOOSE i \in named : \A j \in named : i <= j
<1>1. currentTeam' = 0 \/ currentTeam' = getTeam(i)
  BY DEF SelectTeam
<1>2. getTeam(i) \in 0 .. Len(teamNames)
  BY DEF getTeam, TeamTypes
<1> QED BY <1>1, <1>2 DEF TeamTypes

(* The invariant holds at the start: a frame will make the detector.       *)
LEMMA TeamInitially == TeamInit => TeamInv
<1> SUFFICES ASSUME TeamInit PROVE TeamInv OBVIOUS
<1>0. /\ currentTeam = Len(teamNames) /\ edited = 0
      /\ notified \in BOOLEAN /\ postedChange \in BOOLEAN
      /\ process = NoFrame
  BY DEF TeamInit
<1>1. ASSUME teamNames = <<>> PROVE TeamTypes
  <2>1. teamNames \in Seq(TeamNames) /\ Len(teamNames) = 0
        /\ teamData \in Seq(Nat) /\ Len(teamData) = 0
    BY <1>1 DEF TeamInit
  <2>2. NoFrame \in Frames
    BY <2>1 DEF NoFrame, Frames
  <2> QED BY <1>0, <2>1, <2>2 DEF TeamTypes
<1>2. ASSUME NEW n \in TeamNames, teamNames = <<n>> PROVE TeamTypes
  <2>1. teamNames \in Seq(TeamNames) /\ Len(teamNames) = 1
    BY <1>2
  <2>2. teamData \in Seq(Nat) /\ Len(teamData) = 1
    BY <1>2 DEF TeamInit
  <2>3. NoFrame \in Frames
    BY <2>1 DEF NoFrame, Frames
  <2> QED BY <1>0, <2>1, <2>2, <2>3 DEF TeamTypes
<1>3. TeamTypes
  <2>1. CASE teamNames = <<>>
    BY <1>1, <2>1
  <2>2. CASE \E n \in TeamNames : teamNames = <<n>>
    BY <1>2, <2>2
  <2> QED BY <2>1, <2>2 DEF TeamInit
<1> QED BY <1>3 DEF TeamInit, TeamInv, DetectorToCome, FrameHasTeam,
       ChangeIsNoticed, Unnoticed, NoFrame

(* The steps of update() up to the last change no more than the selector.  *)
LEMMA UpdateUnselected ==
  ASSUME NEW t \in Threads, TeamInv,
         ResizeSelector(t) \/ ReadSelected(t) \/ LabelTeams(t)
  PROVE  TeamInv'
<1>1. UNCHANGED <<teamNames, teamData, currentTeam, notified, postedChange,
                  edited, process, detector>>
  BY DEF ResizeSelector, ReadSelected, LabelTeams
<1> QED BY <1>1 DEF TeamInv, TeamTypes, Frames, DetectorToCome, FrameHasTeam,
       ChangeIsNoticed, Unnoticed, FrameWillInit

(* The last one may change the team, but signals it.                       *)
LEMMA SelectSignals ==
  ASSUME NEW t \in Threads, TeamInv, SelectTeam(t)
  PROVE  TeamInv'
<1>1. currentTeam' \in 0 .. Len(teamNames)
  BY SelectedIsTeam DEF TeamInv
<1>2. /\ UNCHANGED <<teamNames, teamData, edited, process, detector>>
      /\ \/ notified' = TRUE /\ postedChange' = postedChange
         \/ notified' = notified /\ postedChange' = TRUE
  BY DEF SelectTeam, signalTeamDataChanged
<1> QED BY <1>1, <1>2 DEF TeamInv, TeamTypes, Frames, DetectorToCome, FrameHasTeam,
       ChangeIsNoticed, Unnoticed, FrameWillInit

(* A new team is not the current one yet.                                  *)
LEMMA AddKeeps == TeamInv /\ AddTeam => TeamInv'
<1> SUFFICES ASSUME TeamInv, AddTeam PROVE TeamInv' OBVIOUS
<1>1. PICK n \in Unused : teamNames' = Append(teamNames, n)
  BY DEF AddTeam
<1>2. /\ teamNames' \in Seq(TeamNames)
      /\ Len(teamNames') = Len(teamNames) + 1
  BY <1>1 DEF TeamInv, TeamTypes, Unused
<1>3. /\ teamData' \in Seq(Nat) /\ Len(teamData') = Len(teamData) + 1
      /\ \A i \in 1 .. Len(teamData) : teamData'[i] = teamData[i]
  BY DEF TeamInv, TeamTypes, AddTeam
<1>4. Len(teamNames) \in Nat
  BY DEF TeamInv, TeamTypes, Frames
<1>5. TeamTypes'
  <2>1. /\ currentTeam' \in 0 .. Len(teamNames')
        /\ edited' \in 0 .. Len(teamNames')
    BY <1>2, <1>4 DEF TeamInv, TeamTypes, AddTeam
  <2>2. notified' \in BOOLEAN /\ postedChange' \in BOOLEAN
    BY DEF TeamInv, TeamTypes, AddTeam
  <2>3. process' = process /\ process \in Frames
    BY DEF TeamInv, TeamTypes, AddTeam
  <2>4. process' \in Frames'
    BY <1>2, <1>4, <2>3 DEF Frames
  <2> QED BY <1>2, <1>3, <2>1, <2>2, <2>4 DEF TeamInv, TeamTypes
<1>6. currentTeam # 0 => teamData'[currentTeam] = teamData[currentTeam]
  BY <1>3, <1>4 DEF TeamInv, TeamTypes, Frames
<1> QED BY <1>5, <1>6 DEF TeamInv, DetectorToCome, FrameHasTeam,
       ChangeIsNoticed, Unnoticed, FrameWillInit, AddTeam

(* An edit of the current team is one that will be signalled.              *)
LEMMA EditKeeps == TeamInv /\ (RenameTeam \/ EditTeam) => TeamInv'
<1> SUFFICES ASSUME TeamInv, RenameTeam \/ EditTeam PROVE TeamInv' OBVIOUS
<1>1. PICK k \in DOMAIN teamNames :
        /\ teamData' = [teamData EXCEPT ![k] = @ + 1] /\ edited' = k
  BY DEF RenameTeam, EditTeam
<1>2. teamNames' \in Seq(TeamNames) /\ Len(teamNames') = Len(teamNames)
  <2>1. CASE EditTeam
    BY <2>1 DEF EditTeam, TeamInv, TeamTypes
  <2>2. CASE RenameTeam
    <3>1. PICK i \in DOMAIN teamNames, n \in Unused :
            teamNames' = [teamNames EXCEPT ![i] = n]
      BY <2>2 DEF RenameTeam
    <3>2. n \in TeamNames
      BY DEF Unused
    <3> QED BY <3>1, <3>2 DEF TeamInv, TeamTypes, Frames
  <2> QED BY <2>1, <2>2
<1>3. UNCHANGED <<currentTeam, notified, postedChange, process, detector>>
  BY DEF RenameTeam, EditTeam
<1>4. k \in 1 .. Len(teamNames) /\ Len(teamNames) \in Nat
  BY DEF TeamInv, TeamTypes, Frames
<1>5. /\ teamData' \in Seq(Nat) /\ Len(teamData') = Len(teamData)
      /\ \A i \in 1 .. Len(teamData) : i # k => teamData'[i] = teamData[i]
  BY <1>1, <1>4 DEF TeamInv, TeamTypes, Frames
<1>6. TeamTypes'
  BY <1>1, <1>2, <1>3, <1>4, <1>5 DEF TeamInv, TeamTypes, Frames
<1>7. edited = 0
  BY DEF RenameTeam, EditTeam, Edit, GuiIdle
<1>8. currentTeam # 0 /\ edited' # currentTeam
      => teamData'[currentTeam] = teamData[currentTeam]
  BY <1>1, <1>4, <1>5 DEF TeamInv, TeamTypes, Frames
<1> QED BY <1>3, <1>6, <1>7, <1>8 DEF TeamInv, DetectorToCome, FrameHasTeam,
       ChangeIsNoticed, Unnoticed, FrameWillInit

(* What else the GUI does changes no team, and signals an edit of the      *)
(* current one.                                                            *)
LEMMA GuiKeeps ==
  TeamInv /\ (ChooseTeam \/ SignalEdit \/ DeliverChange) => TeamInv'
<1> SUFFICES ASSUME TeamInv, ChooseTeam \/ SignalEdit \/ DeliverChange
             PROVE  TeamInv'
  OBVIOUS
<1> USE DEF TeamInv, TeamTypes, Frames, DetectorToCome, FrameHasTeam,
       ChangeIsNoticed, Unnoticed, FrameWillInit
<1>1. CASE ChooseTeam
  BY <1>1 DEF ChooseTeam
<1>2. CASE SignalEdit
  <2>1. /\ edited # 0 /\ edited' = 0
        /\ UNCHANGED <<teamNames, teamData, currentTeam, postedChange, process,
                       detector>>
        /\ notified' = (notified \/ edited = currentTeam)
    BY <1>2 DEF SignalEdit
  <2> HIDE DEF TeamTypes
  <2>2. TeamTypes'
    <3>1. TeamTypes /\ edited' \in 0 .. Len(teamNames)
      BY <2>1 DEF TeamTypes
    <3>2. notified' \in BOOLEAN
      BY <2>1
    <3>3. Frames' = Frames
      BY <2>1 DEF Frames
    <3> QED BY <2>1, <3>1, <3>2, <3>3 DEF TeamTypes
  <2>3. CASE edited = currentTeam
    <3>1. notified' = TRUE
      BY <2>1, <2>3
    <3> QED BY <2>1, <2>2, <3>1
  <2>4. CASE edited # currentTeam
    <3>1. notified' = notified
      BY <2>1, <2>4 DEF TeamTypes
    <3> QED BY <2>1, <2>2, <2>4, <3>1
  <2> QED BY <2>3, <2>4
<1>3. CASE DeliverChange
  BY <1>3 DEF DeliverChange
<1> QED BY <1>1, <1>2, <1>3

(* A frame takes the flag, finds a team, and initialises the detector.     *)
LEMMA BeginKeeps == TeamInv /\ BeginFrame => TeamInv'
<1> SUFFICES ASSUME TeamInv, BeginFrame PROVE TeamInv' OBVIOUS
<1>1. /\ process.at = "none" /\ notified' = FALSE
      /\ process'.at = "lookup" /\ process'.reinit = notified
      /\ UNCHANGED <<teamNames, teamData, currentTeam, postedChange, edited,
                     detector>>
  BY DEF BeginFrame
<1>2. TeamTypes'
  <2>1. Len(teamNames) \in Nat /\ notified \in BOOLEAN
    BY DEF TeamInv, TeamTypes, Frames
  <2>2. process' = [at |-> "lookup", reinit |-> notified, team |-> 0]
    BY DEF BeginFrame
  <2>3. process' \in Frames
    BY <2>1, <2>2 DEF Frames
  <2>4. UNCHANGED <<teamNames, teamData, currentTeam, edited, postedChange>>
        /\ notified' \in BOOLEAN
    BY DEF BeginFrame
  <2>5. Frames' = Frames
    BY <2>4 DEF Frames
  <2> QED BY <2>3, <2>4, <2>5 DEF TeamInv, TeamTypes, Frames
<1> QED BY <1>1, <1>2 DEF TeamInv, DetectorToCome, FrameHasTeam,
       ChangeIsNoticed, Unnoticed, FrameWillInit

(* Looking the team up keeps the flag of the frame.                        *)
LEMMA LookUpKeeps == TeamInv /\ (LookUpTeam \/ TeamUpdated) => TeamInv'
<1> SUFFICES ASSUME TeamInv, LookUpTeam \/ TeamUpdated PROVE TeamInv' OBVIOUS
<1>1. UNCHANGED <<teamNames, teamData, currentTeam, notified, postedChange,
                  edited, detector>>
  BY DEF LookUpTeam, TeamUpdated
<1>2. \/ process' = [process EXCEPT !.at = "update"]
      \/ process' = [process EXCEPT !.at = "use", !.team = currentTeam]
  BY DEF LookUpTeam, TeamUpdated
<1>3. process.at # "none"
  BY DEF LookUpTeam, TeamUpdated
<1>4. TeamTypes'
  BY <1>1, <1>2 DEF TeamInv, TeamTypes, Frames
<1>5. /\ process'.reinit = process.reinit
      /\ process'.at \in {"update", "use"}
      /\ process'.at = "use" => process'.team = currentTeam
  BY <1>2 DEF TeamInv, TeamTypes, Frames
<1> QED BY <1>1, <1>3, <1>4, <1>5 DEF TeamInv, DetectorToCome, FrameHasTeam,
       ChangeIsNoticed, Unnoticed, FrameWillInit

(* The detector gets the data of the team as it is now.                    *)
LEMMA UseKeeps == TeamInv /\ UseDetector => TeamInv'
<1> SUFFICES ASSUME TeamInv, UseDetector PROVE TeamInv' OBVIOUS
<1>1. /\ process.at = "use" /\ process'.at = "none"
      /\ UNCHANGED <<teamNames, teamData, currentTeam, postedChange, edited>>
      /\ notified' = (notified \/ process.team = 0)
  BY DEF UseDetector, NoFrame
<1>2. TeamTypes'
  <2>1. NoFrame \in Frames
    BY DEF TeamInv, TeamTypes, NoFrame, Frames
  <2>2. Frames' = Frames /\ process' = NoFrame
    BY <1>1 DEF UseDetector, Frames
  <2>3. notified' \in BOOLEAN
    BY <1>1
  <2> QED BY <1>1, <2>1, <2>2, <2>3 DEF TeamInv, TeamTypes
<1>3. CASE process.team # 0 /\ process.reinit
  <2>1. detector' = [team |-> process.team, data |-> teamData[process.team]]
    BY <1>3 DEF UseDetector
  <2>2. detector' # NoTeam
    BY <2>1, <1>3 DEF NoTeam
  <2> QED BY <1>1, <1>2, <2>1, <2>2 DEF TeamInv, DetectorToCome, FrameHasTeam,
         ChangeIsNoticed, Unnoticed
<1>4. CASE process.team = 0
  <2>1. notified' = TRUE
    BY <1>1, <1>4
  <2> QED BY <1>1, <1>2, <2>1 DEF TeamInv, DetectorToCome, FrameHasTeam,
         ChangeIsNoticed, Unnoticed
<1>5. CASE process.team # 0 /\ ~process.reinit
  <2>1. detector' = detector /\ notified' = notified
    BY <1>1, <1>5 DEF UseDetector, TeamInv, TeamTypes
  <2> QED BY <1>1, <1>2, <1>5, <2>1 DEF TeamInv, DetectorToCome,
         FrameHasTeam, ChangeIsNoticed, Unnoticed, FrameWillInit
<1> QED BY <1>3, <1>4, <1>5

(* However the two threads' steps follow each other, the invariant holds.  *)
THEOREM TeamInvariance == TeamSpec => []TeamInv
<1>1. TeamInv /\ [TeamNext]_teamVars => TeamInv'
  <2> SUFFICES ASSUME TeamInv, [TeamNext]_teamVars PROVE TeamInv' OBVIOUS
  <2>1. CASE \E t \in Threads : Update(t)
    BY <2>1, UpdateUnselected, SelectSignals DEF Update
  <2>2. CASE AddTeam \/ RenameTeam \/ EditTeam
    BY <2>2, AddKeeps, EditKeeps
  <2>3. CASE ChooseTeam \/ SignalEdit \/ DeliverChange
    BY <2>3, GuiKeeps
  <2>4. CASE BeginFrame \/ LookUpTeam \/ TeamUpdated \/ UseDetector
    BY <2>4, BeginKeeps, LookUpKeeps, UseKeeps
  <2>5. CASE UNCHANGED teamVars
    BY <2>5 DEF teamVars, TeamInv, TeamTypes, Frames, DetectorToCome, FrameHasTeam,
       ChangeIsNoticed, Unnoticed, FrameWillInit
  <2>6. "gui" \in Threads /\ "capture" \in Threads
    BY DEF Threads
  <2> QED BY <2>1, <2>2, <2>3, <2>4, <2>5, <2>6
        DEF TeamNext, Gui, CaptureFrame
<1> QED BY TeamInitially, <1>1, PTL DEF TeamSpec

(* No robot is looked for with a detector that was never initialised, and  *)
(* when nothing is under way it works with the current team as it is.      *)
THEOREM DetectorSafety == TeamSpec => [](UsedIsInitialised /\ DetectorIsCurrent)
<1>1. TeamInv => UsedIsInitialised /\ DetectorIsCurrent
  BY DEF TeamInv, TeamTypes, DetectorToCome, ChangeIsNoticed, Unnoticed,
     FrameWillInit, UsedIsInitialised, DetectorIsCurrent, GuiIdle
<1> QED BY <1>1, TeamInvariance, PTL

(***************************************************************************)
(* Calibrator: the search for camera parameters, and dragging the field    *)
(* corners meanwhile.                                                      *)
(***************************************************************************)
(* A search that goes on has failed at most eleven times in a row.         *)
SearchInv ==
  /\ searching \in BOOLEAN
  /\ old_chisqr \in Chi \cup {NaN}
  /\ convergence_counter \in 0 .. 12
  /\ searching => convergence_counter <= 11

(* A drag without a corner or a button goes back to a release that was     *)
(* missed.                                                                 *)
DragInv ==
  /\ corners \in [Corners -> 0 .. PictureWidth - 1]
  /\ doing_drag /\ (~leftDown \/ drag_x = NoDragged) => releaseMissed
  /\ dragCrashed => releaseMissed

(* One try: what it may do to chi^2 and to the counter.                    *)
Tries ==
  /\ old_chisqr' = old_chisqr \/ Less(old_chisqr', old_chisqr)
  /\ accepted' => convergence_counter' = 0 \/ ~searching'
  /\ convergence_counter' <= 12

(* A step accepted or refused, with whatever chi^2 it came to.             *)
LEMMA TriedImproves ==
  ASSUME SearchInv, NEW chi \in Chi \cup {NaN}, NEW falls \in Falls(chi),
         NEW timeout \in BOOLEAN, Tried(chi, falls, timeout)
  PROVE  SearchInv' /\ Tries
<1>1. searching /\ convergence_counter \in 0 .. 11
  BY DEF Tried, SearchInv
<1>2. CASE falls
  <2>1. Less(chi, old_chisqr) \/ chi = old_chisqr
    BY <1>2 DEF Falls
  <2>2. /\ old_chisqr' = chi
        /\ searching' = (chi # old_chisqr /\ ~timeout)
        /\ \/ convergence_counter' = 0
           \/ chi = old_chisqr /\ convergence_counter' = convergence_counter
    BY <1>2 DEF Tried
  <2>3. convergence_counter' \in 0 .. 11
    BY <1>1, <2>2
  <2>4. searching' \in BOOLEAN /\ (searching' => chi # old_chisqr)
    BY <2>2
  <2>5. SearchInv'
    BY <2>2, <2>3, <2>4 DEF SearchInv, Chi, NaN
  <2> QED BY <2>1, <2>2, <2>3, <2>4, <2>5 DEF Tries
<1>3. CASE ~falls
  <2>1. /\ old_chisqr' = old_chisqr /\ accepted' = FALSE
        /\ convergence_counter' = convergence_counter + 1
        /\ searching' = (convergence_counter <= 10 /\ ~timeout)
    BY <1>3 DEF Tried
  <2>2. convergence_counter' \in 0 .. 12
    BY <1>1, <2>1
  <2>3. searching' \in BOOLEAN
    BY <2>1
  <2>4. ASSUME searching' PROVE convergence_counter' <= 11
    <3>1. convergence_counter <= 10
      BY <2>1, <2>4
    <3> QED BY <1>1, <2>1, <3>1
  <2> QED BY <2>1, <2>2, <2>3, <2>4 DEF SearchInv, Tries, Chi, NaN
<1> QED BY <1>2, <1>3

(* Everything else leaves a search alone, or starts one.                   *)
LEMMA SearchStep ==
  ASSUME SearchInv, [CalibNext]_calibVars
  PROVE  SearchInv' /\ (searching => Tries \/ UNCHANGED calibVars)
<1>1. CASE do_calibration
  BY <1>1 DEF do_calibration, SearchInv
<1>2. CASE \E timeout \in BOOLEAN : Search(timeout)
  BY <1>2, TriedImproves DEF Search
<1>3. CASE \/ \E x \in Pointers : mousePressEvent(x) \/ mouseMoveEvent(x)
           \/ mouseReleaseEvent \/ ShowTab
  <2>1. ~searching /\ UNCHANGED searchVars
    BY <1>3 DEF mousePressEvent, mouseMoveEvent, mouseReleaseEvent, ShowTab
  <2> QED BY <2>1 DEF searchVars, SearchInv
<1>4. CASE UNCHANGED calibVars
  BY <1>4 DEF calibVars, SearchInv
<1> QED BY <1>1, <1>2, <1>3, <1>4 DEF CalibNext

(* Presses, moves and releases in any order, with the tab shown or hidden. *)
LEMMA DragStep ==
  ASSUME DragInv, [CalibNext]_calibVars
  PROVE  DragInv'
<1>1. CASE do_calibration \/ \E timeout \in BOOLEAN : Search(timeout)
  <2>1. UNCHANGED dragVars
    BY <1>1 DEF do_calibration, Search, Tried
  <2> QED BY <2>1 DEF dragVars, DragInv
<1>2. CASE \E x \in Pointers : mousePressEvent(x)
  <2>1. PICK x \in Pointers : mousePressEvent(x)
    BY <1>2
  <2>2. /\ leftDown' = TRUE /\ ~leftDown
        /\ UNCHANGED <<corners, dragCrashed, releaseMissed>>
    BY <2>1 DEF mousePressEvent
  <2>3. CASE tabShown
    <3>1. doing_drag' = (drag_x' # NoDragged \/ doing_drag)
      BY <2>1, <2>3 DEF mousePressEvent
    <3> QED BY <2>2, <3>1 DEF DragInv
  <2>4. CASE ~tabShown
    <3>1. UNCHANGED <<drag_x, doing_drag>>
      BY <2>1, <2>4 DEF mousePressEvent
    <3> QED BY <2>2, <3>1 DEF DragInv
  <2> QED BY <2>3, <2>4
<1>3. CASE \E x \in Pointers : mouseMoveEvent(x)
  <2>1. PICK x \in Pointers : mouseMoveEvent(x)
    BY <1>3
  <2>2. Clipped(x) \in 0 .. PictureWidth - 1
    BY CalibAssumption DEF Clipped
  <2>3. /\ doing_drag
        /\ UNCHANGED <<drag_x, doing_drag, leftDown, releaseMissed>>
    BY <2>1 DEF mouseMoveEvent
  <2>4. CASE drag_x = NoDragged
    BY <2>1, <2>3, <2>4 DEF mouseMoveEvent, DragInv
  <2>5. CASE drag_x # NoDragged
    <3>1. /\ corners' = [corners EXCEPT ![drag_x] = Clipped(x)]
          /\ UNCHANGED dragCrashed
      BY <2>1, <2>5 DEF mouseMoveEvent
    <3>2. corners' \in [Corners -> 0 .. PictureWidth - 1]
      BY <2>2, <3>1 DEF DragInv
    <3> QED BY <2>3, <3>1, <3>2 DEF DragInv
  <2> QED BY <2>4, <2>5
<1>4. CASE mouseReleaseEvent
  <2>1. /\ UNCHANGED <<corners, drag_x, dragCrashed>>
        /\ releaseMissed' = (releaseMissed \/ doing_drag')
    BY <1>4 DEF mouseReleaseEvent
  <2> QED BY <2>1 DEF DragInv
<1>5. CASE ShowTab \/ UNCHANGED calibVars
  BY <1>5 DEF ShowTab, calibVars, DragInv
<1> QED BY <1>1, <1>2, <1>3, <1>4, <1>5 DEF CalibNext

(* The search never makes chi^2 larger, and gives up after twelve tries.   *)
THEOREM SearchImproves == CalibSpec => SearchOnlyImproves
<1>1. CalibInit => SearchInv
  <2> SUFFICES ASSUME CalibInit PROVE SearchInv OBVIOUS
  <2>1. 0 \in Chi
    BY CalibAssumption DEF Chi
  <2>2. convergence_counter = 0 /\ old_chisqr = 0
    BY DEF CalibInit
  <2>3. ~searching /\ searching \in BOOLEAN
    BY DEF CalibInit
  <2>4. old_chisqr \in Chi \cup {NaN} /\ convergence_counter \in 0 .. 12
    BY <2>1, <2>2
  <2> QED BY <2>3, <2>4, Zenon DEF SearchInv
<1>2. SearchInv /\ [CalibNext]_calibVars => SearchInv'
  BY SearchStep
<1>3. SearchInv /\ [CalibNext]_calibVars
      => [searching =>
            /\ old_chisqr' = old_chisqr \/ Less(old_chisqr', old_chisqr)
            /\ accepted' => convergence_counter' = 0 \/ ~searching'
            /\ convergence_counter' <= 12]_calibVars
  BY SearchStep DEF Tries
<1> QED BY <1>1, <1>2, <1>3, PTL DEF CalibSpec, SearchOnlyImproves

(* Dragging stays in the picture, whatever tabs are shown.                 *)
THEOREM DragSafety == CalibSpec => []DraggingIsSafe
<1>1. CalibInit => DragInv
  BY DEF CalibInit, DragInv
<1>2. DragInv /\ [CalibNext]_calibVars => DragInv'
  BY DragStep
<1>3. DragInv => DraggingIsSafe
  BY DEF DragInv, DraggingIsSafe
<1> QED BY <1>1, <1>2, <1>3, PTL DEF CalibSpec

(***************************************************************************)
(* LogPlayer: a record is played by one thread and steered by another.     *)
(***************************************************************************)
(* What the view thread posts, and the types of what the threads share.    *)
Events == {Hide} \cup {Value(f) : f \in Int}

PlayerTypes ==
  /\ current_frame \in Int /\ next_frame \in Int /\ log_length \in Int
  /\ play_speed \in Int /\ play_speed_save \in Int
  /\ slider \in [value : Int, max : Int]
  /\ posted \in Seq(Events)

(* While a record plays, no dialog is open and nothing that waits will     *)
(* hide the controls.                                                      *)
PlayingUnhidden ==
  play => /\ logs > 0 /\ log_length = logs /\ controls /\ ~dialog
          /\ \A i \in 1 .. Len(posted) : posted[i] # Hide

PlayerInv == PlayerTypes /\ PlayingUnhidden

(* The smaller and the larger of two numbers are numbers.                  *)
LEMMA ClampedIsInt ==
  ASSUME NEW a \in Int, NEW b \in Int
  PROVE  Min({a, b}) \in Int /\ Max({a, b}) \in Int
<1>1. /\ \E x \in {a, b} : \A y \in {a, b} : x <= y
      /\ \E x \in {a, b} : \A y \in {a, b} : x >= y
  BY Z3
<1>2. Min({a, b}) \in {a, b}
  BY <1>1 DEF Min
<1>3. Max({a, b}) \in {a, b}
  BY <1>1 DEF Max
<1> QED BY <1>2, <1>3

(* At first nothing plays.                                                 *)
LEMMA PlayerInitially == PlayerInit => PlayerInv
<1> SUFFICES ASSUME PlayerInit PROVE PlayerInv OBVIOUS
<1>1. posted \in Seq(Events)
  BY DEF PlayerInit
<1>2. slider \in [value : Int, max : Int]
  BY DEF PlayerInit
<1> QED BY <1>1, <1>2 DEF PlayerInit, PlayerInv, PlayerTypes, PlayingUnhidden

(* One event more waits.                                                   *)
LEMMA PostedTypes ==
  ASSUME posted \in Seq(Events), NEW e \in Events, Post(<<e>>)
  PROVE  /\ posted' \in Seq(Events) /\ Len(posted') = Len(posted) + 1
         /\ posted'[Len(posted) + 1] = e
         /\ \A i \in 1 .. Len(posted) : posted'[i] = posted[i]
BY DEF Post

(* The slots that move the counters leave the length of the record.        *)
LEMMA SlidesTypes ==
  ASSUME PlayerTypes, NEW f \in Int, SliderTo(f)
  PROVE  /\ slider' \in [value : Int, max : Int]
         /\ current_frame' \in Int /\ next_frame' \in Int
         /\ UNCHANGED <<log_length, play_speed, play_speed_save>>
<1> DEFINE v == Max({0, Min({f, slider.max})})
<1>1. v \in Int
  <2>1. slider.max \in Int
    BY DEF PlayerTypes
  <2>2. Min({f, slider.max}) \in Int
    BY <2>1, ClampedIsInt
  <2> QED BY <2>2, ClampedIsInt
<1>2. /\ slider' = [slider EXCEPT !.value = v]
      /\ IF v = slider.value THEN UNCHANGED control ELSE goto_frame(v)
  BY DEF SliderTo
<1> HIDE DEF v
<1>3. slider' \in [value : Int, max : Int]
  BY <1>1, <1>2 DEF PlayerTypes
<1> QED BY <1>1, <1>2, <1>3 DEF PlayerTypes, control, goto_frame

(* Once the record has ended there is nothing to be shown.                 *)
LEMMA EndKeeps ==
  ASSUME PlayerInv, Live \/ End
  PROVE  PlayerInv'
<1>1. CASE ~end_play_record
  <2>1. UNCHANGED <<play, control, logs, posted, gui>>
    BY <1>1 DEF Live, End
  <2> QED BY <2>1 DEF control, gui, PlayerInv, PlayerTypes, PlayingUnhidden
<1>2. CASE end_play_record /\ Post(<<Hide>>)
  <2>1. Hide \in Events /\ posted \in Seq(Events)
    BY DEF Events, PlayerInv, PlayerTypes
  <2>2. posted' \in Seq(Events)
    BY <1>2, <2>1, PostedTypes
  <2>3. slider' = slider
    BY DEF Live, End, gui
  <2>4. /\ play' = FALSE /\ current_frame' = 0 /\ next_frame' = 0
        /\ log_length' = 0 /\ play_speed' = 1 /\ play_speed_save' = 1
    BY <1>2 DEF end_play_record, reset
  <2> QED BY <2>2, <2>3, <2>4 DEF PlayerInv, PlayerTypes, PlayingUnhidden
<1>3. CASE end_play_record /\ UNCHANGED <<play, control, logs, posted>>
  <2>1. UNCHANGED <<play, control, logs, posted, gui>>
    BY <1>3 DEF Live, End
  <2> QED BY <2>1 DEF control, gui, PlayerInv, PlayerTypes, PlayingUnhidden
<1> QED BY <1>1, <1>2, <1>3 DEF Live, End

(* The view thread takes frames and posts what it has taken.               *)
LEMMA ViewKeeps ==
  ASSUME PlayerInv, NextCommand \/ Load \/ Emit
  PROVE  PlayerInv'
<1>1. CASE NextCommand
  <2>1. UNCHANGED <<play, logs, shown, posted, gui, log_length, play_speed,
                    play_speed_save>>
    BY <1>1 DEF NextCommand, control
  <2>2. current_frame' \in Int /\ next_frame' \in Int
    BY <1>1 DEF NextCommand, control, PlayerInv, PlayerTypes
  <2> QED BY <2>1, <2>2 DEF gui, PlayerInv, PlayerTypes, PlayingUnhidden
<1>2. CASE Load
  BY <1>2 DEF Load, control, gui, PlayerInv, PlayerTypes, PlayingUnhidden
<1>3. CASE Emit
  <2> DEFINE e == Value(get_current_frame)
  <2>1. UNCHANGED <<play, control, logs, shown, gui>> /\ Post(<<e>>)
    BY <1>3 DEF Emit
  <2>2. e \in Events /\ e # Hide
    <3>1. get_current_frame \in Int
      BY DEF get_current_frame, PlayerInv, PlayerTypes
    <3> QED BY <3>1 DEF Events, Value, Hide
  <2> HIDE DEF e
  <2>3. posted \in Seq(Events)
    BY DEF PlayerInv, PlayerTypes
  <2>4. /\ posted' \in Seq(Events) /\ Len(posted') = Len(posted) + 1
        /\ posted'[Len(posted) + 1] = e
        /\ \A i \in 1 .. Len(posted) : posted'[i] = posted[i]
    BY <2>1, <2>2, <2>3, PostedTypes
  <2>5. ASSUME \A i \in 1 .. Len(posted) : posted[i] # Hide,
               NEW i \in 1 .. Len(posted')
        PROVE  posted'[i] # Hide
    <3>1. i \in 1 .. Len(posted) \/ i = Len(posted) + 1
      BY <2>3, <2>4
    <3> QED BY <2>2, <2>4, <2>5, <3>1
  <2> QED BY <2>1, <2>4, <2>5
          DEF control, gui, PlayerInv, PlayerTypes, PlayingUnhidden
<1> QED BY <1>1, <1>2, <1>3

(* An event that is handled while a record plays shows a frame.            *)
LEMMA HandleKeeps ==
  ASSUME PlayerInv, HandlePosted
  PROVE  PlayerInv'
<1>1. /\ posted # <<>> /\ posted' = Tail(posted)
      /\ UNCHANGED <<play, logs, dialog>>
  BY DEF HandlePosted
<1>2. posted \in Seq(Events)
  BY DEF PlayerInv, PlayerTypes
<1>3. /\ posted' \in Seq(Events) /\ Head(posted) = posted[1]
      /\ Head(posted) \in Events /\ 1 \in 1 .. Len(posted)
      /\ Len(posted') = Len(posted) - 1
      /\ \A i \in 1 .. Len(posted') : posted'[i] = posted[i + 1]
  BY <1>1, <1>2
<1>4. (\A i \in 1 .. Len(posted) : posted[i] # Hide)
      => \A i \in 1 .. Len(posted') : posted'[i] # Hide
  <2>1. ASSUME NEW i \in 1 .. Len(posted') PROVE i + 1 \in 1 .. Len(posted)
    BY <1>2, <1>3
  <2> QED BY <1>3, <2>1
<1>5. CASE Head(posted) = Hide
  <2>1. ~play
    BY <1>3, <1>5 DEF PlayerInv, PlayingUnhidden
  <2>2. UNCHANGED <<slider, control>>
    BY <1>5 DEF HandlePosted
  <2> QED BY <1>1, <1>3, <2>1, <2>2
          DEF control, PlayerInv, PlayerTypes, PlayingUnhidden
<1>6. CASE Head(posted) # Hide
  <2>1. SliderTo(Head(posted)[1]) /\ UNCHANGED controls
    BY <1>6 DEF HandlePosted
  <2>2. Head(posted)[1] \in Int
    BY <1>3, <1>6 DEF Events, Value
  <2>3. /\ slider' \in [value : Int, max : Int]
        /\ current_frame' \in Int /\ next_frame' \in Int
        /\ UNCHANGED <<log_length, play_speed, play_speed_save>>
    BY <2>1, <2>2, SlidesTypes DEF PlayerInv
  <2> QED BY <1>1, <1>3, <1>4, <2>1, <2>3
          DEF PlayerInv, PlayerTypes, PlayingUnhidden
<1> QED BY <1>5, <1>6

(* The buttons; a record is loaded only when nothing waits.                *)
LEMMA PressKeeps ==
  ASSUME PlayerInv, PressPlayRecord \/ NotLoaded \/ PressControl
  PROVE  PlayerInv'
<1>1. CASE PressPlayRecord /\ play
  <2>1. play' = FALSE /\ UNCHANGED <<posted, slider>>
    BY <1>1 DEF PressPlayRecord, end_play_record
  <2>2. /\ current_frame' = 0 /\ next_frame' = 0
        /\ log_length' = 0 /\ play_speed' = 1 /\ play_speed_save' = 1
    BY <1>1 DEF PressPlayRecord, end_play_record, reset
  <2> QED BY <2>1, <2>2 DEF PlayerInv, PlayerTypes, PlayingUnhidden
<1>2. CASE PressPlayRecord /\ ~play
  BY <1>2 DEF PressPlayRecord, control, PlayerInv, PlayerTypes,
     PlayingUnhidden
<1>3. CASE NotLoaded
  <2>1. ~play
    BY <1>3 DEF NotLoaded, PlayerInv, PlayingUnhidden
  <2> QED BY <1>3, <2>1 DEF NotLoaded, control, PlayerInv, PlayerTypes,
         PlayingUnhidden
<1>4. CASE PressControl
  <2>1. UNCHANGED <<play, logs, posted, slider, controls, dialog, log_length>>
    BY <1>4 DEF PressControl, SetSpeed
  <2>2. /\ current_frame' \in Int /\ next_frame' \in Int
        /\ play_speed' \in Int /\ play_speed_save' \in Int
    BY <1>4 DEF PressControl, SetSpeed, PlayerInv, PlayerTypes
  <2> QED BY <2>1, <2>2 DEF PlayerInv, PlayerTypes, PlayingUnhidden
<1> QED BY <1>1, <1>2, <1>3, <1>4

(* A record is loaded when no event waits that could hide its controls.    *)
LEMMA LoadKeeps ==
  ASSUME PlayerInv, NEW size \in LogSizes, Loaded(size)
  PROVE  PlayerInv'
<1>1. size \in Int /\ size > 0
  BY LogAssumption
<1>2. /\ dialog' = FALSE /\ posted' = posted /\ posted = <<>>
      /\ logs' = size /\ log_length' = size /\ controls' = TRUE
      /\ slider' = [value |-> 0, max |-> size]
      /\ current_frame' = 0 /\ next_frame' \in {0, 1}
      /\ play_speed' = 1 /\ play_speed_save' = 1
  BY DEF Loaded
<1>3. slider' \in [value : Int, max : Int]
  BY <1>1, <1>2
<1> QED BY <1>1, <1>2, <1>3 DEF PlayerInv, PlayerTypes, PlayingUnhidden

(* The slider moves the counters and leaves the record.                    *)
LEMMA PullKeeps ==
  ASSUME PlayerInv, NEW f \in 0 .. Max(LogSizes), PullSlider(f)
  PROVE  PlayerInv'
<1>1. f \in Int
  OBVIOUS
<1>2. /\ UNCHANGED <<play, logs, posted, controls, dialog, log_length,
                     play_speed, play_speed_save>>
      /\ slider' = [slider EXCEPT !.value = f]
      /\ current_frame' = f /\ next_frame' = f + 1
  BY DEF PullSlider, goto_frame
<1>3. slider' \in [value : Int, max : Int]
  BY <1>1, <1>2 DEF PlayerInv, PlayerTypes
<1> QED BY <1>1, <1>2, <1>3 DEF PlayerInv, PlayerTypes, PlayingUnhidden

(* What plays is a record with frames, and its controls are there.         *)
THEOREM PlayedIsLogged == PlayerSpec => []PlayHasLog
<1>1. PlayerInv /\ [PlayerNext]_playerVars => PlayerInv'
  <2> SUFFICES ASSUME PlayerInv, [PlayerNext]_playerVars PROVE PlayerInv'
    OBVIOUS
  <2>1. CASE UNCHANGED playerVars
    BY <2>1 DEF playerVars, control, gui, PlayerInv, PlayerTypes,
       PlayingUnhidden
  <2> QED BY <2>1, EndKeeps, ViewKeeps, HandleKeeps, PressKeeps, LoadKeeps,
             PullKeeps DEF PlayerNext, ViewStep, GuiStep
<1>2. PlayerInv => PlayHasLog
  BY DEF PlayerInv, PlayingUnhidden, PlayHasLog
<1> QED BY PlayerInitially, <1>1, <1>2, PTL DEF PlayerSpec

(***************************************************************************)
(* CaptureFiles: the images of a directory, one after the other and round  *)
(* again.                                                                  *)
(***************************************************************************)
(* The place of the image shown last.                                      *)
LastPlace == IF imageIndex = 0 THEN Len(images) ELSE imageIndex

(* The list is ascending, the index on it, and the image shown last is the *)
(* one before the index.                                                   *)
FilesInv ==
  /\ directory \in Directories /\ loading = images
  /\ images \in Seq(Nat \ {0}) /\ Ascending(images)
  /\ imageIndex \in Nat
  /\ IF images = <<>> THEN ~playing /\ lastImage = 0
                      ELSE imageIndex < Len(images)
  /\ lastImage # 0 => lastImage = images[LastPlace]

(* Before the first start no list has been read.                           *)
LEMMA FilesInitially == FilesInit => FilesInv
<1> SUFFICES ASSUME FilesInit PROVE FilesInv OBVIOUS
<1>1. images = <<>> /\ loading = <<>> /\ imageIndex = 0 /\ lastImage = 0
      /\ ~playing /\ directory \in Directories
  BY DEF FilesInit
<1>2. Ascending(images)
  BY <1>1 DEF Ascending
<1> QED BY <1>1, <1>2 DEF FilesInv

(* The files of a directory in their order.                                *)
LEMMA DirectoryRead ==
  ASSUME FilesInv, loading = <<>>,
         NEW list \in SetToSeqs(ToSet(loading) \cup ImageFiles(directory))
  PROVE  list \in Seq(Nat \ {0})
<1> DEFINE S == ToSet(loading) \cup ImageFiles(directory)
<1>1. S \subseteq directory
  <2>1. ToSet(loading) = {}
    BY DEF ToSet
  <2> QED BY <2>1 DEF ImageFiles
<1>2. directory \subseteq Nat \ {0} /\ IsFiniteSet(directory)
  BY FilesAssumption DEF FilesInv
<1>3. Cardinality(S) \in Nat
  BY <1>1, <1>2, FS_Subset, FS_CardinalityType
<1>4. list \in [1 .. Cardinality(S) -> S]
  BY DEF SetToSeqs
<1> HIDE DEF S
<1>5. list \in [1 .. Cardinality(S) -> Nat \ {0}]
  BY <1>1, <1>2, <1>4
<1> QED BY <1>3, <1>5

(* A start reads the list unless there is one.                             *)
LEMMA StartKeeps ==
  ASSUME FilesInv, StartFiles
  PROVE  FilesInv' /\ lastImage' = lastImage
<1>1. CASE images # <<>>
  BY <1>1 DEF StartFiles, FilesInv, LastPlace
<1>2. CASE images = <<>>
  <2>1. PICK list \in SetToSeqs(ToSet(loading) \cup ImageFiles(directory)) :
          /\ Ascending(list)
          /\ loading' = list /\ images' = list
          /\ imageIndex' = IF list = <<>> THEN imageIndex ELSE 0
          /\ playing' = (list # <<>>)
    BY <1>2 DEF StartFiles
  <2>2. list \in Seq(Nat \ {0})
    BY <1>2, DirectoryRead DEF FilesInv
  <2>3. lastImage' = 0 /\ lastImage' = lastImage /\ directory' = directory
    BY <1>2 DEF StartFiles, FilesInv
  <2>4. imageIndex' \in Nat
    BY <2>1 DEF FilesInv
  <2>5. images' # <<>> => imageIndex' < Len(images')
    BY <2>1, <2>2
  <2>6. images' = <<>> => ~playing'
    BY <2>1
  <2> QED BY <2>1, <2>2, <2>3, <2>4, <2>5, <2>6 DEF FilesInv
<1> QED BY <1>1, <1>2

(* The index goes round.                                                   *)
LEMMA NextIndex ==
  ASSUME NEW n \in Nat \ {0}, NEW i \in Nat, i < n
  PROVE  (i + 1) % n = IF i + 1 = n THEN 0 ELSE i + 1
<1>1. CASE i + 1 = n
  BY <1>1
<1>2. CASE i + 1 < n
  BY <1>2
<1> QED BY <1>1, <1>2

(* What getFrame() shows, and what it was before.                          *)
LEMMA NextShown ==
  ASSUME FilesInv, NextFile
  PROVE  /\ FilesInv' /\ images' = images
         /\ Len(images) \in Nat \ {0} /\ imageIndex < Len(images)
         /\ lastImage' # 0 => lastImage' = images[imageIndex + 1]
<1>1. images # <<>> /\ images \in Seq(Nat \ {0}) /\ imageIndex \in Nat
      /\ imageIndex < Len(images)
  BY DEF FilesInv, NextFile
<1>2. Len(images) \in Nat \ {0}
  BY <1>1
<1>3. /\ imageIndex' = (imageIndex + 1) % Len(images)
      /\ UNCHANGED <<directory, loading, images>>
      /\ lastImage' = IF images[imageIndex + 1] \in Broken THEN 0
                      ELSE images[imageIndex + 1]
  BY DEF NextFile
<1>4. imageIndex' = IF imageIndex + 1 = Len(images) THEN 0 ELSE imageIndex + 1
  BY <1>1, <1>2, <1>3, NextIndex
<1>5. imageIndex' \in Nat /\ imageIndex' < Len(images)
  BY <1>1, <1>2, <1>4
<1>6. lastImage' # 0 => lastImage' = images[imageIndex + 1]
  BY <1>3
<1>7. LastPlace' = imageIndex + 1
  <2>1. CASE imageIndex + 1 = Len(images)
    BY <1>3, <1>4, <2>1 DEF LastPlace
  <2>2. CASE imageIndex + 1 # Len(images)
    <3>1. imageIndex' = imageIndex + 1 /\ imageIndex' # 0
      BY <1>1, <1>4, <2>2
    <3> QED BY <3>1 DEF LastPlace
  <2> QED BY <2>1, <2>2
<1>8. lastImage' # 0 => lastImage' = images'[LastPlace']
  BY <1>3, <1>6, <1>7
<1>9. FilesInv'
  BY <1>1, <1>3, <1>5, <1>8 DEF FilesInv, Ascending
<1> QED BY <1>1, <1>2, <1>3, <1>6, <1>9

(* The next image that is shown is the next one by name, or the first one. *)
LEMMA ShownInOrder ==
  ASSUME FilesInv, NextFile, lastImage # 0, lastImage' \notin {0, lastImage}
  PROVE  \/ /\ lastImage' > lastImage
            /\ \A n \in ToSet(images) \ Broken :
                  ~(lastImage < n /\ n < lastImage')
         \/ \A n \in ToSet(images) \ Broken :
               lastImage' <= n /\ n <= lastImage
<1> DEFINE len == Len(images)
           next == imageIndex + 1
<1>1. /\ len \in Nat \ {0} /\ imageIndex < len
      /\ lastImage' = images[next]
  BY NextShown
<1>2. imageIndex \in Nat /\ images \in Seq(Nat \ {0})
  BY DEF FilesInv
<1>3. next \in 1 .. len /\ DOMAIN images = 1 .. len
  BY <1>1, <1>2
<1>4. ASSUME NEW i \in 1 .. len PROVE images[i] \in Nat
  BY <1>2, <1>4
<1>5. ASSUME NEW i \in 1 .. len, NEW j \in 1 .. len, i < j
      PROVE  images[i] < images[j]
  BY <1>3, <1>5 DEF FilesInv, Ascending
<1>6. ASSUME NEW i \in 1 .. len, NEW j \in 1 .. len, i <= j
      PROVE  images[i] <= images[j]
  <2>1. CASE i = j
    BY <1>4, <2>1
  <2>2. CASE i < j
    BY <1>4, <1>5, <2>2
  <2> QED BY <1>6, <2>1, <2>2
<1>7. ToSet(images) = {images[i] : i \in 1 .. len}
  BY <1>3 DEF ToSet
<1> HIDE DEF len, next
<1>8. CASE imageIndex = 0
  <2>1. lastImage = images[len] /\ next = 1
    BY <1>8 DEF FilesInv, LastPlace, len, next
  <2>2. ASSUME NEW n \in ToSet(images)
        PROVE  lastImage' <= n /\ n <= lastImage
    <3>1. PICK i \in 1 .. len : n = images[i]
      BY <1>7
    <3>2. images[1] <= images[i] /\ images[i] <= images[len]
      BY <1>1, <1>6
    <3> QED BY <1>1, <2>1, <3>1, <3>2
  <2> QED BY <2>2
<1>9. CASE imageIndex # 0
  <2>1. lastImage = images[imageIndex] /\ next = imageIndex + 1
    BY <1>9 DEF FilesInv, LastPlace, next
  <2>2. imageIndex \in 1 .. len
    BY <1>1, <1>2, <1>9
  <2>3. lastImage' > lastImage
    <3>1. images[imageIndex] < images[next]
      BY <1>3, <1>5, <2>1, <2>2
    <3> QED BY <1>1, <1>3, <1>4, <2>1, <2>2, <3>1
  <2>4. ASSUME NEW n \in ToSet(images), lastImage < n, n < lastImage'
        PROVE  FALSE
    <3>1. PICK i \in 1 .. len : n = images[i]
      BY <1>7
    <3>2. CASE i <= imageIndex
      <4>1. images[i] <= images[imageIndex]
        BY <1>6, <2>2, <3>2
      <4> QED BY <1>4, <2>1, <2>2, <2>4, <3>1, <4>1
    <3>3. CASE i >= next
      <4>1. images[next] <= images[i]
        BY <1>3, <1>6, <3>3
      <4> QED BY <1>1, <1>3, <1>4, <2>4, <3>1, <4>1
    <3> QED BY <1>1, <2>1, <2>2, <3>2, <3>3
  <2> QED BY <2>3, <2>4
<1> QED BY <1>8, <1>9

(* Images are shown in the order of their names, each in its turn, for any *)
(* directories, whatever cannot be read.                                   *)
THEOREM FilesShownInOrder == FilesSpec => ImagesInOrder
<1>1. FilesInv /\ [FilesNext]_fileVars => FilesInv'
  <2> SUFFICES ASSUME FilesInv, [FilesNext]_fileVars PROVE FilesInv' OBVIOUS
  <2>1. CASE ChangeDirectory \/ StopFiles \/ UNCHANGED fileVars
    BY <2>1 DEF ChangeDirectory, StopFiles, fileVars, FilesInv, LastPlace
  <2> QED BY <2>1, StartKeeps, NextShown DEF FilesNext
<1> DEFINE Ordered ==
      lastImage # 0 /\ lastImage' \notin {0, lastImage} =>
          \/ /\ lastImage' > lastImage
             /\ \A n \in ToSet(images) \ Broken :
                   ~(lastImage < n /\ n < lastImage')
          \/ \A n \in ToSet(images) \ Broken :
                   lastImage' <= n /\ n <= lastImage
<1>2. FilesInv /\ [FilesNext]_fileVars => [Ordered]_fileVars
  <2> SUFFICES ASSUME FilesInv, FilesNext PROVE Ordered OBVIOUS
  <2>1. CASE ChangeDirectory \/ StopFiles \/ StartFiles
    <3>1. lastImage' = lastImage
      BY <2>1, StartKeeps DEF ChangeDirectory, StopFiles
    <3> QED BY <3>1
  <2>2. CASE NextFile
    BY <2>2, ShownInOrder
  <2> QED BY <2>1, <2>2 DEF FilesNext
<1> QED BY FilesInitially, <1>1, <1>2, PTL DEF FilesSpec, ImagesInOrder
=============================================================================
