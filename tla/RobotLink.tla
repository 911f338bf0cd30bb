------------------------------ MODULE RobotLink ------------------------------
(***************************************************************************)
(* The robot's program (src/nxt/RawBlueTooth.c) at the other end of the    *)
(* Bluetooth port of src/bluetooth_test.py: task main() against            *)
(* basic_test(), and COMupdate(), called again and again as the TODO above *)
(* it has it, against full_test().  The link keeps bytes in order; what    *)
(* comes before the robot is in raw mode is not given to it.               *)
(*                                                                         *)
(* In the code MAX_ROBOTS is 10 and MAX_BALLS is 60.  Heading is left out: *)
(* COMreadRoboInfo() takes it from names that are declared nowhere.        *)
(***************************************************************************)
EXTENDS Integers, Sequences, FiniteSetsExt, SequencesExt

CONSTANTS MAX_ROBOTS, MAX_BALLS,
          Counts,        (* <<robots, balls>> of the messages sent *)
          MessageLimit   (* how often full_test() is run *)

ASSUME LinkAssumption ==
    MAX_ROBOTS \in Nat /\ MAX_BALLS \in Nat /\ Counts \subseteq Nat \X Nat

VARIABLES
    test,       \* "basic" or "full"
    robotPc, bBTRawMode,
    buffer,     \* g_btReadBuffer: what BTreadBytes() has read so far
    header, robotInfo, ballPositions,   \* the globals of the same names
    pcPc, timedOut, messages,
    toRobot, toPC,                      \* bytes under way
    taken       \* every byte the robot has read (history)

readerVars == <<robotPc, bBTRawMode, buffer, header, robotInfo,
                ballPositions, taken>>
senderVars == <<pcPc, timedOut, messages>>
linkVars == <<test, readerVars, senderVars, toRobot, toPC>>

LinkInit ==
    /\ test \in {"basic", "full"}
    /\ robotPc = "check" /\ bBTRawMode = FALSE /\ buffer = <<>>
    /\ header = [numRobots |-> 0, numBalls |-> 0]
    /\ robotInfo = <<>> /\ ballPositions = <<>> /\ taken = <<>>
    /\ pcPc = "open" /\ timedOut = FALSE /\ messages = 0
    /\ toRobot = <<>> /\ toPC = 0
----------------------------------------------------------------------------
(* The computer.                                                           *)
WriteToRobot(bytes) ==
    toRobot' = (IF bBTRawMode THEN toRobot \o bytes ELSE toRobot)

(* basic_test(): five bytes or the timeout, then "Hello, Robot!".          *)
HelloRobot == [i \in 1..13 |-> i]
ReadHello ==
    /\ pcPc = "open" /\ test = "basic" /\ pcPc' = "write"
    /\ \/ toPC >= 5 /\ toPC' = toPC - 5 /\ UNCHANGED timedOut
       \/ toPC < 5 /\ toPC' = 0 /\ timedOut' = TRUE
    /\ UNCHANGED <<test, readerVars, messages, toRobot>>
WriteHello ==
    /\ pcPc = "write" /\ pcPc' = "closed"
    /\ WriteToRobot(HelloRobot)
    /\ UNCHANGED <<test, readerVars, timedOut, messages, toPC>>

(* full_test(): the marker, then the message.                              *)
Robot(i) == <<i, 0, 7, 20 + i, 40 + i>>
Ball(i) == <<60 + i, 80 + i>>
RobotsSent(n) ==
    [k \in 1 .. 5 * n |-> Robot(1 + (k - 1) \div 5)[1 + ((k - 1) % 5)]]
BallsSent(n) ==
    [k \in 1 .. 2 * n |-> Ball(1 + (k - 1) \div 2)[1 + ((k - 1) % 2)]]
Message(robots, balls) ==
    <<robots, balls>> \o RobotsSent(robots) \o BallsSent(balls)
WriteMarker ==
    /\ pcPc = "open" /\ test = "full" /\ messages < MessageLimit
    /\ pcPc' = "body" /\ messages' = messages + 1
    /\ WriteToRobot(<<255, 255>>)
    /\ UNCHANGED <<test, readerVars, timedOut, toPC>>
WriteMessage ==
    /\ pcPc = "body" /\ pcPc' = "open"
    /\ \E n \in Counts : WriteToRobot(Message(n[1], n[2]))
    /\ UNCHANGED <<test, readerVars, timedOut, messages, toPC>>
----------------------------------------------------------------------------
(* The robot.                                                              *)
BTcheckLinkConnected ==
    /\ robotPc = "check" /\ robotPc' \in {"raw", "stopped"}
    /\ UNCHANGED <<test, senderVars, toRobot, toPC, bBTRawMode, buffer,
                   header, robotInfo, ballPositions, taken>>

(* A mistake: the mode is asked for and not waited for.                    *)
RawModeNotAwaited ==
    /\ robotPc = "raw" /\ UNCHANGED bBTRawMode
    /\ robotPc' = (IF test = "basic" THEN "write" ELSE "header")
    /\ UNCHANGED <<test, senderVars, toRobot, toPC, buffer, header,
                   robotInfo, ballPositions, taken>>
BTenableRawMode ==
    /\ robotPc = "raw" /\ bBTRawMode' = TRUE
    /\ robotPc' = (IF test = "basic" THEN "write" ELSE "header")
    /\ UNCHANGED <<test, senderVars, toRobot, toPC, buffer, header,
                   robotInfo, ballPositions, taken>>

WriteToPC ==
    /\ robotPc = "write" /\ robotPc' = "text" /\ toPC' = toPC + 5
    /\ UNCHANGED <<test, senderVars, toRobot, bBTRawMode, buffer, header,
                   robotInfo, ballPositions, taken>>

Wanted == [text |-> 12, header |-> 2, robots |-> 5, balls |-> 2]
Reading == robotPc \in DOMAIN Wanted

(* One turn of BTreadBytes() that finds a byte.                            *)
BTreadBytes ==
    /\ Reading /\ Len(buffer) < Wanted[robotPc] /\ toRobot # <<>>
    /\ buffer' = Append(buffer, Head(toRobot)) /\ toRobot' = Tail(toRobot)
    /\ taken' = Append(taken, Head(toRobot))
    /\ UNCHANGED <<test, senderVars, toPC, robotPc, bBTRawMode, header,
                   robotInfo, ballPositions>>

HaveRead(pc) ==
    /\ robotPc = pc /\ Len(buffer) = Wanted[pc] /\ buffer' = <<>>
    /\ UNCHANGED <<test, senderVars, toRobot, toPC, bBTRawMode, taken>>

TextRead ==
    /\ HaveRead("text") /\ robotPc' = "done"
    /\ UNCHANGED <<header, robotInfo, ballPositions>>

(* No list is emptied: a shorter one leaves the old entries at its end.    *)
COMreadHeader ==
    /\ HaveRead("header")
    /\ header' = [numRobots |-> Min({buffer[1], MAX_ROBOTS}),
                  numBalls |-> Max({buffer[2], MAX_BALLS}),
                  robots |-> 0, balls |-> 0]
    /\ robotPc' = (IF header'.numRobots = 0 THEN "balls" ELSE "robots")
    /\ UNCHANGED <<robotInfo, ballPositions>>

(* COMparseFloat() is left to the wire format.                             *)
Put(list, i, entry) ==
    IF i <= Len(list) THEN [list EXCEPT ![i] = entry] ELSE Append(list, entry)

COMreadRoboInfo ==
    /\ HaveRead("robots")
    /\ header' = [header EXCEPT !.robots = @ + 1]
    /\ robotInfo' = Put(robotInfo, header'.robots,
                        [id |-> buffer[1], pos |-> <<buffer[4], buffer[5]>>])
    /\ robotPc' = (IF header'.robots = header.numRobots
                   THEN "balls" ELSE "robots")
    /\ UNCHANGED ballPositions

COMreadBalls ==
    /\ HaveRead("balls")
    /\ header' = [header EXCEPT !.balls = @ + 1]
    /\ ballPositions' = Put(ballPositions, header'.balls, buffer)
    /\ robotPc' = (IF header'.balls = header.numBalls
                   THEN "header" ELSE "balls")
    /\ UNCHANGED robotInfo

ComputerStep == ReadHello \/ WriteHello \/ WriteMarker \/ WriteMessage
RobotStep ==
    \/ BTcheckLinkConnected \/ BTenableRawMode \/ WriteToPC \/ BTreadBytes
    \/ TextRead \/ COMreadHeader \/ COMreadRoboInfo \/ COMreadBalls

LinkNext == ComputerStep \/ RobotStep
LinkSpec == LinkInit /\ [][LinkNext]_linkVars
LinkFairSpec ==
    /\ LinkSpec
    /\ WF_linkVars(WriteHello) /\ WF_linkVars(ReadHello)
    /\ WF_linkVars(RobotStep)
----------------------------------------------------------------------------
(* atan2() of the robot, for the eight directions, in degrees.             *)
atan(q) == 45 * q
atan2(y, x) ==
    IF x > 0 THEN atan(y \div x)
    ELSE IF x < 0 /\ y >= 0 THEN 180 + atan(y \div x)
    ELSE IF x < 0 THEN -180 + atan(y \div x)
    ELSE IF y > 0 THEN 90 ELSE IF y < 0 THEN -90 ELSE 0

Directions == {<<1, 0>>, <<1, 1>>, <<0, 1>>, <<-1, 1>>, <<-1, 0>>,
               <<-1, -1>>, <<0, -1>>, <<1, -1>>}
Turned(d) == <<-d[2], d[1]>>
----------------------------------------------------------------------------
(* Properties.                                                             *)

(* A quarter turn of a direction adds ninety degrees to its angle, modulo  *)
(* a full turn, and no two directions have the same.                       *)
AnglesTurn ==
    \A d \in Directions :
        /\ (atan2(Turned(d)[2], Turned(d)[1]) - atan2(d[2], d[1])) % 360 = 90
        /\ \A e \in Directions : atan2(d[2], d[1]) = atan2(e[2], e[1]) => d = e

(* The lists hold what was read, each entry from its own place after the   *)
(* header, and the robots fit the list they are written to.                *)
Entry(k, size) == SubSeq(taken, Len(taken) - k - size + 1, Len(taken) - k)
ListsFollowStream ==
    robotPc = "balls" /\ buffer = <<>> /\ header.balls = 0 =>
        /\ header.numRobots <= MAX_ROBOTS
        /\ \A i \in 1..header.numRobots :
               LET e == Entry(5 * (header.numRobots - i), 5)
               IN  robotInfo[i] = [id |-> e[1], pos |-> <<e[4], e[5]>>]

(* The test of the port ends with the robot showing what it was sent, when *)
(* the computer has the robot's greeting before its timeout.               *)
HelloIsShown ==
    [](test = "basic" /\ robotPc # "stopped" /\ ~timedOut) =>
        <>(robotPc = "done" /\ taken = SubSeq(HelloRobot, 1, 12))

(* The comment of COMsync(): "Syncs up with the incoming position info     *)
(* message stream".  What is taken for a header is a message's.            *)
SyncedToMessages ==
    robotPc = "header" /\ Len(buffer) = 2 =>
        \E n \in Counts : buffer = <<n[1], n[2]>>
=============================================================================
