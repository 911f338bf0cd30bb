---------------------------- MODULE RobotPatterns ----------------------------
(***************************************************************************)
(* How SSL-Vision makes robots of coloured regions                         *)
(* (dep/ssl-vision/src/shared/cmpattern/cmpattern_teamdetector.cpp,        *)
(* cmpattern_pattern.cpp, util/field_filter.h, util/vis_util.h): by the    *)
(* centre marker alone, or by the pattern of markers around it.  Places    *)
(* and lengths are integers, angles whole degrees; a confidence stands for *)
(* what the area of a region makes of it, 0 for one below the threshold.   *)
(***************************************************************************)
EXTENDS CheckedInput, Integers, Sequences, FiniteSets, SequencesExt,
        FiniteSetsExt

Square(n) == n * n
SquaredGap(p, q) == Square(p[1] - q[1]) + Square(p[2] - q[2])
AbsOf(n) == IF n < 0 THEN -n ELSE n

(* isInFieldOrPlayableBoundary()                                           *)
InPlay(at, field) ==
    /\ AbsOf(at[1]) <= field.length + field.boundary
    /\ AbsOf(at[2]) <= field.width + field.boundary

(* checkHistogram(): the counts of the box around a region and the ranges  *)
(* (in percent) of the settings.  No pixel of the team's colour makes the  *)
(* quotient infinite or no number, which is within no range.               *)
Between(part, whole, range) ==
    /\ whole # 0
    /\ range[1] * whole <= 100 * part /\ 100 * part <= range[2] * whole

checkHistogram(count, s) ==
    \/ s.radius = 0
    \/ /\ Between(count.markers, count.team, s.markeryness)
       /\ Between(count.green, count.all, s.greenness)
       /\ Between(count.blackWhite, count.all, s.blackWhiteness)
----------------------------------------------------------------------------
(* The list of robots.                                                     *)
addRobot(robots, robot, most) ==
    LET below == {i \in DOMAIN robots : robots[i].conf < robot.conf}
        all == InsertAt(robots, Min(below), robot)
    IN  CASE below # {} -> IF Len(robots) < most THEN all ELSE Front(all)
          [] below = {} /\ Len(robots) < most -> Append(robots, robot)
          [] OTHER -> robots

(* One robot after another is added.                                       *)
AddedInTurn(found, most) ==
    LET list[i \in 0 .. Len(found)] ==
            IF i = 0 THEN <<>> ELSE addRobot(list[i - 1], found[i], most)
    IN  list[Len(found)]

(* What a list has at some places.                                         *)
Picked(list, places) ==
    LET upTo[i \in 0 .. Len(list)] ==
            CASE i = 0 -> <<>>
              [] i \in places -> Append(upTo[i - 1], list[i])
              [] OTHER -> upTo[i - 1]
    IN  upTo[Len(list)]

stripRobots(robots) ==
    Picked(robots, {i \in DOMAIN robots : robots[i].conf # 0})

Shortened(robots, most) ==
    IF Len(robots) > most THEN SubSeq(robots, 1, most) ELSE robots

(* A mistake: only neighbours in the list are compared.                    *)
MarkNeighbours(robots, distance) ==
    [i \in DOMAIN robots |->
        IF i + 1 \in DOMAIN robots
           /\ SquaredGap(robots[i].at, robots[i + 1].at) < Square(distance)
        THEN [robots[i] EXCEPT !.conf = 0] ELSE robots[i]]

MarkDuplicates(robots, distance) ==
    [i \in DOMAIN robots |->
        IF \E j \in DOMAIN robots :
              i < j /\ SquaredGap(robots[i].at, robots[j].at) < Square(distance)
        THEN [robots[i] EXCEPT !.conf = 0] ELSE robots[i]]

(* findRobotsByTeamMarkerOnly()                                            *)
ByMarkerOnly(regions, s) ==
    LET Seen(r) == /\ InPlay(r.at, s.field)
                   /\ ~s.histogram \/ checkHistogram(r.count, s)
        robots == [i \in DOMAIN regions |->
                      [at |-> regions[i].at, conf |-> regions[i].conf]]
        found == AddedInTurn(Picked(robots, {i \in DOMAIN regions : Seen(regions[i])}),
                       2 * s.most)
    IN  Shortened(stripRobots(MarkDuplicates(found, s.distance)), s.most)
----------------------------------------------------------------------------
(* Markers around a centre: sorted by their angle, each with the way to    *)
(* the next.  The distance of two centres is replaced by a sum of integers *)
(* that grows with it.                                                     *)
ByAngle(markers) == SortSeq(markers, LAMBDA m, n : m.angle < n.angle)

AngleBetween(m, n) == (m.angle - n.angle) % 360

Linked(markers) ==
    LET sorted == ByAngle(markers)
        count == Len(sorted)
        Next(i) == sorted[(i % count) + 1]
    IN  [i \in 1 .. count |->
            [sorted[i] EXCEPT
                !.turn = AngleBetween(sorted[i], Next(i)),
                !.next = AbsOf(sorted[i].dist - Next(i).dist)
                         + Min({AngleBetween(sorted[i], Next(i)),
                                AngleBetween(Next(i), sorted[i])})]]

(* loadSinglePatternImage(): the model of a robot, from the regions of its *)
(* picture.  It only comes back when all of them are larger than 3 by 3.   *)
Height(bars, otherwise) ==
    IF Len(bars) = 1 /\ bars[1].width \in 1 .. 6 THEN bars[1].height
                                                 ELSE otherwise

PatternOf(markers, bars, idx, otherwise) ==
    [enabled |-> TRUE, markers |-> Linked(markers), robot_id |-> idx,
     height |-> Height(bars, otherwise)]

(* loadMultiPatternImage(): the part of the team's picture for a robot.    *)
Cell(idx, rows, cols, w, h) ==
    {(idx % cols) * w + x : x \in 0 .. w - 1}
       \X {(idx \div cols) * h + y : y \in 0 .. h - 1}

Cells(width, height, rows, cols) ==
    LET w == width \div cols
        h == height \div rows
    IN  IF w * cols # width \/ h * rows # height THEN <<>>
        ELSE [n \in 1 .. rows * cols |-> Cell(n - 1, rows, cols, w, h)]

(* recheckColorsUsed() and usesColor(): a table of 32 colours.  The first  *)
(* form is a mistake: it is not made anew when patterns are disabled.      *)
ColoursEverUsed(patterns) ==
    UNION {{m.id : m \in ToSet(p.markers)} : p \in ToSet(patterns)}
       \cap 0 .. 31

UsedColours(patterns) ==
    UNION {{m.id : m \in ToSet(p.markers)} :
              p \in {q \in ToSet(patterns) : q.enabled}} \cap 0 .. 31
----------------------------------------------------------------------------
(* findPattern().  The code of a pattern has room for eight markers.       *)
MarkerCode(ids) ==
    IF Len(ids) > 8 THEN SubSeq(ids, Len(ids) - 7, Len(ids)) ELSE ids

Turned(markers, ofs) ==
    [i \in DOMAIN markers |-> markers[((i - 1 + ofs) % Len(markers)) + 1]]

Ids(markers) == [i \in DOMAIN markers |-> markers[i].id]

(* calcFitError(), in parts of ten thousand.                               *)
Part(m, n) == Square((100 * (m - n)) \div m)

calcFitError(model, markers, w) ==
    MapThenSumSet(LAMBDA i :
        w.area * Part(model[i].area, markers[i].area)
        + w.dist * Part(model[i].dist, markers[i].dist)
        + w.next * Part(model[i].next, markers[i].next)
        + w.turn * Part(model[i].turn, markers[i].turn),
        DOMAIN model) \div Len(model)

MatchingTurns(patterns, markers) ==
    {t \in [ofs : 0 .. Len(markers) - 1, idx : DOMAIN patterns] :
        /\ patterns[t.idx].enabled
        /\ Len(patterns[t.idx].markers) = Len(markers)
        /\ MarkerCode(Ids(patterns[t.idx].markers))
              = MarkerCode(Ids(Turned(markers, t.ofs)))}

FittingPatterns(patterns, markers, s) ==
    {fit \in {[ofs |-> t.ofs, idx |-> t.idx,
               sse |-> calcFitError(patterns[t.idx].markers,
                                    Turned(markers, t.ofs), s.weights)] :
                 t \in MatchingTurns(patterns, markers)} :
        fit.sse < Square(s.maxError)}

(* The first of those with the smallest error.                             *)
Precedes(f, g) == \/ f.sse < g.sse
                  \/ f.sse = g.sse /\ f.ofs < g.ofs
                  \/ f.sse = g.sse /\ f.ofs = g.ofs /\ f.idx < g.idx
BestFit(fits) == CHOOSE f \in fits : \A g \in fits \ {f} : Precedes(f, g)

(* roll(): moves the markers on; its first form is a mistake.              *)
RollBack(markers, displacement) == Turned(markers, displacement)
Roll(markers, displacement) ==
    [i \in DOMAIN markers |->
        markers[((i - 1 - displacement) % Len(markers)) + 1]]

(* A fit is the surer the smaller its error.                               *)
NoPattern == [id |-> -1, markers |-> <<>>, conf |-> 0]

ResultOf(fit, patterns, markers, s) ==
    [id |-> patterns[fit.idx].robot_id,
     markers |-> Roll(markers, Len(markers) - fit.ofs),
     conf |-> Square(s.maxError) - fit.sse]

BestResult(fits, patterns, markers, s) ==
    IF fits = {} THEN NoPattern
    ELSE ResultOf(BestFit(fits), patterns, markers, s)

findPattern(patterns, markers, s) ==
    BestResult(FittingPatterns(patterns, markers, s), patterns, markers, s)

(* TeamDetector::init(): the weight set for the angle to the next marker   *)
(* becomes that of the distance to it; that of the angle stays as it was.  *)
FitWeights(team) == [area |-> team.area, dist |-> team.centerDistance,
                     next |-> team.nextAngleDistance, turn |-> 1]

(* findRobotsByModel(), for one centre: the regions that pass the filter   *)
(* come nearest first.                                                     *)
MaxMarkers == 16

MarkersAround(regions, used, s) ==
    LET near == SelectSeq(regions, LAMBDA m :
                   m.id \in used /\ m.dist > 0 /\ m.dist < s.maxDist)
    IN  Shortened(near, MaxMarkers)

RecognisedIn(markers, patterns, s) ==
    IF Len(markers) < 2 THEN NoPattern
    ELSE findPattern(patterns, Linked(markers),
                     [s EXCEPT !.weights = FitWeights(@)])
Recognised(patterns, regions, s) ==
    RecognisedIn(MarkersAround(regions, UsedColours(patterns), s), patterns, s)

(* findRobotsByModel(): two centres with one pattern are two robots.  A    *)
(* mistake: the robots stay in the order of their centres.                 *)
RobotAt(at, result) == [at |-> at, id |-> result.id, conf |-> result.conf]
RobotsSeen(patterns, centres, s) ==
    SelectSeq([i \in DOMAIN centres |->
                  RobotAt(centres[i].at,
                          Recognised(patterns, centres[i].around, s))],
              LAMBDA r : InPlay(r.at, s.field) /\ r.id # NoPattern.id)

ByModelUnsorted(patterns, centres, s) ==
    Shortened(RobotsSeen(patterns, centres, s), s.most)
ByModel(patterns, centres, s) ==
    Shortened(stripRobots(AddedInTurn(RobotsSeen(patterns, centres, s), 2 * s.most)),
              s.most)

(* TeamDetector::update() begins with no robots.                           *)
UpdatedRobots(patterns, centres, s) ==
    IF s.uniquePatterns THEN ByModel(patterns, centres, s)
    ELSE ByMarkerOnly(centres, s)
----------------------------------------------------------------------------
(* What is sent for a team without patterns: at most the robots it has,    *)
(* the surest first, none of them twice and none without confidence.       *)
RobotsAreRanked ==
    Is("centres") =>
        LET robots == ByMarkerOnly(input.regions, input.settings)
        IN  /\ Len(robots) <= input.settings.most
            /\ \A i \in DOMAIN robots : robots[i].conf > 0
            /\ \A i, j \in DOMAIN robots : i < j =>
                  /\ robots[i].conf >= robots[j].conf
                  /\ SquaredGap(robots[i].at, robots[j].at)
                        >= Square(input.settings.distance)

(* "keep the ones with higher confidence": of two centres too near to each *)
(* other the surer one is sent (cmpattern_teamdetector.cpp:237).           *)
SurerDuplicateIsKept ==
    Is("centres") =>
        \A robot \in ToSet(ByMarkerOnly(input.regions, input.settings)),
           r \in ToSet(input.regions) :
              /\ InPlay(r.at, input.settings.field)
              /\ checkHistogram(r.count, input.settings)
              /\ SquaredGap(robot.at, r.at) < Square(input.settings.distance)
              => r.conf <= robot.conf

(* Of a team with patterns no robot is left out for one that is less sure: *)
(* the list is full then, though centres came in any order and twice as    *)
(* many are kept meanwhile; and a team is recognised by the patterns that  *)
(* are enabled only.                                                       *)
BestOf(robots, seen, s) ==
    /\ Len(robots) = Min({s.most, Len(seen)})
    /\ \A r \in ToSet(seen) \ ToSet(robots), sent \in ToSet(robots) :
          r.conf <= sent.conf
OwnRobots(robots, patterns) ==
    {r.id : r \in ToSet(robots)}
      \subseteq {p.robot_id : p \in {q \in ToSet(patterns) : q.enabled}}
InOrderOfConfidence(robots) ==
    \A i \in DOMAIN robots, j \in DOMAIN robots :
        i < j => robots[i].conf >= robots[j].conf

SurestAreSent ==
    Is("team") =>
        LET robots == UpdatedRobots(input.patterns, input.centres,
                                    input.settings)
        IN  /\ InOrderOfConfidence(robots)
            /\ input.settings.uniquePatterns =>
                  /\ OwnRobots(robots, input.patterns)
                  /\ BestOf(robots, RobotsSeen(input.patterns, input.centres,
                                              input.settings), input.settings)

(* A robot is recognised whichever way it is turned, and its markers come  *)
(* out in the order of the model, so that its orientation can be told.     *)
TurnedRobotIsFound ==
    Is("pattern") =>
        LET model == input.patterns[input.robot]
            turned == [i \in DOMAIN model.markers |->
                          [model.markers[i] EXCEPT
                              !.angle = (@ + input.angle) % 360]]
            result == Recognised(input.patterns, turned, input.settings)
        IN  IF model.enabled
            THEN /\ result.id = model.robot_id
                 /\ \A i \in DOMAIN model.markers :
                       /\ result.markers[i].id = model.markers[i].id
                       /\ result.markers[i].angle
                            = (model.markers[i].angle + input.angle) % 360
            ELSE result.id # model.robot_id

(* Regions of a colour that no enabled pattern has do not come into it.    *)
StrayColoursDoNotMatter ==
    Is("pattern") =>
        LET markers == input.patterns[input.robot].markers
            strays == {p.markers[1] : p \in ToSet(input.patterns)}
            Alone(m) == \A p \in ToSet(input.patterns) :
                           p.enabled => m.id \notin ToSet(Ids(p.markers))
        IN  \A m \in strays : Alone(m) =>
               Recognised(input.patterns, <<m>> \o markers, input.settings)
                  = Recognised(input.patterns, markers, input.settings)

(* The picture of a team is cut into pieces for its robots: every pixel    *)
(* belongs to one of them, when the picture is not refused.                *)
CellsTilePicture ==
    Is("cells") =>
        LET cells == Cells(input.w, input.h, input.rows, input.cols)
        IN  cells # <<>> =>
               \A x \in 0 .. input.w - 1, y \in 0 .. input.h - 1 :
                  Cardinality({n \in DOMAIN cells : <<x, y>> \in cells[n]}) = 1

(* What the detection of robots promises.                                  *)
PatternsAreSound ==
    /\ RobotsAreRanked /\ SurestAreSent /\ TurnedRobotIsFound
    /\ StrayColoursDoNotMatter /\ CellsTilePicture
=============================================================================
