------------------------------- MODULE Blobs -------------------------------
(***************************************************************************)
(* From the thresholded picture to the blobs of a colour and the balls:    *)
(* RegionProcessing, RegionFilter and Histogram (dep/ssl-vision/src/       *)
(* shared/cmvision) and what the plugins that find blobs, balls and robots *)
(* do with them.  A picture is a function on columns and rows, colour 0 is *)
(* none; the index of a run is that of the array in the code.              *)
(***************************************************************************)
EXTENDS Integers, Sequences, FiniteSets, SequencesExt, CheckedInput

UpTo(n) == [i \in 1 .. n |-> i]
Ranked(set, Before(_, _)) ==
    [i \in 1 .. Cardinality(set) |->
        CHOOSE a \in set : Cardinality({b \in set : Before(b, a)}) = i - 1]
MinOf(a, b) == IF a < b THEN a ELSE b
MaxOf(a, b) == IF a > b THEN a ELSE b
----------------------------------------------------------------------------
(* encodeRuns(): every run of a colour, and the run that ends a row even   *)
(* when it has none.                                                       *)
RowStarts(image, y, w) ==
    {x \in 0 .. w - 1 : x = 0 \/ image[<<x, y>>] # image[<<x - 1, y>>]}
RunEnd(image, x, y, w) ==
    CHOOSE e \in x .. w - 1 :
        /\ \A m \in x .. e : image[<<m, y>>] = image[<<x, y>>]
        /\ e = w - 1 \/ image[<<e + 1, y>>] # image[<<x, y>>]

KeptRun(image, x, y, w) ==
    image[<<x, y>>] # 0 \/ RunEnd(image, x, y, w) = w - 1

encodeRuns(image, w, h, max_runs) ==
    LET starts == {<<x, y>> \in (0 .. w - 1) \X (0 .. h - 1) :
                      x \in RowStarts(image, y, w) /\ KeptRun(image, x, y, w)}
        Before(p, q) == p[2] < q[2] \/ (p[2] = q[2] /\ p[1] < q[1])
        order == Ranked(starts, Before)
    IN  [i \in 0 .. MinOf(Len(order), max_runs) - 1 |->
            LET p == order[i + 1]
            IN  [x |-> p[1], y |-> p[2], color |-> image[p], parent |-> i,
                 width |-> RunEnd(image, p[1], p[2], w) - p[1] + 1]]
----------------------------------------------------------------------------
(* connectComponents(): r1 and r2 are copies of the runs l1 and l2, of two *)
(* rows that follow each other; s is the last run given a parent.          *)
RECURSIVE RootOf(_, _)
RootOf(map, i) == IF map[i].parent = i THEN i ELSE RootOf(map, map[i].parent)

Overlap(r1, r2) ==
    (r2.x <= r1.x /\ r1.x < r2.x + r2.width)
    \/ (r1.x <= r2.x /\ r2.x < r1.x + r1.width)

(* A mistake: a run that has a parent is not united with a second one.     *)
MergeOnce(c) ==
    IF c.r1.color # c.r2.color \/ c.r1.color = 0 \/ ~Overlap(c.r1, c.r2)
    THEN c
    ELSE IF c.s = c.l1 THEN c
    ELSE [c EXCEPT !.map[c.l1].parent = c.r2.parent,
                   !.r1.parent = c.r2.parent, !.s = c.l1]

Merge(c) ==
    IF c.r1.color # c.r2.color \/ c.r1.color = 0 \/ ~Overlap(c.r1, c.r2)
    THEN c
    ELSE IF c.s # c.l1
    THEN [c EXCEPT !.map[c.l1].parent = c.r2.parent,
                   !.r1.parent = c.r2.parent, !.s = c.l1]
    ELSE IF c.r1.parent = c.r2.parent THEN c
    ELSE LET i == RootOf(c.map, c.r1.parent)
             j == RootOf(c.map, c.r2.parent)
             root == MinOf(i, j)
         IN  [c EXCEPT !.map[MaxOf(i, j)].parent = root,
                       !.map[c.l1].parent = root, !.map[c.l2].parent = root,
                       !.r1.parent = root, !.r2.parent = root]

(* The copies move to the next run of the row that ends first.  Beyond the *)
(* runs lies whatever the array held; it is not used.                      *)
At(map, i) == IF i \in DOMAIN map THEN map[i]
              ELSE [x |-> 0, y |-> 0, width |-> 0, color |-> 0, parent |-> 0]

Advance(c) ==
    LET i == (c.r2.x + c.r2.width) - (c.r1.x + c.r1.width)
        l1 == IF i >= 0 THEN c.l1 + 1 ELSE c.l1
        l2 == IF i <= 0 THEN c.l2 + 1 ELSE c.l2
    IN  [c EXCEPT !.l1 = l1, !.r1 = IF i >= 0 THEN At(c.map, l1) ELSE @,
                  !.l2 = l2, !.r2 = IF i <= 0 THEN At(c.map, l2) ELSE @]

RECURSIVE Connected(_)
Connected(c) ==
    IF c.l1 \in DOMAIN c.map THEN Connected(Advance(Merge(c))) ELSE c.map

connectComponents(runs) ==
    LET later == {l \in DOMAIN runs : l >= 1 /\ runs[l].y # 0}
        first == CHOOSE l \in later : \A m \in later : l <= m
        map == Connected([map |-> runs, l1 |-> first, l2 |-> 0,
                          r1 |-> runs[first], r2 |-> runs[0], s |-> first])
        Compress(m, i) == [m EXCEPT ![i - 1].parent = m[m[i - 1].parent].parent]
    IN  IF later = {} THEN runs
        ELSE FoldLeft(Compress, map, UpTo(Cardinality(DOMAIN map)))
----------------------------------------------------------------------------
rangeSum(x, w) == (w * (2 * x + w - 1)) \div 2

(* extractRegions(): the sums become centroids and x2 the last column only *)
(* when the list of regions is not full before the last run.               *)
NewRegion(r) ==
    [color |-> r.color, area |-> r.width, x1 |-> r.x, y1 |-> r.y,
     x2 |-> r.x + r.width, y2 |-> r.y,
     sum_x |-> rangeSum(r.x, r.width), sum_y |-> r.y * r.width]

GrownRegion(reg, r) ==
    [reg EXCEPT !.area = @ + r.width, !.x1 = MinOf(r.x, @), !.y2 = r.y,
                !.x2 = MaxOf(r.x + r.width, @),
                !.sum_x = @ + rangeSum(r.x, r.width),
                !.sum_y = @ + r.y * r.width]

extractRegions(runs, max_reg) ==
    LET Take(got, k) ==
            LET i == k - 1
                r == runs[i]
            IN  IF r.color = 0 \/ Len(got.regs) >= max_reg THEN got
                ELSE IF r.parent = i
                THEN [regs |-> Append(got.regs, NewRegion(r)),
                      id |-> [got.id EXCEPT ![i] = Len(got.regs) + 1]]
                ELSE [got EXCEPT !.regs[got.id[r.parent]] = GrownRegion(@, r),
                                 !.id[i] = got.id[r.parent]]
        got == FoldLeft(Take, [regs |-> <<>>,
                               id |-> [i \in DOMAIN runs |-> 0]],
                        UpTo(Cardinality(DOMAIN runs)))
    IN  IF Len(got.regs) >= max_reg THEN got.regs
        ELSE [n \in DOMAIN got.regs |-> [got.regs[n] EXCEPT !.x2 = @ - 1]]
----------------------------------------------------------------------------
(* separateRegions(): the large enough regions of a colour, the last first *)
Separated(regs, color, min_area) ==
    Reverse(SelectSeq(regs, LAMBDA r : r.color = color /\ r.area >= min_area))

(* sortRegionListByArea(): a pass puts the regions into slots by some bits *)
(* of their area and takes them out again from the last slot on; whoever   *)
(* was first in a slot stays first.  A mistake: the order of a slot is     *)
(* turned around.                                                          *)
SortPassTurned(list, shift, bits) ==
    LET Slot(r) == (r.area \div 2 ^ shift) % 2 ^ bits
        Take(out, j) == out \o Reverse(SelectSeq(list, LAMBDA r :
                                                  Slot(r) = 2 ^ bits - j))
    IN  FoldLeft(Take, <<>>, UpTo(2 ^ bits))
SortPass(list, shift, bits) ==
    LET Slot(r) == (r.area \div 2 ^ shift) % 2 ^ bits
        Take(out, j) == out \o SelectSeq(list, LAMBDA r :
                                          Slot(r) = 2 ^ bits - j)
    IN  FoldLeft(Take, <<>>, UpTo(2 ^ bits))

(* sortRegions(): as many passes as the largest area has groups of bits.   *)
SortPasses(max_area, bits) ==
    CHOOSE p \in 0 .. 32 : /\ max_area < 2 ^ (bits * p)
                           /\ p = 0 \/ max_area >= 2 ^ (bits * (p - 1))
Sorted(list, max_area, bits) ==
    LET Pass(l, i) == SortPass(l, bits * (i - 1), bits)
    IN  FoldLeft(Pass, list, UpTo(SortPasses(max_area, bits)))

ColorList(image, w, h, color, min_area, max_runs, max_reg, bits) ==
    LET regs == extractRegions(connectComponents(
                                   encodeRuns(image, w, h, max_runs)), max_reg)
        areas == {0} \cup {r.area : r \in {q \in ToSet(regs) :
                                              q.area >= min_area}}
    IN  Sorted(Separated(regs, color, min_area),
               CHOOSE a \in areas : \A b \in areas : a >= b, bits)
----------------------------------------------------------------------------
Within(n, range) == range[1] <= n /\ n <= range[2]
Check(r, f) == /\ Within(r.area, f.area)
               /\ Within(r.x2 - r.x1 + 1, f.width)
               /\ Within(r.y2 - r.y1 + 1, f.height)

(* RegionFilter: init() skips the regions that are too large, getNext()    *)
(* stops for good at the first that is too small.                          *)
RECURSIVE Filtered(_, _)
Filtered(list, f) ==
    IF list = <<>> THEN <<>>
    ELSE LET r == Head(list)
         IN  IF r.area > f.area[2] THEN Filtered(Tail(list), f)
             ELSE IF r.area < f.area[1] THEN <<>>
             ELSE (IF /\ Within(r.x2 - r.x1 + 1, f.width)
                      /\ Within(r.y2 - r.y1 + 1, f.height)
                   THEN <<r>> ELSE <<>>) \o Filtered(Tail(list), f)

(* Histogram::addBox(): the corners are moved into the picture.            *)
Clamp(n, low, high) == IF n < low THEN low ELSE IF n > high THEN high ELSE n
AddBox(image, w, h, x1, y1, x2, y2) ==
    LET box == {<<x, y>> : x \in Clamp(x1, 0, w - 1) .. Clamp(x2, 0, w - 1),
                           y \in Clamp(y1, 0, h - 1) .. Clamp(y2, 0, h - 1)}
    IN  [channels |-> [c \in {image[p] : p \in DOMAIN image} |->
                          Cardinality({p \in box : image[p] = c})],
         num |-> (Clamp(x2, 0, w - 1) - Clamp(x1, 0, w - 1) + 1)
                 * (Clamp(y2, 0, h - 1) - Clamp(y1, 0, h - 1) + 1)]

(* FieldFilter, with the halves of the field's measures.                   *)
isInFieldPlusThreshold(at, field, threshold) ==
    /\ MaxOf(at[1], -at[1]) <= field.length + threshold
    /\ MaxOf(at[2], -at[2]) <= field.width + threshold
isFarInGoal(at, field) ==
    /\ MaxOf(at[2], -at[2]) < field.goal_width
    /\ 2 * MaxOf(at[1], -at[1]) > 2 * field.length + field.goal_depth

(* PluginDetectBalls::checkHistogram(), with the limits in percent.  No    *)
(* pixel of orange makes the quotients infinite or no number, and what     *)
(* is no number is not above the limit.                                    *)
Orange == 1
Pink == 2
Yellow == 3
FieldGreen == 4
PixelRadius == 4

IsGreen(n, num, o) == 100 * n[FieldGreen] > o.greenness * (num - n[Orange])
IsMarker(n, o) ==
    IF n[Orange] = 0 THEN n[Pink] > 0 /\ n[Yellow] > 0
    ELSE 100 * ((n[Pink] + n[Orange]) * (n[Yellow] + n[Orange])
                  - n[Orange] * n[Orange])
           > o.markeryness * n[Orange] * n[Orange]

BallHistogram(r, o) ==
    AddBox(o.image, o.w, o.h, r.x1 - PixelRadius, r.y1 - PixelRadius,
           r.x2 + PixelRadius, r.y2 + PixelRadius)
CountsOf(box) == [c \in Orange .. FieldGreen |->
                     IF c \in DOMAIN box.channels THEN box.channels[c] ELSE 0]

(* A mistake: what has much green around it is lost too.                   *)
PassesUngreen(box, o) == /\ ~IsGreen(CountsOf(box), box.num, o)
                         /\ ~IsMarker(CountsOf(box), o)
Passes(box, o) == \/ IsGreen(CountsOf(box), box.num, o)
                  \/ ~IsMarker(CountsOf(box), o)

NearRobot(at, o) ==
    \E robot \in ToSet(o.robots) :
        /\ robot.conf > 0
        /\ (robot.at[1] - at[1]) ^ 2 + (robot.at[2] - at[2]) ^ 2
              < o.robot_distance ^ 2

(* PluginDetectBalls::process(): the confidence of a region is lost to any *)
(* filter that is on; otherwise it falls with the distance of its area     *)
(* from the expected one (100 stands for 1.0).                             *)
Confidence(r, o) ==
    IF \/ /\ o.in_field
          /\ ~isInFieldPlusThreshold(r.at, o.field, MaxOf(0, o.threshold))
       \/ o.in_goal /\ isFarInGoal(r.at, o.field)
       \/ o.near_robot /\ NearRobot(r.at, o)
       \/ o.histogram /\ ~Passes(BallHistogram(r, o), o)
    THEN 0
    ELSE IF o.gauss
    THEN LET off == r.area - Clamp(r.area, o.area_min, o.area_max)
         IN  100 - (IF off < 0 THEN -off ELSE off)
    ELSE 100

BallResults(list, o) ==
    SelectSeq([i \in DOMAIN list |->
                  [region |-> list[i], conf |-> Confidence(list[i], o)]],
              LAMBDA b : b.conf > 0)

(* list::sort() and reverse iterators: the most confident first, and the   *)
(* later of two alike before the earlier.  A mistake: the list is read     *)
(* from its other end.                                                     *)
SortedFromFront(results) ==
    LET Better(a, b) == \/ results[a].conf < results[b].conf
                        \/ results[a].conf = results[b].conf /\ a > b
        order == Ranked(DOMAIN results, Better)
    IN  [i \in DOMAIN results |-> results[order[i]]]
BestFirst(results) ==
    LET Better(a, b) == \/ results[a].conf > results[b].conf
                        \/ results[a].conf = results[b].conf /\ a > b
        order == Ranked(DOMAIN results, Better)
    IN  [i \in DOMAIN results |-> results[order[i]]]

FirstOf(sorted, most) == SubSeq(sorted, 1, MinOf(most, Len(sorted)))
Balls(list, o) == FirstOf(BestFirst(BallResults(list, o)), o.max_balls)
----------------------------------------------------------------------------
(* The blobs of a picture are its 4-connected areas of one colour, with    *)
(* their true size, box and sums, however the areas wind and meet again;   *)
(* a run list that is full cuts the picture at a run and changes nothing   *)
(* before it.                                                              *)
Touching(p) == {<<p[1] + 1, p[2]>>, <<p[1] - 1, p[2]>>,
                <<p[1], p[2] + 1>>, <<p[1], p[2] - 1>>}

RECURSIVE AreaOf(_, _)
AreaOf(found, allowed) ==
    LET more == {p \in allowed : \E q \in found : p \in Touching(q)}
    IN  IF more \subseteq found THEN found
        ELSE AreaOf(found \cup more, allowed)

Areas(image) ==
    {AreaOf({p}, {q \in DOMAIN image : image[q] = image[p]}) :
        p \in {q \in DOMAIN image : image[q] # 0}}

Moment(points, axis) ==
    MapThenSumSet(LAMBDA p : p[axis], points)

Described(area, color) ==
    LET xs == {p[1] : p \in area}  ys == {p[2] : p \in area}
    IN  [color |-> color, area |-> Cardinality(area),
         x1 |-> CHOOSE x \in xs : \A u \in xs : x <= u,
         x2 |-> CHOOSE x \in xs : \A u \in xs : x >= u,
         y1 |-> CHOOSE y \in ys : \A v \in ys : y <= v,
         y2 |-> CHOOSE y \in ys : \A v \in ys : y >= v,
         sum_x |-> Moment(area, 1), sum_y |-> Moment(area, 2)]

(* What of the picture is left in a list of runs.                          *)
LeftOf(image, runs) ==
    [p \in DOMAIN image |->
        IF \E i \in DOMAIN runs : /\ runs[i].y = p[2]
                                  /\ runs[i].x <= p[1]
                                  /\ p[1] < runs[i].x + runs[i].width
        THEN image[p] ELSE 0]

BlobsAreAreas ==
    Is("picture") =>
        LET runs == encodeRuns(input.image, input.w, input.h, input.max_runs)
            regs == extractRegions(connectComponents(runs), 99)
            left == LeftOf(input.image, runs)
            areas == Areas(left)
        IN  /\ Len(regs) = Cardinality(areas)
            /\ ToSet(regs) = {Described(a, left[CHOOSE p \in a : TRUE]) :
                                 a \in areas}

(* The list of a colour holds its large enough blobs once each, the        *)
(* largest first: the filter relies on it when it stops at the first that  *)
(* is too small, and so finds every region that passes its ranges.         *)
ListsAreSorted ==
    Is("list") =>
        LET largest == {r.area : r \in ToSet(input.list)}
            sorted == Sorted(input.list, CHOOSE a \in largest :
                                            \A b \in largest : a >= b,
                             input.bits)
        IN  /\ ToSet(sorted) = ToSet(input.list)
            /\ Len(sorted) = Len(input.list)
            /\ \A i \in 1 .. Len(sorted) - 1 :
                  sorted[i].area >= sorted[i + 1].area

FilterFindsAll ==
    Is("filter") =>
        LET list == ColorList(input.image, input.w, input.h, 1,
                              input.min_area, 99, 99, 2)
        IN  Filtered(list, input.filter)
              = SelectSeq(list, LAMBDA r : Check(r, input.filter))

(* The counts of a box add up to the number of its pixels, at the edges of *)
(* the picture too; the share of green is taken from the same pixels.      *)
BoxIsCounted ==
    Is("box") =>
        LET r == input.region
            box == AddBox(input.image, input.w, input.h, r[1] - input.radius,
                          r[2] - input.radius, r[1] + input.radius,
                          r[2] + input.radius)
        IN  box.num = MapThenSumSet(LAMBDA c : box.channels[c],
                                    DOMAIN box.channels)

(* No ball is sent while a more confident region is left out.              *)
BestAmong(balls, results, most) ==
    /\ Len(balls) = MinOf(most, Len(results))
    /\ \A r \in ToSet(results) \ ToSet(balls), b \in ToSet(balls) :
          r.conf <= b.conf
BallsAreBest ==
    Is("balls") =>
        BestAmong(Balls(input.list, input.options),
                  BallResults(input.list, input.options),
                  input.options.max_balls)

(* No filter loses a ball on the field that no sure robot is near to and   *)
(* that has no marker's colours around it: the goals begin beyond the      *)
(* field, and the quotients of the histogram, which may have nothing below *)
(* the line, do not tell against it.  And a ball that is kept is kept too  *)
(* when any pixel but an orange one turns green.                           *)
PlainBallIsKept ==
    Is("ball") =>
        LET r == input.region
            o == input.options
            n == CountsOf(BallHistogram(r, o))
        IN  /\ isInFieldPlusThreshold(r.at, o.field, 0)
            /\ ~NearRobot(r.at, o)
            /\ n[Pink] = 0 /\ n[Yellow] = 0
            => Confidence(r, o) > 0

GreenKeepsBall ==
    Is("ball") =>
        LET r == input.region
            o == input.options
        IN  Confidence(r, o) > 0 =>
               \A p \in DOMAIN o.image : o.image[p] # Orange =>
                  Confidence(r, [o EXCEPT !.image[p] = FieldGreen]) > 0

(* What the detection relies on: regions are the areas of one colour and   *)
(* the filters choose the best among them.                                 *)
BlobsAreSound ==
    /\ BlobsAreAreas /\ ListsAreSorted /\ FilterFindsAll
    /\ BoxIsCounted /\ BallsAreBest
    /\ PlainBallIsKept /\ GreenKeepsBall
=============================================================================
