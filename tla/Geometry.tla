------------------------------- MODULE Geometry -------------------------------
(* shared/util/geomalgo.h, bbox.h and range.h: nearest points, meeting      *)
(* lines, circles, and boxes.  A point that the code divides for is         *)
(* [v |-> vector, d |-> divisor], a number [n |-> numerator, d |-> divisor]. *)
EXTENDS Vectors

(* The distance and the offset of a point from the line x0-x1, and its      *)
(* offset along it, are multiplied by the distance of x0 and x1.            *)
distance_to_line(x0, x1, p) == Size(perpdot(Sub(x1, x0), Sub(p, x0)))
offset_to_line(x0, x1, p) == dot(perp(Sub(x1, x0)), Sub(p, x0))
offset_along_line(x0, x1, p) == dot(Sub(x1, x0), Sub(p, x0))

(* x0 + v * (n / d) *)
Along(x0, v, n, d) == [v |-> Add(Scaled2(d, x0), Scaled2(n, v)), d |-> d]

segment_near_line(a0, a1, b0, b1) ==
    LET v == Sub(a1, a0)
        n == perp(Sub(b1, b0))
        dn == dot(v, n)
        t == -dot(Sub(a0, b0), n) * (IF dn < 0 THEN -1 ELSE 1)
    IN  IF dn = 0 THEN [v |-> a0, d |-> 1]
        ELSE Along(a0, v, Lesser(Greater(t, 0), Size(dn)), Size(dn))

(* In the frame of a1-a2, where that line has no height.                   *)
intersection(a1, a2, b1, b2) ==
    LET a == Sub(a2, a1)
        b1r == project_in(a, Sub(b1, a1))
        b2r == project_in(a, Sub(b2, a1))
        br == Sub(b1r, b2r)
    IN  [v |-> Add(Scaled2(sqlength(a) * br[2], a1),
                   project_out(a, <<b2r[1] * br[2] - b2r[2] * br[1], 0>>)),
         d |-> sqlength(a) * br[2]]

(* The centre of the circle through three points, when there is one.       *)
CalcCircle(p1, p2, p3) ==
    LET a == Sub(p2, p1)  b == Sub(p3, p2)
        da == dot(a, Add(p1, p2))  db == dot(b, Add(p2, p3))
    IN  [v |-> <<b[2] * da - a[2] * db, a[1] * db - b[1] * da>>,
         d |-> 2 * (a[1] * b[2] - a[2] * b[1])]

interpolate(x0, x1, n, d) == Along(x0, Sub(x1, x0), n, d)

point_on_line(x0, x1, p) ==
    LET l == sqlength(Sub(x1, x0))
    IN  IF l = 0 THEN [v |-> p, d |-> 1]
        ELSE Along(x0, Sub(x1, x0), dot(Sub(x1, x0), Sub(p, x0)), l)

(* A mistake: the line goes on behind its first point.                     *)
OnlyFarEnd(x0, x1, p) ==
    LET sx == Sub(x1, x0)  f == dot(sx, Sub(p, x0))  l == sqlength(sx)
    IN  IF f >= l THEN [v |-> x1, d |-> 1] ELSE Along(x0, sx, f, l)

point_on_segment(x0, x1, p) ==
    LET sx == Sub(x1, x0)  f == dot(sx, Sub(p, x0))  l == sqlength(sx)
    IN  IF f <= 0 THEN [v |-> x0, d |-> 1]
        ELSE IF f >= l THEN [v |-> x1, d |-> 1]
        ELSE Along(x0, sx, f, l)

(* Squares of distances, as fractions.                                     *)
Apart(r, p) == [n |-> sqlength(Sub(r.v, Scaled2(r.d, p))), d |-> r.d * r.d]
distance_to_segment(x0, x1, p) ==
    LET sx == Sub(x1, x0)  f == dot(sx, Sub(p, x0))  l == sqlength(sx)
    IN  IF f <= 0 THEN [n |-> sqdist(x0, p), d |-> 1]
        ELSE IF f >= l THEN [n |-> sqdist(x1, p), d |-> 1]
        ELSE Apart(Along(x0, sx, f, l), p)

closest_point_time(x1, v1, x2, v2) ==
    LET v == Sub(v1, v2)
        t == -dot(v, Sub(x1, x2))
    IN  IF v = <<0, 0>> \/ t < 0 THEN [n |-> 0, d |-> 1]
        ELSE [n |-> t, d |-> sqlength(v)]

Parameter(n, d) == IF n \in {0, d} THEN [n |-> n \div d, d |-> 1]
                   ELSE [n |-> n, d |-> d]

(* The square of the distance of two segments.  The second test of a       *)
(* degenerate segment looks at b, which is no segment's length.            *)

(* <<sN, sD, tN, tD>> of the infinite lines; and the same for an end of    *)
(* the second segment, where x is to be divided by a.                      *)
OfLines(a, b, c, d, e, D, sN) ==
    IF D < 1 THEN <<0, 1, e, c>>
    ELSE IF sN < 0 THEN <<0, D, e, c>>
    ELSE IF sN > D THEN <<D, D, e + b, c>>
    ELSE <<sN, D, a * e - b * d, D>>
AtEnd(line, a, x, tN) ==
    (IF x < 0 THEN <<0, line[2]>>
     ELSE IF x > a THEN <<line[2], line[2]>> ELSE <<x, a>>)
    \o <<tN, line[4]>>
OfSegments(line, a, b, d) ==
    IF line[3] < 0 THEN AtEnd(line, a, -d, 0)
    ELSE IF line[3] > line[4] THEN AtEnd(line, a, b - d, line[4])
    ELSE line

Gap(u, v, w, s, t, n) ==
    [n |-> sqlength(Add(Scaled2(n, w), Sub(Scaled2(s.n * (n \div s.d), u),
                                           Scaled2(t.n * (n \div t.d), v)))),
     d |-> n * n]
GapAt(u, v, w, s, t) ==
    Gap(u, v, w, s, t, IF s.d = t.d THEN s.d ELSE s.d * t.d)
ClosestGap(u, v, w, best) ==
    GapAt(u, v, w, Parameter(best[1], best[2]), Parameter(best[3], best[4]))

distance_seg_to_seg(s1a, s1b, s2a, s2b) ==
    LET u == Sub(s1b, s1a)  v == Sub(s2b, s2a)  w == Sub(s1a, s2a)
        Distance(a, b, c, d, e) ==
            IF a < 1 /\ b < 1 THEN [n |-> sqdist(s1a, s2a), d |-> 1]
            ELSE IF a < 1 THEN distance_to_segment(s2a, s2b, s1a)
            ELSE IF b < 1 THEN distance_to_segment(s1a, s1b, s2a)
            ELSE ClosestGap(u, v, w,
                     OfSegments(OfLines(a, b, c, d, e, a * c - b * b,
                                        b * e - c * d), a, b, d))
    IN  Distance(dot(u, u), dot(u, v), dot(v, v), dot(u, w), dot(v, w))

ray_plane_intersect(pOrigin, pNormal, rOrigin, rVector) ==
    [n |-> dot(Scaled2(-1, pNormal), Sub(rOrigin, pOrigin)),
     d |-> dot(pNormal, rVector)]

(* rV is a unit vector; -1 when the ray misses, or its sphere is touched    *)
(* nowhere.                                                                *)
ray_sphere_intersect(rO, rV, sO, sR) ==
    LET Q == Sub(sO, rO)
        v == dot(Q, rV)
        d == sR * sR - (sqlength(Q) - v * v)
    IN  IF d < 0 THEN -1 ELSE v - Root(d)

(* A mistake: the radius and the tangent's length are swapped.             *)
TangentsSwapped(cen, rad, p) ==
    LET delta == Sub(cen, p)
        l == Root(sqlength(delta) - rad * rad)
    IN  {[v |-> Scaled2(l, project_out(<<rad, l * side>>, delta)),
          d |-> sqlength(delta)] : side \in {1, -1}}

(* The vectors from p to where its tangents touch the circle: none inside. *)
CircleTangent(cen, rad, p) ==
    LET delta == Sub(cen, p)
        t == sqlength(delta) - rad * rad
        l == Root(t)
    IN  IF t < 0 THEN {}
        ELSE {[v |-> Scaled2(l, project_out(<<l, rad * side>>, delta)),
               d |-> sqlength(delta)] : side \in {1, -1}}

(* The same without their length.                                          *)
CircleTangentDir(cen, rad, p) ==
    LET delta == Sub(cen, p)
        t == sqlength(delta) - rad * rad
    IN  IF t < 0 THEN {}
        ELSE {[v |-> project_out(<<Root(t), rad * side>>, delta),
               d |-> sqlength(delta)] : side \in {1, -1}}

(* dir is as long as it comes; dist is what dir is multiplied by.           *)
LineMidpointAngular(p0, p1) ==
    LET dir == Add(Scaled2(Root(sqlength(p1)), p0),
                   Scaled2(Root(sqlength(p0)), p1))
        pn == Sub(p1, p0)
    IN  [dir |-> dir, n |-> perpdot(pn, p0), d |-> perpdot(pn, dir)]

----------------------------------------------------------------------------
(* Boxes: centre and extent; the corners are even, so that halves are      *)
(* whole.                                                                  *)

Half(a) == [i \in DOMAIN a |-> a[i] \div 2]

BoxOf2(p0, p1) == [cen |-> Half(Add(p1, p0)), rad |-> Half(Sub(p1, p0))]
check2(b, c) ==
    \E i \in 1 .. 2 : Size(c.cen[i] - b.cen[i]) > c.rad[i] + b.rad[i]
inside2(b, p) == \A i \in 1 .. 2 : Size(p[i] - b.cen[i]) < b.rad[i]
expand2(b, amt) == [b EXCEPT !.rad = <<@[1] + amt, @[2] + amt>>]
set2(p0, p1, rad) ==
    [cen |-> Half(Add(p0, p1)),
     rad |-> Half(<<Size(p1[1] - p0[1]) + 2 * rad,
                    Size(p1[2] - p0[2]) + 2 * rad>>)]
add2(b, c) == BoxOf2(min2(Sub(b.cen, b.rad), Sub(c.cen, c.rad)),
                     max2(Add(b.cen, b.rad), Add(c.cen, c.rad)))
addPoint2(b, center, radius) ==
    LET rv == <<radius, radius>>
    IN  BoxOf2(min2(Sub(b.cen, b.rad), Sub(center, rv)),
               max2(Add(b.cen, b.rad), Add(center, rv)))
merge2(b, c) == add2(b, c)

BoxOf3(p0, p1) == [cen |-> Half(Add3(p1, p0)), rad |-> Half(Sub3(p1, p0))]
check3(b, c) ==
    \E i \in 1 .. 3 : Size(c.cen[i] - b.cen[i]) > c.rad[i] + b.rad[i]
inside3(b, p) == \A i \in 1 .. 3 : Size(p[i] - b.cen[i]) < b.rad[i]
expand3(b, amt) == [b EXCEPT !.rad = <<@[1] + amt, @[2] + amt, @[3] + amt>>]
set3(p0, p1, rad) ==
    [cen |-> Half(Add3(p0, p1)),
     rad |-> Half([i \in 1 .. 3 |-> Size(p1[i] - p0[i]) + 2 * rad])]
add3(b, c) == BoxOf3(min3(Sub3(b.cen, b.rad), Sub3(c.cen, c.rad)),
                     max3(Add3(b.cen, b.rad), Add3(c.cen, c.rad)))
addPoint3(b, center, radius) ==
    LET rv == <<radius, radius, radius>>
    IN  BoxOf3(min3(Sub3(b.cen, b.rad), Sub3(center, rv)),
               max3(Add3(b.cen, b.rad), Add3(center, rv)))
merge3(b, c) == add3(b, c)

(* Range: a number between two, which belong to it unless they are open.   *)
InRange(r, v, open_min, open_max) ==
    /\ IF open_min THEN v > r.min ELSE v >= r.min
    /\ IF open_max THEN v < r.max ELSE v <= r.max
RangeExpand(r, e) == [min |-> r.min - e, max |-> r.max + e]

----------------------------------------------------------------------------
(* Properties.                                                             *)

About(kinds) == input.about \in kinds
NotFarther(a, b) == a.n * b.d <= b.n * a.d
Same(a, b) == a.n * b.d = b.n * a.d
On(r, x0, x1) ==
    perpdot(Sub(x1, x0), Sub(r.v, Scaled2(r.d, x0))) = 0

(* geomalgo.h:32-63, :170-231: the offsets from a line and along it make up *)
(* the distance; the nearest point of a line is the foot of the             *)
(* perpendicular, and no point of a segment is nearer than its nearest      *)
(* point, whose distance is the distance to the segment.                   *)
NearestPointsAreNearest ==
    About({"lines"}) =>
        LET x0 == input.a0  x1 == input.a1  p == input.b0
            l == sqdist(x0, x1)
            off == offset_to_line(x0, x1, p)
            near == point_on_segment(x0, x1, p)
        IN  /\ off * off + offset_along_line(x0, x1, p)
                             * offset_along_line(x0, x1, p)
                 = l * sqdist(p, x0)
            /\ distance_to_line(x0, x1, p) = Size(off)
            /\ l > 0 => /\ On(point_on_line(x0, x1, p), x0, x1)
                        /\ Same(Apart(point_on_line(x0, x1, p), p),
                                [n |-> off * off, d |-> l])
            /\ Same(Apart(near, p), distance_to_segment(x0, x1, p))
            /\ \A n \in 0 .. 4 :
                 NotFarther(Apart(near, p),
                            Apart(interpolate(x0, x1, n, 4), p))

(* geomalgo.h:67-102, :115: no point of a segment is nearer to a line than  *)
(* segment_near_line's; the intersection lies on both lines; the centre of  *)
(* a circle is as far from each of its three points, which is found unless  *)
(* they lie on a line.                                                     *)
LinesMeetWhereTheySay ==
    About({"lines"}) =>
        LET a0 == input.a0  a1 == input.a1  b0 == input.b0  b1 == input.b1
            To(r) == [n |-> Size(perpdot(Sub(b1, b0),
                                         Sub(r.v, Scaled2(r.d, b0)))),
                      d |-> r.d]
            meet == intersection(a0, a1, b0, b1)
            cen == CalcCircle(a0, a1, b0)
        IN  /\ \A n \in 0 .. 4 :
                 NotFarther(To(segment_near_line(a0, a1, b0, b1)),
                            To(interpolate(a0, a1, n, 4)))
            /\ meet.d # 0 => On(meet, a0, a1) /\ On(meet, b0, b1)
            /\ meet.d = 0 <=> perpdot(Sub(a1, a0), Sub(b1, b0)) = 0
            /\ cen.d = 0 <=> perpdot(Sub(a1, a0), Sub(b0, a0)) = 0
            /\ cen.d # 0 => /\ Same(Apart(cen, a0), Apart(cen, a1))
                            /\ Same(Apart(cen, a1), Apart(cen, b0))

(* The distance of two segments: nothing when they cross, else that of an  *)
(* end from the other segment.                                             *)
Crossing(a0, a1, b0, b1) ==
    LET Sides(p, q, x0, x1) ==
            perpdot(Sub(x1, x0), Sub(p, x0)) * perpdot(Sub(x1, x0), Sub(q, x0))
    IN  Sides(a0, a1, b0, b1) < 0 /\ Sides(b0, b1, a0, a1) < 0
EndDistances(a0, a1, b0, b1) ==
    {distance_to_segment(a0, a1, b0), distance_to_segment(a0, a1, b1),
     distance_to_segment(b0, b1, a0), distance_to_segment(b0, b1, a1)}
IsGap(g) ==
    LET a0 == input.a0  a1 == input.a1  b0 == input.b0  b1 == input.b1
    IN  IF Crossing(a0, a1, b0, b1) THEN g.n = 0
        ELSE /\ \A f \in EndDistances(a0, a1, b0, b1) : NotFarther(g, f)
             /\ \E f \in EndDistances(a0, a1, b0, b1) : Same(g, f)

(* geomalgo.h:261: of segments that point the same way, the distance is the *)
(* one of their nearest points.                                            *)
AcuteSegmentsApart ==
    About({"lines"}) =>
        \/ dot(Sub(input.a1, input.a0), Sub(input.b1, input.b0)) <= 0
        \/ IsGap(distance_seg_to_seg(input.a0, input.a1, input.b0, input.b1))

(* geomalgo.h:234: from now on two moving points are never nearer than at  *)
(* the time of their closest approach.                                     *)
ApproachIsClosest ==
    About({"lines"}) =>
        LET v == Sub(input.a1, input.b1)
            gap == Sub(input.a0, input.b0)
            t == closest_point_time(input.a0, input.a1, input.b0, input.b1)
            At(n, d) == Apart(Along(gap, v, n, d), <<0, 0>>)
        IN  t.n >= 0 /\ \A n \in 0 .. 6 : NotFarther(At(t.n, t.d), At(n, 2))

(* geomalgo.h:360-459: rays end on what they meet, tangents touch their     *)
(* circle at a right angle to its radius, and the middle of an angle halves *)
(* it on the line.                                                         *)
CirclesAreTouched ==
    About({"circle"}) =>
        LET p == input.p  cen == input.cen  r == input.rad
            hit == ray_plane_intersect(cen, input.normal, p, input.ray)
            ball == ray_sphere_intersect(p, <<1, 0>>, cen, r)
            mid == LineMidpointAngular(input.p, input.q)
        IN  /\ hit.d # 0 =>
                 dot(input.normal, Sub(Along(p, input.ray, hit.n, hit.d).v,
                                       Scaled2(hit.d, cen))) = 0
            /\ \/ ball = -1
               \/ sqdist(Add(p, <<ball, 0>>), cen) = r * r
            /\ \A t \in CircleTangent(cen, r, p) :
                 LET at == [t EXCEPT !.v = Add(@, Scaled2(t.d, p))]
                 IN  /\ Same(Apart(at, cen), [n |-> r * r, d |-> 1])
                     /\ dot(t.v, Sub(at.v, Scaled2(t.d, cen))) = 0
            /\ \A t \in CircleTangentDir(cen, r, p) :
                 t.d > 0 => sqlength(t.v) = t.d * t.d
            /\ (CircleTangent(cen, r, p) = {}) <=> sqdist(cen, p) < r * r
            /\ mid.d # 0 =>
                 /\ On([v |-> Scaled2(mid.n, mid.dir), d |-> mid.d], p, input.q)
                 /\ perpdot(p, mid.dir) * Root(sqlength(input.q))
                      = perpdot(mid.dir, input.q) * Root(sqlength(p))

(* bbox.h:155-204, :64-115: boxes that are apart have no point in common; a *)
(* merged box holds both and nothing it need not hold; a box with a point   *)
(* added holds the point's surroundings.                                   *)
BoxesHoldWhatTheyMerge ==
    About({"boxes"}) =>
        LET b == set2(input.p0, input.p1, input.rad)
            c == set2(input.q0, input.q1, 0)
            m == merge2(b, c)
            In(x, p) == \A i \in 1 .. 2 : Size(p[i] - x.cen[i]) <= x.rad[i]
            Points == {<<x, y>> : x \in -4 .. 8, y \in -4 .. 8}
            Lift(x) == [cen |-> x.cen \o <<0>>, rad |-> x.rad \o <<2>>]
        IN  /\ check2(b, c) <=> \A p \in Points : ~ (In(b, p) /\ In(c, p))
            /\ \A p \in Points : In(b, p) \/ In(c, p) => In(m, p)
            /\ \A i \in 1 .. 2, side \in {1, -1} : \E p \in Points :
                 /\ In(b, p) \/ In(c, p)
                 /\ p[i] = m.cen[i] + side * m.rad[i]
            /\ In(addPoint2(b, input.q0, 2), Add(input.q0, <<2, -2>>))
            /\ inside2(b, input.q0) =>
                 /\ addPoint2(b, input.q0, 0) = b
                 /\ ~ check2(b, c)
            /\ inside2(expand2(b, 1), input.p0)
            /\ check3(Lift(b), Lift(c)) <=> check2(b, c)
            /\ merge3(Lift(b), Lift(c)) = Lift(m)
            /\ addPoint3(Lift(b), input.q0 \o <<0>>, 2)
                 = Lift(addPoint2(b, input.q0, 2))
            /\ inside3(expand3(set3(input.p0 \o <<0>>, input.p1 \o <<4>>, 0), 1),
                       input.p1 \o <<0>>)
            /\ \A o \in BOOLEAN, u \in BOOLEAN :
                 LET r == [min |-> input.p0[1], max |-> input.p1[1]]
                 IN  InRange(r, input.q0[1], o, u) =>
                       InRange(RangeExpand(r, 1), input.q0[1], TRUE, TRUE)

(* What the lines, circles and boxes promise.                              *)
LinesAreSound ==
    /\ NearestPointsAreNearest /\ LinesMeetWhereTheySay
    /\ AcuteSegmentsApart /\ ApproachIsClosest /\ CirclesAreTouched
    /\ BoxesHoldWhatTheyMerge
=============================================================================
