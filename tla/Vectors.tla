------------------------------ MODULE Vectors ------------------------------
(* The vectors, quaternions, moving frames and numbers of shared/util      *)
(* (gvector.h, quaternion.h, pose.h, util.h).  A vector is a sequence of    *)
(* integers; where the code divides, the result is left multiplied by the   *)
(* divisor, so that all is exact: a unit vector, a turn or a quaternion     *)
(* carries its divisor "d" (the turn [c |-> 3, s |-> 4, d |-> 5] has the    *)
(* cosine 3/5 and the sine 4/5).                                           *)
EXTENDS CheckedInput, Integers, Sequences, FiniteSets

Lesser(x, y) == IF x < y THEN x ELSE y
Greater(x, y) == IF x > y THEN x ELSE y
Size(x) == IF x < 0 THEN -x ELSE x
Plus(x, y) == x + y
Minus(x, y) == x - y
Root(n) == CHOOSE r \in 0 .. n : r * r = n

----------------------------------------------------------------------------
(* Vectors of three.                                                       *)

Each3(Op(_, _), a, b) == <<Op(a[1], b[1]), Op(a[2], b[2]), Op(a[3], b[3])>>
Scaled3(f, a) == <<f * a[1], f * a[2], f * a[3]>>
Add3(a, b) == Each3(Plus, a, b)
Sub3(a, b) == Each3(Minus, a, b)
LessEq3(a, b) == \A i \in 1 .. 3 : a[i] <= b[i]
min3(a, b) == Each3(Lesser, a, b)
max3(a, b) == Each3(Greater, a, b)
take_min3(a, p) == [i \in 1 .. 3 |-> IF p[i] < a[i] THEN p[i] ELSE a[i]]
take_max3(a, p) == [i \in 1 .. 3 |-> IF p[i] > a[i] THEN p[i] ELSE a[i]]
abs3(a) == <<Size(a[1]), Size(a[2]), Size(a[3])>>
dot3(a, b) == a[1] * b[1] + a[2] * b[2] + a[3] * b[3]
absdot3(a, b) == Size(a[1] * b[1]) + Size(a[2] * b[2]) + Size(a[3] * b[3])
sqlength3(a) == a[1] * a[1] + a[2] * a[2] + a[3] * a[3]
sqdist3(a, b) == sqlength3(Sub3(a, b))
bound3(v, low, high) ==
    [i \in 1 .. 3 |-> IF v[i] < low THEN low
                      ELSE IF v[i] > high THEN high ELSE v[i]]

cross3(a, b) == <<a[2] * b[3] - a[3] * b[2], a[3] * b[1] - a[1] * b[3],
                  a[1] * b[2] - a[2] * b[1]>>

(* A mistake: the turn is left handed. *)
RotateLeft(v, r, t) ==
    Sub3(Scaled3(r.d * r.d * t.c, v),
         Sub3(Scaled3(r.d * t.s, cross3(r.v, v)),
              Scaled3((t.d - t.c) * dot3(r.v, v), r.v)))

(* v turned around the axis r: the code's matrix, row by row, times        *)
(* r.d * r.d * t.d.                                                        *)
rotate3(v, r, t) ==
    LET n == t.d - t.c
        Entry(i, j) == n * r.v[i] * r.v[j]
        Side(i) == t.s * r.v[i] * r.d
        c == t.c * r.d * r.d
    IN  <<(Entry(1, 1) + c) * v[1] + (Entry(1, 2) - Side(3)) * v[2]
             + (Entry(1, 3) + Side(2)) * v[3],
          (Entry(2, 1) + Side(3)) * v[1] + (Entry(2, 2) + c) * v[2]
             + (Entry(2, 3) - Side(1)) * v[3],
          (Entry(3, 1) - Side(2)) * v[1] + (Entry(3, 2) + Side(1)) * v[2]
             + (Entry(3, 3) + c) * v[3]>>

rotate_x(v, t) ==
    <<t.d * v[1], t.c * v[2] - t.s * v[3], t.s * v[2] + t.c * v[3]>>
rotate_y(v, t) ==
    <<t.c * v[1] + t.s * v[3], t.d * v[2], t.c * v[3] - t.s * v[1]>>
rotate_z(v, t) ==
    <<t.c * v[1] - t.s * v[2], t.s * v[1] + t.c * v[2], t.d * v[3]>>

----------------------------------------------------------------------------
(* Vectors of two.                                                         *)

Each2(Op(_, _), a, b) == <<Op(a[1], b[1]), Op(a[2], b[2])>>
Scaled2(f, a) == <<f * a[1], f * a[2]>>
min2(a, b) == Each2(Lesser, a, b)
max2(a, b) == Each2(Greater, a, b)
Add(a, b) == Each2(Plus, a, b)
Sub(a, b) == Each2(Minus, a, b)
dot(a, b) == a[1] * b[1] + a[2] * b[2]
perp(a) == <<-a[2], a[1]>>
perpdot(a, b) == a[1] * b[2] - a[2] * b[1]
cross(a, b) == a[1] * b[2] - b[1] * a[2]
sqlength(a) == a[1] * a[1] + a[2] * a[2]
sqdist(a, b) == sqlength(Sub(a, b))

(* bound(max_length): the vector itself, or the one of that length.        *)
BoundTo(a, most) ==
    IF sqlength(a) < most * most THEN [v |-> a, d |-> 1]
    ELSE [v |-> Scaled2(most, a), d |-> Root(sqlength(a))]

rotate2(a, t) == <<t.c * a[1] - t.s * a[2], t.s * a[1] + t.c * a[2]>>
project_in(b, p) == <<b[1] * p[1] + b[2] * p[2], b[1] * p[2] - b[2] * p[1]>>
project_out(b, p) == <<b[1] * p[1] - b[2] * p[2], b[2] * p[1] + b[1] * p[2]>>

----------------------------------------------------------------------------
(* DynamicPose2D: the frame of something that moves and turns.  heading is *)
(* a unit vector times pose.d; loc, vel and ang_vel are whole.             *)

toLocalPoint(pose, wp) == project_in(pose.heading, Sub(wp, pose.loc))

toLocal(pose, wp, wv) ==
    LET p == toLocalPoint(pose, wp)
    IN  [p |-> p,
         v |-> Sub(project_in(pose.heading, Sub(wv, pose.vel)),
                   Scaled2(pose.ang_vel, perp(p)))]

toWorldPoint(pose, lp) ==
    Add(Scaled2(pose.d * pose.d, pose.loc), project_out(pose.heading, lp))

(* A mistake: the point is in the world before its velocity is worked out. *)
ToWorldPointFirst(pose, lp, lv) ==
    LET p == toWorldPoint(pose, lp)
    IN  [p |-> p,
         v |-> Add(Scaled2(pose.d * pose.d, pose.vel),
                   project_out(pose.heading,
                               Add(lv, Scaled2(pose.ang_vel, perp(p)))))]

(* Of a local point and velocity that are multiplied by pose.d.            *)
toWorld(pose, lp, lv) ==
    [p |-> toWorldPoint(pose, lp),
     v |-> Add(Scaled2(pose.d * pose.d, pose.vel),
               project_out(pose.heading,
                           Add(lv, Scaled2(pose.ang_vel, perp(lp)))))]
----------------------------------------------------------------------------
(* shared/util/quaternion.h and what its turns and those of the vectors and *)
(* of the moving frames have to do with each other.  A quaternion is        *)
(* [q |-> <<x, y, z, w>>, d |-> divisor].                                   *)

Product(q, r) ==
    LET x == q.q[1]  y == q.q[2]  z == q.q[3]  w == q.q[4]
        p == r.q
    IN  [q |-> <<w * p[1] + x * p[4] + y * p[3] - z * p[2],
                 w * p[2] - x * p[3] + y * p[4] + z * p[1],
                 w * p[3] + x * p[2] - y * p[1] + z * p[4],
                 w * p[4] - x * p[1] - y * p[2] - z * p[3]>>,
         d |-> q.d * r.d]

(* *= with a vector: the vector is a quaternion without w.                 *)
TimesVector(q, v) ==
    LET x == q.q[1]  y == q.q[2]  z == q.q[3]  w == q.q[4]
    IN  [q |-> <<w * v[1] + y * v[3] - z * v[2],
                 w * v[2] - x * v[3] + z * v[1],
                 w * v[3] + x * v[2] - y * v[1],
                 0 - x * v[1] - y * v[2] - z * v[3]>>,
         d |-> q.d]

(* A mistake: the factors of the binary operator in the order they have in *)
(* the assignment.                                                         *)
TimesAsAssigned(q, r) == Product(q, r)

(* The binary operator multiplies the other way round than *= does.        *)
Times(q, r) ==
    LET a == r.q  b == q.q
    IN  [q |-> <<a[4] * b[1] + a[1] * b[4] + a[2] * b[3] - a[3] * b[2],
                 a[4] * b[2] - a[1] * b[3] + a[2] * b[4] + a[3] * b[1],
                 a[4] * b[3] + a[1] * b[2] - a[2] * b[1] + a[3] * b[4],
                 a[4] * b[4] - a[1] * b[1] - a[2] * b[2] - a[3] * b[3]>>,
         d |-> q.d * r.d]

Magnitude(q) == q.q[1] * q.q[1] + q.q[2] * q.q[2] + q.q[3] * q.q[3]
                + q.q[4] * q.q[4]

norm(q) == IF Magnitude(q) \in {0, q.d * q.d} THEN q
           ELSE [q EXCEPT !.d = Root(Magnitude(q))]

conjugate(q) == [q EXCEPT !.q = <<-@[1], -@[2], -@[3], @[4]>>]

invert(q) ==
    LET c == conjugate(q)
    IN  IF Magnitude(c) = 0 THEN c
        ELSE [q |-> [i \in 1 .. 4 |-> c.q[i] * c.d], d |-> Magnitude(c)]

(* The angle's half is a turn; the axis is taken with the length it has:    *)
(* vn.norm() yields the unit vector and the code drops it.                  *)
setAxis(axis, half) ==
    IF half.s = 0 /\ half.c = half.d THEN [q |-> <<0, 0, 0, 1>>, d |-> 1]
    ELSE [q |-> <<axis.v[1] * half.s, axis.v[2] * half.s, axis.v[3] * half.s,
                  half.c * axis.d>>,
          d |-> axis.d * half.d]

(* Times q.d * q.d, for a unit quaternion.                                  *)
rotateVectorByQuaternion(q, v) ==
    LET x == q.q[1]  y == q.q[2]  z == q.q[3]  w == q.q[4]
        n == q.d * q.d
    IN  <<(n - 2 * (y * y + z * z)) * v[1] + 2 * (x * y - w * z) * v[2]
             + 2 * (x * z + w * y) * v[3],
          2 * (x * y + w * z) * v[1] + (n - 2 * (x * x + z * z)) * v[2]
             + 2 * (y * z - w * x) * v[3],
          2 * (x * z - w * y) * v[1] + 2 * (y * z + w * x) * v[2]
             + (n - 2 * (x * x + y * y)) * v[3]>>

(* m[0] to m[15].                                                          *)
getMatrix(q) ==
    LET x == q.q[1]  y == q.q[2]  z == q.q[3]  w == q.q[4]
        n == q.d * q.d
    IN  <<n - 2 * (y * y + z * z), 2 * (x * y - w * z), 2 * (x * z + w * y), 0,
          2 * (x * y + w * z), n - 2 * (x * x + z * z), 2 * (y * z - w * x), 0,
          2 * (x * z - w * y), 2 * (y * z + w * x), n - 2 * (x * x + y * y), 0,
          0, 0, 0, n>>

setEuler(pitch, yaw, roll) ==
    LET c12 == yaw.c * roll.c  s12 == yaw.s * roll.s
    IN  norm([q |-> <<c12 * pitch.s + s12 * pitch.c,
                      yaw.s * roll.c * pitch.c + yaw.c * roll.s * pitch.s,
                      yaw.c * roll.s * pitch.c - yaw.s * roll.c * pitch.s,
                      c12 * pitch.c - s12 * pitch.s>>,
              d |-> yaw.d * roll.d * pitch.d])

(* The arguments of atan2, <<sine, cosine>> times the same number, away     *)
(* from the poles.                                                         *)
Yaw(q) ==
    LET x == q.q[1]  y == q.q[2]  z == q.q[3]  w == q.q[4]
    IN  <<2 * y * w - 2 * x * z, q.d * q.d - 2 * (y * y) - 2 * (z * z)>>
Pitch(q) ==
    LET x == q.q[1]  y == q.q[2]  z == q.q[3]  w == q.q[4]
    IN  <<2 * x * w - 2 * y * z, q.d * q.d - 2 * (x * x) - 2 * (z * z)>>
RollSine(q) == 2 * q.q[1] * q.q[2] + 2 * q.q[3] * q.q[4]

(* Of two unit vectors; "with left-handed rotations": w is negated.         *)
shortestArc(from, to) ==
    LET n == from.d * to.d
        twice == 2 * (dot3(from.v, to.v) + n)
        half == Root(twice * n)
        c == cross3(from.v, to.v)
    IN  [q |-> <<2 * c[1] * n, 2 * c[2] * n, 2 * c[3] * n, -(half * half)>>,
         d |-> 2 * half * n]

----------------------------------------------------------------------------
(* util.h.  A fraction is a pair of numerator and denominator; a whole     *)
(* turn is Circle, so that M_PI is a whole number.                         *)
Circle == 16
HalfCircle == Circle \div 2

abs_bound(x, range) ==
    IF x < -range THEN -range ELSE IF x > range THEN range ELSE x

(* A mistake: the first two are not compared again.                        *)
InOrder(s, i, j) ==
    IF s[i] > s[j] THEN [s EXCEPT ![i] = s[j], ![j] = s[i]] ELSE s
sortOnce(s) == InOrder(InOrder(s, 1, 2), 2, 3)
sort(s) == InOrder(InOrder(InOrder(s, 1, 2), 2, 3), 1, 2)

largest3(s) == IF s[1] > s[2] THEN Greater(s[1], s[3]) ELSE Greater(s[2], s[3])
least3(s) == IF s[1] < s[2] THEN Lesser(s[1], s[3]) ELSE Lesser(s[2], s[3])

(* The first of the largest, and of the smallest.                          *)
max_idx(s) == CHOOSE i \in DOMAIN s : \A j \in DOMAIN s :
                 IF j < i THEN s[j] < s[i] ELSE s[j] <= s[i]
min_idx(s) == CHOOSE i \in DOMAIN s : \A j \in DOMAIN s :
                 IF j < i THEN s[j] > s[i] ELSE s[j] >= s[i]

(* The operator %, with the sign of its left side, and what is made of it. *)
Remainder(x, m) == IF x < 0 THEN -((-x) % m) ELSE x % m
mod(x, m) == Remainder(Remainder(x, m) + m, m)
fmodt(x, m) == x - (x \div m) * m

RECURSIVE gcd(_, _)
gcd(x, y) == IF y = 0 THEN x ELSE gcd(y, x % y)
lcm(x, y) == (x \div gcd(x, y)) * (y \div gcd(x, y))

(* (-n) & n is the lowest bit of n.                                        *)
LowestBit(n) == CHOOSE b \in {2 ^ k : k \in 0 .. 16} :
                   n % b = 0 /\ n % (2 * b) # 0
one_bit_set(n) == n # 0 /\ LowestBit(n) = n

ramp(x, x0, y0, x1, y1) ==
    IF x < x0 THEN <<y0, 1>> ELSE IF x > x1 THEN <<y1, 1>>
    ELSE <<y0 * (x1 - x0) + (y1 - y0) * (x - x0), x1 - x0>>

bool_sat_count(cnt, low, high, val) ==
    IF val THEN IF cnt < high THEN cnt + 1 ELSE high
    ELSE IF cnt > low THEN cnt - 1 ELSE low

(* rint(): the nearest whole number, the even one of two.                  *)
rint(n, d) ==
    LET q == n \div d  twice == 2 * (n % d)
    IN  IF twice < d \/ (twice = d /\ q % 2 = 0) THEN q ELSE q + 1

angle_mod(a) == a - Circle * rint(a, Circle)
angle_long(a) == IF a < 0 THEN Circle + a ELSE a - Circle
angle_pos(a) == Remainder(a + Circle, Circle)
angle_diff(a, b) == (a - b) - Circle * rint(a - b, Circle)
angle_dist(a, b) == Size(angle_mod(a - b))

(* Of even numbers; a mistake: the left one is not brought above.          *)
avg_angleAsIs(left, right) == (left + right) \div 2
avg_angle(left, right) ==
    LET sum == (IF left < right THEN left + Circle ELSE left) + right
    IN  IF sum \div 2 > HalfCircle THEN sum \div 2 - Circle ELSE sum \div 2

abs_bound_angle(middle, tolerance, a) ==
    angle_mod(abs_bound(angle_mod(a - middle), tolerance) + middle)

----------------------------------------------------------------------------
(* Properties.  input.q and input.r are unit quaternions, input.axis a     *)
(* unit vector, input.half half a turn, input.turn the whole.              *)


(* quaternion.h:69, :345: turning with a product made by *= is turning with *)
(* the right factor and then the left one; the binary operator's product    *)
(* turns with the left one first.                                          *)
ProductsTurnInTurn ==
    Is("quaternions") =>
        LET Turned(q, v) == rotateVectorByQuaternion(q, v)
            v == input.v
        IN  /\ Turned(Product(input.q, input.r), v)
                 = Turned(input.q, Turned(input.r, v))
            /\ Turned(Times(input.q, input.r), v)
                 = Turned(input.r, Turned(input.q, v))
            /\ TimesVector(input.q, v).q
                 = Product(input.q, [q |-> v \o <<0>>, d |-> 1]).q
            /\ Turned(invert(input.q), Turned(input.q, v))
                 = Scaled3(input.q.d * input.q.d * invert(input.q).d
                               * invert(input.q).d, v)

(* quaternion.h:248: the matrix's rows turn a vector as                     *)
(* rotateVectorByQuaternion does.                                          *)
MatrixTurnsToo ==
    Is("quaternions") =>
        LET m == getMatrix(input.q)
        IN  rotateVectorByQuaternion(input.q, input.v)
              = [i \in 1 .. 3 |-> dot3(SubSeq(m, 4 * i - 3, 4 * i - 1),
                                       input.v)]

(* quaternion.h:200, gvector.h:356: a quaternion made of an axis and an     *)
(* angle turns as the vector's own rotate() does, which keeps the lengths   *)
(* and leaves the axis where it is; around the axes of the coordinates it   *)
(* is rotate_x, rotate_y and rotate_z, and rotate_z is the turn of two      *)
(* dimensions.                                                             *)
TurnsAgree ==
    Is("turns") =>
        LET r == input.axis  t == input.turn  v == input.v
            q == setAxis(r, input.half)
            turned == rotate3(v, r, t)
            Unit(i) == [v |-> [j \in 1 .. 3 |-> IF i = j THEN 1 ELSE 0],
                        d |-> 1]
        IN  /\ Scaled3(r.d * r.d * t.d, rotateVectorByQuaternion(q, v))
                 = Scaled3(q.d * q.d, turned)
            /\ sqlength3(turned)
                 = r.d * r.d * t.d * r.d * r.d * t.d * sqlength3(v)
            /\ rotate3(r.v, r, t) = Scaled3(r.d * r.d * t.d, r.v)
            /\ rotate_x(v, t) = rotate3(v, Unit(1), t)
            /\ rotate_y(v, t) = rotate3(v, Unit(2), t)
            /\ rotate_z(v, t) = rotate3(v, Unit(3), t)
            /\ SubSeq(rotate_z(v, t), 1, 2) = rotate2(SubSeq(v, 1, 2), t)

(* quaternion.h:290: the Euler angles are those of three turns, and away    *)
(* from the poles they are read back as they were set.                     *)
EulerAnglesComeBack ==
    Is("euler") =>
        LET q == setEuler(input.pitch.half, input.yaw.half, input.roll.half)
            About(axis, angle) ==
                setAxis([v |-> axis, d |-> 1], angle.half)
            made == Product(Product(About(<<0, 1, 0>>, input.yaw),
                                    About(<<0, 0, 1>>, input.roll)),
                            About(<<1, 0, 0>>, input.pitch))
            SameWay(a, t) == a[1] * t.c = a[2] * t.s
                             /\ a[1] * t.s + a[2] * t.c > 0
        IN  /\ \A i \in 1 .. 4 : made.q[i] * q.d = q.q[i] * made.d
            /\ RollSine(q) * input.roll.turn.d
                 = input.roll.turn.s * q.d * q.d
            /\ input.roll.turn.c > 0 =>
                 SameWay(Yaw(q), input.yaw.turn)
                 /\ SameWay(Pitch(q), input.pitch.turn)

(* quaternion.h:356: the shortest arc's quaternion, with its w negated,     *)
(* turns "to" back into "from".                                            *)
ArcTurnsBack ==
    Is("arc") =>
        LET q == shortestArc(input.from, input.to)
        IN  /\ Magnitude(q) = q.d * q.d
            /\ Scaled3(input.from.d, rotateVectorByQuaternion(q, input.to.v))
                 = Scaled3(q.d * q.d * input.to.d, input.from.v)

(* gvector.h:186, :500: the cross product is at right angles to its factors *)
(* and as long as the area they span; the bounds of two vectors are the     *)
(* same whether they are made or taken.                                    *)
CrossIsNormal ==
    Is("vectors") =>
        LET a == input.a  b == input.b
            c == cross3(a, b)
        IN  /\ dot3(a, c) = 0 /\ dot3(b, c) = 0
            /\ sqlength3(c) + dot3(a, b) * dot3(a, b)
                 = sqlength3(a) * sqlength3(b)
            /\ sqlength3(a) + sqlength3(b) - 2 * dot3(a, b) = sqdist3(a, b)
            /\ min3(a, b) = take_min3(a, b) /\ max3(a, b) = take_max3(a, b)
            /\ LessEq3(min3(a, b), max3(a, b))
            /\ Add3(min3(a, b), max3(a, b)) = Add3(a, b)
            /\ Size(dot3(a, b)) <= absdot3(a, b)
            /\ absdot3(a, b) = dot3(abs3(a), abs3(b))
            /\ LessEq3(bound3(a, -1, 1), <<1, 1, 1>>)
            /\ bound3(a, -9, 9) = a

(* pose.h:72-83: a point and its velocity go into a moving, turning frame   *)
(* and come back the same, and the frame of a basis keeps the angles.       *)
FramesComeBack ==
    Is("frame") =>
        LET pose == input.pose
            n == pose.d * pose.d
            there == toLocal(pose, input.p, input.v)
            back == toWorld(pose, there.p, there.v)
        IN  /\ back = [p |-> Scaled2(n, input.p), v |-> Scaled2(n, input.v)]
            /\ project_in(pose.heading, input.p)
                 = <<dot(pose.heading, input.p),
                     perpdot(pose.heading, input.p)>>
            /\ perpdot(pose.heading, input.p)
                 = dot(perp(pose.heading), input.p)
            /\ LET short == BoundTo(pose.heading, 2)
               IN  sqlength(short.v) <= 4 * short.d * short.d

(* util.h:182, :219-232, :261-275: three numbers are sorted whatever their  *)
(* order; a remainder is that of counting, also below zero; the count of    *)
(* bits, the ramp and the counter keep to their ends.  (The least common    *)
(* multiple of the code is short of a factor: the greatest divisor.)        *)
NumbersKeepBounds ==
    Is("numbers") =>
        LET s == input.s  x == input.s[1]  m == input.m
            sorted == sort(s)
            Same(t) == \A n \in -9 .. 9 :
                Cardinality({i \in 1 .. 3 : s[i] = n})
                   = Cardinality({i \in 1 .. 3 : t[i] = n})
            y == ramp(x, s[2], 3, s[2] + m, 10)
            next == ramp(x + 1, s[2], 3, s[2] + m, 10)
        IN  /\ Same(sorted) /\ sorted[1] <= sorted[2]
            /\ sorted[2] <= sorted[3]
            /\ largest3(s) = sorted[3] /\ least3(s) = sorted[1]
            /\ s[max_idx(s)] = sorted[3] /\ s[min_idx(s)] = sorted[1]
            /\ mod(x, m) = fmodt(x, m) /\ mod(x, m) \in 0 .. m - 1
            /\ mod(x, m) = mod(Remainder(x, m), m)
            /\ \A k \in 1 .. 99 :
                  LET g == gcd(k, m)
                  IN  /\ k % g = 0 /\ m % g = 0 /\ gcd(k \div g, m \div g) = 1
                      /\ lcm(k, m) * g * g = k * m
                      /\ one_bit_set(k) <=> k \in {2 ^ b : b \in 0 .. 6}
            /\ 3 * y[2] <= y[1] /\ y[1] <= 10 * y[2]
            /\ y[1] * next[2] <= next[1] * y[2]
            /\ \A up \in BOOLEAN :
                  /\ Size(x) <= 4 => bool_sat_count(x, -4, 4, up) \in -4 .. 4
                  /\ Size(x) < 4 => bool_sat_count(
                        bool_sat_count(x, -4, 4, up), -4, 4, ~up) = x

(* util.h:357-426: an angle brought within a turn is the same angle, the    *)
(* way between two angles is the shorter one and as far to the one as to    *)
(* the other, what lies halfway is as far from both, and a bounded angle    *)
(* is within its tolerance and moved only if it has to be.                 *)
AnglesWrap ==
    Is("angles") =>
        LET a == input.a  b == input.b  t == input.t
            Same(x, y) == (x - y) % Circle = 0
            kept == abs_bound_angle(b, t, a)
            left == 2 * angle_mod(a)  right == 2 * angle_mod(b)
            middle == avg_angle(left, right)
        IN  /\ angle_mod(a) \in -HalfCircle .. HalfCircle /\ Same(angle_mod(a), a)
            /\ angle_diff(a, b) = -angle_diff(b, a)
            /\ Same(angle_diff(a, b), a - b)
            /\ angle_dist(a, b) = Size(angle_diff(a, b))
            /\ \A x \in -40 .. 40 :
                  Same(x, a - b) => angle_dist(a, b) <= Size(x)
            /\ LET long == angle_long(angle_mod(a))
               IN  Same(long, a) /\ Size(long) \in HalfCircle .. Circle
            /\ a >= -Circle =>
                  angle_pos(a) \in 0 .. Circle - 1 /\ Same(angle_pos(a), a)
            /\ angle_dist(kept, b) <= t
            /\ angle_dist(a, b) <= t => Same(kept, a)
            /\ (left \in 1 - HalfCircle .. HalfCircle /\ right \in 1 - HalfCircle .. HalfCircle) =>
                  /\ angle_dist(middle, left) = angle_dist(middle, right)
                  /\ (left - middle) % Circle <= HalfCircle

(* What the vectors, quaternions, frames and numbers promise each other.   *)
VectorsAreSound ==
    /\ ProductsTurnInTurn /\ MatrixTurnsToo /\ TurnsAgree
    /\ EulerAnglesComeBack /\ ArcTurnsBack /\ CrossIsNormal
    /\ FramesComeBack /\ NumbersKeepBounds /\ AnglesWrap
=============================================================================
