----------------------------- MODULE CameraModel -----------------------------
(***************************************************************************)
(* What a camera makes of the field: CameraParameters (dep/ssl-vision/src/ *)
(* shared/util/camera_calibration.cpp) and the points that the calibration *)
(* plugin looks for (app/plugins/plugin_cameracalib.cpp).  A camera is     *)
(* [q, t, f, c, dist]: its quaternion, translation, focal length,          *)
(* principal point and radial distortion.  All is exact: a fraction is     *)
(* <<numerator, denominator>>, a point of the field or of the picture a    *)
(* sequence of fractions.                                                  *)
(***************************************************************************)
EXTENDS Vectors

RECURSIVE Gcd(_, _)
Gcd(m, n) == IF n = 0 THEN m ELSE Gcd(n, m % n)

Frac(n, d) ==
    LET g == Gcd(Size(n), Size(d))
        s == IF d < 0 THEN -1 ELSE 1
    IN  <<(s * n) \div g, (s * d) \div g>>
F(n) == <<n, 1>>
FAdd(a, b) ==
    LET g == Gcd(a[2], b[2])
    IN  Frac(a[1] * (b[2] \div g) + b[1] * (a[2] \div g),
             a[2] * (b[2] \div g))
FNeg(a) == <<-a[1], a[2]>>
FSub(a, b) == FAdd(a, FNeg(b))
FMul(a, b) ==
    LET g == Gcd(Size(a[1]), b[2])  h == Gcd(Size(b[1]), a[2])
    IN  Frac((a[1] \div g) * (b[1] \div h), (a[2] \div h) * (b[2] \div g))
FDiv(a, b) == FMul(a, Frac(b[2], b[1]))
FSquare(a) == FMul(a, a)
FRoot(a) == <<Root(a[1]), Root(a[2])>>
FAddAll(a, b) == [i \in DOMAIN a |-> FAdd(a[i], b[i])]
FTimes(f, a) == [i \in DOMAIN a |-> FMul(f, a[i])]
FSum3(a, b, c) == FAdd(a, FAdd(b, c))

(* The turn of a point by a unit quaternion. *)
FTurned(q, p) ==
    LET Row(i) == rotateVectorByQuaternion(q,
                      [j \in 1 .. 3 |-> IF i = j THEN 1 ELSE 0])
        n == q.d * q.d
    IN  [i \in 1 .. 3 |->
           FSum3(FMul(Frac(Row(1)[i], n), p[1]),
                 FMul(Frac(Row(2)[i], n), p[2]),
                 FMul(Frac(Row(3)[i], n), p[3]))]
----------------------------------------------------------------------------
(* The radial distortion: Cardano's formula for the root of                *)
(* rd + a * rd^3 = ru.  The code multiplies by cube roots of 2/3 and of 18; *)
(* for b = 18 * k^3 they leave 1/(3k) and k/a.                              *)
CubeRoot(b) ==
    LET Cube(n) == CHOOSE r \in 0 .. n : r * r * r = n
    IN  <<Cube(b[1]), Cube(b[2])>>

(* A mistake: the second term has lost the distortion.                     *)
DistortionDropsTerm(ru, a) ==
    IF a[1] <= 0 THEN ru
    ELSE LET root == FRoot(FMul(a, FAdd(F(12), FMul(F(81),
                                             FMul(a, FSquare(ru))))))
             b == FMul(a, FSub(root, FMul(F(9), FMul(a, ru))))
             k == CubeRoot(FDiv(b, F(18)))
         IN  FSub(FDiv(F(1), FMul(F(3), k)), k)

radialDistortion(ru, a) ==
    IF a[1] <= 0 THEN ru
    ELSE LET root == FRoot(FMul(a, FAdd(F(12), FMul(F(81),
                                             FMul(a, FSquare(ru))))))
             b == FMul(a, FSub(root, FMul(F(9), FMul(a, ru))))
             k == CubeRoot(FDiv(b, F(18)))
         IN  FSub(FDiv(F(1), FMul(F(3), k)), FDiv(k, a))

radialDistortionInv(rd, a) == FMul(rd, FAdd(F(1), FMul(a, FSquare(rd))))

Length2(p) == FRoot(FAdd(FSquare(p[1]), FSquare(p[2])))

(* norm(len): the vector has another length; of the zero vector nothing    *)
(* is left but NaN.                                                        *)
NormTo(p, len) == FTimes(FDiv(len, Length2(p)), p)

Distorted(p, a) == IF a[1] <= 0 THEN p
                   ELSE NormTo(p, radialDistortion(Length2(p), a))

(* ru / rd without the root.                                               *)
Undistorted(p, a) ==
    FTimes(FAdd(F(1), FMul(a, FAdd(FSquare(p[1]), FSquare(p[2])))), p)
----------------------------------------------------------------------------
FieldToCamera(cam, p) == FAddAll(FTurned(norm(cam.q), p), cam.t)

Projected(cam, pc) ==
    FAddAll(FTimes(cam.f, Distorted(<<FDiv(pc[1], pc[3]), FDiv(pc[2], pc[3])>>,
                                    cam.dist)), cam.c)

(* A mistake: the translation comes before the turn.                       *)
TranslatedFirst(cam, p) ==
    Projected(cam, FTurned(norm(cam.q), FAddAll(p, cam.t)))

field2image(cam, p) == Projected(cam, FieldToCamera(cam, p))

(* The camera and a step of the optimiser: q is a unit quaternion.         *)
Stepped(cam, step) ==
    [q |-> Times(step.q, norm(cam.q)), t |-> FAddAll(cam.t, step.t),
     f |-> FAdd(cam.f, step.f), c |-> FAddAll(cam.c, step.c),
     dist |-> FAdd(cam.dist, step.dist)]

(* field2image() with a step that is not taken yet.                        *)
field2imageWith(cam, step, p) ==
    LET pc == FAddAll(FAddAll(FTurned(Times(step.q, norm(cam.q)), p), cam.t),
                      step.t)
    IN  FAddAll(FAddAll(FTimes(FAdd(cam.f, step.f),
                               Distorted(<<FDiv(pc[1], pc[3]),
                                           FDiv(pc[2], pc[3])>>,
                                         FAdd(cam.dist, step.dist))), cam.c),
                step.c)

(* The ray through a point of the picture meets the plane at height z.     *)
image2field(cam, pi, z) ==
    LET pd == <<FDiv(FSub(pi[1], cam.c[1]), cam.f),
                FDiv(FSub(pi[2], cam.c[2]), cam.f)>>
        pu == Undistorted(pd, cam.dist)
        back == conjugate(norm(cam.q))
        ray == FTurned(back, <<pu[1], pu[2], F(1)>>)
        zero == FTurned(back, FTimes(F(-1), cam.t))
        far == FDiv(FSub(z, zero[3]), ray[3])
    IN  FAddAll(zero, FTimes(far, ray))

(* What toProtoBuffer() says of where the camera is; the quaternion is not *)
(* brought to the length of one here.                                      *)
DerivedPosition(cam) == FTurned(invert(cam.q), FTimes(F(-1), cam.t))
----------------------------------------------------------------------------
(* The points along a line of the field that the plugin looks for, each    *)
(* with its alpha; a line is [p1, p2].  What is not found is marked so and *)
(* has its alpha all the same.                                             *)
Offset(line, n) ==
    FTimes(Frac(1, n + 1), FAddAll(line.p2, FTimes(F(-1), line.p1)))
SearchPoint(line, n, i) == FAddAll(line.p1, FTimes(F(i), Offset(line, n)))

Alpha(n, i) == FSub(F(1), Frac(i, n + 1))

AlphaPoint(line, alpha) ==
    FAddAll(FTimes(alpha, line.p1), FTimes(FSub(F(1), alpha), line.p2))

(* The side of the picture an edge of the field is on.                     *)
getImageSide(cam, line) ==
    LET s == field2image(cam, line.p1)  e == field2image(cam, line.p2)
        Bigger(a, b) == Size(a[1]) * b[2] > Size(b[1]) * a[2]
        Before(a, b) == a[1] * b[2] < b[1] * a[2]
    IN  IF Bigger(FSub(e[1], s[1]), FSub(e[2], s[2]))
        THEN IF Before(s[2], cam.c[2]) THEN "top" ELSE "bottom"
        ELSE IF Before(s[1], cam.c[1]) THEN "left" ELSE "right"

(* The valid points of all segments in turn, as [segment, point]; the      *)
(* alphas of the optimiser's state are theirs.                             *)
RECURSIVE ValidFrom(_, _, _)
ValidFrom(found, s, i) ==
    IF s > Len(found) THEN <<>>
    ELSE IF i > Len(found[s]) THEN ValidFrom(found, s + 1, 1)
    ELSE (IF found[s][i] THEN <<[segment |-> s, point |-> i]>> ELSE <<>>)
         \o ValidFrom(found, s, i + 1)
ValidPoints(found) == ValidFrom(found, 1, 1)

(* p_alpha as calibrate() fills it.                                        *)
StartAlphas(found, alphas) ==
    LET RECURSIVE Fill(_, _)
        Fill(s, i) == IF s > Len(found) THEN <<>>
                      ELSE IF i > Len(alphas[s]) THEN Fill(s + 1, 1)
                      ELSE (IF found[s][i] THEN <<alphas[s][i]>> ELSE <<>>)
                           \o Fill(s, i + 1)
    IN  Fill(1, 1)

(* chi^2 of a camera and a step: the corners' errors, and in a full        *)
(* estimation those of the points found, each with its alpha; cov holds    *)
(* the four variances.                                                     *)
CornerPairs(corners, half) ==
    [i \in {"left_corner", "right_corner", "left_centerline",
            "right_centerline"} |-> [image |-> corners[i], field |-> half[i]]]

RECURSIVE FSumOver(_, _)
FSumOver(f, s) == IF s = {} THEN F(0)
                  ELSE LET x == CHOOSE x \in s : TRUE
                       IN  FAdd(f[x], FSumOver(f, s \ {x}))

Error(seen, image, vx, vy) ==
    FAdd(FDiv(FSquare(FSub(seen[1], image[1])), vx),
         FDiv(FSquare(FSub(seen[2], image[2])), vy))

(* A mistake: what was not found counts as well.                           *)
ChiOfAll(cam, step, pairs, lines, alphas, cov, full) ==
    FAdd(FSumOver([i \in DOMAIN pairs |->
             Error(field2imageWith(cam, step, pairs[i].field),
                   pairs[i].image, cov[1], cov[2])], DOMAIN pairs),
         IF ~full THEN F(0)
         ELSE LET line == lines[1]
              IN  FSumOver([i \in DOMAIN alphas |->
                     Error(field2imageWith(cam, step,
                               AlphaPoint(line, alphas[i])),
                           line.images[i], cov[3], cov[4])],
                     DOMAIN alphas))

calc_chisqr(cam, step, pairs, lines, alphas, cov, full) ==
    FAdd(FSumOver([i \in DOMAIN pairs |->
             Error(field2imageWith(cam, step, pairs[i].field),
                   pairs[i].image, cov[1], cov[2])], DOMAIN pairs),
         IF ~full THEN F(0)
         ELSE LET valid == ValidPoints([s \in DOMAIN lines |->
                                           lines[s].found])
                  Line(i) == lines[valid[i].segment]
              IN  FSumOver([i \in DOMAIN valid |->
                     Error(field2imageWith(cam, step,
                               AlphaPoint(Line(i), alphas[i])),
                           Line(i).images[valid[i].point], cov[3], cov[4])],
                     DOMAIN valid))
----------------------------------------------------------------------------
(* camera_calibration.cpp:153-231: a point of the field that the camera    *)
(* sees is found again from its picture and its height, with and without   *)
(* distortion, and whatever the length of the quaternion.                  *)
PointsComeBack ==
    Is("camera") =>
        image2field(input.cam, field2image(input.cam, input.p), input.p[3])
            = input.p

(* camera_calibration.cpp:104-146: the distorted radius is the one whose   *)
(* undistorted radius was given.                                           *)
RadiiComeBack ==
    Is("radius") =>
        radialDistortionInv(radialDistortion(input.ru, input.a), input.a)
            = input.ru

(* camera_calibration.cpp:177-203, 560-580: what a step is tried with is    *)
(* what the camera is after the step is taken.                             *)
StepIsTakenAsTried ==
    Is("step") =>
        field2imageWith(input.cam, input.step, input.p)
            = field2image(Stepped(input.cam, input.step), input.p)

(* camera_calibration.cpp:66-77: the published position of a camera with a *)
(* unit quaternion is the point that it sees at no distance.               *)
PositionIsOrigin ==
    Is("camera") /\ Magnitude(input.cam.q) = input.cam.q.d * input.cam.q.d =>
        FieldToCamera(input.cam, DerivedPosition(input.cam))
            = <<F(0), F(0), F(0)>>

(* plugin_cameracalib.cpp:322-346, camera_calibration.cpp:265-272: the     *)
(* optimiser takes a searched point for the point of the field where it    *)
(* was searched, and counts only points that were found.                   *)
AlphasNamePoints ==
    Is("field line") =>
        \A i \in 1 .. input.n :
            AlphaPoint(input.line, Alpha(input.n, i))
                = SearchPoint(input.line, input.n, i)

AlphasOfValidPoints ==
    Is("segments") =>
        LET valid == ValidPoints(input.found)
            start == StartAlphas(input.found, input.alphas)
        IN  /\ Len(start) = Len(valid)
            /\ \A i \in DOMAIN valid :
                 start[i] = input.alphas[valid[i].segment][valid[i].point]

(* camera_calibration.cpp:234-297: chi^2 is nothing for pictures that the   *)
(* camera itself made of the corners and the searched points; a corner or  *)
(* a found point that is off adds its share, and a point that was not      *)
(* found adds none, nor do any points before the full estimation.          *)
OnlyErrorsCount ==
    Is("chi") =>
        LET cam == input.cam
            line == input.line
            n == Len(input.found)
            off(i) == IF i = input.off THEN Frac(1, 2) ELSE F(0)
            Shifted(pi, by) == <<FAdd(pi[1], by), pi[2]>>
            images == [i \in 1 .. n |->
                Shifted(field2image(cam, SearchPoint(line, n, i)), off(i))]
            alphas == StartAlphas(<<input.found>>,
                                  <<[i \in 1 .. n |-> Alpha(n, i)]>>)
            half == [left_corner |-> line.p1, right_corner |-> line.p2,
                     left_centerline |-> SearchPoint(line, 1, 1),
                     right_centerline |-> line.p2]
            pairs == CornerPairs([i \in DOMAIN half |->
                         Shifted(field2image(cam, half[i]),
                                 IF i = "left_corner" THEN off(0) ELSE F(0))],
                         half)
            chi(full) == calc_chisqr(cam, input.none, pairs,
                <<[p1 |-> line.p1, p2 |-> line.p2, found |-> input.found,
                   images |-> images]>>, alphas, <<F(1), F(2), F(3), F(4)>>,
                full)
        IN  /\ chi(FALSE) = IF input.off = 0 THEN Frac(1, 4) ELSE F(0)
            /\ chi(TRUE) =
                 CASE input.off = 0 -> Frac(1, 4)
                   [] input.off \in 1 .. n /\ input.found[input.off]
                        -> Frac(1, 12)
                   [] OTHER -> F(0)

(* plugin_cameracalib.cpp:437-461: of two edges of the field on either     *)
(* side of the camera, one is on one side of the picture and one on the    *)
(* opposite.                                                               *)
OppositeSides ==
    Is("sides") =>
        {getImageSide(input.cam, input.line), getImageSide(input.cam,
            [p1 |-> <<FNeg(input.line.p1[1]), FNeg(input.line.p1[2]),
                      input.line.p1[3]>>,
             p2 |-> <<FNeg(input.line.p2[1]), FNeg(input.line.p2[2]),
                      input.line.p2[3]>>])}
            \in {{"left", "right"}, {"top", "bottom"}}

(* What a camera's model promises to the detection and the calibration.    *)
CameraIsSound ==
    /\ PointsComeBack /\ RadiiComeBack /\ StepIsTakenAsTried
    /\ PositionIsOrigin /\ AlphasNamePoints /\ AlphasOfValidPoints
    /\ OppositeSides /\ OnlyErrorsCount
=============================================================================
