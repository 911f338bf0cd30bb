---------------------------- MODULE MCAlgorithms ----------------------------
(***************************************************************************)
(* TLC inputs for the algorithms of the vision program: what a frame goes  *)
(* through on its way to the network (images, the colour table, blobs, the *)
(* tree of regions and the patterns of the robots), and the libraries it   *)
(* stands on (vectors and lines, the camera's model and the search for     *)
(* edges, trees of settings, their XML text and command lines).  Every     *)
(* input is an initial state and nothing follows it.                       *)
(***************************************************************************)
EXTENDS Images, LookupTable, Blobs, KdTree, RobotPatterns, Geometry,
        CameraModel, EdgeSearch, VarTree, XmlText, GetOpt, TLC

(* TLC inputs for the modules of the images.                               *)

KeptImages == {NoImage} \cup {allocate(f, w, h) : f \in ColorOut,
                                            w \in {2, 4}, h \in {2, 3}}
Methods == {"dc1394", "files", "generator"}

FormatInputs ==
    [about : {"names"}]
    \cup UNION {[about : {"mode"}, method : {m}, from : Captured(m)] :
                   m \in Methods}
    \cup UNION {[about : {"convert"}, method : {m}, from : Captured(m),
                 target : KeptImages, to : ColorOut, debayer : BOOLEAN,
                 w : {2, 4}, h : {2, 4}] : m \in Methods}

Glyphs == {[row \in 0 .. 7 |-> IF row = n THEN b ELSE 255 - b] :
              n \in {0, 7}, b \in {1, 128, 90}}

LineEnds == -2 .. 5

OpInputs ==
    [about : {"line"}, dx : -7 .. 7, dy : -7 .. 7]
    \cup [about : {"draw"}, shape : {"line", "fat line"},
          x : {-1, 2}, y : {-2, 1}, u : LineEnds, v : LineEnds]
    \cup [about : {"draw"}, shape : {"box"}, x : {-1, 2}, y : {-2, 1},
          u : -3 .. 3, v : -3 .. 3]
    \cup [about : {"text"}, glyphs : SeqOf(Glyphs, 2)]
    \cup [about : {"rect"}, x : -2 .. 5, y : -1 .. 4, w : -1 .. 5, h : -1 .. 4]
    \cup [about : {"pixels"}, p : {0, 1, 127, 254, 255}, q : 0 .. 255]
    \cup [about : {"alpha"}, n : 0 .. 4, m : 0 .. 4]
    \cup [about : {"binarize"}, p : [1 .. 3 -> {0, 99, 255}],
          q : {<<100, 101, 99>>, <<254, 255, 255>>}, most : {0, 99, 100, 255}]

ConversionInputs ==
    [about : {"colour"}, r : {15 * n : n \in 0 .. 17},
     g : {232} \cup {15 * n : n \in 0 .. 17},
     b : {16} \cup {15 * n : n \in 0 .. 17}]
    \cup [about : {"loop"}, name : DOMAIN Layouts, groups : 1 .. 6]
    \cup [about : {"order"}, n : {3}, high : {0, 3, 9, 255}, low : Byte]
    \cup [about : {"file bytes"}, name : DOMAIN FileLayouts, n : 1 .. 5]
    \cup [about : {"file"},
          file : {[readable |-> r, format |-> f, width |-> w, height |-> h,
                   pixels |-> [i \in 1 .. w * h |-> i]] :
                     r \in BOOLEAN, f \in {"RGB32", "ARGB32", "Indexed8"},
                     w \in {0, 3}, h \in {0, 2}}]
    \cup [about : {"test image"}, w : 8 .. 40, h : {1, 5, 300}]

ImageInputs == FormatInputs \cup OpInputs \cup ConversionInputs
----------------------------------------------------------------------------
(* TLC inputs for the colour table.                                        *)

Bits == {<<4, 6, 6>>, <<5, 5, 5>>, <<8, 1, 3>>, <<2, 8, 1>>}
Colours == {0, 7, 200} \X {0, 3, 4, 255} \X {0, 63, 255}
Labels == {<<10, 10, 10>>, <<60, 10, 10>>, <<200, 128, 128>>}

Masks == {{}, {1}}
Planes(w, h) == [(0 .. w - 1) \X (0 .. h - 1) -> Masks]
FillOptions == [mode : {"numeric"}, new : {{1}, {2}, {}}, remove : {FALSE},
                exact : {FALSE}, exclusive : {FALSE}]
               \cup [mode : {"numeric"}, new : {{2}}, remove : {TRUE},
                     exact : {TRUE}, exclusive : {FALSE}]
Bitwise == [mode : {"bitwise"}, new : {{1}}, remove : {TRUE},
            exact : {TRUE}, exclusive : BOOLEAN]

LookupInputs ==
    [about : {"cell"}, bits : Bits, colour : Colours, other : Colours]
    \cup [about : {"label"}, colours : SeqOf(Labels, 3), most : {0, 900},
          at : {0, 16, 48, 128} \X {0, 16, 128} \X {0, 128}]
    \cup [about : {"fill"}, plane : Planes(4, 3), w : {4}, h : {3},
          origin : {<<2, 1>>}, options : FillOptions]
    \cup [about : {"fill"}, plane : Planes(3, 3), w : {3}, h : {3},
          origin : {<<0, 0>>, <<1, 1>>, <<2, 2>>},
          options : FillOptions \cup Bitwise]
    \cup [about : {"fill"}, plane : Planes(2, 5), w : {2}, h : {5},
          origin : {<<1, 2>>}, options : FillOptions]
    \cup [about : {"channel"}, label : ToSet(RoboCupChannels("bitwise"))]
    \cup [about : {"pick"}, bytes : {[i \in 1 .. 16 |-> 7 * i]}, width : {4},
          loc : (0 .. 3) \X (0 .. 1)]
    \cup [about : {"cross"}, x : 0 .. 12, y : 0 .. 12, n : {12},
          size : {1, 4, 8}]
    \cup [about : {"segment"}, bits : {<<2, 1, 3>>, <<1, 3, 1>>},
          picked : 1 .. 4, pixels : {4},
          source : [format : {"YUV422_UYVY"}, pixels : {4},
                    bytes : [1 .. 8 -> {30, 200}]]]
    \cup [about : {"segment"}, bits : {<<2, 1, 3>>}, picked : 1 .. 2,
          pixels : {1, 2},
          source : [format : {"YUV444", "RGB8"}, pixels : {2},
                    bytes : [1 .. 6 -> {30, 90, 200}]]]
----------------------------------------------------------------------------
(* TLC inputs for the blobs.                                               *)

Pictures(w, h, colours) == [(0 .. w - 1) \X (0 .. h - 1) -> colours]

Sized(areas) == [i \in DOMAIN areas |-> [area |-> areas[i], x1 |-> i]]
(* A field of 18 by 12 with goals 4 wide and 4 deep; a row of twelve       *)
(* pixels, of which the histogram of a ball at one end sees six.           *)
SomeField == [length |-> 9, width |-> 6, goal_width |-> 2, goal_depth |-> 4]
RowOf(colours) == [p \in (0 .. 11) \X {0} |->
                      IF p[1] \in DOMAIN colours THEN colours[p[1]] ELSE 0]
BallOptions(row, filters, robots, balls, gauss) ==
    [image |-> row, w |-> 12, h |-> 1, max_balls |-> balls,
     field |-> SomeField, threshold |-> 1, in_field |-> filters[1],
     in_goal |-> filters[2], near_robot |-> TRUE, robots |-> robots, robot_distance |-> 3,
     histogram |-> filters[3], greenness |-> 50, markeryness |-> 200,
     gauss |-> gauss, area_min |-> 5, area_max |-> 20]
BallAt(x, at, area, id) ==
    [x1 |-> x, x2 |-> x + 1, y1 |-> 0, y2 |-> 0, at |-> at, area |-> area,
     id |-> id]

Places == {<<0, 0>>, <<5, 5>>, <<12, 1>>}
Tried == {<<BallAt(0, p, a, 1), BallAt(9, q, b, 2), BallAt(4, r, c, 3)>> :
             p \in Places, q \in Places, r \in Places,
             a \in {3, 8}, b \in {3, 8}, c \in {3, 8}}
SomeRobots == <<[at |-> <<5, 4>>, conf |-> 2], [at |-> <<0, 0>>, conf |-> 0]>>
FilterChoices == BOOLEAN \X BOOLEAN \X BOOLEAN
BallRows == {RowOf(c) : c \in [{0, 1, 2, 4} -> 0 .. 4]}

BlobInputs ==
    [about : {"picture"}, image : Pictures(5, 2, {0, 1}), w : {5}, h : {2},
     max_runs : {99}]
    \cup [about : {"picture"}, image : Pictures(2, 3, {0, 1, 2}), w : {2},
          h : {3}, max_runs : {4}]
    \cup [about : {"picture"}, image : Pictures(3, 3, {0, 1}), w : {3},
          h : {3}, max_runs : {4}]
    \cup [about : {"picture"}, image : Pictures(3, 4, {0, 1}), w : {3},
          h : {4}, max_runs : {99}]
    \cup {[about |-> "list", bits |-> 2, list |-> Sized(s)] :
             s \in UNION {[1 .. n -> {1, 3, 4, 5, 16, 18}] : n \in 1 .. 4}}
    \cup [about : {"filter"}, image : Pictures(3, 3, {0, 1}), w : {3},
          h : {3}, min_area : {1, 2},
          filter : [area : {<<2, 4>>, <<1, 99>>}, width : {<<1, 2>>},
                    height : {<<1, 3>>, <<2, 2>>}]]
    \cup [about : {"box"}, image : Pictures(3, 2, {0, 1}), w : {3}, h : {2},
          region : (0 .. 2) \X (0 .. 1), radius : 0 .. 2]
    \cup [about : {"balls"}, list : Tried,
          options : {BallOptions(RowOf(<<1, 1, 2, 2>>), f, SomeRobots, m, g) :
                        f \in {<<TRUE, TRUE, TRUE>>, <<FALSE, TRUE, FALSE>>},
                        m \in 0 .. 2, g \in BOOLEAN}]
    \cup [about : {"ball"},
          region : {BallAt(x, <<5, 0>>, 8, 1) : x \in {0, 9}},
          options : {BallOptions(r, <<TRUE, TRUE, TRUE>>, SomeRobots, 1,
                                 TRUE) : r \in BallRows}]
    \cup [about : {"ball"},
          region : {BallAt(0, at, 8, 1) :
                       at \in {<<9, 0>>, <<-10, 1>>, <<-12, 1>>, <<12, 3>>,
                               <<7, 4>>, <<8, 4>>, <<0, 0>>, <<2, -7>>}},
          options : {BallOptions(RowOf(<<1, 1, 2>>), f, SomeRobots, 1, FALSE) :
                        f \in FilterChoices}]
----------------------------------------------------------------------------
(* TLC inputs for the tree of regions.                                     *)

Lists == {<<<<0, 0>>, <<4, 1>>, <<1, 3>>, <<2, 2>>, <<4, 4>>>>,
          <<<<1, 1>>, <<1, 1>>, <<1, 1>>, <<1, 4>>>>,
          <<<<3, 0>>, <<3, 1>>, <<3, 2>>, <<3, 3>>, <<0, 4>>, <<1, 0>>>>,
          <<>>}
NamedFrom(points, from) ==
    [i \in 1 .. Len(points) |-> [at |-> points[i], name |-> from + i]]

RegionTreeInputs ==
    {[about |-> "tree", before |-> NamedFrom(b, 0), after |-> NamedFrom(a, 10), believed |-> c,
      query |-> q, most |-> m] :
        b \in Lists, a \in Lists, c \in BOOLEAN,
        q \in {<<0, 0>>, <<2, 3>>, <<4, 2>>, <<6, 0>>}, m \in {1, 5, 30}}
----------------------------------------------------------------------------
(* TLC inputs for the robots' patterns.                                    *)

Count(team) == [team |-> team, markers |-> 3, green |-> 2, blackWhite |-> 1,
                all |-> 8]
Centres == [at : {<<0, 0>>, <<3, 0>>, <<6, 1>>, <<20, 0>>}, conf : {0, 1, 2},
            count : {Count(4)}]
           \cup [at : {<<10, 0>>}, conf : {2}, count : {Count(0), Count(4)}]

CentreSettings(most, radius) ==
    [field |-> [length |-> 9, width |-> 6, boundary |-> 2],
     histogram |-> TRUE, radius |-> radius, markeryness |-> <<30, 1200>>,
     greenness |-> <<0, 100>>, blackWhiteness |-> <<0, 100>>,
     distance |-> 5, most |-> most]

CentreInputs ==
    [about : {"centres"}, regions : SeqOf(Centres, 3),
     settings : {CentreSettings(1, 0), CentreSettings(2, 4)}]

Around(id, angle, dist) ==
    [id |-> id, angle |-> angle, dist |-> dist, area |-> 20, next |-> 0,
     turn |-> 0]

Robot(n, enabled, markers) ==
    [PatternOf(markers, <<[width |-> 3, height |-> 12]>>, n, 14)
        EXCEPT !.enabled = enabled]

Teams ==
    {<<Robot(0, b1, <<Around(2, 30, 60), Around(3, 150, 60),
                      Around(2, 270, 60)>>),
       Robot(1, b2, <<Around(2, 40, 60), Around(2, 120, 60),
                      Around(3, 300, 60)>>),
       Robot(2, b3, <<Around(5, 0, 50), Around(5, 90, 70),
                      Around(7, 170, 50), Around(5, 250, 70)>>),
       Robot(3, b4, [i \in 1 .. 9 |-> Around(IF i = 1 THEN 7 ELSE 5,
                                             36 * i, 60)]),
       Robot(4, b5, [i \in 1 .. 9 |-> Around(IF i \in {1, 4} THEN 7 ELSE 5,
                                             36 * i, 60)])>> :
        b1 \in BOOLEAN, b2 \in BOOLEAN, b3 \in BOOLEAN, b4 \in BOOLEAN,
        b5 \in BOOLEAN}

PatternSettings ==
    [weights |-> [area |-> 1, centerDistance |-> 2, nextDistance |-> 5,
                  nextAngleDistance |-> 10],
     maxError |-> 30, maxDist |-> 100]

(* Centres whose markers are those of a robot, or somewhat off, turned, of *)
(* no robot, of a robot that is not enabled, and off the field.            *)
OffBy(markers, n) ==
    [i \in DOMAIN markers |-> [markers[i] EXCEPT !.dist = @ + n * i]]
SomeTeam(b1, b2) ==
    CHOOSE t \in Teams : [i \in 1 .. 5 |-> t[i].enabled]
                             = <<b1, b2, FALSE, TRUE, FALSE>>
CentreWith(at, around) ==
    [at |-> at, around |-> around, conf |-> 1, count |-> Count(4)]
TeamCentres ==
    LET Model(i) == SomeTeam(TRUE, TRUE)[i].markers
    IN  {CentreWith(<<0, 0>>, Model(1)), CentreWith(<<8, 0>>, OffBy(Model(1), 4)),
         CentreWith(<<0, 6>>, OffBy(Model(2), 2)),
         CentreWith(<<-9, 3>>, Model(4)), CentreWith(<<3, 0>>, Tail(Model(2))),
         CentreWith(<<20, 0>>, Model(2))}
TeamSettings(most, patterns) ==
    PatternSettings @@ CentreSettings(most, 4)
        @@ [uniquePatterns |-> patterns]

RobotInputs ==
    CentreInputs
    \cup [about : {"pattern"}, patterns : Teams, robot : 1 .. 5,
          angle : {0, 35, 100, 200, 330}, settings : {PatternSettings}]
    \cup [about : {"team"},
          patterns : {SomeTeam(TRUE, TRUE), SomeTeam(FALSE, TRUE)},
          centres : SeqOf(TeamCentres, 3),
          settings : {TeamSettings(1, TRUE), TeamSettings(2, TRUE),
                      TeamSettings(2, FALSE)}]
    \cup [about : {"cells"}, w : {8, 9, 12}, h : {6, 9}, rows : {2, 3},
          cols : {3, 4}]
----------------------------------------------------------------------------
(* TLC inputs for the vectors, quaternions, frames and lines.              *)

TurnBy(c, s, d) == [c |-> c, s |-> s, d |-> d]
HalfTurns == {TurnBy(1, 0, 1), TurnBy(4, 3, 5), TurnBy(3, 4, 5), TurnBy(0, 1, 1),
              TurnBy(4, -3, 5), TurnBy(-3, 4, 5)}
Twice(h) == TurnBy(h.c * h.c - h.s * h.s, 2 * h.c * h.s, h.d * h.d)
Angle(h) == [half |-> h, turn |-> Twice(h)]

Unit(v, d) == [v |-> v, d |-> d]
UnitVectors == {Unit(<<1, 0, 0>>, 1), Unit(<<0, 0, 1>>, 1),
                Unit(<<1, 2, 2>>, 3), Unit(<<3, 0, -4>>, 5),
                Unit(<<7, 24, 0>>, 25), Unit(<<24, 0, 7>>, 25),
                Unit(<<-2, 1, 2>>, 3)}
UnitQuaternions == {[q |-> <<0, 0, 0, 1>>, d |-> 1],
                    [q |-> <<1, 2, 2, 4>>, d |-> 5],
                    [q |-> <<2, -1, 4, 2>>, d |-> 5],
                    [q |-> <<1, 1, 1, 1>>, d |-> 2],
                    [q |-> <<0, 3, -4, 0>>, d |-> 5]}
Vectors3 == {<<0, 0, 0>>, <<1, 0, 0>>, <<0, 2, -1>>, <<3, -2, 1>>,
             <<-1, 1, 2>>}
PoseSteps == {<<0, 0>>, <<1, -2>>, <<3, 1>>}
Poses == [loc : PoseSteps, vel : PoseSteps, heading : {<<3, 4>>, <<-4, 3>>}, d : {5},
          ang_vel : {-1, 0, 2}]

CanArc(from, to) ==
    LET n == from.d * to.d
        s == 2 * (dot3(from.v, to.v) + n) * n
    IN  n <= 25 /\ \E r \in 1 .. 2 * n : r * r = s

VectorInputs ==
    [about : {"quaternions"}, q : UnitQuaternions, r : UnitQuaternions,
     v : Vectors3]
    \cup {[about |-> "turns", axis |-> u, half |-> h, turn |-> Twice(h),
           v |-> v] : u \in {x \in UnitVectors : x.d < 25},
           h \in HalfTurns, v \in Vectors3}
    \cup [about : {"euler"}, pitch : {Angle(h) : h \in HalfTurns},
          yaw : {Angle(h) : h \in HalfTurns},
          roll : {Angle(h) : h \in {TurnBy(1, 0, 1), TurnBy(4, 3, 5),
                                    TurnBy(4, -3, 5)}}]
    \cup {i \in [about : {"arc"}, from : UnitVectors, to : UnitVectors] :
            CanArc(i.from, i.to)}
    \cup [about : {"vectors"}, a : Vectors3, b : Vectors3]
    \cup [about : {"frame"}, pose : Poses, p : PoseSteps, v : PoseSteps]
    \cup [about : {"numbers"}, s : [1 .. 3 -> {-9, -4, -3, 0, 4, 5}],
          m : {1, 3, 12}]
    \cup [about : {"angles"}, a : -25 .. 25, b : -9 .. 9, t : {0, 3, 7}]
----------------------------------------------------------------------------
(* TLC inputs for the lines, circles and boxes.                            *)

Grid == {<<x, y>> : x \in 0 .. 2, y \in 0 .. 2}
Corners == {<<x, y>> : x \in {-2, 0, 4}, y \in {0, 2}}

(* A circle and a point whose tangents have a whole length.                *)
Touchable(i) ==
    LET t == sqdist(i.cen, i.p) - i.rad * i.rad
        y == i.cen[2] - i.p[2]
        IsSquare(n) == n < 0 \/ \E r \in 0 .. n : r * r = n
    IN  IsSquare(t) /\ IsSquare(i.rad * i.rad - y * y)

GeometryInputs ==
    [about : {"lines"}, a0 : Grid, a1 : Grid, b0 : Grid, b1 : Grid]
    \cup {i \in [about : {"circle"},
                 p : {<<3, 4>>, <<0, 5>>, <<-4, 3>>, <<12, 5>>},
                 q : {<<4, 3>>, <<5, 0>>, <<6, 8>>},
                 cen : {<<3, 9>>, <<6, 8>>, <<0, 0>>, <<12, 10>>, <<3, 17>>},
                 rad : {0, 3, 4, 5},
                 normal : {<<3, 4>>, <<0, 1>>}, ray : {<<4, 3>>, <<1, 0>>}] :
            Touchable(i)}
    \cup [about : {"boxes"}, p0 : Corners, p1 : Corners, q0 : Corners,
          q1 : Corners, rad : {0, 2}]
----------------------------------------------------------------------------
(* TLC inputs for the model of a camera.                                   *)

Quat(q, d) == [q |-> q, d |-> d]
Fracs(v) == [i \in DOMAIN v |-> F(v[i])]
Cam(q, t, f, dist) ==
    [q |-> q, t |-> Fracs(t), f |-> F(f), c |-> Fracs(<<390, 290>>),
     dist |-> dist]

(* Looking down, tilted, turned; the last has not the length of one.       *)
CameraTurns == {Quat(<<1, 0, 0, 0>>, 1), Quat(<<0, 0, 0, 1>>, 1),
                Quat(<<1, 2, 2, 4>>, 5), Quat(<<1, 1, 1, 1>>, 2),
                Quat(<<6, -8, 0, 0>>, 11)}
FieldPoints == {Fracs(p) : p \in {<<3, 2, 0>>, <<-2, 1, 0>>, <<0, 5, 1>>,
                                  <<1, -1, 2>>, <<0, 0, 0>>}}
Cameras == {Cam(q, t, f, F(0)) : q \in CameraTurns,
            t \in {<<0, 1, 40>>, <<-2, 3, 35>>}, f \in {500, -3}}

(* For every k and a the undistorted radius has a rational root.           *)
RadiusOf(k, a) ==
    LET b == FMul(F(18), FMul(k, FSquare(k)))
    IN  FDiv(FSub(FMul(F(12), FMul(a, FSquare(a))), FSquare(b)),
             FMul(F(18), FMul(FSquare(a), b)))
Radii == {i \in {[about |-> "radius", a |-> Frac(a, 4),
                  ru |-> RadiusOf(Frac(k, 4), Frac(a, 4))] :
                 a \in 1 .. 8, k \in 1 .. 3} :
            i.ru[1] \in 1 .. 200 /\ i.ru[2] <= 250}

(* A camera that looks down from height z sees the point <<3 s, 4 s>> at   *)
(* the undistorted radius 5 s / z.                                         *)
BentCameras ==
    {[about |-> "camera",
      cam |-> [Cam(Quat(<<0, 0, 0, 1>>, 1), <<0, 0, 0>>, 60, r.a)
                 EXCEPT !.t = <<F(0), F(0), FDiv(F(5), r.ru)>>],
      p |-> Fracs(<<3, 4, 0>>)] : r \in Radii}

NoStep == [q |-> Quat(<<0, 0, 0, 1>>, 1), t |-> Fracs(<<0, 0, 0>>),
           f |-> F(0), c |-> Fracs(<<0, 0>>), dist |-> F(0)]
CameraSteps == {NoStep,
           [NoStep EXCEPT !.q = Quat(<<1, 2, 2, 4>>, 5)],
           [NoStep EXCEPT !.q = Quat(<<0, 3, 0, 4>>, 5), !.f = F(7),
                          !.t = Fracs(<<1, -2, 3>>), !.c = Fracs(<<1, 2>>)]}

FieldLines == {[p1 |-> Fracs(a), p2 |-> Fracs(b)] :
               a \in {<<3, 2, 0>>, <<0, 2, 0>>, <<-3, 1, 0>>},
               b \in {<<0, 2, 0>>, <<3, -2, 0>>, <<-3, 2, 0>>}}
FoundEdges == {<<a, b>> : a \in [1 .. 2 -> BOOLEAN], b \in [1 .. 3 -> BOOLEAN]}

(* In front of the camera, and not as high as it is.                       *)
Seen(cam, p) ==
    /\ FieldToCamera(cam, p)[3][1] > 0
    /\ FTurned(conjugate(norm(cam.q)), FTimes(F(-1), cam.t))[3] # p[3]

CameraInputs ==
    {i \in [about : {"camera"}, cam : Cameras, p : FieldPoints] :
       Seen(i.cam, i.p)}
    \cup BentCameras \cup Radii
    \cup {i \in [about : {"step"}, cam : Cameras, step : CameraSteps,
                 p : FieldPoints] : Seen(Stepped(i.cam, i.step), i.p)}
    \cup [about : {"field line"}, line : FieldLines, n : 0 .. 4]
    \cup [about : {"segments"}, found : FoundEdges,
          alphas : {<<<<11, 12>>, <<21, 22, 23>>>>}]
    \cup {i \in [about : {"chi"}, none : {NoStep},
                 line : FieldLines, off : 0 .. 4,
                 cam : {c \in Cameras : c.f = F(500) /\ c.t[3] = F(40)},
                 found : {<<TRUE, TRUE, FALSE>>, <<FALSE, TRUE, TRUE>>,
                          <<FALSE, FALSE, FALSE>>}] :
            i.line.p1 # i.line.p2 /\ Seen(i.cam, i.line.p1)
            /\ Seen(i.cam, i.line.p2)}
    \cup [about : {"sides"}, line : {l \in FieldLines :
            l.p1[1] = l.p2[1] \/ l.p1[2] = l.p2[2]} \ {l \in FieldLines :
            l.p1 = l.p2},
          cam : {Cam(q, <<0, 0, 40>>, 500, F(0)) :
            q \in {Quat(<<1, 0, 0, 0>>, 1), Quat(<<0, 0, 0, 1>>, 1)}}]
----------------------------------------------------------------------------
(* TLC inputs for the search for edges.                                    *)

EdgeInputs ==
    {i \in [about : {"bar"}, w : {9}, h : {9}, upright : BOOLEAN,
            from : 1 .. 8, to : 2 .. 8, light : {0, 90}, ground : {50}] :
        i.from + 1 < i.to}
    \cup [about : {"end"}, w : {4, 6}, h : {5}, p : (-1 .. 7) \X (-1 .. 6)]
----------------------------------------------------------------------------
(* TLC inputs for the trees of variables.                                  *)

Var(type, name, flags, value) ==
    [NewVar(type, name) EXCEPT !.flags = flags, !.value = value]

LoadFlags == {{}, {"nosave"}, {"noload"}, {"noload_attributes"}}

Ints(values) ==
    {[Var("int", 1, f, v) EXCEPT !.low = r[1], !.high = r[2]] :
        f \in LoadFlags, v \in values,
        r \in {<<INT_MIN, INT_MAX>>, <<0, 3>>, <<3, INT_MAX>>}}

Strings == {Var("string", 2, {}, v) : v \in {0, 7}}
Enums(flags, values) ==
    {[Var("stringenum", 3, f, v) EXCEPT !.kids = k] :
        f \in flags, v \in values,
        k \in {<<>>, <<Var("string", 1, {"hidden"}, 8)>>,
               <<Var("string", 1, {"hidden"}, 8),
                 Var("string", 2, {"hidden"}, 9)>>}}

External(kids) == [Var("external", 4, {}, 0) EXCEPT !.file = 1, !.kids = kids]
List(flags, kids) == [Var("list", 5, flags, 0) EXCEPT !.kids = kids]

Pairs(S, T) == {<<x, y>> : x \in S, y \in T}

(* The tree of the user and the one of the next start: same program.       *)
FreshInt(f) == [Var("int", 1, f, 2) EXCEPT !.low = 0, !.high = 3]
Stores ==
    {[about |-> "store", files |-> <<<<>>>>,
      vars |-> <<List({}, <<i, s>>), External(<<t, i>>), l>>,
      fresh |-> <<List({}, <<FreshInt(i.flags), Var("string", 2, {}, 1)>>),
                  External(<<Var("string", 2, {}, 1), FreshInt(i.flags)>>),
                  [l EXCEPT !.kids[1].kids[1].value = 3]>>]
        : i \in {n \in Ints({1, 3}) : n.value \in n.low .. n.high},
          s \in Strings, t \in Strings,
          l \in {[List({f}, <<List({g}, <<Var("string", 1, {h}, 5)>>)>>)
                    EXCEPT !.name = 6] :
                    f \in {"none", "nosave", "noload"},
                    g \in {"none", "nosave", "noload"}, h \in {"none"}}}

Element(type, name, text) ==
    [type |-> type, name |-> name, text |-> text, low |-> INT_MIN,
     high |-> INT_MAX, file |-> 1, kids |-> <<>>]

IntElements == {[Element("int", 1, v) EXCEPT !.low = r[1], !.high = r[2]] :
                   v \in {-4, 9},
                   r \in {<<INT_MIN, INT_MAX>>, <<0, 3>>, <<5, INT_MAX>>}}
OtherElements ==
    {Element("string", 1, 7), Element("external", 4, 0),
     Element("gadget", 9, 0), Element("string", 9, 7),
     [Element("stringenum", 3, 8) EXCEPT
         !.kids = <<Element("string", 2, 9), Element("string", 1, 6)>>],
     [Element("list", 5, 0) EXCEPT !.kids = <<Element("external", 4, 0)>>],
     [Element("list", 8, 0) EXCEPT !.kids = <<Element("int", 1, 5)>>]}

Distinct(elements) ==
    \A i, j \in DOMAIN elements :
        elements[i].name = elements[j].name => i = j

OthersOnly(elements) == \A i \in DOMAIN elements : elements[i].name # 1

Files == {<<<<Element("string", 2, 7), Element("int", 1, 9)>>>>,
          <<<<Element("list", 5, 0)>>>>}

Reads ==
    {[about |-> "read", vars |-> <<i, e, List({}, <<External(<<>>)>>)>>,
      elements |-> d, files |-> f, plain |-> OthersOnly(d)] :
        i \in {n \in Ints({2}) : n.value \in n.low .. n.high},
        e \in Enums({{}, {"noload_enum_children"}}, {8}),
        f \in Files,
        d \in {s \in SeqOf(OtherElements, 2)
                     \cup Pairs(IntElements, OtherElements) : Distinct(s)}}

TreeInputs == Stores \cup Reads
----------------------------------------------------------------------------
Leaf(name, attributes) == [Node(name, FALSE) EXCEPT !.attributes = attributes]
TextOf(t) == [kind |-> "text", text |-> t]
ClearOf(t) == [kind |-> "clear", open |-> "<!--", text |-> t,
               close |-> <<"-->">>]
ChildOf(n) == [kind |-> "child", node |-> n]

(* Texts that need every kind of care. *)
Values == {<<>>, <<"a">>, <<"a", " ", "b">>, <<" ">>, <<"\"", "'">>,
           <<"<", "a", ">">>, <<"&">>, <<"&", "amp", ";">>, <<"E", "e">>,
           <<"a", "=", "/">>, <<"?">>}
Texts == {t \in Values : t # <<>> /\ t = Trimmed(t) /\ t # <<" ">>}

Attributes == {<<>>} \cup {<<[name |-> <<"n">>, value |-> v]>> :
                            v \in Values \cup {NoValue}}
    \cup {<<[name |-> <<"n">>, value |-> v], [name |-> <<"m">>, value |-> w]>> :
          v \in {NoValue, <<>>, <<"?">>}, w \in {NoValue, <<"a">>}}
Leaves == {Leaf(<<"v">>, a) : a \in Attributes}
Insides == {<<>>} \cup {<<TextOf(t)>> : t \in Texts}
    \cup {<<ChildOf(l)>> : l \in Leaves}
    \cup {<<TextOf(t), ChildOf(l)>> : t \in Texts, l \in Leaves}
    \cup {<<ChildOf(Leaf(<<"v">>, <<>>)), TextOf(t), ClearOf(u)>> :
          t \in Texts, u \in {<<>>, <<"<", "&">>, <<" ", "a">>}}
    \cup {<<ChildOf(k), ChildOf(l)>> : k \in {Leaf(<<"v">>, <<>>)}, l \in Leaves}
Elements == {[Node(<<"t">>, FALSE) EXCEPT !.contents = c, !.attributes = a] :
             c \in Insides, a \in {<<>>, <<[name |-> <<"n">>, value |-> <<"a">>]>>}}
Documents == Elements \cup
    {[Node(<<"x">>, TRUE) EXCEPT !.contents = <<ChildOf(e)>>,
        !.attributes = <<[name |-> <<"n">>, value |-> <<"a">>]>>] :
     e \in Elements}

(* Nodes with several children and attributes of one name. *)
Several == {[Node(<<"t">>, FALSE) EXCEPT
              !.contents = [i \in 1..Len(c) |-> ChildOf(Leaf(c[i], a))],
              !.attributes = a] :
            c \in UNION {[1..n -> {<<"v">>, <<"n">>}] : n \in 0..3},
            a \in UNION {[1..n -> [name : LookupNames, value : {<<"a">>, NoValue}]] :
                         n \in 0..2}}

Soup == {"<", ">", "/", "=", "\"", " ", "a", "&", "<!DOCTYPE", "]"}
Bytes == {0, 1, 127, 128, 255}

XmlInputs ==
    [about : {"written"}, tree : Documents, formatted : BOOLEAN]
    \cup [about : {"soup"}, text : UNION {[1..n -> Soup] : n \in 0..3}
            \cup {<<"<", "a">> \o w : w \in UNION {[1..n -> Soup] : n \in 1..4}}]
    \cup [about : {"lookup"}, node : Elements \cup Several]
    \cup [about : {"bytes"}, bytes : UNION {[1..n -> Bytes] : n \in 0..4}
            \cup {[i \in 1..54 |-> i], [i \in 1..110 |-> 2 * i]},
          formatted : BOOLEAN]

----------------------------------------------------------------------------
Words == {Plain("x"), Plain("file")}
OptOptions == <<addSwitch("help"), addShortOptSwitch("a", "affinity", FALSE),
    addOption("o", "out"), addRepeatableOption("I", "include"),
    addOptionalOption(None, "dump", Plain("stdout")), addVarLengthOption("exec")>>
OptSettings ==
    UNION {CASE o.type \in Switches -> [option : {o}, value : {<<>>}]
             [] o.type \in {"Arg1", "Repeat"} ->
                  [option : {o}, value : {<<w>> : w \in Words}]
             [] o.type = "Opt" ->
                  [option : {o}, value : {<<>>} \cup {<<w>> : w \in Words}]
             [] OTHER -> [option : {o}, value : {<<>>, <<Plain("x"), Short("f", <<>>)>>}]
           : o \in Range(OptOptions)}
OptInputs ==
    [about : {"command line"}, settings : UNION {[1 .. n -> OptSettings] : n \in 0 .. 3},
     glue : BOOLEAN, bare : {<<>>, <<Plain("file")>>},
     c : {addOptionalArgument(init(OptOptions))}]
----------------------------------------------------------------------------
AlgorithmsInit == \/ input \in ImageInputs
                  \/ input \in LookupInputs
                  \/ input \in BlobInputs
                  \/ input \in RegionTreeInputs
                  \/ input \in RobotInputs
                  \/ input \in VectorInputs
                  \/ input \in GeometryInputs
                  \/ input \in CameraInputs
                  \/ input \in EdgeInputs
                  \/ input \in TreeInputs
                  \/ input \in XmlInputs
                  \/ input \in OptInputs
AlgorithmsSpec == AlgorithmsInit /\ [][UNCHANGED input]_input

(* From pixels to regions: the label of a colour is that of the nearest    *)
(* sample, fills and picks change what they show, the regions of a label   *)
(* are its connected areas, and the balls are the best of them (lut3d.h,   *)
(* cmvision_region.cpp, plugin_detect_balls.cpp).                          *)
ColoursAreSegmented == LookupIsSound /\ BlobsAreSound

(* From regions to robots: the tree finds every neighbour, nearest first,  *)
(* and a robot is named after its pattern however it is turned             *)
(* (nkdtree.h, cmpattern_pattern.cpp, cmpattern_teamdetector.cpp).         *)
RobotsAreFound == TreeIsSound /\ PatternsAreSound

(* From the picture to the field and back: vectors, lines and the camera's *)
(* model agree with each other, and the edges that calibrate the camera    *)
(* are where the picture has them (gvector.h, quaternion.h, geomalgo.h,    *)
(* camera_calibration.cpp, sobel.h).                                       *)
FieldAndPictureAgree ==
    /\ VectorsAreSound /\ LinesAreSound /\ CameraIsSound
    /\ EdgesAreAtTheBar /\ MiddleIsFound

(* What is written is read back: the tree of settings after a restart, the *)
(* XML text it is kept in, and the arguments of the command line           *)
(* (VarXML.cpp, xmlParser.cpp, qgetopt.cpp).                               *)
TextsComeBack ==
    VarTreeIsSound /\ XmlIsSound /\ CommandLinesComeBack /\ StopsAtFirstSwitch
=============================================================================
