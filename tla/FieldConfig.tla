---------------------------- MODULE FieldConfig ----------------------------
(***************************************************************************)
(* The measures of the field and the calibration points of each camera's   *)
(* half: RoboCupField and RoboCupCalibrationHalfField (dep/ssl-vision/src/ *)
(* shared/util/field.h).  Every change of a measure renews the derived     *)
(* ones and then every half that copies from the field; a half that does   *)
(* not is edited by hand.  The settings are written when the program ends  *)
(* and read when it starts, variable by variable in the file's order, and  *)
(* what a half copies is not loaded (VARTYPE_FLAG_NOLOAD).                 *)
(***************************************************************************)
EXTENDS Integers, Sequences, FiniteSets

CONSTANTS CameraIds,
          EditedMeasures,  (* the measures the user edits *)
          EnteredValues,   (* what the user enters *)
          FieldEditLimit   (* how many edits a run has *)

VARIABLES measures, derived,
          autoUpdate, cameraPos, halves,   (* by camera *)
          fieldFile,                       (* settings.xml *)
          fieldEdits

fieldVars == <<measures, derived, autoUpdate, cameraPos, halves, fieldFile,
               fieldEdits>>
settingsVars == <<measures, derived, autoUpdate, cameraPos, halves>>

RoboCup2009 ==
    [line_width |-> 10, field_length |-> 6050, field_width |-> 4050,
     boundary_width |-> 250, referee_width |-> 425, goal_width |-> 700,
     goal_depth |-> 180, goal_wall_width |-> 20, center_circle_radius |-> 500,
     defense_radius |-> 500, defense_stretch |-> 350,
     free_kick_from_defense_dist |-> 200,
     penalty_spot_from_field_line_dist |-> 450,
     penalty_line_from_spot_dist |-> 400]
Positions == {"negative", "positive"}
ASSUME FieldAssumption == /\ EditedMeasures \subseteq DOMAIN RoboCup2009
                          /\ EnteredValues \subseteq Int
NoFieldFile == [none |-> TRUE]

(* Division in C++ drops the fraction. *)
HalfOf(x) == IF x < 0 THEN -((-x) \div 2) ELSE x \div 2

updateDerivedParameters(m) ==
    LET pl == m.field_length + 2 * m.boundary_width
        pw == m.field_width + 2 * m.boundary_width
        sl == pl + 2 * m.referee_width
        sw == pw + 2 * m.referee_width
    IN  [total_playable |-> <<pl, pw>>, total_surface |-> <<sl, sw>>,
         half_field_length |-> HalfOf(m.field_length),
         half_field_width |-> HalfOf(m.field_width),
         half_line_width |-> HalfOf(m.line_width),
         half_goal_width |-> HalfOf(m.goal_width),
         half_defense_stretch |-> HalfOf(m.defense_stretch),
         half_total_playable |-> <<HalfOf(pl), HalfOf(pw)>>,
         half_total_surface |-> <<HalfOf(sl), HalfOf(sw)>>]
----------------------------------------------------------------------------
(* The points of a half: its left ones from the field, its right ones      *)
(* mirrored from those.                                                    *)
(* A mistake: the other half is only shifted, not turned.                  *)
HalfShifted(m, d, pos) ==
    LET mx == IF pos = "negative" THEN -1 ELSE 1
        x  == mx * d.half_field_length
        left == [corner |-> <<x, d.half_field_width>>,
                 goal_area |-> <<x, m.defense_radius + d.half_defense_stretch>>,
                 goal_post |-> <<x, d.half_goal_width>>,
                 centerline |-> <<0, d.half_field_width>>,
                 centercircle |-> <<0, m.center_circle_radius>>]
    IN  [left |-> left,
         right |-> [p \in DOMAIN left |-> <<left[p][1], -left[p][2]>>],
         centerpoint |-> <<0, 0>>,
         centercircle_radius |-> m.center_circle_radius,
         defense_area_radius |-> m.defense_radius,
         defense_stretch |-> m.defense_stretch]

copyFromRoboCupField(m, d, pos) ==
    LET mult == IF pos = "negative" THEN -1 ELSE 1
        x == mult * d.half_field_length
        y == mult * d.half_field_width
        left ==
          [corner |-> <<x, y>>,
           goal_area |->
               <<x, mult * (m.defense_radius + d.half_defense_stretch)>>,
           goal_post |-> <<x, mult * d.half_goal_width>>,
           centerline |-> <<0, y>>,
           centercircle |-> <<0, mult * m.center_circle_radius>>]
    IN  [left |-> left,
         right |-> [p \in DOMAIN left |-> <<left[p][1], -left[p][2]>>],
         centerpoint |-> <<0, 0>>,
         centercircle_radius |-> m.center_circle_radius,
         defense_area_radius |-> m.defense_radius,
         defense_stretch |-> m.defense_stretch]

(* update(): only a half that copies.                                      *)
update(auto, m, d, pos, half) ==
    IF auto THEN copyFromRoboCupField(m, d, pos) ELSE half
----------------------------------------------------------------------------
CameraNegX(c) == IF c = 0 THEN "negative" ELSE "positive"

(* What the constructors leave, before a file is read. *)
Constructed ==
    [measures |-> RoboCup2009,
     derived |-> updateDerivedParameters(RoboCup2009),
     auto |-> [c \in CameraIds |-> TRUE],
     pos |-> [c \in CameraIds |-> CameraNegX(c)],
     halves |-> [c \in CameraIds |->
         copyFromRoboCupField(RoboCup2009,
             updateDerivedParameters(RoboCup2009), CameraNegX(c))]]

(* A half reads its variables in the file's order: auto_update first, then *)
(* camera_pos, then the points, which a half that copies does not load.    *)
(* A mistake: the points come first, while the half still copies.          *)
HalfPointsFirst(new, file, c) ==
    update(file.auto[c], file.measures, file.derived, file.pos[c],
           new.halves[c])

HalfRead(new, file, c) ==
    update(file.auto[c], file.measures, file.derived, file.pos[c],
           file.halves[c])

Load(new, file) ==
    IF file = NoFieldFile THEN new
    ELSE [measures |-> file.measures, derived |-> file.derived,
          auto |-> file.auto, pos |-> file.pos,
          halves |-> [c \in CameraIds |-> HalfRead(new, file, c)]]

Settings == [measures |-> measures, derived |-> derived, auto |-> autoUpdate,
             pos |-> cameraPos, halves |-> halves]

Becomes(s) == /\ measures' = s.measures /\ derived' = s.derived
              /\ autoUpdate' = s.auto /\ cameraPos' = s.pos
              /\ halves' = s.halves

FieldInit ==
    /\ measures = Constructed.measures /\ derived = Constructed.derived
    /\ autoUpdate = Constructed.auto /\ cameraPos = Constructed.pos
    /\ halves = Constructed.halves
    /\ fieldFile = NoFieldFile /\ fieldEdits = 0

Edited == fieldEdits < FieldEditLimit /\ fieldEdits' = fieldEdits + 1
----------------------------------------------------------------------------
(* changed(): a measure has another value.                                 *)
(* A mistake: the halves copy before the derived measures are renewed.     *)
ChangedHalvesFirst(m) ==
    /\ measures' = m /\ derived' = updateDerivedParameters(m)
    /\ halves' = [c \in CameraIds |->
           update(autoUpdate[c], m, derived, cameraPos[c], halves[c])]

changed(m) ==
    /\ measures' = m /\ derived' = updateDerivedParameters(m)
    /\ halves' = [c \in CameraIds |->
           update(autoUpdate[c], m, updateDerivedParameters(m),
                  cameraPos[c], halves[c])]

EditMeasure(p, v) ==
    /\ Edited
    /\ changed([measures EXCEPT ![p] = v])
    /\ UNCHANGED <<autoUpdate, cameraPos, fieldFile>>

restoreRoboCup ==
    /\ Edited
    /\ changed(RoboCup2009)
    /\ UNCHANGED <<autoUpdate, cameraPos, fieldFile>>

autoUpdateChanged(c) ==
    /\ Edited
    /\ autoUpdate' = [autoUpdate EXCEPT ![c] = ~@]
    /\ halves' = [halves EXCEPT ![c] =
           update(autoUpdate'[c], measures, derived, cameraPos[c], @)]
    /\ UNCHANGED <<measures, derived, cameraPos, fieldFile>>

(* The position can be edited while the half copies, the points while it   *)
(* does not (VARTYPE_FLAG_READONLY).                                       *)
EditPosition(c, pos) ==
    /\ Edited
    /\ autoUpdate[c] /\ cameraPos' = [cameraPos EXCEPT ![c] = pos]
    /\ halves' = [halves EXCEPT ![c] =
           update(autoUpdate[c], measures, derived, pos, @)]
    /\ UNCHANGED <<measures, derived, autoUpdate, fieldFile>>

EditPoint(c, x) ==
    /\ Edited
    /\ ~autoUpdate[c]
    /\ halves' = [halves EXCEPT ![c].left.corner[1] = x]
    /\ UNCHANGED <<measures, derived, autoUpdate, cameraPos, fieldFile>>

(* The program ends, and is started again; or it is killed, and what it    *)
(* read when it started is what it reads again.                            *)
RestartField ==
    /\ Edited
    /\ fieldFile' = Settings
    /\ Becomes(Load(Constructed, fieldFile'))

Killed ==
    /\ Edited
    /\ Becomes(Load(Constructed, fieldFile))
    /\ UNCHANGED fieldFile

FieldNext ==
    \/ \E p \in EditedMeasures, v \in EnteredValues : EditMeasure(p, v)
    \/ restoreRoboCup
    \/ \E c \in CameraIds : autoUpdateChanged(c)
    \/ \E c \in CameraIds, pos \in Positions : EditPosition(c, pos)
    \/ \E c \in CameraIds, x \in EnteredValues : EditPoint(c, x)
    \/ RestartField
    \/ Killed

FieldSpec == FieldInit /\ [][FieldNext]_fieldVars
----------------------------------------------------------------------------
(* What follows from the measures follows them through every order of      *)
(* edits, restarts and kills: the derived measures, and the half of each   *)
(* camera that copies from the field.                                      *)
CopiesFollowField ==
    /\ derived = updateDerivedParameters(measures)
    /\ \A c \in CameraIds : autoUpdate[c] =>
           halves[c] = copyFromRoboCupField(measures, derived, cameraPos[c])

(* Two cameras that copy opposite halves have points that are each other's *)
(* image when the field is turned round, so what both report about the     *)
(* same point of the field agrees; equal halves have equal points.         *)
HalvesAreTurned ==
    \A c, d \in CameraIds : autoUpdate[c] /\ autoUpdate[d] =>
        \A p \in DOMAIN halves[c].left :
            LET a == halves[c].left[p]
                b == halves[d].left[p]
            IN  IF cameraPos[c] = cameraPos[d] THEN a = b
                ELSE a = <<-b[1], -b[2]>>

(* What follows from the measures follows them through every order of      *)
(* edits, restarts and kills (field.h).                                    *)
FieldIsSound == CopiesFollowField /\ HalvesAreTurned

(* A regular end and a new start lose nothing: measures, positions, and    *)
(* the points entered by hand.                                             *)
RestartLosesNothing == [][RestartField => UNCHANGED settingsVars]_fieldVars
----------------------------------------------------------------------------
(***************************************************************************)
(* The lines of the field that PluginVisualize draws into the picture      *)
(* (dep/ssl-vision/src/app/plugins/plugin_visualize.cpp), from the         *)
(* measures and halves of FieldConfig, which the user edits meanwhile.     *)
(* A line is <<start, end>> on the field; CameraModel brings it into the   *)
(* picture.  The code takes 3.14 for half a turn: what that puts off by    *)
(* less than two millimetres is left out.                                  *)
(***************************************************************************)

CorridorWidth == 280

Sign(x) == IF x < 0 THEN -1 ELSE IF x > 0 THEN 1 ELSE 0
Mult(pos) == IF pos = "negative" THEN -1 ELSE 1

(* The four lines round a half, given its four corners.                    *)
Round(leftCorner, rightCorner, leftCenter, rightCenter) ==
    {<<leftCorner, leftCenter>>, <<rightCorner, rightCenter>>,
     <<rightCorner, leftCorner>>, <<rightCenter, leftCenter>>}

CalibrationLines(h) ==
    Round(h.left.corner, h.right.corner, h.left.centerline,
          h.right.centerline)

OutX(p, w) == p[1] + Sign(p[1]) * w
OutY(p, w) == p[2] + Sign(p[2]) * w
BoundaryLines(h, w) ==
    LET Out(p) == <<OutX(p, w), OutY(p, w)>>
        OutAside(p) == <<p[1], OutY(p, w)>>
    IN  {<<Out(h.left.corner), OutAside(h.left.centerline)>>,
         <<Out(h.right.corner), OutAside(h.right.centerline)>>,
         <<Out(h.right.corner), Out(h.left.corner)>>}
----------------------------------------------------------------------------
(* Sine and cosine of k tenths of half a turn, times r, without fraction.  *)
Sine == <<309, 588, 809, 951, 1000>>
SineOf(k) ==
    LET q == k % 10
        s == IF q = 0 THEN 0 ELSE IF q <= 5 THEN Sine[q] ELSE Sine[10 - q]
    IN  IF (k % 20) >= 10 THEN -s ELSE s
Circular(k, mult, r) ==
    LET Whole(x) == IF x < 0 THEN -((-x * r) \div 1000) ELSE (x * r) \div 1000
    IN  <<mult * Whole(SineOf(k)), Whole(SineOf(k + 5))>>
At(p, x, y) == <<p[1] + x, p[2] + y>>

CircleLines(m, pos) ==
    LET r == m.center_circle_radius
    IN  {<<Circular(k - 1, Mult(pos), r), Circular(k, Mult(pos), r)>> :
         k \in 1 .. 10}

(* A mistake: the arcs turn the same way on both halves.                   *)
DefenseUnturned(m, d, pos) ==
    LET r == m.defense_radius
        h == d.half_defense_stretch
        x == Mult(pos) * d.half_field_length
        Arc(from, y) ==
            {<<At(Circular(k - 1, 1, r), x, y), At(Circular(k, 1, r), x, y)>> :
             k \in from + 1 .. from + 5}
        front == x - Mult(pos) * r
    IN  Arc(10, -h) \cup {<<<<front, -h>>, <<front, h>>>>} \cup Arc(15, h)
DefenseLines(m, d, pos) ==
    LET r == m.defense_radius
        h == d.half_defense_stretch
        x == Mult(pos) * d.half_field_length
        Arc(from, y) ==
            {<<At(Circular(k - 1, Mult(pos), r), x, y),
               At(Circular(k, Mult(pos), r), x, y)>> : k \in from + 1 .. from + 5}
        front == x - Mult(pos) * r
    IN  Arc(10, -h) \cup {<<<<front, -h>>, <<front, h>>>>} \cup Arc(15, h)

Multiples(limit) == {500 * k : k \in {j \in 0 .. limit \div 500 : 500 * j < limit}}
GridLines(d, pos) ==
    LET length == d.half_field_length
        width == d.half_field_width
    IN  {<<<<0, s * y>>, <<Mult(pos) * length, s * y>>>> :
            y \in Multiples(width), s \in {-1, 1}}
        \cup {<<<<Mult(pos) * x, -width>>, <<Mult(pos) * x, width>>>> :
            x \in Multiples(length)}
----------------------------------------------------------------------------
(* The corridor that the second step of the calibration searches: away is  *)
(* 1 for its outer lines and -1 for its inner ones.  At the centre line    *)
(* the sign of x is that of the corner, and outer is across the line.      *)
CorridorLines(h, away) ==
    LET o == away * (CorridorWidth \div 2)
        Side(x) == IF x > 0 THEN 1 ELSE -1
        Corner(p) == <<p[1] + Side(p[1]) * o, p[2] + Side(p[2]) * o>>
        Center(p, corner) == <<p[1] - Side(corner[1]) * o,
                               p[2] + Side(p[2]) * o>>
    IN  Round(Corner(h.left.corner), Corner(h.right.corner),
              Center(h.left.centerline, h.left.corner),
              Center(h.right.centerline, h.right.corner))
----------------------------------------------------------------------------
(* Properties.                                                             *)

Undirected(lines) == {{l[1], l[2]} : l \in lines}
TurnedRound(lines) ==
    {<<<<-l[1][1], -l[1][2]>>, <<-l[2][1], -l[2][2]>>>> : l \in lines}
Ends(lines) == {l[1] : l \in lines} \cup {l[2] : l \in lines}

(* What is drawn for one half is what is drawn for the other, turned by    *)
(* half a turn.                                                            *)
HalvesAreDrawnAlike ==
    LET Drawn(pos) ==
          LET h == copyFromRoboCupField(measures, derived, pos)
          IN  CalibrationLines(h) \cup BoundaryLines(h, measures.boundary_width)
              \cup CircleLines(measures, pos)
              \cup DefenseLines(measures, derived, pos)
              \cup GridLines(derived, pos)
    IN  Undirected(Drawn("negative"))
            = Undirected(TurnedRound(Drawn("positive")))

(* The defence area is one unbroken line from the goal line to the goal    *)
(* line: each of its points but two joins two pieces.                      *)
DefenseIsClosed ==
    \A pos \in Positions :
        LET lines == {l \in DefenseLines(measures, derived, pos) : l[1] # l[2]}
            Joined(p) == Cardinality({l \in lines : p \in {l[1], l[2]}})
            open == {p \in Ends(lines) : Joined(p) = 1}
        IN  /\ \A p \in Ends(lines) : Joined(p) <= 2
            /\ \A p \in open : p[1] = Mult(pos) * derived.half_field_length
            /\ Cardinality(open) = 2

(* A line of the half lies inside its corridor, with half the width on     *)
(* each side: every corner is the middle of its outer and its inner one,   *)
(* and the outer goal line is farther out than the inner one.              *)
CorridorHoldsLines ==
    \A c \in CameraIds : autoUpdate[c] =>
        LET h == halves[c]
            outer == Ends(CorridorLines(h, 1))
            inner == Ends(CorridorLines(h, -1))
            w == CorridorWidth \div 2
        IN  h.left.corner[1] # 0 =>
            /\ \A p \in Ends(CalibrationLines(h)) :
                  /\ \E a \in outer, b \in inner :
                        a[1] + b[1] = 2 * p[1] /\ a[2] + b[2] = 2 * p[2]
                  /\ \E a \in outer : \E sx, sy \in {-1, 1} :
                        a = <<p[1] + sx * w, p[2] + sy * w>>
            /\ LET Span(s) == CHOOSE n \in 0 .. 40000 :
                                 /\ \E p, q \in s : p[1] - q[1] = n
                                 /\ \A p, q \in s : p[1] - q[1] <= n
               IN  Span(outer) = Span(inner) + 2 * CorridorWidth

(* The three of them.                                                      *)
DrawingIsSound == HalvesAreDrawnAlike /\ DefenseIsClosed /\ CorridorHoldsLines
=============================================================================
