------------------------------ MODULE EdgeSearch ------------------------------
(***************************************************************************)
(* The search for the field's lines in the grey picture: Sobel (dep/       *)
(* ssl-vision/src/shared/util/sobel.h) and detectEdgesOnSingleLine() of    *)
(* app/plugins/plugin_cameracalib.cpp.  A picture is [w, h, at], at a      *)
(* function of <<x, y>> with x and y from 0.                               *)
(***************************************************************************)
EXTENDS CheckedInput, Integers, Sequences, FiniteSetsExt

OverThreshold(sum, threshold) == IF sum > threshold THEN sum ELSE 0

Gx(img, x, y) ==
    LET Column(i) == img.at[<<i, y - 1>>] + 2 * img.at[<<i, y>>]
                     + img.at[<<i, y + 1>>]
    IN  Column(x + 1) - Column(x - 1)

(* What the code takes for the convolution in y: the pixel up on the right  *)
(* is the one up on the left a second time.                                 *)
GyOfCode(img, x, y) ==
    img.at[<<x - 1, y + 1>>] + 2 * img.at[<<x, y + 1>>]
      + img.at[<<x + 1, y + 1>>]
      - (2 * img.at[<<x - 1, y - 1>>] + 2 * img.at[<<x, y - 1>>])

(* A mistake: darker and brighter are swapped.                             *)
HorizontalTurned(img, x, y, threshold) ==
    OverThreshold(-Gx(img, x, y), threshold)

horizontalBrighter(img, x, y, threshold) ==
    OverThreshold(Gx(img, x, y), threshold)
horizontalDarker(img, x, y, threshold) ==
    OverThreshold(-Gx(img, x, y), threshold)
verticalBrighter(img, x, y, threshold) ==
    OverThreshold(GyOfCode(img, x, y), threshold)
verticalDarker(img, x, y, threshold) ==
    OverThreshold(-GyOfCode(img, x, y), threshold)
----------------------------------------------------------------------------
(* The first place of the strongest response, and -1 where nothing does.   *)
Strongest(responses) ==
    LET places == DOMAIN responses
    IN  IF \A i \in places : responses[i] = 0 THEN -1
        ELSE Min({i \in places :
                  \A j \in places : responses[j] <= responses[i]})

(* The search is told which response to look for by a pointer to it.       *)
Response(f, img, x, y, threshold) ==
    CASE f = "horizontalBrighter" -> horizontalBrighter(img, x, y, threshold)
      [] f = "horizontalDarker" -> horizontalDarker(img, x, y, threshold)
      [] f = "verticalBrighter" -> verticalBrighter(img, x, y, threshold)
      [] OTHER -> verticalDarker(img, x, y, threshold)

maximumHorizontalEdge(img, y, xs, xe, threshold, f) ==
    Strongest([x \in xs .. xe |-> Response(f, img, x, y, threshold)])
maximumVerticalEdge(img, x, ys, ye, threshold, f) ==
    Strongest([y \in ys .. ye |-> Response(f, img, x, y, threshold)])

(* An edge that is not found counts as one at 0.                           *)
centerOfVerticalLine(img, y, xs, xe, threshold) ==
    LET dark == maximumHorizontalEdge(img, y, xs, xe, threshold,
                                      "horizontalDarker")
        bright == maximumHorizontalEdge(img, y, xs, xe, threshold,
                                        "horizontalBrighter")
    IN  (Max({bright, 0}) + Max({dark, 0})) \div 2
centerOfHorizontalLine(img, x, ys, ye, threshold) ==
    LET dark == maximumVerticalEdge(img, x, ys, ye, threshold, "verticalDarker")
        bright == maximumVerticalEdge(img, x, ys, ye, threshold,
                                      "verticalBrighter")
    IN  (Max({bright, 0}) + Max({dark, 0})) \div 2

(* Along any line, by both kernels; the middle times 2.                    *)
LinePixel(s, e, i) ==
    LET n == Max({Max({e[1] - s[1], s[1] - e[1]}),
                  Max({e[2] - s[2], s[2] - e[2]})})
        Rounded(k) == (2 * i * (e[k] - s[k]) + n) \div (2 * n)
    IN  IF n = 0 THEN s ELSE <<s[1] + Rounded(1), s[2] + Rounded(2)>>
StepsTo(s, e) == Max({Max({e[1] - s[1], s[1] - e[1]}),
                    Max({e[2] - s[2], s[2] - e[2]})})

centerOfLine(img, s, e, threshold) ==
    LET Sq(v) == v * v
        Dark(i) == LET p == LinePixel(s, e, i)
                   IN  Sq(horizontalDarker(img, p[1], p[2], threshold))
                       + Sq(verticalDarker(img, p[1], p[2], threshold))
        Bright(i) == LET p == LinePixel(s, e, i)
                     IN  Sq(horizontalBrighter(img, p[1], p[2], threshold))
                         + Sq(verticalBrighter(img, p[1], p[2], threshold))
        At(i) == IF i = -1 THEN <<0, 0>> ELSE LinePixel(s, e, i)
        Middle(d, b) ==
            [p2 |-> <<At(d)[1] + At(b)[1], At(d)[2] + At(b)[2]>>,
             found |-> d # -1 /\ b # -1]
    IN  Middle(Strongest([i \in 0 .. StepsTo(s, e) |-> Dark(i)]),
               Strongest([i \in 0 .. StepsTo(s, e) |-> Bright(i)]))
----------------------------------------------------------------------------
(* The corridor's ends are moved into the picture.                         *)
sanitizeSobel(img, p, border) ==
    LET In(v, n) == IF v < border THEN border
                    ELSE IF v > n - border THEN n - border ELSE v
    IN  <<In(p[1], img.w), In(p[2], img.h)>>

(* One point of a line: what the plugin records, from the corridor's ends. *)
(* A mistake: the corridor is not turned round.                            *)
SearchedAsGiven(img, side, centre, s, e, threshold) ==
    LET y == (s[2] + e[2]) \div 2
        x == maximumHorizontalEdge(img, y, s[1], e[1], threshold,
                                   "horizontalBrighter")
    IN  [at |-> <<x, y>>, found |-> x # -1]

Recorded(v, beside, mean) ==
    LET found == IF beside THEN v # -1 ELSE v > 0
    IN  [found |-> found,
         at |-> IF beside THEN <<IF found THEN v ELSE mean[1], mean[2]>>
                ELSE <<mean[1], IF found THEN v ELSE mean[2]>>]

Searched(img, side, centre, s, e, threshold) ==
    LET Mean(k) == (s[k] + e[k]) \div 2
        low(k) == Min({s[k], e[k]})
        high(k) == Max({s[k], e[k]})
        Across == CASE side = "left" -> maximumHorizontalEdge(img, Mean(2),
                           low(1), high(1), threshold, "horizontalBrighter")
                    [] side = "right" -> maximumHorizontalEdge(img, Mean(2),
                           low(1), high(1), threshold, "horizontalDarker")
                    [] side = "top" -> maximumVerticalEdge(img, Mean(1),
                           low(2), high(2), threshold, "verticalBrighter")
                    [] OTHER -> maximumVerticalEdge(img, Mean(1),
                           low(2), high(2), threshold, "verticalDarker")
        beside == side \in {"left", "right"}
    IN  Recorded(IF ~centre THEN Across
                 ELSE IF beside
                 THEN centerOfVerticalLine(img, Mean(2), low(1), high(1),
                                           threshold)
                 ELSE centerOfHorizontalLine(img, Mean(1), low(2), high(2),
                                             threshold),
                 beside, <<Mean(1), Mean(2)>>)
----------------------------------------------------------------------------
(* Properties.  An input's picture is a bar [from, to) of light on dark    *)
(* ground or of dark on light, upright or lying.                           *)

Bar(i) ==
    [w |-> i.w, h |-> i.h,
     at |-> [p \in (0 .. i.w - 1) \X (0 .. i.h - 1) |->
        LET v == IF i.upright THEN p[1] ELSE p[2]
        IN  IF v \in i.from .. i.to - 1 THEN i.light ELSE i.ground]]

(* sobel.h:98-140: the edge of a bar is found at the bar's edge and        *)
(* nowhere else, and only the edge of the direction asked for; the two     *)
(* orders in which the corridor's ends are given make no difference.       *)
EdgesAreAtTheBar ==
    Is("bar") =>
        LET img == Bar(input)
            s == IF input.upright THEN <<1, 2>> ELSE <<2, 1>>
            e == IF input.upright THEN <<input.w - 2, 2>>
                 ELSE <<2, input.h - 2>>
            v == IF input.upright THEN 1 ELSE 2
            last == IF input.upright THEN input.w - 2 ELSE input.h - 2
            Sides == IF input.upright THEN {"left", "right"}
                     ELSE {"top", "bottom"}
        IN  \A side \in Sides :
              LET rises == (side \in {"left", "top"})
                           = (input.light > input.ground)
                  edge == IF rises THEN input.from ELSE input.to
                  AtTheEdge(there, back) ==
                      /\ there = back
                      /\ there.found <=> {edge - 1, edge} \cap (1 .. last) # {}
                      /\ there.found => there.at[v] \in {edge - 1, edge}
              IN  AtTheEdge(Searched(img, side, FALSE, s, e, 20),
                            Searched(img, side, FALSE, e, s, 20))

(* sobel.h:146-200: the middle of a bar that lies in the corridor is found *)
(* to a pixel, by the search across and by the search along any line.      *)
MiddleIsFound ==
    Is("bar") /\ input.from > 1
      /\ input.to < (IF input.upright THEN input.w ELSE input.h) - 1 =>
        LET img == Bar(input)
            s == IF input.upright THEN <<1, 2>> ELSE <<2, 1>>
            e == IF input.upright THEN <<input.w - 2, 2>>
                 ELSE <<2, input.h - 2>>
            v == IF input.upright THEN 1 ELSE 2
            side == IF input.upright THEN "left" ELSE "top"
            twice == input.from + input.to - 1
            InTheMiddle(line, across) ==
                /\ across.found /\ 2 * across.at[v] - twice \in -2 .. 1
                /\ line.found /\ line.p2[v] - twice \in -2 .. 1
        IN  InTheMiddle(centerOfLine(img, s, e, 20),
                        Searched(img, side, TRUE, s, e, 20))

=============================================================================
