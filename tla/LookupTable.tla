---------------------------- MODULE LookupTable ----------------------------
(***************************************************************************)
(* The colour table itself: LUT3D and its RGB and YUV forms                *)
(* (dep/ssl-vision/src/shared/util/lut3d.h), and what its editor reads     *)
(* from it and from a picture (app/gui/glLUTwidget.cpp); the thresholding  *)
(* of a picture by it (shared/cmvision/cmvision_threshold.cpp).  A colour  *)
(* is a triple of bytes, the number of index bits of each axis one too.    *)
(***************************************************************************)
EXTENDS Images

Axes == 1 .. 3

sizes(bits) == [a \in Axes |-> 2 ^ bits[a]]
LUT_SIZE(bits) == 2 ^ (bits[1] + bits[2] + bits[3] + 1)

(* norm2lut and lut2norm: shift the bits that are not kept out and in.     *)
norm2lut(bits, colour) ==
    [a \in Axes |-> colour[a] \div 2 ^ (8 - bits[a])]
lut2norm(bits, cell) ==
    [a \in Axes |-> (cell[a] * 2 ^ (8 - bits[a])) % 256]

(* getPointerPreshrunk().  A mistake: both of the lower axes shift the     *)
(* first one by their own bits only.                                       *)
PlaceTooNarrow(bits, cell) ==
    cell[1] * 2 ^ bits[2] + cell[2] * 2 ^ bits[3] + cell[3]
place(bits, cell) ==
    cell[1] * 2 ^ (bits[2] + bits[3]) + cell[2] * 2 ^ bits[3] + cell[3]

(* loadRoboCupChannels(), getChannelID().                                  *)
RoboCupChannels(mode) ==
    (IF mode = "numeric" THEN <<"<Clear>">> ELSE <<>>)
    \o <<"Field Green", "Orange", "Yellow", "Blue", "Pink", "Cyan", "Green",
         "White", "Black">>

getChannelID(channels, label) ==
    IF \E i \in DOMAIN channels : channels[i] = label
    THEN (CHOOSE i \in DOMAIN channels :
             /\ channels[i] = label
             /\ \A j \in 1 .. i - 1 : channels[j] # label) - 1
    ELSE -1

(* What one pixel of channel id adds to a mask of eight bits, and what is  *)
(* left of it in drawing: setPixel's mask.                                 *)
ChannelMask(mode, id) ==
    IF mode = "numeric" THEN id % 256 ELSE (2 ^ id) % 256

(* computeLUTfromLabels(): the nearest label of a cell, channel 0 is none. *)
(* A mistake: the first label near enough is taken.                        *)
sq(n) == n * n
Distance(p, q) == sq(p[1] - q[1]) + sq(p[2] - q[2]) + sq(p[3] - q[3])

FirstLabel(colours, at, most) ==
    LET Try(best, i) == IF best = 0 /\ Distance(at, colours[i]) <= most
                        THEN i ELSE best
    IN  FoldLeft(Try, 0, [i \in 1 .. Len(colours) |-> i])

Closer(best, i, colours, at, most) ==
    LET dist == Distance(at, colours[i])
        better == i = 1 \/ dist < best.dist
        d == IF better THEN dist ELSE best.dist
    IN  [dist |-> d,
         idx |-> IF most # 0 /\ d > most THEN 0
                 ELSE IF better THEN i ELSE best.idx]
NearestLabel(colours, at, most) ==
    LET upTo[i \in 0 .. Len(colours)] ==
            IF i = 0 THEN [dist |-> 0, idx |-> 0]
            ELSE Closer(upTo[i - 1], i, colours, at, most)
    IN  upTo[Len(colours)].idx
----------------------------------------------------------------------------
(* maskFillYZ(): a plane is a function on 0 .. w-1 \X 0 .. h-1, a segment  *)
(* is <<xl, xr, y, dy>>.  Masks are sets of channels in bitwise mode.      *)
Fits(plane, p, old, o) ==
    IF o.exact THEN plane[p] = old
    ELSE (plane[p] \cap o.new = {}) = ~o.remove

Painted(mask, o) ==
    IF o.remove THEN IF o.mode = "bitwise" THEN mask \ o.new ELSE {}
    ELSE IF o.exclusive THEN o.new ELSE mask \cup o.new

(* LUTFILL_PUSH: not beyond the rows, nor beyond the stack.                *)
MAXDEPTH == 10000
Push(segments, seg, h) ==
    IF Len(segments) < MAXDEPTH /\ seg[3] + seg[4] \in 0 .. h - 1
    THEN Append(segments, seg) ELSE segments

(* The runs of fitting cells of a row that meet x1 .. x2, from the left.   *)
Runs(fits(_), x1, x2, w) ==
    LET starts == {x \in 0 .. w - 1 : fits(x) /\ (x = 0 \/ ~fits(x - 1))}
        end(x) == CHOOSE r \in x .. w - 1 :
                     /\ \A m \in x .. r : fits(m)
                     /\ r = w - 1 \/ ~fits(r + 1)
        met == {x \in starts : x <= x2 /\ end(x) >= x1}
    IN  [i \in 1 .. Cardinality(met) |->
            LET l == CHOOSE x \in met :
                        Cardinality({m \in met : m < x}) = i - 1
            IN  <<l, end(l)>>]

(* What a run leaves on the stack: the leak on its left, the row beyond,   *)
(* the leak on its right.  A mistake: no leak on the right.                *)
PushesNoLeak(segments, run, x1, x2, y, dy, h) ==
    LET one == IF run[1] < x1
               THEN Push(segments, <<run[1], x1 - 1, y, -dy>>, h)
               ELSE segments
    IN  Push(one, <<run[1], run[2], y, dy>>, h)

Pushes(segments, run, x1, x2, y, dy, h) ==
    LET one == IF run[1] < x1
               THEN Push(segments, <<run[1], x1 - 1, y, -dy>>, h)
               ELSE segments
        two == Push(one, <<run[1], run[2], y, dy>>, h)
    IN  IF run[2] > x2
        THEN Push(two, <<x2 + 1, run[2], y, -dy>>, h) ELSE two

Filling(plane, segments, old, o, w, h) ==
    LET seg == Last(segments)
        y == seg[3] + seg[4]
        fits(x) == Fits(plane, <<x, y>>, old, o)
        runs == Runs(fits, seg[1], seg[2], w)
        Pushed(stack, run) == Pushes(stack, run, seg[1], seg[2], y, seg[4], h)
    IN  [plane |-> [p \in DOMAIN plane |->
                       IF p[2] = y /\ \E run \in ToSet(runs) :
                                         p[1] \in run[1] .. run[2]
                       THEN Painted(plane[p], o) ELSE plane[p]],
         segments |-> FoldLeft(Pushed, Front(segments), runs)]

FillFrom(plane, segments, old, o, w, h) ==
    LET Fills == [plane : [DOMAIN plane -> SUBSET Nat],
                  segments : Seq(Int \X Int \X Int \X {1, -1})]
        filled[s \in Fills] ==
            IF s.segments = <<>> THEN s.plane
            ELSE filled[Filling(s.plane, s.segments, old, o, w, h)]
    IN  filled[[plane |-> plane, segments |-> segments]]

(* The early returns: nothing to add, nothing to remove.                   *)
maskFillYZ(plane, origin, options, w, h) ==
    LET o == IF options.mode = "numeric"
             THEN [options EXCEPT !.exact = TRUE, !.exclusive = TRUE]
             ELSE options
        old == plane[origin]
        done == IF ~o.remove
                THEN IF o.exact THEN old = o.new ELSE old \cap o.new # {}
                ELSE IF o.mode = "bitwise" THEN old \cap o.new = {}
                     ELSE old = {}
        x == origin[1]  y == origin[2]
    IN  IF done THEN plane
        ELSE FillFrom(plane, Push(Push(<<>>, <<x, x, y, 1>>, h),
                                  <<x, x, y + 1, -1>>, h), old, o, w, h)
----------------------------------------------------------------------------
(* glPixel2LUTCoordinates() in parts of 1/n of the picture of the slice:   *)
(* the right and upper edges belong to the last cell.                      *)
LutCoordinate(pos, n, size) ==
    LET cell == (pos * size) \div n
    IN  IF cell > size - 1 THEN size - 1 ELSE cell

(* drawSample(): the cross of a cell in the sampler's texture, sampler_    *)
(* scale times as large.                                                   *)
sampler_scale == 5
SampleCross(x, y) ==
    UNION {{<<x * sampler_scale + p, y * sampler_scale + p>>,
            <<x * sampler_scale + (sampler_scale - (p + 1)),
              y * sampler_scale + p>>} : p \in 0 .. sampler_scale - 1}

(* sampleImage() of the UYVY format: two pixels share their colours.       *)
SampledYUV422(bytes) ==
    {<<bytes[4 * i + 2], bytes[4 * i + 1], bytes[4 * i + 3]>> :
        i \in 0 .. (Len(bytes) \div 4) - 1}
    \cup {<<bytes[4 * i + 4], bytes[4 * i + 1], bytes[4 * i + 3]>> :
        i \in 0 .. (Len(bytes) \div 4) - 1}

(* The pixel a click on the picture picks (PluginColorCalibration).  A     *)
(* mistake: the luminance of the first pixel of the pair.                  *)
PickFirstLuminance(bytes, width, loc) ==
    LET i == (loc[2] * width + loc[1]) \div 2
    IN  <<bytes[4 * i + 2], bytes[4 * i + 1], bytes[4 * i + 3]>>
PickedYUV422(bytes, width, loc) ==
    LET i == (loc[2] * width + loc[1]) \div 2
    IN  <<IF loc[1] % 2 = 0 THEN bytes[4 * i + 2] ELSE bytes[4 * i + 4],
          bytes[4 * i + 1], bytes[4 * i + 3]>>
----------------------------------------------------------------------------
(* The table is a function on its places.  reset(), set(), get().          *)
resetTable(bits) == [p \in 0 .. LUT_SIZE(bits) - 1 |-> 0]
getMask(bits, table, colour) == table[place(bits, norm2lut(bits, colour))]
setMask(bits, table, colour, mask) ==
    [table EXCEPT ![place(bits, norm2lut(bits, colour))] = mask]

(* set_preshrunk() of every cell: the places below the size are those of   *)
(* cells, the upper half of the table is never used.                       *)
cellAt(bits, p) ==
    <<p \div 2 ^ (bits[2] + bits[3]), (p \div 2 ^ bits[3]) % 2 ^ bits[2],
      p % 2 ^ bits[3]>>
CellCount(bits) == sizes(bits)[1] * sizes(bits)[2] * sizes(bits)[3]

(* deriveFromLUT() of an RGB table: each cell has the mask of the colour   *)
(* in its corner; a table of another space than YUV changes nothing.  (A   *)
(* YUV table from an RGB one, which nobody makes, would forget to take 128 *)
(* from u and v.)  A mistake: the cell's numbers are taken for its colour. *)
CornerUnshifted(bits, p) == cellAt(bits, p)
CornerColour(bits, p) == lut2norm(bits, cellAt(bits, p))

deriveFromLUT(bits, derived, lut) ==
    IF lut.space # "YUV" THEN derived
    ELSE [p \in DOMAIN derived |->
             IF p < CellCount(bits)
             THEN LET c == CornerColour(bits, p)
                  IN  getMask(lut.bits, lut.table, rgb2yuv(c[1], c[2], c[3]))
             ELSE derived[p]]

(* The colour of pixel i, counted from 1, in the order of the table's axes.*)
(* A mistake: of two pixels that share their colours, both are the first.  *)
PixelFirst(source, i) ==
    LET pair == 4 * ((i - 1) \div 2)
    IN  <<source.bytes[pair + 2], source.bytes[pair + 1],
          source.bytes[pair + 3]>>

PixelYUV422(source, i) ==
    LET pair == 4 * ((i - 1) \div 2)
    IN  <<source.bytes[pair + IF i % 2 = 1 THEN 2 ELSE 4],
          source.bytes[pair + 1], source.bytes[pair + 3]>>
PixelOf3(source, i) == SubSeq(source.bytes, 3 * i - 2, 3 * i)

(* The three forms of thresholdImage...(): a source of another format or   *)
(* of another number of pixels leaves the target as it is.  That number is *)
(* even for YUV422, of which two pixels at a time are written.             *)
Threshable(source, format, target) ==
    source.format = format /\ Len(target) = source.pixels

thresholdImageYUV422_UYVY(target, source, lut) ==
    IF ~Threshable(source, "YUV422_UYVY", target) THEN target
    ELSE [i \in DOMAIN target |->
             getMask(lut.bits, lut.table, PixelYUV422(source, i))]

thresholdImageYUV444(target, source, lut) ==
    IF ~Threshable(source, "YUV444", target) THEN target
    ELSE [i \in DOMAIN target |->
             getMask(lut.bits, lut.table, PixelOf3(source, i))]

thresholdImageRGB(target, source, lut) ==
    IF ~Threshable(source, "RGB8", target) THEN target
    ELSE [i \in DOMAIN target |->
             getMask(lut.bits, lut.table, PixelOf3(source, i))]

(* PluginColorThreshold: the table by the format of the picture; getDerived*)
(* LUT() is the first table of the space among those derived, if any.  The *)
(* target has the size of the picture then, its pixels are not cleared.    *)
segmentation(target, source, yuvLut, derived) ==
    LET rgbLuts == {i \in DOMAIN derived : derived[i].space = "RGB"}
    IN  CASE source.format = "YUV422_UYVY" ->
               thresholdImageYUV422_UYVY(target, source, yuvLut)
          [] source.format = "YUV444" ->
               thresholdImageYUV444(target, source, yuvLut)
          [] source.format = "RGB8" /\ rgbLuts # {} ->
               thresholdImageRGB(target, source, derived[Min(rgbLuts)])
          [] OTHER -> target

(* colorizeImageFromThresholding() with the colours of the channels.       *)
DrawColours(mode) ==
    (IF mode = "numeric" THEN <<"Black">> ELSE <<>>)
    \o <<"DarkGreen", "Orange", "Yellow", "Blue", "Pink", "Cyan", "Green",
         "White", "Black">>
colorize(masks, colours) == [i \in DOMAIN masks |-> colours[masks[i] + 1]]
----------------------------------------------------------------------------
(* Every cell of a table has a place of its own within the table, and a    *)
(* cell's colour is found again in the cell.                               *)
CellsApart ==
    Is("cell") =>
        LET bits == input.bits
            cell == norm2lut(bits, input.colour)
        IN  /\ place(bits, cell) \in 0 .. LUT_SIZE(bits) - 1
            /\ norm2lut(bits, lut2norm(bits, cell)) = cell
            /\ \A a \in Axes : cell[a] < sizes(bits)[a]
            /\ place(bits, cell) = place(bits, norm2lut(bits, input.other))
                   => cell = norm2lut(bits, input.other)

(* A cell gets the label nearest to it, and none when all are too far.     *)
LabelIsNearest ==
    Is("label") =>
        LET got == NearestLabel(input.colours, input.at, input.most)
            near(i) == Distance(input.at, input.colours[i])
        IN  IF got = 0
            THEN \A i \in DOMAIN input.colours :
                    input.most # 0 /\ near(i) > input.most
            ELSE \A i \in DOMAIN input.colours : near(got) <= near(i)

(* A fill in numeric mode changes exactly the cells connected with the     *)
(* origin by cells of the origin's channel, whatever the shape: the        *)
(* segments kept on the stack miss no leak.                                *)
Neighbours(p) == {<<p[1] + 1, p[2]>>, <<p[1] - 1, p[2]>>,
                  <<p[1], p[2] + 1>>, <<p[1], p[2] - 1>>}

Grown(found, allowed) ==
    LET More(f) == {p \in allowed : \E q \in f : p \in Neighbours(q)}
        grown[f \in SUBSET allowed] ==
            IF More(f) \subseteq f THEN f ELSE grown[f \cup More(f)]
    IN  grown[found]

FillIsConnected ==
    Is("fill") =>
        LET plane == input.plane
            o == input.options
            old == plane[input.origin]
            filled == maskFillYZ(plane, input.origin, o, input.w, input.h)
            area == Grown({input.origin},
                          {p \in DOMAIN plane : plane[p] = old})
        IN  filled = [p \in DOMAIN plane |->
                         IF p \in area THEN IF o.remove THEN {} ELSE o.new
                         ELSE plane[p]]

(* The channels the plugins look up by name are there, apart, and in       *)
(* numeric mode never the one that stands for nothing.                     *)
ChannelsApart ==
    Is("channel") =>
        LET channels == RoboCupChannels("numeric")
            id == getChannelID(channels, input.label)
        IN  /\ id \in 1 .. Len(channels) - 1
            /\ ChannelMask("numeric", id) # 0
            /\ \A other \in ToSet(channels) \ {input.label} :
                  ChannelMask("numeric", getChannelID(channels, other))
                      # ChannelMask("numeric", id)

(* The colour picked at a pixel is one the sampler marks for the picture.  *)
PickIsSampled ==
    Is("pick") =>
        LET loc == input.loc
            i == loc[2] * input.width + loc[1]
            colour == PickedYUV422(input.bytes, input.width, loc)
        IN  /\ colour \in SampledYUV422(input.bytes)
            /\ colour[1] = input.bytes[2 * i + 2]

(* The crosses of two cells never touch, and stay in the texture.          *)
CrossesApart ==
    Is("cross") =>
        LET x == LutCoordinate(input.x, input.n, input.size)
            y == LutCoordinate(input.y, input.n, input.size)
            side == 0 .. input.size * sampler_scale - 1
        IN  /\ SampleCross(x, y) \subseteq side \X side
            /\ x # y => SampleCross(x, y) \cap SampleCross(y, x) = {}

(* What is picked is found: after a pixel's colour is put into the table,  *)
(* the thresholding marks that pixel and exactly those of the same cell,   *)
(* in every format.  A picture of RGB is looked up in a table derived from *)
(* it: there a pixel is as the corner of its cell is in the other table,   *)
(* so that a picked pixel itself need not be found.                        *)
PickIsSegmented ==
    Is("segment") =>
        LET bits == input.bits
            Byte3(i) == [c \in 1 .. 3 |-> input.source.bytes[3 * i + c - 3]]
            Shared(i) == <<input.source.bytes[2 * i],
                           input.source.bytes[4 * ((i + 1) \div 2) - 3],
                           input.source.bytes[4 * ((i + 1) \div 2) - 1]>>
            Colour(i) == IF input.source.format = "YUV422_UYVY"
                         THEN Shared(i) ELSE Byte3(i)
            Rounded(i) == [c \in 1 .. 3 |-> (Colour(i)[c] \div 64) * 64]
            Yuv(c) == IF input.source.format = "RGB8"
                      THEN rgb2yuv(c[1], c[2], c[3]) ELSE c
            Cell(c) == [a \in Axes |-> Yuv(c)[a] \div 2 ^ (8 - bits[a])]
            lut == [space |-> "YUV", bits |-> bits,
                    table |-> setMask(bits, resetTable(bits),
                                      Yuv(Colour(input.picked)), 3)]
            four == <<2, 2, 2>>
            Derived(space) ==
                [space |-> "RGB", bits |-> four,
                 table |-> deriveFromLUT(four, resetTable(four),
                                         [lut EXCEPT !.space = space])]
            target == [i \in 1 .. input.pixels |-> 9]
            masks == segmentation(target, input.source, lut,
                                  <<[space |-> "YUV"], Derived("YUV")>>)
            At(i) == IF input.source.format = "RGB8" THEN Rounded(i)
                                                     ELSE Colour(i)
        IN  /\ IF input.pixels # input.source.pixels THEN masks = target
               ELSE \A i \in 1 .. input.pixels :
                       masks[i] = IF Cell(At(i)) = Cell(Colour(input.picked))
                                  THEN 3 ELSE 0
            /\ input.pixels = input.source.pixels =>
                  \A i \in 1 .. input.pixels :
                     colorize(masks, DrawColours("numeric"))[i] =
                        IF masks[i] = 3 THEN "Yellow" ELSE "Black"
            /\ input.source.format = "RGB8" =>
                  /\ segmentation(target, input.source, lut, <<>>) = target
                  /\ Derived("RGB").table = resetTable(four)

(* What the colour table promises to the editor and to the thresholding.   *)
LookupIsSound ==
    /\ CellsApart /\ LabelIsNearest /\ FillIsConnected
    /\ ChannelsApart /\ PickIsSampled /\ CrossesApart /\ PickIsSegmented
=============================================================================
