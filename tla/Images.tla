------------------------------- MODULE Images -------------------------------
(***************************************************************************)
(* The images of dep/ssl-vision/src: the pixel formats, their names in the *)
(* settings and the bytes they take (shared/util/colors.h, rawimage.cpp,   *)
(* shared/capture), what each capture method converts and the first plugin *)
(* of a stack can use; drawing into images (shared/util/image.h); the      *)
(* conversions of pixels (conversions.h, conversions.cpp), the pixels of   *)
(* image files (image_io.cpp) and the test image of the generator          *)
(* (shared/capture/capture_generator.cpp).                                 *)
(***************************************************************************)
EXTENDS Integers, Sequences, FiniteSets, SequencesExt, Functions, CheckedInput

(* The names; a choice of the user is kept as such a name.                 *)
FormatNames ==
    [RGB8 |-> "rgb", RGBA8 |-> "rgba", YUV411 |-> "yuv411",
     YUV422_UYVY |-> "yuv422_uyvy", YUV422_YUYV |-> "yuv422_yuyv",
     YUV444 |-> "yuv444", MONO16 |-> "mono16", MONO8 |-> "mono8",
     RGB16 |-> "rgb16", RAW8 |-> "raw8", RAW16 |-> "raw16",
     RAW32 |-> "raw32", UNDEFINED |-> "undefined"]

FilterNames ==
    [RGGB |-> "rggb", GBRG |-> "gbrg", GRBG |-> "grbg", BGGR |-> "bggr"]

BayerNames ==
    [NEAREST |-> "nearest", SIMPLE |-> "simple", BILINEAR |-> "bilinear",
     HQLINEAR |-> "hqlinear", DOWNSAMPLE |-> "downsample",
     EDGESENSE |-> "edgesense", VNG |-> "vng", AHD |-> "ahd"]

ModeNames ==
    [AUTO |-> "auto", NATIVE |-> "native", F0 |-> "format7_0",
     F1 |-> "format7_1", F2 |-> "format7_2", F3 |-> "format7_3",
     F4 |-> "format7_4", F5 |-> "format7_5", F6 |-> "format7_6",
     F7 |-> "format7_7"]

CaptureModeToString == ModeNames

(* A name read back: the value of that name, or the one of last resort.    *)
Named(names, s, otherwise) ==
    IF s \in Range(names) THEN CHOOSE f \in DOMAIN names : names[f] = s
                          ELSE otherwise

stringToColorFormat(s) == Named(FormatNames, s, "UNDEFINED")
stringToColorFilter(s) == Named(FilterNames, s, "RGGB")
stringToBayerMethod(s) == Named(BayerNames, s, "NEAREST")
stringToCaptureMode(s) == Named(CaptureModeToString, s, "AUTO")

(* The items of the settings, in the order they are added.                 *)
ColorModes == {"RGB8", "RGB16", "RAW8", "RAW16", "MONO8", "MONO16",
               "YUV411", "YUV422_UYVY", "YUV444"}
ColorOut == {"RGB8", "YUV422_UYVY"}
----------------------------------------------------------------------------
(* Bytes of an image of that many pixels; nothing is known of the raw      *)
(* formats, of RGB16 and of YUYV.                                          *)
computeImageSize(format, pixels) ==
    CASE format \in {"RGB8", "YUV444"} -> pixels * 3
      [] format = "RGBA8" -> pixels * 4
      [] format \in {"YUV422_UYVY", "MONO16"} -> pixels * 2
      [] format = "YUV411" -> (pixels * 3) \div 2
      [] format = "MONO8" -> pixels
      [] OTHER -> 0

(* ensure_allocation(): an image of the right format and size is kept.     *)
NoImage == [data |-> FALSE, format |-> "UNDEFINED", width |-> 0,
            height |-> 0, bytes |-> 0]

allocate(format, w, h) ==
    [data |-> w # 0 \/ h # 0, format |-> format, width |-> w, height |-> h,
     bytes |-> computeImageSize(format, w * h)]

(* A mistake: the same number of pixels is good enough.                    *)
ensure_pixels(image, format, w, h) ==
    IF image.data /\ image.width * image.height = w * h
    THEN [image EXCEPT !.format = format, !.width = w, !.height = h]
    ELSE allocate(format, w, h)

ensure_allocation(image, format, w, h) ==
    IF /\ image.data
       /\ <<image.format, image.width, image.height>> = <<format, w, h>>
    THEN image
    ELSE allocate(format, w, h)
----------------------------------------------------------------------------
(* The conversions: those that write something, and the bytes written.     *)

(* A mistake: 16-bit images count as 8-bit ones.                           *)
DC1394WithoutDepth(from, to, debayer) ==
    \/ from = to
    \/ to = "RGB8" /\ from \in {"MONO8", "RAW8", "MONO16", "RAW16", "YUV411",
                                "YUV422_UYVY", "YUV422_YUYV", "YUV444"}

DC1394Converts(from, to, debayer) ==
    \/ from = to
    \/ to = "RGB8" /\ from \in {"MONO8", "RAW8", "YUV411", "YUV422_UYVY",
                                "YUV422_YUYV", "YUV444"}
    \/ from \in {"MONO16", "RAW16"}
       /\ to = IF debayer THEN "RGB16" ELSE "RGB8"

FilesConvert(from, to) ==
    \/ from = to
    \/ {from, to} = {"RGB8", "YUV422_UYVY"}

GeneratorConverts(from, to) ==
    \/ from = to
    \/ from = "RGB8" /\ to = "YUV422_UYVY"

Converts(method, from, to, debayer) ==
    CASE method = "dc1394" -> DC1394Converts(from, to, debayer)
      [] method = "files" -> FilesConvert(from, to)
      [] method = "generator" -> GeneratorConverts(from, to)

(* The formats a method takes from its camera.                             *)
Captured(method) == IF method = "dc1394" THEN ColorModes ELSE {"RGB8"}

(* A copy moves as many bytes as the source counts; libdc1394 writes whole *)
(* pixels of the target's format.                                          *)
BytesWritten(from, to, w, h) ==
    IF from = to THEN computeImageSize(from, w * h)
    ELSE w * h * (CASE to = "RGB8" -> 3 [] to = "YUV422_UYVY" -> 2)

(* copyAndConvertFrame(): the image a bin holds after it; the time and the *)
(* allocation change even if nothing is converted.                         *)
convertFrame(method, from, target, to, debayer, w, h) ==
    [image |-> IF target.data THEN ensure_allocation(target, to, w, h)
                              ELSE allocate(to, w, h),
     ok |-> Converts(method, from, to, debayer)]

(* The formats the threshold has a table for.                              *)
CanThreshold(format) == format \in {"YUV422_UYVY", "YUV444", "RGB8"}
----------------------------------------------------------------------------
(* Every item of the settings is read back as the value it was added for:  *)
(* none is taken for another one, and none for the value of last resort.   *)
NamesRoundTrip ==
    Is("names") =>
        /\ \A f \in ColorModes \cup ColorOut :
              stringToColorFormat(FormatNames[f]) = f
        /\ \A f \in DOMAIN FilterNames :
              stringToColorFilter(FilterNames[f]) = f
        /\ \A f \in DOMAIN BayerNames :
              stringToBayerMethod(BayerNames[f]) = f
        /\ \A f \in DOMAIN ModeNames :
              stringToCaptureMode(CaptureModeToString[f]) = f

(* Whatever a bin of the ring buffer held, after a conversion its image    *)
(* has room for exactly the bytes the conversion wrote.                    *)
TargetHoldsFrame ==
    Is("convert") =>
        LET result == convertFrame(input.method, input.from, input.target,
                                   input.to, input.debayer, input.w, input.h)
        IN  result.ok => result.image.bytes =
                            BytesWritten(input.from, input.to,
                                         input.w, input.h)

(* Each mode a camera can be set to but RGB16 has a choice of output with  *)
(* which its frames reach the threshold; and whatever is converted, the    *)
(* threshold can use.  (De-bayering of 16 bits needs an output, RGB16,     *)
(* that nobody can choose.)                                                *)
FramesReachThreshold ==
    Is("mode") =>
        LET Ways == {way \in ColorOut \X BOOLEAN :
                        Converts(input.method, input.from, way[1], way[2])}
        IN  /\ (Ways # {}) <=> (input.from # "RGB16")
            /\ \A way \in Ways :
                  /\ CanThreshold(way[1])
                  /\ way[2] => input.from \notin {"MONO16", "RAW16"}
----------------------------------------------------------------------------
(* Drawing. An image is a record of its width, height and pixels, a        *)
(* function on 0 .. width*height - 1 as in memory.                         *)

Abs(n) == IF n < 0 THEN -n ELSE n
Sign(n) == IF n > 0 THEN 1 ELSE IF n < 0 THEN -1 ELSE 0

bound(n, low, high) == IF n < low THEN low ELSE IF n > high THEN high ELSE n

Blank(w, h, pixel) ==
    [width |-> w, height |-> h, pixels |-> [i \in 0 .. w * h - 1 |-> pixel]]
----------------------------------------------------------------------------
(* drawLine(): one step of the loop at a time; the axis of the longer side *)
(* moves in every step, the other one when its sum is not negative.        *)
LineStart(x0, y0, ax, ay) ==
    [at |-> <<x0, y0>>, dec |-> IF ay <= ax THEN ay - ax ELSE ax - ay]

LineStep(point, ax, ay, sx, sy) ==
    LET turn == point.dec >= 0
        long == IF ay <= ax THEN <<sx, 0>> ELSE <<0, sy>>
        short == IF ay <= ax THEN <<0, sy>> ELSE <<sx, 0>>
    IN  [at |-> [i \in 1 .. 2 |-> point.at[i] + long[i]
                                  + IF turn THEN short[i] ELSE 0],
         dec |-> IF ay <= ax
                 THEN point.dec + ay - (IF turn THEN ax ELSE 0)
                 ELSE point.dec + ax - (IF turn THEN ay ELSE 0)]

Line(x0, y0, x1, y1) ==
    LET dx == x1 - x0    dy == y1 - y0
        ax == 2 * Abs(dx)    ay == 2 * Abs(dy)
        steps == IF ay <= ax THEN Abs(dx) ELSE Abs(dy)
        point[i \in 0 .. steps] ==
            IF i = 0 THEN LineStart(x0, y0, ax, ay)
            ELSE LineStep(point[i - 1], ax, ay, Sign(dx), Sign(dy))
    IN  [i \in 1 .. steps + 1 |-> point[i - 1].at]

FatLine(x0, y0, x1, y1) ==
    {<<p[1] + dx, p[2] + dy>> : p \in ToSet(Line(x0, y0, x1, y1)),
                                dx \in -1 .. 1, dy \in -1 .. 1}

BoxSides(x, y, w, h) ==
    <<<<x, y, x + w, y>>, <<x + w, y, x + w, y + h>>,
      <<x + w, y + h, x, y + h>>, <<x, y + h, x, y>>>>

Box(x, y, w, h) ==
    UNION {ToSet(Line(s[1], s[2], s[3], s[4])) : s \in ToSet(BoxSides(x, y, w, h))}

(* drawChar(): a set bit of a row of the glyph, from the highest, is one   *)
(* pixel.  drawString(): a character every 8 columns.                      *)
(* A mistake: the first row's mask is shifted once too often.              *)
CharPixelsShifted(x, y, glyph) ==
    {<<x + bit[1], y + bit[2]>> : bit \in
        {c \in (0 .. 7) \X (0 .. 7) : (glyph[c[2]] \div 2 ^ (8 - c[1])) % 2 = 1}}

CharPixels(x, y, glyph) ==
    {<<x + bit[1], y + bit[2]>> : bit \in
        {c \in (0 .. 7) \X (0 .. 7) : (glyph[c[2]] \div 2 ^ (7 - c[1])) % 2 = 1}}

StringPixels(x, y, glyphs) ==
    UNION {CharPixels(x + 8 * (i - 1), y, glyphs[i]) : i \in DOMAIN glyphs}

(* setPixel(): what is outside is not drawn; the first form is a mistake.  *)
SetPixelsUnclipped(image, points, pixel) ==
    [image EXCEPT !.pixels =
        [i \in DOMAIN @ |-> IF \E p \in points : i = image.width * p[2] + p[1]
                            THEN pixel ELSE @[i]]]

SetPixels(image, points, pixel) ==
    LET Inside == {p \in points : /\ p[1] \in 0 .. image.width - 1
                                  /\ p[2] \in 0 .. image.height - 1}
    IN  [image EXCEPT !.pixels =
            [i \in DOMAIN @ |->
                IF \E p \in Inside : i = image.width * p[2] + p[1]
                THEN pixel ELSE @[i]]]
----------------------------------------------------------------------------
(* copyFromRectArea().                                                     *)
RectArea(source, x, y, w, h) ==
    LET x0 == IF x < 0 THEN 0 ELSE x
        y0 == IF y < 0 THEN 0 ELSE y
        w0 == IF w < 0 THEN 0 ELSE w
        h0 == IF h < 0 THEN 0 ELSE h
        w1 == IF x0 + w0 >= source.width THEN source.width - x0 ELSE w0
        h1 == IF y0 + h0 >= source.height THEN source.height - y0 ELSE h0
    IN  IF w1 <= 0 \/ h1 <= 0 THEN <<x0, y0, 0, 0>> ELSE <<x0, y0, w1, h1>>

(* Row after row: where each pixel of the target comes from.               *)
RectSources(source, x, y, w, h) ==
    LET r == RectArea(source, x, y, w, h)
    IN  [i \in 0 .. r[3] * r[4] - 1 |->
            (source.width * r[2] + r[1]) + source.width * (i \div r[3])
            + (i % r[3])]

(* The operations on pixels.                                               *)
Subtract(p, q) == [c \in DOMAIN p |-> IF q[c] > p[c] THEN 0 ELSE p[c] - q[c]]
AddPixels(p, q) == [c \in DOMAIN p |-> IF p[c] + q[c] > 255 THEN 255
                                                       ELSE p[c] + q[c]]
getIntensity(p) == (p[1] + p[2] + p[3]) \div 3

(* Every pixel of the target with that of the source; images of different  *)
(* numbers of pixels are left alone.                                       *)
PixelByPixel(op(_, _), target, source) ==
    IF Len(target) = Len(source)
    THEN [i \in DOMAIN target |-> op(target[i], source[i])] ELSE target

(* Every pixel less that of the background.                                *)
subtract(target, source) == PixelByPixel(Subtract, target, source)

(* Images: grey from the colours, colours made opaque, and the alpha       *)
(* channel and the colours set on their own.                               *)
convertToGrey(rgb, grey) ==
    PixelByPixel(LAMBDA t, s : getIntensity(s), grey, rgb)
convertToRGBA(rgb, rgba) ==
    PixelByPixel(LAMBDA t, s : Append(s, 255), rgba, rgb)
RGBAsetAlpha(grey, rgba) ==
    PixelByPixel(LAMBDA t, s : Append(SubSeq(t, 1, 3), s), rgba, grey)
RGBAsetRGB(rgb, rgba) ==
    PixelByPixel(LAMBDA t, s : Append(s, t[4]), rgba, rgb)

(* In place: one colour everywhere, grey, and black or white by what is    *)
(* above a threshold.                                                      *)
fillColor(image, colour) == [i \in DOMAIN image |-> colour]
convertToIntensity(image) ==
    [i \in DOMAIN image |-> [c \in 1 .. 3 |-> getIntensity(image[i])]]
Binary(level, threshold) == IF level > threshold THEN 255 ELSE 0
binarizeGreyImage(image, threshold) ==
    [i \in DOMAIN image |-> [c \in 1 .. 3 |-> Binary(image[i][1], threshold)]]

(* A mistake: all channels are compared with the first threshold.          *)
BinarizedByFirst(image, thresholds) ==
    [i \in DOMAIN image |->
        [c \in 1 .. 3 |-> Binary(image[i][c], thresholds[1])]]
binarizeChanneledImage(image, thresholds) ==
    [i \in DOMAIN image |->
        [c \in 1 .. 3 |-> Binary(image[i][c], thresholds[c])]]
----------------------------------------------------------------------------
Max2(m, n) == IF m < n THEN n ELSE m

(* A line goes from one end to the other in steps to a neighbouring pixel, *)
(* and each pixel of it is less than a pixel away from the true line (the  *)
(* sum starts at ay - ax, so the shorter axis is cut and not rounded).     *)
LinesAreStraight ==
    Is("line") =>
        LET line == Line(0, 0, input.dx, input.dy)
            longer == Max2(Abs(input.dx), Abs(input.dy))
        IN  /\ Head(line) = <<0, 0>> /\ Last(line) = <<input.dx, input.dy>>
            /\ \A i \in 1 .. Len(line) - 1 : \A c \in 1 .. 2 :
                  Abs(line[i + 1][c] - line[i][c]) <= 1
            /\ \A i \in DOMAIN line :
                  Abs(line[i][1] * input.dy - line[i][2] * input.dx)
                     < Max2(longer, 1)

(* What is drawn over the edge of an image is cut there: it neither comes  *)
(* back at the other edge nor changes any other pixel.                     *)
DrawingIsClipped ==
    Is("draw") =>
        LET points == CASE input.shape = "line" ->
                             ToSet(Line(input.x, input.y, input.u, input.v))
                        [] input.shape = "fat line" ->
                             FatLine(input.x, input.y, input.u, input.v)
                        [] input.shape = "box" ->
                             Box(input.x, input.y, input.u, input.v)
            drawn == SetPixels(Blank(4, 3, 0), points, 1)
        IN  \A x \in 0 .. 3, y \in 0 .. 2 :
               drawn.pixels[4 * y + x] = 1 <=> <<x, y>> \in points

(* A box drawn by its four sides has all of its frame and nothing else.    *)
BoxIsAFrame ==
    Is("draw") /\ input.shape = "box" =>
        Box(input.x, input.y, input.u, input.v) =
            LET At(n, d) == IF d < 0 THEN n + d .. n ELSE n .. n + d
            IN  {p \in At(input.x, input.u) \X At(input.y, input.v) :
                    \/ p[1] \in {input.x, input.x + input.u}
                    \/ p[2] \in {input.y, input.y + input.v}}

(* Text can be read from its pixels: no glyph reaches into the next one.   *)
GlyphsStandApart ==
    Is("text") =>
        LET pixels == StringPixels(3, 1, input.glyphs)
        IN  \A i \in DOMAIN input.glyphs : \A ix, iy \in 0 .. 7 :
               <<3 + 8 * (i - 1) + ix, 1 + iy>> \in pixels
                  <=> (input.glyphs[i][iy] \div 2 ^ (7 - ix)) % 2 = 1

(* A copied area is the part of the wanted one that lies in the source,    *)
(* counted from its first pixel in the source, and nothing outside of the  *)
(* source is read.                                                         *)
RectIsCopied ==
    Is("rect") =>
        LET source == Blank(4, 3, 0)
            r == RectArea(source, input.x, input.y, input.w, input.h)
            sources == RectSources(source, input.x, input.y, input.w, input.h)
            Cut(at, size, limit) ==
                {n \in Max2(at, 0) .. Max2(at, 0) + size - 1 : n < limit}
            Columns == Cut(input.x, input.w, 4)
            Rows == Cut(input.y, input.h, 3)
        IN  /\ {sources[i] : i \in DOMAIN sources} =
                  {4 * p[2] + p[1] : p \in Columns \X Rows}
            /\ r[3] * r[4] = Cardinality(Columns \X Rows)
            /\ \A i, j \in DOMAIN sources : i < j => sources[i] < sources[j]

(* Taking a background away and adding it again gives, in each channel,    *)
(* the brighter of the two, whatever is too dark or too bright for a byte. *)
BackgroundComesBack ==
    Is("pixels") =>
        LET a == <<<<input.p, input.q, 7>>>>
            b == <<<<input.q, input.p, input.p>>>>
            less == subtract(a, b)
        IN  PixelByPixel(AddPixels, less, b) =
               <<[c \in 1 .. 3 |-> Max2(a[1][c], b[1][c])]>>

(* Colours and alpha can be set in any order, each leaves the other alone, *)
(* and an image of another size changes nothing.                           *)
AlphaAndColoursApart ==
    Is("alpha") =>
        LET rgb == [i \in 1 .. input.n |-> <<i, 2 * i, 60 * i>>]
            grey == convertToGrey(rgb, [i \in 1 .. input.n |-> 0])
            rgba == [i \in 1 .. input.m |-> <<7, 8, 9, 10 + i>>]
        IN  /\ RGBAsetAlpha(grey, RGBAsetRGB(rgb, rgba))
                  = RGBAsetRGB(rgb, RGBAsetAlpha(grey, rgba))
            /\ input.m # input.n => RGBAsetRGB(rgb, rgba) = rgba
            /\ input.m = input.n => \A i \in 1 .. input.m :
                  /\ RGBAsetRGB(rgb, rgba)[i] = Append(rgb[i], 10 + i)
                  /\ RGBAsetAlpha(grey, rgba)[i] = <<7, 8, 9, 21 * i>>

(* Made grey, a picture is black and white by its intensity, the same way  *)
(* whether its channels are compared together or each on its own; once     *)
(* black and white it stays so; and each channel keeps to its threshold.   *)
ThresholdsAgree ==
    Is("binarize") =>
        LET image == <<input.p, input.q>>
            grey == convertToIntensity(image)
            black == binarizeGreyImage(grey, input.most)
            Each(t) == [c \in 1 .. 3 |-> t]
            mixed == <<input.most, 0, 254>>
            channels == binarizeChanneledImage(image, mixed)
        IN  /\ convertToIntensity(grey) = grey
            /\ black = binarizeChanneledImage(grey, Each(input.most))
            /\ input.most < 255 => binarizeGreyImage(black, input.most) = black
            /\ \A i \in 1 .. 2 :
                  /\ black[i] = Each(255)
                        <=> image[i][1] + image[i][2] + image[i][3]
                               >= 3 * (input.most + 1)
                  /\ \A c \in 1 .. 3 :
                        (channels[i][c] = 255) = (image[i][c] > mixed[c])
            /\ convertToGrey(image, <<0, 0>>) = <<grey[1][1], grey[2][1]>>
            /\ convertToIntensity(fillColor(image, grey[1]))
                  = fillColor(grey, grey[1])
----------------------------------------------------------------------------
(* Conversions. What one does is said by where it reads the bytes of each  *)
(* pixel it writes.                                                        *)

Byte == 0 .. 255
InByte(n) == IF n < 0 THEN 0 ELSE IF n > 255 THEN 255 ELSE n   \* bound()

(* One pixel; u and v count from the middle in yuv2rgb().                  *)
yuv2rgb(y, u, v) ==
    <<InByte(y + (v * 1436) \div 1024),
      InByte(y - (u * 352 + v * 731) \div 1024),
      InByte(y + (u * 1814) \div 1024)>>

(* A mistake: two coefficients are swapped.                                *)
rgb2yuvSwapped(r, g, b) ==
    <<InByte((306 * r + 601 * g + 117 * b) \div 1024),
      InByte((-172 * r - 340 * g + 512 * b) \div 1024 + 128),
      InByte((512 * r - 83 * g - 429 * b) \div 1024 + 128)>>

rgb2yuv(r, g, b) ==
    <<InByte((306 * r + 601 * g + 117 * b) \div 1024),
      InByte((-172 * r - 340 * g + 512 * b) \div 1024 + 128),
      InByte((512 * r - 429 * g - 83 * b) \div 1024 + 128)>>

(* Images::convert() of whole pictures, of the same number of pixels.      *)
convertToRGB(yuv, rgb) ==
    PixelByPixel(LAMBDA t, s : yuv2rgb(s[1], s[2] - 128, s[3] - 128), rgb, yuv)
convertToYUV(rgb, yuv) ==
    PixelByPixel(LAMBDA t, s : rgb2yuv(s[1], s[2], s[3]), yuv, rgb)
----------------------------------------------------------------------------
(* The loops over the bytes of two images.  A turn of a loop takes "size"  *)
(* bytes and makes a pixel of each in "y"; y, u and v are places in them.  *)
Layouts ==
    [uyv2rgb    |-> [size |-> 3, y |-> <<1>>, u |-> 0, v |-> 2],
     uyvy2rgb   |-> [size |-> 4, y |-> <<1, 3>>, u |-> 0, v |-> 2],
     uyvy2bgr   |-> [size |-> 4, y |-> <<1, 3>>, u |-> 0, v |-> 2],
     uyyvyy2rgb |-> [size |-> 6, y |-> <<1, 2, 4, 5>>, u |-> 0, v |-> 3],
     y2rgb      |-> [size |-> 1, y |-> <<0>>, u |-> 0, v |-> 0],
     y162rgb    |-> [size |-> 2, y |-> <<1>>, u |-> 0, v |-> 0]]

(* Taken as a number of pixels, shifted and added up as in the code.       *)
SourceBytes(layout, n) == (n * layout.size) \div Len(layout.y)

(* All but uyvy2rgb() go backwards, while (i > 0); the first form is a     *)
(* mistake: the loop stops a turn early.                                   *)
TurnsBackEarly(layout, n) ==
    Cardinality({k \in 0 .. n : SourceBytes(layout, n) - 1 - k * layout.size
                                   > layout.size})

TurnsBack(layout, n) ==
    Cardinality({k \in 0 .. n : SourceBytes(layout, n) - 1 - k * layout.size
                                   > 0})

TurnsForward(layout, n) ==
    Cardinality({k \in 0 .. n : k * layout.size
                                   < SourceBytes(layout, n) - 1})

(* Each pixel written, with the bytes it is made of.                       *)
Converted(name, n) ==
    LET layout == Layouts[name]
        per == Len(layout.y)
        forward == name = "uyvy2rgb"
        turns == IF forward THEN TurnsForward(layout, n)
                            ELSE TurnsBack(layout, n)
        Source(k) == IF forward THEN k * layout.size
                     ELSE SourceBytes(layout, n) - (k + 1) * layout.size
        Target(k) == IF forward THEN k * per ELSE n - (k + 1) * per
    IN  {[pixel |-> Target(k) + q - 1, y |-> Source(k) + layout.y[q],
          u |-> Source(k) + layout.u, v |-> Source(k) + layout.v] :
            k \in 0 .. turns - 1, q \in 1 .. per}

(* y162rgb(): two bytes, the higher one first, and the lowest byte of what *)
(* is left of them.                                                        *)
Grey16(high, low, bits) == ((low + high * 256) \div 2 ^ (bits - 8)) % 256

(* bgr2rgb() and rgb2bgr(), and rgb482rgb(), which keeps the high bytes:   *)
(* where the bytes of the target come from.                                *)
Reversed(n) == [i \in 0 .. 3 * n - 1 |-> 3 * (i \div 3) + 2 - (i % 3)]
HighBytes(n) == [i \in 0 .. 3 * n - 1 |-> 2 * i]
----------------------------------------------------------------------------
(* The copying loops of ImageIO: the channels in the order of the bytes,   *)
(* and the steps from one pixel to the next.                               *)
FileLayouts ==
    [ARGBtoRGB  |-> [order |-> <<"a", "r", "g", "b">>, step |-> 4],
     ARGBtoRGBA |-> [order |-> <<"a", "r", "g", "b">>, step |-> 4],
     BGRAtoRGBA |-> [order |-> <<"b", "g", "r", "a">>, step |-> 4],
     BGRAtoRGB  |-> [order |-> <<"b", "g", "r", "a">>, step |-> 4],
     BGRtoRGB   |-> [order |-> <<"b", "g", "r">>, step |-> 3],
     BGRtoRGBA  |-> [order |-> <<"b", "g", "r">>, step |-> 3],
     RGBtoRGBA  |-> [order |-> <<"r", "g", "b">>, step |-> 3]]

(* A mistake: the last step over the fourth byte is missing.               *)
FileLayoutsShort == [FileLayouts EXCEPT !.BGRAtoRGB.step = 3]
CopyLayouts == FileLayouts

(* Pixel number i of a copy: a channel is a byte of the source, or opaque. *)
Opaque == -1
CopiedPixel(name, i) ==
    LET layout == CopyLayouts[name]
    IN  [c \in ToSet(layout.order) \cup {"a"} |->
            IF c \in ToSet(layout.order)
            THEN i * layout.step
                 + (CHOOSE p \in DOMAIN layout.order : layout.order[p] = c) - 1
            ELSE Opaque]

(* readRGB(), readRGBA(): the sizes are set as soon as the file is read;   *)
(* pixels come only from a picture of 32 bits.  Image.load() keeps the     *)
(* sizes only with pixels.                                                 *)
ReadImage(file) ==
    IF ~file.readable THEN [pixels |-> <<>>, width |-> 0, height |-> 0]
    ELSE [pixels |-> IF /\ file.width > 0 /\ file.height > 0
                        /\ file.format \in {"RGB32", "ARGB32"}
                     THEN file.pixels ELSE <<>>,
          width |-> file.width, height |-> file.height]

(* A mistake: the sizes are kept with an image that was not loaded.        *)
LoadKeepsSizes(file) == ReadImage(file)

LoadImage(file) ==
    LET read == ReadImage(file)
    IN  IF read.pixels # <<>> THEN read
        ELSE [pixels |-> <<>>, width |-> 0, height |-> 0]

(* writeRGB(): the file holds 32 bits for each pixel.  Image.save() writes *)
(* no other images than those of RGB8.                                     *)
WriteImage(image) ==
    [readable |-> image.width > 0 /\ image.height > 0, format |-> "RGB32",
     pixels |-> image.pixels, width |-> image.width, height |-> image.height]

SaveImage(format, image, file) ==
    IF format = "RGB8" THEN WriteImage(image) ELSE file
----------------------------------------------------------------------------
(* The test image: columns of eight colours, darker towards the bottom;    *)
(* what is left over at the right keeps the last colour.                   *)
Slice(x, w) == IF x \div (w \div 8) > 7 THEN 7 ELSE x \div (w \div 8)
Shade(channel, y, h) == InByte((channel * (h - 1 - y)) \div h)
----------------------------------------------------------------------------
(* A colour that goes to YUV and back becomes a little darker in red and   *)
(* blue and stays within two in green, and a grey of YUV is that grey; a   *)
(* picture of another size stays as it was.                                *)
Drift == <<-3 .. 0, -1 .. 2, -4 .. 0>>
ColoursSurvive ==
    Is("colour") =>
        LET rgb == <<input.r, input.g, input.b>>
            other == <<<<1, 2, 3>>>>
            back == convertToRGB(convertToYUV(<<rgb>>, other), other)
        IN  /\ \A c \in 1 .. 3 : back[1][c] - rgb[c] \in Drift[c]
            /\ convertToYUV(<<rgb, rgb>>, other) = other
            /\ convertToRGB(<<>>, other) = other
            /\ yuv2rgb(input.r, 0, 0) = [c \in 1 .. 3 |-> input.r]

(* A conversion of a whole number of groups makes each pixel once, of its  *)
(* own group and of no byte outside of the source.  Only y2rgb() leaves    *)
(* the first pixel as it was: its loop ends before byte 0.                 *)
EachPixelOnce ==
    Is("loop") =>
        LET layout == Layouts[input.name]
            per == Len(layout.y)
            n == input.groups * per
            pixels == Converted(input.name, n)
        IN  pixels =
               {[pixel |-> p,
                 y |-> (p \div per) * layout.size + layout.y[(p % per) + 1],
                 u |-> (p \div per) * layout.size + layout.u,
                 v |-> (p \div per) * layout.size + layout.v] :
                   p \in (IF input.name = "y2rgb" THEN 1 ELSE 0) .. n - 1}

(* Red and blue change places in every pixel, twice is as it was; of 16    *)
(* bits the first of each two bytes is kept, the one that y162rgb() keeps  *)
(* of a 16-bit grey.                                                       *)
ByteOrders ==
    Is("order") =>
        /\ \A i \in 0 .. 3 * input.n - 1 :
              /\ Reversed(input.n)[i] \div 3 = i \div 3
              /\ Reversed(input.n)[i] = i <=> i % 3 = 1
              /\ Reversed(input.n)[Reversed(input.n)[i]] = i
              /\ HighBytes(input.n)[i] \in {2 * i} \cap (0 .. 6 * input.n - 1)
        /\ Grey16(input.high, input.low, 16) = input.high
        /\ input.high < 4 =>
              Grey16(input.high, input.low, 10) =
                 input.high * 64 + input.low \div 4

(* A copy of the bytes of a file takes each byte of the file for one       *)
(* channel of one pixel.                                                   *)
FileBytesInPlace ==
    Is("file bytes") =>
        LET order == CopyLayouts[input.name].order
            At(c, i) == CopiedPixel(input.name, i)[c]
        IN  \A b \in 0 .. Len(order) * input.n - 1 :
               At(order[(b % Len(order)) + 1], b \div Len(order)) = b

(* What was written to a file is loaded again; whatever else a file holds, *)
(* an image that cannot be loaded is empty.                                *)
FilesRoundTrip ==
    Is("file") =>
        LET image == LoadImage(input.file)
        IN  /\ image.pixels = <<>> => image.width = 0 /\ image.height = 0
            /\ image.pixels # <<>> =>
                  LoadImage(SaveImage("RGB8", image, input.file)) = image
            /\ LoadImage(SaveImage("RGBA8", image, input.file)) = image

(* All eight colours of the test image can be seen, from left to right.    *)
TestImageHasAllColours ==
    Is("test image") =>
        /\ {Slice(x, input.w) : x \in 0 .. input.w - 1} = 0 .. 7
        /\ \A x \in 0 .. input.w - 2 :
              Slice(x + 1, input.w) - Slice(x, input.w) \in {0, 1}
        /\ \A y \in 0 .. input.h - 2 :
              Shade(255, y, input.h) >= Shade(255, y + 1, input.h)
        /\ Shade(255, input.h - 1, input.h) = 0

(* What the path of a picture relies on: a captured frame has a name, room *)
(* and a way to the first plugin; drawing stays within the picture and     *)
(* where it belongs; conversions keep colours and bytes in their places.   *)
FormatsAreSound == NamesRoundTrip /\ TargetHoldsFrame /\ FramesReachThreshold
DrawnWhereItBelongs ==
    /\ LinesAreStraight /\ DrawingIsClipped /\ BoxIsAFrame
    /\ GlyphsStandApart /\ RectIsCopied /\ BackgroundComesBack
    /\ AlphaAndColoursApart /\ ThresholdsAgree
ConversionsAreSound ==
    /\ ColoursSurvive /\ EachPixelOnce /\ ByteOrders /\ FileBytesInPlace
    /\ FilesRoundTrip /\ TestImageHasAllColours
ImagesAreSound ==
    FormatsAreSound /\ DrawnWhereItBelongs /\ ConversionsAreSound
=============================================================================
