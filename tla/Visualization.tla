---------------------------- MODULE Visualization ----------------------------
(***************************************************************************)
(* PluginVisualize::process() (dep/ssl-vision/src/app/plugins/             *)
(* plugin_visualize.cpp): the picture of a frame, kept in the frame's bin  *)
(* of the ring buffer and used again when the bin is, and the edge image,  *)
(* which the plugin makes once, in the size of the first frame it is       *)
(* asked for.  The lines drawn are in FieldConfig, drawing them in Images. *)
(*                                                                         *)
(* A picture is a sequence of pixels, a pixel what was last written to it: *)
(* "old" is what an earlier frame left.  The user may change each option   *)
(* while a frame is processed: every set of options can be what it reads.  *)
(***************************************************************************)
EXTENDS Integers, Sequences

CONSTANTS VisBins, PictureSizes,  (* in pixels; 0 is no picture *)
          ShownFrames             (* how many frames there are *)

ASSUME VisAssumption ==
    VisBins # {} /\ PictureSizes \subseteq Nat /\ ShownFrames \in Nat

VARIABLES video,      (* bin -> [frame, size, format] *)
          visFrames,  (* bin -> [valid, of, pixels], the "vis_frame" *)
          edgeImage,  (* [size, of]: whose edges it holds *)
          pastEnd     (* a write past the end of a picture *)

visVars == <<video, visFrames, edgeImage, pastEnd>>

Formats == {"rgb8", "yuv422_uyvy", "rgb16"}
Options == {"enable", "image", "thresholded", "complete edge detection"}
NoEdgeImage == [size |-> 0, of |-> 0]

VisInit ==
    /\ video = [b \in VisBins |-> [frame |-> 0, size |-> 0, format |-> "rgb8"]]
    /\ visFrames = [b \in VisBins |-> [valid |-> FALSE, of |-> 0,
                                       pixels |-> <<>>]]
    /\ edgeImage = NoEdgeImage /\ pastEnd = FALSE
----------------------------------------------------------------------------
Filled(size, what) == [i \in 1..size |-> what]

(* A mistake: a format that cannot be shown leaves the picture as it was.  *)
BlankForgotten(v, options) ==
    IF "image" \in options
    THEN Filled(v.size, IF v.format = "rgb16" THEN "old" ELSE "image")
    ELSE Filled(v.size, "black")
Base(v, options) ==
    Filled(v.size, IF "image" \in options /\ v.format # "rgb16"
                   THEN "image" ELSE "black")

(* The colours of the channels, where there is one, over the picture; only *)
(* when the thresholded image has its size.                                *)
Thresholded(pixels, options, segmented) ==
    IF "thresholded" \in options /\ Len(segmented) = Len(pixels)
    THEN [i \in DOMAIN pixels |->
             IF segmented[i] # 0 THEN "channel" ELSE pixels[i]]
    ELSE pixels

(* The edge image of another size keeps the edges it has, since the        *)
(* picture cannot be converted; its pixels are written all the same.       *)
Edges(v) ==
    IF edgeImage = NoEdgeImage THEN [size |-> v.size, of |-> v.frame]
    ELSE IF edgeImage.size = v.size THEN [edgeImage EXCEPT !.of = v.frame]
    ELSE edgeImage
WithEdges(pixels, size) ==
    [i \in DOMAIN pixels |-> IF i <= size THEN "edge" ELSE pixels[i]]

(* A mistake: the plugin that is disabled leaves the picture alone.        *)
SkipKeepsValid(b, f) == visFrames' = [visFrames EXCEPT ![b].of = @]
Skip(b, f) == visFrames' = [visFrames EXCEPT ![b].valid = FALSE]

Drawn(b, v, options, segmented) ==
    LET pixels == Thresholded(Base(v, options), options, segmented)
        sobel == "complete edge detection" \in options
    IN  /\ edgeImage' = (IF sobel THEN Edges(v) ELSE edgeImage)
        /\ pastEnd' = (pastEnd \/ (sobel /\ edgeImage'.size > v.size))
        /\ visFrames' = [visFrames EXCEPT ![b] =
               [valid |-> TRUE, of |-> v.frame,
                pixels |-> IF sobel THEN WithEdges(pixels, edgeImage'.size)
                                    ELSE pixels]]

Newest == CHOOSE n \in 0 .. ShownFrames :
             /\ \E b \in VisBins : video[b].frame = n
             /\ \A b \in VisBins : video[b].frame <= n

(* A frame is captured into a bin and processed there.                     *)
Process(b, size, format, options, segmented) ==
    /\ Newest < ShownFrames
    /\ LET v == [frame |-> Newest + 1, size |-> size, format |-> format]
       IN  /\ video' = [video EXCEPT ![b] = v]
           /\ IF "enable" \in options /\ size # 0
              THEN Drawn(b, v, options, segmented)
              ELSE Skip(b, v) /\ UNCHANGED <<edgeImage, pastEnd>>

VisNext ==
    \E b \in VisBins, size \in PictureSizes, format \in Formats,
       options \in SUBSET Options, n \in PictureSizes :
        Process(b, size, format, options, [i \in 1..n |-> i % 2])
VisSpec == VisInit /\ [][VisNext]_visVars
----------------------------------------------------------------------------
(* Properties.                                                             *)

(* A picture that is shown is the picture of the frame in its bin: it has  *)
(* its size and no pixel of the frame that was in the bin before.          *)
ShowsItsFrame ==
    \A b \in VisBins : visFrames[b].valid =>
        /\ visFrames[b].of = video[b].frame
        /\ Len(visFrames[b].pixels) = video[b].size
        /\ \A i \in DOMAIN visFrames[b].pixels : visFrames[b].pixels[i] # "old"

(* Edges over the whole picture are those of its frame.  (When the size of *)
(* the video changes they are another frame's, over a part of it or past   *)
(* its end.)                                                               *)
EdgesAreOfFrame ==
    \A b \in VisBins :
        /\ visFrames[b].valid /\ video[b].frame = Newest
        /\ visFrames[b].pixels = Filled(edgeImage.size, "edge")
        => edgeImage.of = visFrames[b].of

(* Both.                                                                   *)
VisualizationIsSound == ShowsItsFrame /\ EdgesAreOfFrame
=============================================================================
