---------------------------- MODULE MCMachines ----------------------------
(***************************************************************************)
(* TLC instance of the parts of the vision program and its graphical       *)
(* client that keep state of their own: a behaviour is one of one part,    *)
(* chosen at the start, while the others stay where they begin.            *)
(***************************************************************************)
EXTENDS CaptureDC1394, ImageMemory, Dvr, LutEditor, XmlNodes, FieldConfig,
        FieldView, Visualization, ZoomedImage

VARIABLE part

Parts == {"camera", "memory", "recorder", "table", "nodes", "field", "view",
          "picture", "window"}

(* Two settings of each register, and four configurations of which one has *)
(* no mode and one no frame rate, and three kinds of feature.              *)
Config(mode, resolution, format, number, fps) ==
    [mode |-> mode, resolution |-> resolution, format |-> format,
     number |-> number, fps |-> fps]
SomeConfigs == {Config("auto", "640x480", "YUV422", 0, 60),
                Config("native", "780x580", "YUV422", 0, 30),
                Config("native", "640x480", "RGB8", 0, 300)}
SomeSupported == {Native(Config("auto", "640x480", "RGB8", 0, 60)),
                  Format7(1), Format7(3)}
Caps(switchable, absolute, modes) ==
    [present |-> TRUE, readable |-> TRUE, switchable |-> switchable,
     absolute |-> absolute, modes |-> modes]
SomeCaps == {Caps(FALSE, TRUE, {"auto", "manual"}),
             Caps(TRUE, FALSE, {"manual", "onepush"}),
             [Caps(FALSE, FALSE, {}) EXCEPT !.present = FALSE]}

SomeJogs == {-2, 0, 1}

SomePoints == {<<0, 0>>, <<1, 0>>}

(* A picture that is larger than the window, one that is far too large and *)
(* one that is far too small for it; pointers in and beside the window.    *)
SomeDrawn == {<<5, 4>>, <<90, 3>>}
SomeWindows == {<<4, 3>>, <<260, 280>>}
SomeMice == {<<0, 0>>, <<3, 1>>, <<12, -2>>}

Sure1 == [id |-> 1, conf |-> 1, at |-> 1]
Sure2 == [id |-> NA, conf |-> 1, at |-> 2]
Unsure == [id |-> 3, conf |-> 0, at |-> 2]
SomeDetections ==
    {[camera |-> 0, blue |-> b, yellow |-> y, balls |-> s] :
        b \in {<<>>, <<Sure1>>, <<Sure2, Sure1>>, <<Unsure, Sure2>>},
        y \in {<<>>, <<Sure1>>}, s \in {<<>>, <<Unsure, Sure2>>}}
    \cup
    {[camera |-> 1, blue |-> b, yellow |-> y, balls |-> <<Sure1>>] :
        b \in {<<>>, <<Sure2>>}, y \in {<<Sure1>>}}
----------------------------------------------------------------------------
machineVars == <<part, cameraVars, memoryVars, dvrVars, lutVars, nodeVars,
                 fieldVars, viewVars, visVars, zoomVars>>

(* A beginning that is a choice is fixed where the part is not the one.    *)
FirstCamera ==
    <<CHOOSE c \in CapsChoices : TRUE, CHOOSE c \in Configs : TRUE,
      CHOOSE r \in Registers : r.power /\ ~r.absControl>>
FirstTree == CHOOSE t \in Trees : ~t.trigger /\ ~t.wasRead /\ t.enabled
                                   /\ ~t.auto /\ ~t.useAbs

MachinesInit ==
    /\ part \in Parts
    /\ CameraInit /\ MemoryInit /\ DvrInit /\ LutInit
    /\ NodesInit /\ FieldInit /\ ViewInit /\ VisInit /\ ZoomInit
    /\ \/ part = "camera"
       \/ <<caps, config, register>> = FirstCamera /\ tree = FirstTree
    /\ part = "recorder" \/ (maxFrames = 0 /\ ~shift)
    /\ \/ part = "window"
       \/ <<window, mouse>> = <<CHOOSE w \in WindowSizes : TRUE,
                                CHOOSE m \in MousePoints : TRUE>>

Frozen(p, v) == IF part = p THEN TRUE ELSE UNCHANGED v

MachinesNext ==
    /\ UNCHANGED part
    /\ Frozen("camera", cameraVars) /\ Frozen("memory", memoryVars)
    /\ Frozen("recorder", dvrVars) /\ Frozen("table", lutVars)
    /\ Frozen("nodes", nodeVars) /\ Frozen("field", fieldVars)
    /\ Frozen("view", viewVars) /\ Frozen("picture", visVars)
    /\ Frozen("window", zoomVars)
    /\ \/ part = "camera" /\ CameraNext
       \/ part = "memory" /\ MemoryNext
       \/ part = "recorder" /\ DvrNext
       \/ part = "table" /\ LutNext
       \/ part = "nodes" /\ NodesNext
       \/ part = "field" /\ FieldNext
       \/ part = "view" /\ ViewNext
       \/ part = "picture" /\ VisNext
       \/ part = "window" /\ ZoomNext

MachinesSpec == MachinesInit /\ [][MachinesNext]_machineVars
----------------------------------------------------------------------------
(* plugin_visualize.cpp, zoom.h, glwidget.cpp: what a bin shows is made of *)
(* the frame it holds, not of an earlier one, the lines drawn into it are  *)
(* those of the field, and a click on the window hits what is drawn there. *)
PictureIsOfFrame ==
    /\ part = "picture" => VisualizationIsSound
    /\ part = "field" => DrawingIsSound
    /\ part = "window" => ClicksMeetPicture

(* What a step may not do: a restart loses none of the measures of the     *)
(* field (VarXML.cpp with field.h), recording on does not move the frame   *)
(* at which the user paused (plugin_dvr.cpp), and a drag does not lose     *)
(* the point it grabbed nor a fit a part of the picture (glwidget.cpp).    *)
StepsKeepWhatIsShown ==
    RestartLosesNothing /\ PausedPlaybackStays /\ WindowFollowsMouse
=============================================================================
