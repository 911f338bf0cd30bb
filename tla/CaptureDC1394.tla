--------------------------- MODULE CaptureDC1394 ---------------------------
(***************************************************************************)
(* A FireWire camera and the settings of it that the user sees             *)
(* (dep/ssl-vision/src/shared/capture/capturedc1394v2.cpp).  The tree of   *)
(* settings is edited by the GUI thread and read back from the camera by   *)
(* both threads; it is saved to settings.xml when the program is closed    *)
(* and written to the camera when capturing starts.  One feature of the    *)
(* camera stands for the sixteen, which are treated alike.  Every          *)
(* operation of the class runs under the mutex of its object and is one    *)
(* step; changed() is two operations, and the other thread may come        *)
(* between them.                                                           *)
(***************************************************************************)
EXTENDS Integers, FiniteSets

CONSTANTS Values,      (* of the feature's register *)
          Absolutes,   (* of its absolute register; 1 is the number 1.0 *)
          Configs,     (* capture settings the user may choose *)
          Supported,   (* the video modes of the camera *)
          CapsChoices  (* what the feature of the camera may be able to do *)

VARIABLES
  caps,       (* the abilities of the feature *)
  config,     (* the capture settings *)
  camera,     (* the library's object: "none", "open" or "streaming" *)
  leaked,     (* a camera object was dropped without being freed *)
  register,   (* the feature in the camera *)
  tree,       (* the feature in the tree of settings *)
  editable,   (* the fields of it that are not read-only *)
  file,       (* the feature in settings.xml *)
  capturing,  (* is_capturing *)
  locked,     (* the capture settings are read-only *)
  hidden,     (* the camera parameters are not shown *)
  held,       (* a frame is dequeued and not enqueued again *)
  gui,        (* what the GUI thread is doing *)
  session     (* the program: "running", "saved" (closing), "ended" *)

cameraVars == <<caps, config, camera, leaked, register, tree, editable, file,
          capturing, locked, hidden, held, gui, session>>

Fields == {"enabled", "auto", "trigger", "value", "useAbs", "abs"}

Registers == [power : BOOLEAN, auto : BOOLEAN, value : Values,
              absControl : BOOLEAN, abs : Absolutes]

Trees == [enabled : BOOLEAN, auto : BOOLEAN, trigger : BOOLEAN,
          value : Values, useAbs : BOOLEAN, abs : Absolutes,
          wasRead : BOOLEAN]

CameraTypeOK ==
    /\ caps \in CapsChoices
    /\ config \in Configs
    /\ camera \in {"none", "open", "streaming"} /\ leaked \in BOOLEAN
    /\ register \in Registers
    /\ tree \in Trees /\ editable \subseteq Fields /\ file \in Trees
    /\ capturing \in BOOLEAN /\ locked \in BOOLEAN /\ hidden \in BOOLEAN
    /\ held \in BOOLEAN
    /\ gui \in {"idle", "edited", "written"}
    /\ session \in {"running", "saved", "ended"}

----------------------------------------------------------------------------
(* Choosing the video mode, a part of startCapture().                      *)

(* The rate of the library for the one asked for; 0 when there is none.    *)
RateLimits == {2, 4, 8, 15, 30, 60, 120, 240}
FrameRate(fps) ==
    IF \E r \in RateLimits : fps <= r
    THEN CHOOSE r \in RateLimits :
            fps <= r /\ \A q \in RateLimits : fps <= q => r <= q
    ELSE 0

(* The formats each resolution has as a mode of its own.                   *)
NativeFormats(resolution) ==
    CASE resolution = "160x120" -> {"YUV444"}
      [] resolution = "320x240" -> {"YUV422"}
      [] resolution = "640x480" -> {"YUV411", "YUV422", "RGB8", "MONO8",
                                    "MONO16"}
      [] resolution \in {"800x600", "1024x768", "1280x960", "1600x1200"}
             -> {"YUV422", "RGB8", "MONO8", "MONO16"}
      [] OTHER -> {}

Native(c) == [kind |-> "native", resolution |-> c.resolution,
              format |-> c.format]
Format7(n) == [kind |-> "format7", number |-> n]

(* The modes found for a configuration: none when the camera has nothing   *)
(* fitting.  The modes of the camera may be unknown to the library.        *)
ModesFor(c, known) ==
    IF c.mode \in {"auto", "native"}
    THEN IF /\ c.format \in NativeFormats(c.resolution)
            /\ known => Native(c) \in Supported
         THEN {Native(c)}
         ELSE IF c.mode = "native" THEN {}
         ELSE IF ~known THEN {Format7(0)}
         ELSE {Format7(n) : n \in
                 {n \in 0 .. 7 : /\ Format7(n) \in Supported
                                 /\ \A k \in 0 .. n - 1 :
                                       Format7(k) \notin Supported}}
    ELSE {Format7(c.number)}


----------------------------------------------------------------------------
(* The parameters of the feature.                                          *)

(* readParameterValues(): the tree takes over what the camera has, ...     *)
TreeRead(t, r) ==
    IF ~caps.present THEN [t EXCEPT !.wasRead = FALSE]
    ELSE [t EXCEPT
            !.wasRead = TRUE,
            !.enabled = caps.switchable => r.power,
            !.value = IF caps.readable THEN r.value ELSE @,
            !.auto = IF caps.readable THEN r.auto ELSE @,
            !.useAbs = IF caps.readable THEN caps.absolute /\ r.absControl
                       ELSE @,
            !.abs = IF caps.readable /\ caps.absolute THEN r.abs ELSE @]

(* ... and the fields that would have no effect become read-only.          *)
HasAbs == caps.present /\ caps.readable /\ caps.absolute

FieldsIf(condition, fields) == IF condition THEN fields ELSE {}

(* A mistake: the absolute value has no say in what can be edited.         *)
EditableReadNoAbs(t, e) ==
    (e \cap {"enabled", "trigger", "useAbs"})
        \cup (IF t.enabled /\ ~t.auto THEN {"value", "abs"} ELSE {})

EditableRead(t, e) ==
    LET manual == t.enabled /\ ~t.auto
        push == FieldsIf("onepush" \in caps.modes, {"trigger"})
    IN  (e \cap {"enabled"})
        \cup FieldsIf(t.enabled /\ {"auto", "manual"} \subseteq caps.modes,
                      {"auto"})
        \cup (IF manual THEN (e \cap {"trigger"}) \cup push
              ELSE (e \cap {"trigger"}) \ push)
        \cup FieldsIf(manual /\ HasAbs, {"useAbs"})
        \cup FieldsIf(manual, IF HasAbs /\ t.useAbs THEN {"abs"}
                              ELSE {"value"})

(* VarDouble::getBool(): whether the number is 1.0.                        *)
GetBool(absolute) == absolute = 1

(* writeParameterValues(): the registers take over what the tree has.  A   *)
(* one-push of the camera finds a value of its own.                        *)
RegisterWritten(t, r, pushed) ==
    IF ~(t.wasRead /\ caps.present) THEN r
    ELSE LET switched == IF caps.switchable
                         THEN [r EXCEPT !.power = t.enabled] ELSE r
             modeName == IF t.auto THEN "auto" ELSE "manual"
             moded == [switched EXCEPT
                         !.auto = IF modeName \in caps.modes THEN t.auto
                                  ELSE @,
                         !.value = IF t.trigger THEN pushed
                                   ELSE IF ~t.auto /\ ~GetBool(t.abs)
                                   THEN t.value ELSE @]
         IN  IF ~caps.readable THEN switched
             ELSE IF ~caps.absolute THEN moded
             ELSE [moded EXCEPT !.absControl = t.useAbs,
                                !.abs = IF t.useAbs /\ ~t.auto
                                        THEN t.abs ELSE @]

TriggerReset(t) ==
    IF t.wasRead /\ caps.present /\ caps.readable
    THEN [t EXCEPT !.trigger = FALSE] ELSE t

(* readParameterProperty(): what the feature lets the user edit at all.    *)
EditableProperty(e) ==
    LET granted == FieldsIf(caps.switchable, {"enabled"})
                   \cup FieldsIf(caps.readable /\ "manual" \in caps.modes,
                                 {"value", "auto"})
                   \cup FieldsIf(HasAbs, {"abs", "useAbs"})
        concerned == {"enabled"} \cup
            FieldsIf(caps.readable, {"value", "auto", "abs", "useAbs"})
            \cup FieldsIf(caps.readable /\ "onepush" \notin caps.modes,
                          {"trigger"})
    IN  IF caps.present THEN (e \ concerned) \cup granted ELSE e

EnabledProperty(t) ==
    [t EXCEPT !.enabled = (caps.present /\ ~caps.switchable) \/ @]

----------------------------------------------------------------------------
CameraInit ==
    /\ caps \in CapsChoices
    /\ config \in Configs
    /\ camera = "none" /\ leaked = FALSE
    /\ register \in {r \in Registers : r.power /\ ~r.absControl}
    /\ tree \in {t \in Trees : ~t.trigger /\ ~t.wasRead /\ t.enabled
                                /\ ~t.auto /\ ~t.useAbs}
    /\ editable = Fields
    /\ file = tree
    /\ capturing = FALSE /\ locked = FALSE /\ hidden = TRUE
    /\ held = FALSE
    /\ gui = "idle" /\ session = "running"

Idle == gui = "idle" /\ session = "running"

fixedVars == <<caps, file, session>>

(* The capture settings are locked from a start to the next stop.          *)
ChangeConfig ==
    /\ Idle /\ ~locked
    /\ \E c \in Configs \ {config} : config' = c
    /\ UNCHANGED <<camera, leaked, register, tree, editable, capturing,
                   locked, hidden, held, gui, fixedVars>>

(* startCapture() from the line that opens the camera: the object of an    *)
(* earlier attempt is forgotten.  Without a camera on the bus, or with a   *)
(* rate that no camera has, it returns before and nothing happens.         *)
OpenCamera == leaked' = (leaked \/ camera # "none")

(* The only return after the opening that does not clean up: no video mode *)
(* fits the settings.                                                      *)
StartFindsNoMode ==
    /\ Idle /\ ~locked /\ FrameRate(config.fps) # 0
    /\ ModesFor(config, TRUE) = {}
    /\ OpenCamera
    /\ camera' = "open"
    /\ UNCHANGED <<config, register, tree, editable, capturing, locked,
                   hidden, held, gui, fixedVars>>

(* Any call of the library may fail, or the mode not be one of the camera. *)
StartFails ==
    /\ Idle /\ ~locked /\ FrameRate(config.fps) # 0
    /\ OpenCamera
    /\ camera' = "none"
    /\ UNCHANGED <<config, register, tree, editable, capturing, locked,
                   hidden, held, gui, fixedVars>>

(* ... and when all goes well the parameters are restored: properties are  *)
(* read, values written, values read back.                                 *)
StartCapture ==
    /\ Idle /\ ~locked /\ FrameRate(config.fps) # 0
    /\ \E known \in BOOLEAN : \E mode \in ModesFor(config, known) :
           known => mode \in Supported
    /\ OpenCamera
    /\ camera' = "streaming"
    /\ capturing' = TRUE /\ locked' = TRUE /\ hidden' = FALSE
    /\ \E pushed \in Values :
          register' = RegisterWritten(EnabledProperty(tree), register, pushed)
    /\ tree' = TreeRead(TriggerReset(EnabledProperty(tree)), register')
    /\ editable' = EditableRead(tree', EditableProperty(editable))
    /\ UNCHANGED <<config, held, gui, fixedVars>>

(* stopCapture(): the parameters are read once more, the camera closed.    *)
StopCapture ==
    /\ tree' = IF capturing THEN TreeRead(tree, register) ELSE tree
    /\ editable' = IF capturing THEN EditableRead(tree', editable)
                   ELSE editable
    /\ camera' = "none" /\ capturing' = FALSE
    /\ locked' = FALSE /\ hidden' = TRUE
    /\ held' = FALSE
    /\ UNCHANGED <<leaked, register, config, gui, caps, file>>

StopButton == Idle /\ locked /\ StopCapture /\ UNCHANGED session

(* A mistake: the bus can be reset while capturing.                        *)
ResetBusAnytime ==
    /\ session = "running" /\ camera' = "none"
    /\ UNCHANGED <<leaked, config, register, tree, editable, capturing,
                   locked, hidden, held, gui, fixedVars>>

(* resetBus() frees the object and opens and frees every camera in turn.   *)
ResetBus ==
    /\ Idle /\ ~locked
    /\ camera' = "none"
    /\ UNCHANGED <<leaked, config, register, tree, editable, capturing,
                   locked, hidden, held, gui, fixedVars>>

(* The user edits a field that the tree shows and that is not read-only.   *)
EditParameter(f) ==
    /\ Idle /\ ~hidden /\ caps.present /\ f \in editable
    /\ \/ f = "enabled" /\ tree' = [tree EXCEPT !.enabled = ~@]
       \/ f = "auto" /\ tree' = [tree EXCEPT !.auto = ~@]
       \/ f = "trigger" /\ tree' = [tree EXCEPT !.trigger = TRUE]
       \/ f = "useAbs" /\ tree' = [tree EXCEPT !.useAbs = ~@]
       \/ f = "value" /\ \E v \in Values : tree' = [tree EXCEPT !.value = v]
       \/ f = "abs" /\ \E a \in Absolutes : tree' = [tree EXCEPT !.abs = a]
    /\ gui' = "edited"
    /\ UNCHANGED <<config, camera, leaked, register, editable, capturing,
                   locked, hidden, held, fixedVars>>

(* changed(): writeParameterValues(), then readParameterValues().          *)
WriteParameter ==
    /\ gui = "edited" /\ gui' = "written"
    /\ \E pushed \in Values :
          register' = RegisterWritten(tree, register, pushed)
    /\ tree' = TriggerReset(tree)
    /\ UNCHANGED <<config, camera, leaked, editable, capturing, locked,
                   hidden, held, fixedVars>>

ReadParameter ==
    /\ tree' = TreeRead(tree, register)
    /\ editable' = EditableRead(tree', editable)
    /\ UNCHANGED <<config, camera, leaked, register, capturing, locked,
                   hidden, held, fixedVars>>

(* A mistake: what was written is not read back.                           *)
ReadBackForgotten ==
    /\ gui = "written" /\ gui' = "idle"
    /\ UNCHANGED <<config, camera, leaked, register, tree, editable,
                   capturing, locked, hidden, held, fixedVars>>

ReadBack == gui = "written" /\ gui' = "idle" /\ ReadParameter

(* The capture thread: readAllParameterValues(), getFrame() with and       *)
(* without a frame, releaseFrame().                                        *)
Refresh == capturing /\ session # "ended" /\ ReadParameter /\ UNCHANGED gui

(* A mistake: a failed frame gives the start button back.                  *)
GetFrameUnlocks ==
    /\ capturing /\ ~held
    /\ capturing' = FALSE /\ locked' = FALSE
    /\ UNCHANGED <<config, camera, leaked, register, tree, editable, held,
                   hidden, gui, fixedVars>>

GetFrame ==
    /\ capturing /\ ~held
    /\ \/ held' = TRUE /\ UNCHANGED capturing
       \/ capturing' = FALSE /\ UNCHANGED held
    /\ UNCHANGED <<config, camera, leaked, register, tree, editable, locked,
                   hidden, gui, fixedVars>>

ReleaseFrame ==
    /\ capturing /\ held /\ held' = FALSE
    /\ UNCHANGED <<config, camera, leaked, register, tree, editable, locked,
                   hidden, capturing, gui, fixedVars>>

(* A camera in automatic mode changes its registers by itself.             *)
CameraAdjusts ==
    /\ camera = "streaming" /\ register.auto
    /\ \E v \in Values, a \in Absolutes :
          register' = [register EXCEPT !.value = v, !.abs = a]
    /\ UNCHANGED <<config, camera, leaked, tree, editable, locked, hidden,
                   held, capturing, gui, fixedVars>>

(* ~MainWindow(): the settings are saved, then the threads are killed.     *)
SaveSettings ==
    /\ Idle /\ session' = "saved"
    /\ file' = tree
    /\ UNCHANGED <<caps, config, camera, leaked, register, tree, editable,
                   capturing, locked, hidden, held, gui>>

KillThread == session = "saved" /\ session' = "ended" /\ StopCapture

(* The next start of the program; the camera may have lost its power.      *)
Restart ==
    /\ session = "ended" /\ session' = "running"
    /\ tree' = file /\ editable' = Fields
    /\ camera' = "none" /\ leaked' = FALSE
    /\ register' \in {register} \cup
          {r \in Registers : r.power /\ ~r.absControl /\ ~r.auto}
    /\ UNCHANGED <<caps, config, file, capturing, locked, hidden, held, gui>>

CameraNext == \/ ChangeConfig \/ StartFindsNoMode \/ StartFails
        \/ StartCapture \/ StopButton \/ ResetBus \/ WriteParameter
        \/ ReadBack \/ Refresh \/ GetFrame \/ ReleaseFrame \/ CameraAdjusts
        \/ SaveSettings \/ KillThread \/ Restart
        \/ \E f \in Fields : EditParameter(f)

CameraSpec == CameraInit /\ [][CameraNext]_cameraVars

----------------------------------------------------------------------------
(* A parameter is written and read only with a camera object: the library  *)
(* would follow a null pointer.  changed() does not ask; what protects it  *)
(* is that the parameters are hidden and the buttons locked.               *)
ParameterAccessHasCamera == gui # "idle" => camera # "none"

(* With nobody in the middle of an edit, what the tree shows of a feature  *)
(* in manual mode is what the camera has, whichever thread read it last.   *)
TreeShowsCamera ==
    capturing /\ gui = "idle" /\ caps.present /\ caps.readable
              /\ ~register.auto
        => tree.value = register.value /\ ~tree.auto /\ tree.wasRead

(* A camera that transmits can be stopped by the user, after a failed      *)
(* frame too: the stop button stays when is_capturing has gone.            *)
StreamCanBeStopped == camera = "streaming" => locked /\ ~hidden

(* A field the user may edit while capturing is one that has an effect.    *)
EditableMatters ==
    capturing /\ gui = "idle" =>
        /\ "abs" \in editable => tree.useAbs /\ caps.absolute
        /\ "value" \in editable => ~tree.useAbs /\ ~tree.auto

(* The tree of variables shows what the camera has, as far as the code     *)
(* reads it back; a register is accessed only with a camera, and a stream  *)
(* that runs can always be stopped (capturedc1394v2.cpp).                  *)
CameraFollowsGui ==
    /\ CameraTypeOK /\ ParameterAccessHasCamera /\ TreeShowsCamera
    /\ StreamCanBeStopped /\ EditableMatters
=============================================================================
