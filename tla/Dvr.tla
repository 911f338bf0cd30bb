-------------------------------- MODULE Dvr --------------------------------
(***************************************************************************)
(* The recorder plugin of a camera's stack                                 *)
(* (dep/ssl-vision/src/app/plugins/plugin_dvr.h, plugin_dvr.cpp): the      *)
(* capture thread passes every frame through process() with the plugin's   *)
(* lock, the GUI thread runs the slots of its buttons, which take the same *)
(* lock.  A button changes at once, its slot comes later; what the capture *)
(* thread does to a button is posted to the GUI thread.  A frame is its    *)
(* number; frames loaded from files have numbers below zero.               *)
(***************************************************************************)
EXTENDS Integers, Sequences, FiniteSets, SequencesExt

CONSTANTS LiveFrames,   (* frames of the camera *)
          Limits,       (* values of "Max Frames"; 0 is no limit *)
          LoadedFrames, (* the most frames loaded from a directory *)
          Jogs          (* frames the jog dial asks for at once *)

ASSUME DvrAssumption == /\ LiveFrames \in Nat /\ LoadedFrames \in Nat
                        /\ Limits \subseteq Nat /\ 0 \in Jogs /\ Jogs \subseteq Int

VARIABLES
  dvrMode, modeButton,    (* mode and the checked one of its three buttons *)
  seekMode, seekButton,   (* seek_mode and its buttons *)
  wrap, recording,        (* the buttons btn_seek_wrap and btn_rec_rec *)
  maxFrames, shift,       (* the settings *)
  refresh,                (* trigger_pause_refresh *)
  pauseFrame,             (* 0 before the first one *)
  frames, frameLimit, current,   (* the DVRStream; current counts from 0 *)
  liveFrame,              (* the number of the last frame of the camera *)
  (* what process() left in the frame data *)
  slot,                   (* what the GUI thread is in *)
  posted,                 (* slotSeekModeToggled is in its event queue *)
  askedAt                 (* the live frame when a new pause was asked for *)

buttonVars == <<modeButton, seekButton, wrap, recording, maxFrames, shift>>
streamVars == <<frames, frameLimit, current>>
modeVars == <<dvrMode, seekMode, refresh, pauseFrame>>
dvrVars == <<buttonVars, streamVars, modeVars,
             liveFrame, slot, posted, askedAt>>

Modes == {"pause", "record", "off"}
Seeks == {"pause", "play", "live"}

(* "dialog" and "stuck" are within slotMovieLoad() or slotMovieSave(),     *)
(* the only slots that keep the lock while events are handled.             *)
Slots == {"none", "mode", "seek", "refresh", "first", "forward", "back",
          "last", "new", "load", "save", "dialog", "stuck"}
GuiHasLock == slot \in {"dialog", "stuck"}

DvrTypeOK ==
    /\ dvrMode \in Modes /\ modeButton \in Modes
    /\ seekMode \in Seeks /\ seekButton \in Seeks
    /\ wrap \in BOOLEAN /\ recording \in BOOLEAN /\ shift \in BOOLEAN
    /\ maxFrames \in Limits /\ frameLimit \in Limits \cup {0}
    /\ refresh \in BOOLEAN /\ posted \in BOOLEAN
    /\ liveFrame \in 0 .. LiveFrames /\ askedAt \in 0 .. LiveFrames
    /\ {pauseFrame} \cup ToSet(frames)
          \subseteq -LoadedFrames .. LiveFrames
    /\ current \in Nat /\ slot \in Slots

DvrInit ==
    /\ dvrMode = "off" /\ modeButton = "off"
    /\ seekMode = "live" /\ seekButton = "live"
    /\ wrap = FALSE /\ recording = FALSE
    /\ maxFrames \in Limits /\ shift \in BOOLEAN
    /\ refresh = FALSE /\ pauseFrame = 0
    /\ frames = <<>> /\ frameLimit = 0 /\ current = 0
    /\ liveFrame = 0
    /\ slot = "none" /\ posted = FALSE /\ askedAt = 0
----------------------------------------------------------------------------
(* DVRStream, as operators on the recording.                               *)
Recording == [frames |-> frames, current |-> current]

(* A mistake: the current frame is not moved with the others.              *)
AppendFrameOnly(rec, frame, limit) ==
    IF limit # 0 /\ Len(rec.frames) + 1 > limit
    THEN IF shift THEN [rec EXCEPT !.frames = Append(Tail(@), frame)] ELSE rec
    ELSE [rec EXCEPT !.frames = Append(@, frame)]

appendFrame(rec, frame, limit) ==
    IF limit # 0 /\ Len(rec.frames) + 1 > limit
    THEN IF shift
         THEN [frames |-> Append(Tail(rec.frames), frame),
               current |-> IF rec.current > 0 THEN rec.current - 1
                                              ELSE rec.current]
         ELSE rec
    ELSE [rec EXCEPT !.frames = Append(@, frame)]

seek(rec, frame) ==
    LET last == Len(rec.frames) - 1
        low == IF frame >= Len(rec.frames) THEN last ELSE frame
    IN  [rec EXCEPT !.current = IF low < 0 THEN 0 ELSE low]

(* A mistake: without wrapping, the last frame can be passed.              *)
AdvancePasses(rec, n) ==
    LET count == Len(rec.frames)
    IN  IF count = 0 THEN rec
        ELSE [rec EXCEPT !.current =
                IF wrap THEN (@ + n) % count
                ELSE IF @ + n < 0 THEN 0 ELSE @ + n]

advance(rec, n) ==
    LET count == Len(rec.frames)
        to == rec.current + n
    IN  IF count = 0 THEN rec
        ELSE [rec EXCEPT !.current =
                IF to \in 0 .. count - 1 THEN to
                ELSE IF wrap THEN to % count
                ELSE IF to < 0 THEN 0 ELSE count - 1]

SetRecording(rec) == frames' = rec.frames /\ current' = rec.current
----------------------------------------------------------------------------
(* process(), with the lock from beginning to end; jog is the number of    *)
(* frames the dial asks for in the time that has passed.  It ends with the *)
(* frame Shown in the frame data.                                          *)
Recorded(frame) ==
    IF dvrMode = "record" /\ recording
    THEN appendFrame(Recording, frame, maxFrames) ELSE Recording

Sought(rec, jog) ==
    CASE dvrMode # "record" -> rec
      [] jog # 0 -> advance(rec, jog)
      [] jog = 0 /\ seekMode = "play" -> advance(rec, 1)
      [] OTHER -> rec

Shown ==
    CASE dvrMode = "pause" -> pauseFrame
      [] dvrMode = "record" /\ seekMode # "live" /\ current < Len(frames) ->
            frames[current + 1]
      [] OTHER -> liveFrame

ProcessDvr(jog) ==
    /\ ~GuiHasLock
    /\ liveFrame < LiveFrames /\ liveFrame' = liveFrame + 1
    /\ dvrMode # "record" => jog = 0
    /\ IF dvrMode = "pause" /\ refresh
       THEN pauseFrame' = liveFrame' /\ refresh' = FALSE
       ELSE UNCHANGED <<pauseFrame, refresh>>
    /\ frameLimit' = IF dvrMode = "record" /\ recording THEN maxFrames
                                                        ELSE frameLimit
    /\ IF jog # 0
       THEN /\ seekButton' = "pause" /\ seekMode' = "pause"
            /\ posted' = (posted \/ seekButton # "pause")
       ELSE UNCHANGED <<seekButton, seekMode, posted>>
    /\ SetRecording(Sought(Recorded(liveFrame'), jog))
    /\ UNCHANGED <<dvrMode, modeButton, wrap, recording, maxFrames, shift,
                   slot, askedAt>>
----------------------------------------------------------------------------
(* The GUI thread: a button is pressed, and its slot waits for the lock.   *)
Enter(s) == slot = "none" /\ slot' = s

PressMode(m) ==
    /\ m # modeButton /\ Enter("mode") /\ modeButton' = m
    /\ askedAt' = IF m = "pause" THEN liveFrame ELSE 0
    /\ UNCHANGED <<seekButton, wrap, recording, maxFrames, shift, streamVars,
                   modeVars, liveFrame, posted>>

PressRefresh ==
    /\ dvrMode = "pause" /\ Enter("refresh") /\ askedAt' = liveFrame
    /\ UNCHANGED <<buttonVars, streamVars, modeVars, liveFrame, posted>>

(* The buttons of the recordings are disabled outside of the record mode.  *)
PressSeek(m) ==
    /\ dvrMode = "record" /\ m # seekButton /\ Enter("seek")
    /\ seekButton' = m
    /\ UNCHANGED <<modeButton, wrap, recording, maxFrames, shift, streamVars,
                   modeVars, liveFrame, posted, askedAt>>

PressMovie ==
    /\ dvrMode = "record"
    /\ \E s \in {"first", "forward", "back", "last", "new", "load", "save"} :
          Enter(s)
    /\ UNCHANGED <<buttonVars, streamVars, modeVars, liveFrame, posted, askedAt>>

(* Buttons without a slot, and the settings.                               *)
ToggleOption ==
    /\ slot = "none"
    /\ \/ wrap' = ~wrap /\ UNCHANGED <<recording, maxFrames, shift>>
       \/ recording' = ~recording /\ UNCHANGED <<wrap, maxFrames, shift>>
       \/ maxFrames' \in Limits \ {maxFrames}
          /\ UNCHANGED <<wrap, recording, shift>>
       \/ shift' = ~shift /\ UNCHANGED <<wrap, recording, maxFrames>>
    /\ UNCHANGED <<modeButton, seekButton, streamVars, modeVars, liveFrame,
                   slot, posted, askedAt>>

(* slotModeToggled().                                                      *)
ModeToggled ==
    /\ slot = "mode" /\ slot' = "none" /\ dvrMode' = modeButton
    /\ refresh' = (refresh \/ (dvrMode' = "pause" /\ dvrMode # "pause"))
    /\ UNCHANGED <<buttonVars, streamVars, seekMode, pauseFrame, liveFrame,
                   posted, askedAt>>

(* A mistake: the pause of the jog dial cannot be left.                    *)
SeekToggledLate ==
    /\ \/ slot = "seek" /\ slot' = "none" /\ UNCHANGED posted
       \/ slot = "none" /\ posted /\ posted' = FALSE /\ UNCHANGED slot
    /\ seekMode' = IF posted THEN seekMode ELSE seekButton
    /\ UNCHANGED <<buttonVars, streamVars, dvrMode, refresh, pauseFrame,
                   liveFrame, askedAt>>

(* slotSeekModeToggled(), called by the button or taken from the events.   *)
SeekToggled ==
    /\ \/ slot = "seek" /\ slot' = "none" /\ UNCHANGED posted
       \/ slot = "none" /\ posted /\ posted' = FALSE /\ UNCHANGED slot
    /\ seekMode' = seekButton
    /\ UNCHANGED <<buttonVars, streamVars, dvrMode, refresh, pauseFrame,
                   liveFrame, askedAt>>

PauseRefreshed ==
    /\ slot = "refresh" /\ slot' = "none" /\ refresh' = TRUE
    /\ UNCHANGED <<buttonVars, streamVars, dvrMode, seekMode, pauseFrame,
                   liveFrame, posted, askedAt>>

SeekSlot ==
    /\ slot \in {"first", "forward", "back", "last", "new"} /\ slot' = "none"
    /\ SetRecording(CASE slot = "first" -> seek(Recording, 0)
                      [] slot = "forward" -> advance(Recording, 1)
                      [] slot = "back" -> advance(Recording, -1)
                      [] slot = "last" -> seek(Recording, Len(frames) - 1)
                      [] slot = "new" -> [frames |-> <<>>, current |-> 0])
    /\ UNCHANGED <<frameLimit, buttonVars, modeVars, liveFrame, posted, askedAt>>

(* What is loaded from n files; a mistake: the old recording is kept.      *)
LoadedBehind(n) ==
    frames \o [i \in 1 .. n |-> i - LoadedFrames - 1]
Loaded(n) ==
    [i \in 1 .. IF frameLimit # 0 /\ n > frameLimit THEN frameLimit ELSE n |->
        i - LoadedFrames - 1]

(* slotMovieLoad() under its dialogs, which may be left at once, and       *)
(* slotMovieSave(), which changes nothing here.  The limit is the one of   *)
(* the last frame recorded.                                                *)
OpenDialog ==
    /\ slot \in {"load", "save"} /\ slot' = "dialog"
    /\ \/ UNCHANGED <<frames, current>>
       \/ /\ slot = "load"
          /\ \E n \in 0 .. LoadedFrames : frames' = Loaded(n)
          /\ current' = 0
    /\ UNCHANGED <<frameLimit, buttonVars, modeVars, liveFrame, posted, askedAt>>

CloseDialog ==
    /\ slot = "dialog" /\ slot' = "none"
    /\ UNCHANGED <<buttonVars, streamVars, modeVars, liveFrame, posted, askedAt>>

(* The dialog handles the posted slot: it waits for the lock that its own  *)
(* thread has.                                                             *)
PostedInDialog ==
    /\ slot = "dialog" /\ posted /\ slot' = "stuck" /\ posted' = FALSE
    /\ UNCHANGED <<buttonVars, streamVars, modeVars, liveFrame, askedAt>>

DvrGui ==
    \/ \E m \in Modes : PressMode(m)
    \/ \E m \in Seeks : PressSeek(m)
    \/ PressRefresh \/ PressMovie \/ ToggleOption \/ ModeToggled
    \/ SeekToggled \/ PauseRefreshed \/ SeekSlot
    \/ OpenDialog \/ CloseDialog \/ PostedInDialog

DvrNext == DvrGui \/ \E jog \in Jogs : ProcessDvr(jog)

DvrSpec == DvrInit /\ [][DvrNext]_dvrVars
----------------------------------------------------------------------------
(* While there are frames, one of them is the current one; whatever is     *)
(* recorded, dropped, loaded, sought or wrapped.                           *)
CurrentIsAFrame ==
    IF frames = <<>> THEN current = 0 ELSE current \in 0 .. Len(frames) - 1

(* A recording is in the order of time, also after its first frames have   *)
(* been dropped and after it was loaded.                                   *)
RecordingInOrder ==
    \A i \in 1 .. Len(frames) - 1 : frames[i] < frames[i + 1]

(* A paused playback stays at its frame while the recorder goes on and     *)
(* drops older ones, as long as the frame itself is not dropped.           *)
PausedPlaybackStays ==
    [][/\ dvrMode = "record" /\ seekMode = "pause" /\ frames # <<>>
       /\ ProcessDvr(0)
       /\ frames[current + 1] \in ToSet(frames')
       => Shown' = frames[current + 1]]_dvrVars

(* The picture of a pause is one the camera took after the pause, or its   *)
(* refresh, was asked for.                                                 *)
PauseIsFresh ==
    dvrMode = "pause" /\ slot = "none" =>
       IF refresh THEN askedAt <= liveFrame ELSE pauseFrame > askedAt

(* With the GUI thread at rest and nothing posted to it, the modes are     *)
(* those of the buttons, whoever of the two threads has changed them.      *)
ModesFollowButtons ==
    slot = "none" /\ ~posted => dvrMode = modeButton /\ seekMode = seekButton

(* Whatever is recorded, dropped, loaded, sought or wrapped, the stream is *)
(* in order and the current frame one of it, and what is seen is what the  *)
(* buttons say (plugin_dvr.cpp).                                           *)
RecorderIsSound ==
    /\ DvrTypeOK /\ CurrentIsAFrame /\ RecordingInOrder
    /\ PauseIsFresh /\ ModesFollowButtons
============================================================================
