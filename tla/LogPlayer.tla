------------------------------ MODULE LogPlayer ------------------------------
(***************************************************************************)
(* Playing a record in the graphical client                                *)
(* (dep/ssl-vision/src/graphicalClient/ClientThreading.cpp, LogControl.cpp *)
(* and the wiring of CentralWindow.cpp): the view thread takes the frames  *)
(* of the log, the GUI thread runs the slots of the controls, and nothing  *)
(* locks the counters both of them change.  What the view thread emits is  *)
(* posted to the GUI; moving the slider to the frame shown calls           *)
(* goto_frame() again.                                                     *)
(*                                                                         *)
(* A speed is its sign.  The bounds: LogSizes for the records, PressLimit  *)
(* for what the user does, PostLimit for the events that wait.             *)
(***************************************************************************)
EXTENDS Integers, Sequences, FiniteSetsExt

CONSTANTS LogSizes, PressLimit, PostLimit

ASSUME LogAssumption == LogSizes \subseteq Nat \ {0}

VARIABLES
    pc,         \* where the view thread is in execute()
    play, current_frame, next_frame, log_length, play_speed, play_speed_save,
    logs,       \* how many frames the log holds
    shown,      \* the frame of the log shown last
    posted,     \* events the GUI thread has not run: a value or Hide
    slider,     \* [value, max]
    controls,   \* the log controls are visible
    dialog,     \* the file dialog is open
    presses     \* what the user has done so far

control == <<current_frame, next_frame, log_length, play_speed,
             play_speed_save>>
gui == <<slider, controls, dialog, presses>>
playerVars == <<pc, play, control, logs, shown, posted, gui>>

NoLogFrame == -1
Hide == <<>>
Value(f) == <<f>>

PlayerInit ==
    /\ pc = "live" /\ play = FALSE
    /\ current_frame = 0 /\ next_frame = 0 /\ log_length = 0
    /\ play_speed = 1 /\ play_speed_save = 1
    /\ logs = 0 /\ shown = NoLogFrame /\ posted = <<>>
    /\ slider = [value |-> 0, max |-> 1800]
    /\ controls = FALSE /\ dialog = FALSE /\ presses = 0
----------------------------------------------------------------------------
(* LogControl.                                                             *)
reset(size) ==
    /\ current_frame' = 0 /\ next_frame' = 0 /\ log_length' = size
    /\ play_speed' = 1 /\ play_speed_save' = 1

get_current_frame == IF current_frame >= log_length THEN 0 ELSE current_frame

goto_frame(f) ==
    /\ current_frame' = f /\ next_frame' = f + 1
    /\ UNCHANGED <<log_length, play_speed, play_speed_save>>

(* setValue() of the slider: its signal comes back when the value changes. *)
SliderTo(f) ==
    LET v == Max({0, Min({f, slider.max})})
    IN  /\ slider' = [slider EXCEPT !.value = v]
        /\ IF v = slider.value THEN UNCHANGED control ELSE goto_frame(v)

SetSpeed(speed) ==
    /\ play_speed' = speed
    /\ UNCHANGED <<current_frame, next_frame, log_length, play_speed_save>>
----------------------------------------------------------------------------
(* The view thread: execute().                                             *)
Post(events) == posted' = posted \o events

end_play_record ==
    /\ play' = FALSE /\ reset(0) /\ logs' = 0

(* Live packets, until the user plays a record.                            *)
Live ==
    /\ pc = "live"
    /\ IF ~play /\ get_current_frame # 0
       THEN end_play_record /\ Post(<<Hide>>) /\ pc' = pc
       ELSE /\ pc' = (IF play THEN "next" ELSE pc)
            /\ UNCHANGED <<play, control, logs, posted>>
    /\ UNCHANGED <<shown, gui>>

(* A mistake: the frame to come stays the same.                            *)
NextStays ==
    /\ pc = "next"
    /\ pc' = (IF next_frame \in 0 .. log_length - 1 THEN "load" ELSE "end")
    /\ current_frame' = (IF play_speed = 0 THEN current_frame ELSE next_frame)
    /\ UNCHANGED <<next_frame, log_length, play_speed, play_speed_save>>
    /\ UNCHANGED <<play, logs, shown, posted, gui>>

(* get_next_frame(), and the end of the record.                            *)
NextCommand ==
    /\ pc = "next"
    /\ IF play_speed = 0
       THEN /\ pc' = (IF current_frame < 0 THEN "end" ELSE "load")
            /\ UNCHANGED control
       ELSE /\ current_frame' = next_frame
            /\ next_frame' = next_frame + play_speed
            /\ pc' = (IF next_frame \in 0 .. log_length - 1
                      THEN "load" ELSE "end")
            /\ UNCHANGED <<log_length, play_speed, play_speed_save>>
    /\ UNCHANGED <<play, logs, shown, posted, gui>>

End ==
    /\ pc = "end" /\ pc' = "emit"
    /\ end_play_record /\ Post(<<Hide>>)
    /\ UNCHANGED <<shown, gui>>

(* What is read where the log holds no such frame is anything: the frame   *)
(* is not there to be shown.                                               *)
Load ==
    /\ pc = "load" /\ pc' = "emit"
    /\ shown' = (IF get_current_frame \in 0 .. logs - 1
                 THEN get_current_frame ELSE NoLogFrame)
    /\ UNCHANGED <<play, control, logs, posted, gui>>

(* A mistake: the slider is told the frame to come.                        *)
EmitNext ==
    /\ pc = "emit" /\ pc' = "live"
    /\ Len(posted) < PostLimit
    /\ Post(<<Value(next_frame)>>)
    /\ UNCHANGED <<play, control, logs, shown, gui>>
Emit ==
    /\ pc = "emit" /\ pc' = "live"
    /\ Len(posted) < PostLimit
    /\ Post(<<Value(get_current_frame)>>)
    /\ UNCHANGED <<play, control, logs, shown, gui>>

ViewStep == Live \/ NextCommand \/ End \/ Load \/ Emit
----------------------------------------------------------------------------
(* The GUI thread.                                                         *)
HandlePosted ==
    /\ posted # <<>> /\ posted' = Tail(posted)
    /\ IF Head(posted) = Hide
       THEN controls' = FALSE /\ UNCHANGED <<slider, control>>
       ELSE SliderTo(Head(posted)[1]) /\ UNCHANGED controls
    /\ UNCHANGED <<pc, play, logs, shown, dialog, presses>>

Press == ~dialog /\ presses < PressLimit /\ presses' = presses + 1

(* playLogfilePressed(): the dialog first, and events are handled in it.   *)
PressPlayRecord ==
    /\ Press
    /\ IF play
       THEN end_play_record /\ controls' = FALSE /\ UNCHANGED dialog
       ELSE dialog' = TRUE /\ UNCHANGED <<play, control, logs, controls>>
    /\ UNCHANGED <<pc, shown, posted, slider>>

(* The user has chosen a file; by then the dialog's own event loop has     *)
(* handled what was posted before.                                         *)
Loaded(size) ==
    /\ dialog /\ dialog' = FALSE /\ posted = <<>>
    /\ logs' = size /\ play' = TRUE /\ controls' = TRUE
    /\ slider' = [value |-> 0, max |-> size]
    /\ current_frame' = 0 /\ log_length' = size
    /\ next_frame' = (IF Min({slider.value, size}) = 0 THEN 0 ELSE 1)
    /\ play_speed' = 1 /\ play_speed_save' = 1
    /\ UNCHANGED <<pc, shown, posted, presses>>

(* No file, no log in it, or one without frames.                           *)
NotLoaded ==
    /\ dialog /\ dialog' = FALSE /\ logs' = 0
    /\ UNCHANGED <<pc, play, control, shown, posted, slider, controls,
                   presses>>

PressControl ==
    /\ Press /\ controls
    /\ \/ \E speed \in {-1, 1} : SetSpeed(speed)
       \/ play_speed # 0 /\ SetSpeed(play_speed_save)
       \/ play_speed = 0 /\ SetSpeed(1)
       \/ /\ play_speed_save' = play_speed /\ play_speed' = 0
          /\ UNCHANGED <<current_frame, next_frame, log_length>>
       \/ /\ current_frame' \in {current_frame - 1, current_frame + 1}
          /\ UNCHANGED <<next_frame, log_length, play_speed,
                         play_speed_save>>
    /\ UNCHANGED <<pc, play, logs, shown, posted, slider, controls, dialog>>

(* The slider pulled to another place while it is held down, which pauses. *)
PullSlider(f) ==
    /\ Press /\ controls /\ f <= slider.max /\ f # slider.value
    /\ play_speed = 0
    /\ slider' = [slider EXCEPT !.value = f] /\ goto_frame(f)
    /\ UNCHANGED <<pc, play, logs, shown, posted, controls, dialog>>

GuiStep ==
    \/ HandlePosted \/ PressPlayRecord \/ NotLoaded \/ PressControl
    \/ \E size \in LogSizes : Loaded(size)
    \/ \E f \in 0 .. Max(LogSizes) : PullSlider(f)

PlayerNext == ViewStep \/ GuiStep
PlayerSpec == PlayerInit /\ [][PlayerNext]_playerVars

(* The view thread runs on, and the GUI thread handles what is posted; a   *)
(* user need not do anything, but does not leave a dialog open.            *)
PlayerFairSpec ==
    /\ PlayerSpec
    /\ WF_playerVars(ViewStep) /\ WF_playerVars(HandlePosted)
    /\ WF_playerVars(dialog /\ GuiStep)
----------------------------------------------------------------------------
(* Properties.                                                             *)

(* The GUI keeps up with the view thread, which waits between two frames.  *)
(* One that stays two frames behind makes the record go round for ever.    *)
KeepsUp == <>[](Len(posted) <= 1)

(* A record that plays forward comes to its end, though the GUI moves the  *)
(* counters back to frames that were shown before.                         *)
PlaybackEnds == KeepsUp => ~<>[](play /\ play_speed = 1)

(* While the record is paused, the slider and the picture come to agree.   *)
PausedSettles ==
    (KeepsUp /\ <>[](play /\ play_speed = 0)) => <>[](shown = slider.value)

(* What plays is a record with frames, as long as the counters take it to  *)
(* be, and its controls are there.                                         *)
PlayHasLog == play => logs > 0 /\ log_length = logs /\ controls
=============================================================================
