---------------------------- MODULE MCProcesses ----------------------------
(***************************************************************************)
(* TLC instance of the parts that must move on by themselves: capturing    *)
(* from files, the choice of a team, the calibration, the player of        *)
(* recorded games, a message that is sent and read back, and the link to   *)
(* the robot.  A behaviour is one of one part, chosen at the start, while  *)
(* the others stay where they begin.                                       *)
(***************************************************************************)
EXTENDS CaptureFiles, TeamSelection, Calibrator, LogPlayer, FieldMessages,
        RobotLink

VARIABLE part

Parts == {"files", "team", "calibration", "player", "message", "link"}

SomeCounts == {<<1, 2>>, <<2, 3>>, <<3, 1>>}

(* Frames whose numbers lie on both sides of zero, of a rounding tie and   *)
(* of the largest packed value, and frames of up to three robots and two   *)
(* balls.                                                                  *)
At(x, y) == [x |-> x, y |-> y]
Seen(id, a, x, y) == [robot_id |-> id, orientation |-> a, x |-> x, y |-> y]
Frame(yellow, blue, balls) ==
    [robots_yellow |-> yellow, robots_blue |-> blue, balls |-> balls]

EdgeNumbers ==
    {-3, -2, -1, 0, 1, 2, 3, 4, 500, 1013, 1014, 1016, 1017, 1018, 1022, 2500}
EdgeAngles == {0, 1, 2, 1014, 1015, 1016, 1017, 2031, 2032, 3047, 3049, 5000}
              \cup {-1, -2, -3, -1015, -1016, -1017, -2032, -3049}

OneRobot ==
    {Frame(<<Seen(id, a, x, 7)>>, <<>>, <<At(7, x)>>) :
        id \in {0, 11, 254, 255, 300}, a \in EdgeAngles, x \in EdgeNumbers}

Some == {Seen(3, 9, 20, 30), Seen(4, -9, 8, 2500), Seen(5, 0, -2, 4)}
Many ==
    {Frame(y, b, p) : y \in SeqOf(Some, 2), b \in SeqOf(Some, 1),
                      p \in SeqOf({At(9, 5), At(1, -4), At(3, 2000)}, 2)}

MixedFrames == OneRobot \cup Many
EmptyFrame == Frame(<<>>, <<>>, <<>>)
----------------------------------------------------------------------------
processVars == <<part, fileVars, teamVars, calibVars, playerVars,
                 messageVars, linkVars>>

(* A beginning that is a choice is fixed where the part is not the one.    *)
ProcessesInit ==
    /\ part \in Parts
    /\ FilesInit /\ TeamInit /\ CalibInit /\ PlayerInit /\ Init /\ LinkInit
    /\ part = "files" \/ directory = {}
    /\ part = "team" \/ teamNames = <<>>
    /\ part = "calibration" \/ corners = [c \in Corners |-> 0]
    /\ part = "message" \/ frame = EmptyFrame
    /\ part = "link" \/ test = "full"

Frozen(p, v) == IF part = p THEN TRUE ELSE UNCHANGED v

ProcessesNext ==
    /\ UNCHANGED part
    /\ Frozen("files", fileVars) /\ Frozen("team", teamVars)
    /\ Frozen("calibration", calibVars) /\ Frozen("player", playerVars)
    /\ Frozen("message", messageVars) /\ Frozen("link", linkVars)
    /\ \/ part = "files" /\ FilesNext
       \/ part = "team" /\ TeamNext
       \/ part = "calibration" /\ CalibNext
       \/ part = "player" /\ PlayerNext
       \/ part = "message" /\ Next
       \/ part = "link" /\ LinkNext

(* The fairness is that of each part.                                      *)
ProcessesSpec ==
    /\ ProcessesInit /\ [][ProcessesNext]_processVars
    /\ WF_fileVars(part = "files" /\ StartFiles)
    /\ SF_fileVars(part = "files" /\ NextFile)
    /\ WF_teamVars(part = "team" /\ SignalEdit)
    /\ WF_teamVars(part = "team" /\ DeliverChange)
    /\ WF_teamVars(part = "team" /\ Update("gui"))
    /\ WF_teamVars(part = "team" /\ CaptureFrame)
    /\ WF_calibVars(part = "calibration" /\ (Search(FALSE) \/ Search(TRUE)))
    /\ WF_playerVars(part = "player" /\ ViewStep)
    /\ WF_playerVars(part = "player" /\ HandlePosted)
    /\ WF_playerVars(part = "player" /\ dialog /\ GuiStep)
    /\ WF_linkVars(part = "link" /\ WriteHello)
    /\ WF_linkVars(part = "link" /\ ReadHello)
    /\ WF_linkVars(part = "link" /\ RobotStep)
----------------------------------------------------------------------------
(* capturefromfile.cpp: every image of the directory is shown, in the      *)
(* order of the names, though others cannot be read and end the capturing. *)
FilesAreShown == []FilesTypeOK /\ ImagesInOrder /\ EveryImageShown

(* cmpattern_teamdetector.h, plugin_detect_robots.cpp: no robot is looked  *)
(* for with a detector that was never initialised, and in the end it is    *)
(* the one of the selected team as it is, whatever the two threads did.    *)
TeamIsDetected ==
    [](UsedIsInitialised /\ DetectorIsCurrent) /\ DetectorCatchesUp

(* camera_calibration.cpp, plugin_cameracalib.cpp: the search ends without *)
(* making the fit worse, and dragging stays within the picture.            *)
CalibrationEnds == []DraggingIsSafe /\ SearchOnlyImproves /\ SearchEnds

(* LogControl.cpp: a record plays to its end, and a paused one shows what  *)
(* the slider says.                                                        *)
RecordPlays == []PlayHasLog /\ PlaybackEnds /\ PausedSettles

(* RawBlueTooth.c, bluetooth_test.py: the robot shows the greeting it was  *)
(* sent, and its lists hold the bytes it read.                             *)
RobotIsTold == [](AnglesTurn /\ ListsFollowStream) /\ HelloIsShown
=============================================================================
