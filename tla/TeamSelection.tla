---------------------------- MODULE TeamSelection ----------------------------
(***************************************************************************)
(* Which team the robot detection looks for                                *)
(* (dep/ssl-vision/src/shared/cmpattern/cmpattern_teamdetector.h and .cpp, *)
(* cmpattern_team.cpp, app/plugins/plugin_detect_robots.cpp, with          *)
(* shared/vartypes/VarNotifier.cpp and primitives/VarStringEnum.h): one of *)
(* the two selectors, its detector and the notifier between them.  The GUI *)
(* thread adds, renames, edits and selects teams, the capture thread       *)
(* processes frames, and both bring the selector up to date, without a     *)
(* lock around the whole of it.  A team is its place in the list; the      *)
(* values of its settings are a number that grows with every edit.         *)
(***************************************************************************)
EXTENDS Integers, Sequences, FiniteSets, SequencesExt

CONSTANTS TeamNames, (* names the user gives, each to one team only *)
          MaxTeams,
          TeamEdits  (* how often the user does something *)

VARIABLES
  teamNames,      (* of team_vector *)
  teamData,
  labels, chosen, (* list and selected of the selector; 0 is the empty one *)
  currentTeam,    (* current_team; its changes are signalled *)
  notified,       (* _notifier.changed *)
  postedChange,   (* changeSlotOtherChange() is in the GUI's event queue *)
  updating,       (* where a thread is in update(), with its locals *)
  edited,         (* a team whose edit has not been signalled yet, or 0 *)
  process,        (* where process() is, with need_reinit and team *)
  detector,       (* the team and the data it was initialised with *)
  editsLeft

teamVars == <<teamNames, teamData, labels, chosen, currentTeam, notified,
              postedChange, updating, edited, process, detector, editsLeft>>

Threads == {"gui", "capture"}
NotUpdating == [at |-> "none", count |-> 0, old |-> 0, names |-> <<>>]
NoFrame == [at |-> "none", reinit |-> FALSE, team |-> 0]
NoTeam == [team |-> 0, data |-> 0]

(* The settings have been read: with a team in them the notifier has been  *)
(* told, without one by the first frame.                                   *)
TeamInit ==
    /\ teamNames \in {<<>>} \cup {<<n>> : n \in TeamNames}
    /\ teamData = [i \in DOMAIN teamNames |-> 0]
    /\ labels = teamNames
    /\ chosen = IF teamNames = <<>> THEN 0 ELSE teamNames[1]
    /\ currentTeam = Len(teamNames)
    /\ notified = TRUE /\ postedChange = FALSE
    /\ updating = [t \in Threads |-> NotUpdating]
    /\ edited = 0 /\ process = NoFrame /\ detector = NoTeam
    /\ editsLeft = TeamEdits
----------------------------------------------------------------------------
(* The selector's methods; an index counts from 1, 0 is none.              *)
getIndex == LET named == {i \in DOMAIN labels : labels[i] = chosen}
            IN  IF named = {} THEN 0
                ELSE CHOOSE i \in named : \A j \in named : i <= j

Sized(list, n) == [i \in 1 .. n |-> IF i \in DOMAIN list THEN list[i] ELSE 0]

getTeam(i) == IF i \in DOMAIN teamNames THEN i ELSE 0

(* update(), one step for every part that the selector's own lock covers.  *)
UpdateStep(t, record) == updating' = [updating EXCEPT ![t] = record]

ResizeSelector(t) ==
    /\ updating[t].at = "size"
    /\ labels' = Sized(labels, updating[t].count)
    /\ UpdateStep(t, [updating[t] EXCEPT !.at = "index"])
    /\ UNCHANGED <<teamNames, teamData, chosen, currentTeam, notified,
                   postedChange, edited, process, detector,
                   editsLeft>>

ReadSelected(t) ==
    /\ updating[t].at = "index"
    /\ UpdateStep(t, [updating[t] EXCEPT
                   !.at = "label", !.old = getIndex,
                   !.names = SubSeq(teamNames, 1, updating[t].count)])
    /\ UNCHANGED <<teamNames, teamData, labels, chosen, currentTeam, notified,
                   postedChange, edited, process, detector,
                   editsLeft>>

(* setLabel() for each team: the selected one follows its label.           *)
LabelTeams(t) ==
    /\ updating[t].at = "label"
    /\ LET relabelled == Sized(updating[t].names, Len(labels))
           new == [i \in DOMAIN labels |->
                      IF i \in DOMAIN updating[t].names THEN relabelled[i]
                                                        ELSE labels[i]]
       IN  /\ labels' = new
           /\ chosen' = IF getIndex = 0 THEN chosen ELSE new[getIndex]
    /\ UpdateStep(t, [updating[t] EXCEPT !.at = "select"])
    /\ UNCHANGED <<teamNames, teamData, currentTeam, notified, postedChange,
                   edited, process, detector,
                   editsLeft>>

(* selectIndex(), the team and the signal, which reaches the notifier      *)
(* through the event queue when the capture thread sends it.               *)
Selected(old) ==
    CASE labels = <<>> -> chosen
      [] old \in DOMAIN labels -> labels[old]
      [] OTHER -> labels[1]

(* A mistake: the capture thread does not send the signal.                 *)
SignalFromGui(t) ==
    /\ notified' = (notified \/ t = "gui")
    /\ UNCHANGED postedChange

signalTeamDataChanged(t) ==
    IF t = "gui" THEN notified' = TRUE /\ UNCHANGED postedChange
                 ELSE postedChange' = TRUE /\ UNCHANGED notified

SelectTeam(t) ==
    /\ updating[t].at = "select"
    /\ chosen' = Selected(updating[t].old)
    /\ LET named == {i \in DOMAIN labels : labels[i] = chosen'}
       IN  currentTeam' = IF updating[t].count = 0 \/ named = {} THEN 0
                          ELSE getTeam(CHOOSE i \in named :
                                          \A j \in named : i <= j)
    /\ signalTeamDataChanged(t)
    /\ UpdateStep(t, NotUpdating)
    /\ UNCHANGED <<teamNames, teamData, labels, edited, process, detector,
                   editsLeft>>

Update(t) == \/ ResizeSelector(t) \/ ReadSelected(t)
             \/ LabelTeams(t) \/ SelectTeam(t)

Begin(count) == [NotUpdating EXCEPT !.at = "size", !.count = count]
Idle(t) == updating[t] = NotUpdating
----------------------------------------------------------------------------
(* The GUI thread.                                                         *)
GuiIdle == Idle("gui") /\ edited = 0
Edit == GuiIdle /\ editsLeft > 0 /\ editsLeft' = editsLeft - 1
Unused == TeamNames \ ToSet(teamNames)

(* slotAddPressed() and slotTeamNodeAdded()                                *)
AddTeam ==
    /\ Edit /\ Len(teamNames) < MaxTeams
    /\ \E n \in Unused : teamNames' = Append(teamNames, n)
    /\ teamData' = Append(teamData, 0)
    /\ UpdateStep("gui", Begin(Len(teamNames')))
    /\ UNCHANGED <<labels, chosen, currentTeam, notified, postedChange,
                   edited, process, detector>>

(* The name is a setting of the team, too.                                 *)
RenameTeam ==
    /\ Edit
    /\ \E i \in DOMAIN teamNames, n \in Unused :
          /\ teamNames' = [teamNames EXCEPT ![i] = n]
          /\ teamData' = [teamData EXCEPT ![i] = @ + 1] /\ edited' = i
    /\ UpdateStep("gui", Begin(Len(teamNames)))
    /\ UNCHANGED <<labels, chosen, currentTeam, notified, postedChange,
                   process, detector>>

EditTeam ==
    /\ Edit
    /\ \E i \in DOMAIN teamNames :
          teamData' = [teamData EXCEPT ![i] = @ + 1] /\ edited' = i
    /\ UNCHANGED <<teamNames, labels, chosen, currentTeam, notified,
                   postedChange, updating, process, detector>>

(* slotChangeOccured(): only the current team is listened to.              *)
SignalEdit ==
    /\ edited # 0 /\ Idle("gui") /\ edited' = 0
    /\ notified' = (notified \/ edited = currentTeam)
    /\ UNCHANGED <<teamNames, teamData, labels, chosen, currentTeam,
                   postedChange, updating, process, detector,
                   editsLeft>>

(* The selection is edited in the tree of settings.                        *)
ChooseTeam ==
    /\ Edit
    /\ chosen' \in ToSet(labels) \ {chosen, 0}
    /\ UNCHANGED <<teamNames, teamData, labels, currentTeam, notified,
                   postedChange, updating, edited, process, detector>>

DeliverChange ==
    /\ GuiIdle /\ postedChange
    /\ postedChange' = FALSE /\ notified' = TRUE
    /\ UNCHANGED <<teamNames, teamData, labels, chosen, currentTeam, updating,
                   edited, process, detector,
                   editsLeft>>

Gui == \/ AddTeam \/ RenameTeam \/ EditTeam \/ ChooseTeam
       \/ SignalEdit \/ DeliverChange \/ Update("gui")
----------------------------------------------------------------------------
(* The capture thread: process() of the plugin.                            *)
BeginFrame ==
    /\ process.at = "none"
    /\ process' = [at |-> "lookup", reinit |-> notified, team |-> 0]
    /\ notified' = FALSE
    /\ UNCHANGED <<teamNames, teamData, labels, chosen, currentTeam,
                   postedChange, updating, edited, detector,
                   editsLeft>>

(* getSelectedTeam()                                                       *)
LookUpTeam ==
    /\ process.at = "lookup" /\ Idle("capture")
    /\ IF getIndex = 0 \/ currentTeam # getTeam(getIndex)
       THEN /\ UpdateStep("capture", Begin(Len(teamNames)))
            /\ process' = [process EXCEPT !.at = "update"]
       ELSE /\ process' = [process EXCEPT !.at = "use", !.team = currentTeam]
            /\ UNCHANGED updating
    /\ UNCHANGED <<teamNames, teamData, labels, chosen, currentTeam, notified,
                   postedChange, edited, detector,
                   editsLeft>>

TeamUpdated ==
    /\ process.at = "update" /\ Idle("capture")
    /\ process' = [process EXCEPT !.at = "use", !.team = currentTeam]
    /\ UNCHANGED <<teamNames, teamData, labels, chosen, currentTeam, notified,
                   postedChange, updating, edited, detector,
                   editsLeft>>

(* A mistake: the flag is cleared when the frame is done.                  *)
UseAndClear ==
    /\ process.at = "use" /\ process' = NoFrame
    /\ detector' = IF process.team # 0 /\ process.reinit
                   THEN [team |-> process.team, data |-> teamData[process.team]]
                   ELSE detector
    /\ notified' = (process.team = 0)
    /\ UNCHANGED <<teamNames, teamData, labels, chosen, currentTeam,
                   postedChange, updating, edited, editsLeft>>

UseDetector ==
    /\ process.at = "use" /\ process' = NoFrame
    /\ detector' = IF process.team # 0 /\ process.reinit
                   THEN [team |-> process.team, data |-> teamData[process.team]]
                   ELSE detector
    /\ notified' = (notified \/ process.team = 0)
    /\ UNCHANGED <<teamNames, teamData, labels, chosen, currentTeam,
                   postedChange, updating, edited, editsLeft>>

CaptureFrame == \/ BeginFrame \/ LookUpTeam \/ TeamUpdated \/ UseDetector
                \/ Update("capture")

TeamNext == Gui \/ CaptureFrame
TeamSpec == TeamInit /\ [][TeamNext]_teamVars

(* Both threads go on: the GUI handles its events, frames come.            *)
TeamFairSpec ==
    /\ TeamSpec
    /\ WF_teamVars(SignalEdit) /\ WF_teamVars(DeliverChange)
    /\ WF_teamVars(Update("gui")) /\ WF_teamVars(CaptureFrame)
----------------------------------------------------------------------------
(* A detector is used only after it has been initialised, although the     *)
(* frame asks for changes first and for the team later.                   *)
UsedIsInitialised ==
    process.at = "use" /\ process.team # 0 /\ ~process.reinit
       => detector # NoTeam

(* When nothing is under way any more, the detector works with the         *)
(* settings of the current team as they are.                               *)
DetectorIsCurrent ==
    GuiIdle /\ process.at = "none" /\ ~postedChange /\ ~notified
    /\ currentTeam # 0 =>
       detector = [team |-> currentTeam, data |-> teamData[currentTeam]]

(* In the end the detector looks for the current team with the settings it *)
(* has, although the two threads may have updated the selector at once (it *)
(* may then show a team by a name that it no longer has).                  *)
DetectorCatchesUp ==
    <>[](teamNames # <<>> =>
            /\ currentTeam # 0
            /\ detector = [team |-> currentTeam,
                           data |-> teamData[currentTeam]])
=============================================================================
