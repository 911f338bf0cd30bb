---------------------------- MODULE LatestFrame ----------------------------
(***************************************************************************)
(* What a FieldUpdateConsumer of src/server.py promises to the rest of the *)
(* server, without its queue and its thread: frames with growing numbers   *)
(* are published to a subscriber, which is handed a frame newer than every *)
(* frame it was handed before, may skip the ones in between, and once told *)
(* to stop is handed at most one more, published before it was told.       *)
(***************************************************************************)
EXTENDS Naturals

CONSTANTS
  Subscribers,   (* the receivers of frames                                *)
  MaxFrames      (* largest frame number: the bound of the model           *)

VARIABLES
  published,     (* published[s]: the newest frame published to s, 0: none *)
  handed,        (* handed[s]: the last frame s was handed, 0: none        *)
  status,        (* status[s]: "idle", "open", "closing" or "closed"       *)
  limit          (* limit[s]: published[s] at the moment s was closed      *)

absVars == <<published, handed, status, limit>>

AbsInit ==
  /\ published = [s \in Subscribers |-> 0]
  /\ handed = [s \in Subscribers |-> 0]
  /\ status = [s \in Subscribers |-> "idle"]
  /\ limit = [s \in Subscribers |-> 0]

Open(s) ==
  /\ status[s] = "idle"
  /\ status' = [status EXCEPT ![s] = "open"]
  /\ UNCHANGED <<published, handed, limit>>

(* A publisher does not have to know that the subscriber has closed.       *)
Publish(s) ==
  /\ status[s] # "idle"
  /\ \E f \in (published[s] + 1) .. MaxFrames :
       published' = [published EXCEPT ![s] = f]
  /\ UNCHANGED <<handed, status, limit>>

(* Frames may be skipped, never repeated or reordered; a subscriber may    *)
(* fail over the frame it is handed.                                       *)
Deliver(s) ==
  /\ status[s] = "open"
  /\ \E f \in (handed[s] + 1) .. published[s] :
       handed' = [handed EXCEPT ![s] = f]
  /\ \E next \in {"open", "closed"} : status' = [status EXCEPT ![s] = next]
  /\ UNCHANGED <<published, limit>>

(* The one hand-over that may still happen after Close.                    *)
DeliverLate(s) ==
  /\ status[s] = "closing"
  /\ \E f \in (handed[s] + 1) .. limit[s] :
       handed' = [handed EXCEPT ![s] = f]
  /\ status' = [status EXCEPT ![s] = "closed"]
  /\ UNCHANGED <<published, limit>>

Close(s) ==
  /\ status[s] \in {"open", "closed"}
  /\ \E next \in {"closing", "closed"} :
       /\ status[s] = "closed" => next = "closed"
       /\ status' = [status EXCEPT ![s] = next]
  /\ limit' = [limit EXCEPT ![s] = published[s]]
  /\ UNCHANGED <<published, handed>>

AbsNext ==
  \E s \in Subscribers :
    Open(s) \/ Publish(s) \/ Deliver(s) \/ DeliverLate(s) \/ Close(s)

AbsSpec == AbsInit /\ [][AbsNext]_absVars

(* As long as it is open, a subscriber with a newer frame to have is       *)
(* handed one.                                                             *)
FairAbsSpec == AbsSpec /\ \A s \in Subscribers : WF_absVars(Deliver(s))
=============================================================================
