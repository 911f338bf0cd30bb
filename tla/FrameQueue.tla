----------------------------- MODULE FrameQueue -----------------------------
(***************************************************************************)
(* What the frame buffer promises its reader: a bounded queue of frames,   *)
(* numbered in the order they were captured.  A frame offered to a full    *)
(* queue is lost; the frames already in it are not.                        *)
(***************************************************************************)
EXTENDS Integers, Sequences

CONSTANTS Capacity,   (* the most frames that wait *)
          Numbers     (* the numbers of frames *)

VARIABLES queue,    (* the numbers of the waiting frames, oldest first *)
          current   (* the number of the frame being displayed *)

qvars == <<queue, current>>

Init == queue = <<>> /\ current = 0

(* The counter saturates at the bound of a model, so equal numbers pass.   *)
Offer(n) ==
    /\ Len(queue) < Capacity
    /\ n >= current
    /\ \A i \in DOMAIN queue : n >= queue[i]
    /\ queue' = Append(queue, n)
    /\ UNCHANGED current

Take ==
    /\ queue # <<>>
    /\ current' = Head(queue)
    /\ queue' = Tail(queue)

Next == (\E n \in Numbers : Offer(n)) \/ Take

Spec == Init /\ [][Next]_qvars
=============================================================================
