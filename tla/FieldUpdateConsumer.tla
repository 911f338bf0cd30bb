------------------------ MODULE FieldUpdateConsumer ------------------------
(***************************************************************************)
(* The consumer threads of src/server.py: class FieldUpdateConsumer with   *)
(* its unbounded FIFO queue, its running flag and its run() loop, and the  *)
(* process_frame() of its two subclasses.                                  *)
(*                                                                         *)
(* A frame is its number: the position of its datagram among those the     *)
(* server parsed.  `running` and `queue` are only touched under the        *)
(* consumer's own lock and the queue's own mutex, so that each of their    *)
(* accesses is one step; everything else in run() is a local of the        *)
(* thread, and pc says between which two accesses the thread stands.       *)
(***************************************************************************)
EXTENDS Naturals, Sequences

CONSTANTS
  Consumers,     (* the FieldUpdateConsumer objects                        *)
  Bluetooth,     (* those of class BluetoothConsumer; the others are of    *)
                 (* class DebugConsumer                                    *)
  MaxFrames      (* largest frame number: the bound of the model           *)

ASSUME ConsumersAssumption == Bluetooth \subseteq Consumers
ASSUME MaxFramesAssumption == MaxFrames \in Nat

VARIABLES
  pc,            (* pc[c]: where thread c stands in run()                  *)
  running,       (* running[c]: self._running                              *)
  queue,         (* queue[c]: self._queue                                  *)
  frame,         (* frame[c]: the local `frame` of run()                   *)
  sent,          (* history: the newest frame put into queue[c]            *)
  last,          (* history: the last frame c handed to process_frame()    *)
  stopAt         (* history: sent[c] when running[c] was reset             *)

consumerVars == <<pc, running, queue, frame, sent, last, stopAt>>

NoFrame == 0                      \* Python's None
Frames == 1 .. MaxFrames

(* run() has returned, or has been ended by an exception.                  *)
Finished(c) == pc[c] \in {"done", "dead"}

ConsumerInit ==
  /\ pc = [c \in Consumers |-> "new"]
  /\ running = [c \in Consumers |-> FALSE]
  /\ queue = [c \in Consumers |-> <<>>]
  /\ frame = [c \in Consumers |-> NoFrame]
  /\ sent = [c \in Consumers |-> NoFrame]
  /\ last = [c \in Consumers |-> NoFrame]
  /\ stopAt = [c \in Consumers |-> NoFrame]
-----------------------------------------------------------------------------
(* Operations called by other threads.                                     *)

(* start(): the flag, an empty queue and the thread.                       *)
Start(c) ==
  /\ pc[c] = "new"
  /\ pc' = [pc EXCEPT ![c] = "loop"]
  /\ running' = [running EXCEPT ![c] = TRUE]
  /\ queue' = [queue EXCEPT ![c] = <<>>]
  /\ UNCHANGED <<frame, sent, last, stopAt>>

(* put(frame): insertion into the infinite queue never blocks, and nobody  *)
(* looks whether the thread still lives.                                   *)
Put(c, f) ==
  /\ pc[c] # "new"
  /\ queue' = [queue EXCEPT ![c] = Append(@, f)]
  /\ sent' = [sent EXCEPT ![c] = f]
  /\ UNCHANGED <<pc, running, frame, last, stopAt>>

(* set_running(False), the only value callers pass.                        *)
Stop(c) ==
  /\ pc[c] # "new"
  /\ running' = [running EXCEPT ![c] = FALSE]
  /\ stopAt' = IF running[c] THEN [stopAt EXCEPT ![c] = sent[c]] ELSE stopAt
  /\ UNCHANGED <<pc, queue, frame, sent, last>>
-----------------------------------------------------------------------------
(* The thread: run().                                                      *)

GoTo(c, from, to) ==
  /\ pc[c] = from
  /\ pc' = [pc EXCEPT ![c] = to]

LoopKeepsFrame(c) ==              \* mutant: frame is not reset to None
  /\ GoTo(c, "loop", IF running[c] THEN "get" ELSE "done")
  /\ UNCHANGED <<running, queue, frame, sent, last, stopAt>>

LoopForever(c) ==                 \* mutant: while True
  /\ GoTo(c, "loop", "get")
  /\ frame' = [frame EXCEPT ![c] = NoFrame]
  /\ UNCHANGED <<running, queue, sent, last, stopAt>>

(* while self.running(): frame = None                                      *)
Loop(c) ==
  /\ GoTo(c, "loop", IF running[c] THEN "get" ELSE "done")
  /\ frame' = [frame EXCEPT ![c] = NoFrame]
  /\ UNCHANGED <<running, queue, sent, last, stopAt>>

TakeHead(c) ==
  /\ queue[c] # <<>>
  /\ frame' = [frame EXCEPT ![c] = Head(queue[c])]
  /\ queue' = [queue EXCEPT ![c] = Tail(@)]

(* self._queue.get(block = True, timeout = 0.1)                            *)
Get(c) ==
  /\ GoTo(c, "get", "drain")
  /\ TakeHead(c)
  /\ UNCHANGED <<running, sent, last, stopAt>>

(* ... raising Queue.Empty: the queue is still empty when the time is up.  *)
GetTimeout(c) ==
  /\ GoTo(c, "get", "check")
  /\ queue[c] = <<>>
  /\ UNCHANGED <<running, queue, frame, sent, last, stopAt>>

DrainKeepsFirst(c) ==             \* mutant: the drained frames are dropped
  /\ pc[c] = "drain"
  /\ queue[c] # <<>>
  /\ queue' = [queue EXCEPT ![c] = Tail(@)]
  /\ UNCHANGED <<pc, running, frame, sent, last, stopAt>>

(* while not self._queue.empty(): frame = self._queue.get_nowait()         *)
Drain(c) ==
  /\ pc[c] = "drain"
  /\ TakeHead(c)
  /\ UNCHANGED <<pc, running, sent, last, stopAt>>

DrainEndLosesFrame(c) ==          \* mutant: Queue.Empty discards the frame
  /\ GoTo(c, "drain", "check")
  /\ queue[c] = <<>>
  /\ frame' = [frame EXCEPT ![c] = NoFrame]
  /\ UNCHANGED <<running, queue, sent, last, stopAt>>

DrainEnd(c) ==
  /\ GoTo(c, "drain", "check")
  /\ queue[c] = <<>>
  /\ UNCHANGED <<running, queue, frame, sent, last, stopAt>>

CheckFrameOnly(c) ==              \* mutant: no second self.running()
  /\ GoTo(c, "check", IF frame[c] # NoFrame THEN "process" ELSE "loop")
  /\ UNCHANGED <<running, queue, frame, sent, last, stopAt>>

(* if self.running(): if frame is not None:                                *)
Check(c) ==
  /\ GoTo(c, "check",
          IF running[c] /\ frame[c] # NoFrame THEN "process" ELSE "loop")
  /\ UNCHANGED <<running, queue, frame, sent, last, stopAt>>

(* self.process_frame(frame).  A DebugConsumer returns.  A                 *)
(* BluetoothConsumer writes the two sync bytes and then evaluates `data`,  *)
(* which is bound nowhere: NameError leaves run() and ends the thread.     *)
ProcessFrame(c) ==
  /\ GoTo(c, "process", IF c \in Bluetooth THEN "dead" ELSE "loop")
  /\ last' = [last EXCEPT ![c] = frame[c]]
  /\ UNCHANGED <<running, queue, frame, sent, stopAt>>

Run(c) ==
  \/ Loop(c)
  \/ Get(c)
  \/ GetTimeout(c)
  \/ Drain(c)
  \/ DrainEnd(c)
  \/ Check(c)
  \/ ProcessFrame(c)
-----------------------------------------------------------------------------
(* The rest of the server as one consumer sees it: it is started, then     *)
(* given frames with growing numbers, then told to stop.                   *)
Environment(c) ==
  \/ Start(c)
  \/ \E f \in Frames : f > sent[c] /\ Put(c, f)
  \/ Stop(c)

ConsumerNext == \E c \in Consumers : Run(c) \/ Environment(c)

ConsumerSpec == ConsumerInit /\ [][ConsumerNext]_consumerVars

(* The scheduler runs every thread that can run: get() waits at most 0.1 s.*)
ThreadFairness == \A c \in Consumers : WF_consumerVars(Run(c))

FairConsumerSpec == ConsumerSpec /\ ThreadFairness
-----------------------------------------------------------------------------
PcValues ==
  {"new", "loop", "get", "drain", "check", "process", "done", "dead"}

(* Every variable has its type.                                            *)
ConsumerTypeOK ==
  /\ pc \in [Consumers -> PcValues]
  /\ running \in [Consumers -> BOOLEAN]
  /\ queue \in [Consumers -> Seq(Frames)]
  /\ frame \in [Consumers -> Frames \union {NoFrame}]
  /\ sent \in [Consumers -> Frames \union {NoFrame}]
  /\ last \in [Consumers -> Frames \union {NoFrame}]
  /\ stopAt \in [Consumers -> Frames \union {NoFrame}]

InHand(c) == pc[c] \in {"drain", "check", "process"} /\ frame[c] # NoFrame

Increasing(q) == \A i, j \in 1 .. Len(q) : i < j => q[i] < q[j]
AllAbove(q, n) == \A i \in 1 .. Len(q) : q[i] > n
NoneAbove(q, n) == \A i \in 1 .. Len(q) : q[i] <= n

Newest(c) ==
  IF queue[c] # <<>> THEN queue[c][Len(queue[c])]
  ELSE IF InHand(c) THEN frame[c] ELSE last[c]

(* What run() has taken and not yet handed over, and what waits in the     *)
(* queue, is newer than everything handed over before, in order, and ends  *)
(* with the newest frame put: draining to "the last (and most recent       *)
(* frame)" never loses the newest one.                                     *)
NewestIsKept ==
  \A c \in Consumers :
    /\ Increasing(queue[c])
    /\ AllAbove(queue[c], last[c])
    /\ InHand(c) => frame[c] > last[c] /\ AllAbove(queue[c], frame[c])
    /\ running[c] => Newest(c) = sent[c]

(* A consumer told to stop never hands over a frame that was put after     *)
(* that, although put() goes on filling its queue: this is what the second *)
(* self.running() of the loop is for.                                      *)
NothingNewAfterStop ==
  \A c \in Consumers : pc[c] # "new" /\ ~running[c] => last[c] <= stopAt[c]

(* The strengthening under which the two above are inductive: what a       *)
(* thread not yet started knows, where in run() the local `frame` is set,  *)
(* that nothing is newer than the newest frame put, and that the frame     *)
(* about to be handed over by a consumer told to stop was put before that. *)
ConsumerInv ==
  /\ ConsumerTypeOK
  /\ NewestIsKept
  /\ NothingNewAfterStop
  /\ \A c \in Consumers :
       /\ pc[c] = "new" =>
            ~running[c] /\ sent[c] = NoFrame /\ last[c] = NoFrame
       /\ pc[c] = "get" => frame[c] = NoFrame
       /\ pc[c] \in {"drain", "process"} => frame[c] # NoFrame
       /\ last[c] <= sent[c]
       /\ InHand(c) => frame[c] <= sent[c]
       /\ NoneAbove(queue[c], sent[c])
       /\ pc[c] = "process" /\ ~running[c] => frame[c] <= stopAt[c]

(* No frame is handed to process_frame() twice or after a newer one.       *)
NeverBackwards ==
  [][\A c \in Consumers :
       pc[c] = "process" /\ pc'[c] # "process" => last'[c] > last[c]]_consumerVars

(* run() ends for a consumer that was told to stop.                        *)
StopsWhenTold ==
  \A c \in Consumers : (pc[c] # "new" /\ ~running[c]) ~> Finished(c)

(* A frame put is handed over, or a newer one in its place, unless the     *)
(* consumer is told to stop or fails.                                      *)
NewestIsProcessed ==
  \A c \in Consumers : \A f \in Frames :
    (sent[c] = f) ~> (last[c] >= f \/ ~running[c] \/ Finished(c))

(* Both promises of run() to the rest of the server.                       *)
ConsumersMoveOn == StopsWhenTold /\ NewestIsProcessed
(* The class comment: frames are sent for processing "until its told to    *)
(* stop", so run() ends only then.                                         *)
RunsUntilToldToStop ==
  \A c \in Consumers : Finished(c) => ~running[c]
-----------------------------------------------------------------------------
(* The thread implements the mailbox of LatestFrame.                       *)
Status(c) ==
  IF pc[c] = "new" THEN "idle"
  ELSE IF Finished(c) THEN "closed"
  ELSE IF running[c] THEN "open"
  ELSE IF pc[c] = "process" THEN "closing" ELSE "closed"

Mailbox == INSTANCE LatestFrame WITH
  Subscribers <- Consumers,
  published <- sent,
  handed <- last,
  status <- [c \in Consumers |-> Status(c)],
  limit <- stopAt

MailboxSpec == Mailbox!AbsSpec
FairMailboxSpec == Mailbox!FairAbsSpec
=============================================================================
