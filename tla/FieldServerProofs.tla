------------------------- MODULE FieldServerProofs -------------------------
(* Theorems about the server's consumers, FieldUpdateConsumer, and about   *)
(* FieldServer, for any consumers, frames, device paths and bounds.        *)
EXTENDS FieldServer, SequenceTheorems, WellFoundedInduction, TLAPS

(***************************************************************************)
(* FieldUpdateConsumer.                                                    *)
(***************************************************************************)
(* What a consumer's thread does, and what other threads do to it.         *)
Call(c) ==
  \/ Start(c)
  \/ Stop(c)
  \/ \E f \in Frames : Put(c, f)
  \/ Run(c)

(* A step of a consumer, or a call of one, keeps the types.                *)
LEMMA CallsKeepTypes ==
  ASSUME ConsumerTypeOK, NEW c \in Consumers, Call(c)
  PROVE  ConsumerTypeOK'
<1> USE DEF ConsumerTypeOK, PcValues
<1>1. CASE Start(c)
  BY <1>1 DEF Start
<1>2. ASSUME NEW f \in Frames, Put(c, f)
      PROVE  ConsumerTypeOK'
  BY <1>2 DEF Put
<1>3. CASE Stop(c)
  BY <1>3 DEF Stop
<1>4. CASE Loop(c)
  BY <1>4 DEF Loop, GoTo
<1>5. CASE Get(c)
  BY <1>5 DEF Get, GoTo, TakeHead
<1>6. CASE GetTimeout(c)
  BY <1>6 DEF GetTimeout, GoTo
<1>7. CASE Drain(c)
  BY <1>7 DEF Drain, TakeHead
<1>8. CASE DrainEnd(c)
  BY <1>8 DEF DrainEnd, GoTo
<1>9. CASE Check(c)
  BY <1>9 DEF Check, GoTo
<1>10. CASE ProcessFrame(c)
  BY <1>10 DEF ProcessFrame, GoTo
<1> QED
  BY <1>1, <1>2, <1>3, <1>4, <1>5, <1>6, <1>7, <1>8, <1>9, <1>10 DEF Call, Run

(* A step of the consumers keeps the types of their variables.             *)
LEMMA TypingStep ==
  ASSUME ConsumerTypeOK, [ConsumerNext]_consumerVars
  PROVE  ConsumerTypeOK'
<1>1. CASE UNCHANGED consumerVars
  BY <1>1 DEF consumerVars, ConsumerTypeOK
<1>2. CASE ConsumerNext
  BY <1>2, CallsKeepTypes DEF ConsumerNext, Environment, Call
<1> QED
  BY <1>1, <1>2

(* Every variable keeps its type through any run of the consumers.         *)
THEOREM ConsumerTyping == ConsumerSpec => []ConsumerTypeOK
<1>1. ConsumerInit => ConsumerTypeOK
  BY DEF ConsumerInit, ConsumerTypeOK, PcValues
<1>2. ConsumerTypeOK /\ [ConsumerNext]_consumerVars => ConsumerTypeOK'
  BY TypingStep
<1> QED
  BY <1>1, <1>2, PTL DEF ConsumerSpec
-----------------------------------------------------------------------------
(* Queues in order.                                                        *)

(* Taking the head of a queue in order leaves newer frames, in order, and  *)
(* the same newest one unless it was the head.                             *)
LEMMA TailOfIncreasing ==
  ASSUME NEW q \in Seq(Nat), q # <<>>, Increasing(q)
  PROVE  /\ Head(q) \in Nat
         /\ Tail(q) \in Seq(Nat)
         /\ Increasing(Tail(q))
         /\ AllAbove(Tail(q), Head(q))
         /\ Tail(q) # <<>> => Tail(q)[Len(Tail(q))] = q[Len(q)]
         /\ Tail(q) = <<>> => Head(q) = q[Len(q)]
<1>1. /\ Head(q) = q[1]
      /\ Len(q) \in Nat \ {0}
      /\ Tail(q) \in Seq(Nat)
      /\ Len(Tail(q)) = Len(q) - 1
      /\ \A i \in 1 .. Len(q) - 1 : Tail(q)[i] = q[i + 1]
  OBVIOUS
<1>2. \A i \in 1 .. Len(q) : q[i] \in Nat
  OBVIOUS
<1>3. Increasing(Tail(q)) /\ AllAbove(Tail(q), Head(q))
  BY <1>1, <1>2 DEF Increasing, AllAbove
<1>4. \A t \in Seq(Nat) : t = <<>> <=> Len(t) = 0
  BY EmptySeq
<1>5. Tail(q) = <<>> <=> Len(q) = 1
  <2>1. Tail(q) = <<>> <=> Len(Tail(q)) = 0
    BY <1>1, <1>4, Zenon
  <2> QED
    BY <1>1, <2>1, SMTT(30)
<1> QED
  BY <1>1, <1>2, <1>3, <1>5

(* Bounds on a queue's frames hold of its head and of what follows it.      *)
LEMMA TailOfBounded ==
  ASSUME NEW q \in Seq(Nat), q # <<>>, NEW n \in Nat
  PROVE  /\ AllAbove(q, n) => Head(q) > n /\ AllAbove(Tail(q), n)
         /\ NoneAbove(q, n) => Head(q) <= n /\ NoneAbove(Tail(q), n)
<1>1. /\ Head(q) = q[1]
      /\ Len(q) \in Nat \ {0}
      /\ Len(Tail(q)) = Len(q) - 1
      /\ \A i \in 1 .. Len(q) - 1 : Tail(q)[i] = q[i + 1]
  OBVIOUS
<1> QED
  BY <1>1 DEF AllAbove, NoneAbove

(* Putting a frame newer than all of a queue keeps the queue in order.     *)
LEMMA AppendToIncreasing ==
  ASSUME NEW q \in Seq(Nat), NEW m \in Nat, NEW f \in Nat, f > m,
         Increasing(q), NoneAbove(q, m)
  PROVE  /\ Increasing(Append(q, f))
         /\ NoneAbove(Append(q, f), f)
         /\ \A n \in Nat : n <= m /\ AllAbove(q, n) => AllAbove(Append(q, f), n)
         /\ Append(q, f) # <<>>
         /\ Append(q, f)[Len(Append(q, f))] = f
<1>1. /\ Len(Append(q, f)) = Len(q) + 1
      /\ Append(q, f)[Len(q) + 1] = f
      /\ \A i \in 1 .. Len(q) : Append(q, f)[i] = q[i]
      /\ Append(q, f) # <<>>
      /\ \A i \in 1 .. Len(q) : q[i] \in Nat
      /\ Len(q) \in Nat
  OBVIOUS
<1> QED
  BY <1>1, SMTT(30) DEF Increasing, NoneAbove, AllAbove
-----------------------------------------------------------------------------
(* The invariant, one consumer at a time.                                  *)
Sound(c) ==
  /\ Increasing(queue[c])
  /\ AllAbove(queue[c], last[c])
  /\ NoneAbove(queue[c], sent[c])
  /\ last[c] <= sent[c]
  /\ InHand(c) => /\ last[c] < frame[c]
                  /\ frame[c] <= sent[c]
                  /\ AllAbove(queue[c], frame[c])
  /\ running[c] => Newest(c) = sent[c]
  /\ pc[c] = "new" => ~running[c] /\ sent[c] = NoFrame /\ last[c] = NoFrame
  /\ pc[c] = "get" => frame[c] = NoFrame
  /\ pc[c] \in {"drain", "process"} => frame[c] # NoFrame
  /\ pc[c] # "new" /\ ~running[c] => last[c] <= stopAt[c]
  /\ pc[c] = "process" /\ ~running[c] => frame[c] <= stopAt[c]

(* The types in terms of the naturals.                                     *)
LEMMA NumbersAreNaturals ==
  ASSUME ConsumerTypeOK, NEW c \in Consumers
  PROVE  /\ queue[c] \in Seq(Nat)
         /\ frame[c] \in Nat /\ sent[c] \in Nat /\ last[c] \in Nat
         /\ stopAt[c] \in Nat /\ running[c] \in BOOLEAN
<1>1. Frames \subseteq Nat /\ NoFrame \in Nat
  BY DEF Frames, NoFrame
<1>2. queue[c] \in Seq(Frames)
  BY DEF ConsumerTypeOK
<1>3. queue[c] \in Seq(Nat)
  BY <1>1, <1>2, SeqMonotonic
<1> QED
  BY <1>1, <1>3 DEF ConsumerTypeOK

(* ConsumerInv is the types and Sound for each consumer.                   *)
LEMMA InvIsSound ==
  ASSUME ConsumerTypeOK
  PROVE  ConsumerInv <=> \A c \in Consumers : Sound(c)
<1>1. \A c \in Consumers : frame[c] \in Nat /\ last[c] \in Nat
  BY DEF ConsumerTypeOK, Frames, NoFrame
<1> QED
  BY <1>1 DEF ConsumerInv, NewestIsKept, NothingNewAfterStop, Sound

(* The same in the next state.                                             *)
LEMMA InvIsSoundNext ==
  ASSUME ConsumerTypeOK'
  PROVE  ConsumerInv' <=> \A c \in Consumers : Sound(c)'
<1>1. \A c \in Consumers : frame'[c] \in Nat /\ last'[c] \in Nat
  BY DEF ConsumerTypeOK, Frames, NoFrame
<1> QED
  BY <1>1 DEF ConsumerInv, NewestIsKept, NothingNewAfterStop, Sound

(* A step of one consumer leaves the others alone.                         *)
LEMMA OthersStaySound ==
  ASSUME NEW d, Sound(d),
         pc'[d] = pc[d], running'[d] = running[d], queue'[d] = queue[d],
         frame'[d] = frame[d], sent'[d] = sent[d], last'[d] = last[d],
         stopAt'[d] = stopAt[d]
  PROVE  Sound(d)'
BY DEF Sound, InHand, Newest

(* start(), put() and set_running(False) keep the consumer's invariant.    *)
LEMMA EnvironmentKeepsSound ==
  ASSUME ConsumerTypeOK, NEW c \in Consumers, Sound(c), Environment(c)
  PROVE  Sound(c)'
<1> DEFINE q == queue[c]
<1>1. /\ q \in Seq(Nat)
      /\ frame[c] \in Nat /\ sent[c] \in Nat /\ last[c] \in Nat
      /\ stopAt[c] \in Nat /\ running[c] \in BOOLEAN
  BY NumbersAreNaturals
<1>2. CASE Start(c)
  BY <1>1, <1>2, EmptySeq
     DEF Start, ConsumerTypeOK, Sound, InHand, Newest, NoFrame, Increasing,
         AllAbove, NoneAbove
<1>3. ASSUME NEW f \in Frames, f > sent[c], Put(c, f)
      PROVE  Sound(c)'
  <2>1. f \in Nat
    BY DEF Frames
  <2>2. /\ queue'[c] = Append(q, f) /\ sent'[c] = f /\ pc'[c] = pc[c]
        /\ running'[c] = running[c] /\ frame'[c] = frame[c]
        /\ last'[c] = last[c] /\ stopAt'[c] = stopAt[c] /\ pc[c] # "new"
    BY <1>3 DEF Put, ConsumerTypeOK
  <2>3. Increasing(q) /\ NoneAbove(q, sent[c])
    BY DEF Sound
  <2>4. /\ Increasing(Append(q, f))
        /\ NoneAbove(Append(q, f), f)
        /\ \A n \in Nat :
             n <= sent[c] /\ AllAbove(q, n) => AllAbove(Append(q, f), n)
        /\ Append(q, f) # <<>>
        /\ Append(q, f)[Len(Append(q, f))] = f
    BY <1>1, <1>3, <2>1, <2>3, AppendToIncreasing
  <2> HIDE DEF q
  <2>5. AllAbove(q, last[c]) /\ (InHand(c) => AllAbove(q, frame[c]))
    BY DEF Sound, q
  <2> QED
    BY <1>1, <1>3, <2>1, <2>2, <2>4, <2>5 DEF Sound, InHand, Newest
<1>4. CASE Stop(c)
  <2>1. /\ running'[c] = FALSE /\ pc[c] # "new" /\ pc'[c] = pc[c]
        /\ queue'[c] = queue[c] /\ frame'[c] = frame[c]
        /\ sent'[c] = sent[c] /\ last'[c] = last[c]
        /\ stopAt'[c] = IF running[c] THEN sent[c] ELSE stopAt[c]
    BY <1>4 DEF Stop, ConsumerTypeOK
  <2> QED
    BY <1>1, <2>1 DEF Sound, InHand, NoFrame
<1> QED
  BY <1>2, <1>3, <1>4 DEF Environment

(* A step of run() keeps the consumer's invariant.                         *)
LEMMA RunKeepsSound ==
  ASSUME ConsumerTypeOK, NEW c \in Consumers, Sound(c), Run(c)
  PROVE  Sound(c)'
<1> DEFINE q == queue[c]
<1>1. /\ q \in Seq(Nat)
      /\ frame[c] \in Nat /\ sent[c] \in Nat /\ last[c] \in Nat
      /\ stopAt[c] \in Nat /\ running[c] \in BOOLEAN
  BY NumbersAreNaturals
<1>2. ASSUME pc'[c] \in {"loop", "get", "done"} \/ pc'[c] = "check",
             ~InHand(c), ~InHand(c)', UNCHANGED <<running, queue, sent, last, stopAt>>,
             pc[c] # "new",
             pc'[c] = "get" => frame'[c] = NoFrame
      PROVE  Sound(c)'
  BY <1>1, <1>2 DEF Sound, Newest
<1>3. CASE Loop(c)
  BY <1>2, <1>3 DEF Loop, GoTo, InHand, ConsumerTypeOK
<1>4. CASE GetTimeout(c)
  BY <1>2, <1>4 DEF GetTimeout, GoTo, InHand, ConsumerTypeOK, Sound
<1>5. ASSUME q # <<>>, pc[c] \in {"get", "drain"}, pc'[c] = "drain",
             queue'[c] = Tail(q), frame'[c] = Head(q),
             UNCHANGED <<running, sent, last, stopAt>>
      PROVE  Sound(c)'
  <2>1. Increasing(q) /\ NoneAbove(q, sent[c]) /\ AllAbove(q, last[c])
    BY DEF Sound
  <2>2. /\ Increasing(Tail(q)) /\ AllAbove(Tail(q), Head(q))
        /\ Tail(q) # <<>> => Tail(q)[Len(Tail(q))] = q[Len(q)]
        /\ Tail(q) = <<>> => Head(q) = q[Len(q)]
        /\ Head(q) \in Nat
    BY <1>1, <1>5, <2>1, TailOfIncreasing
  <2>3. /\ Head(q) > last[c] /\ AllAbove(Tail(q), last[c])
        /\ Head(q) <= sent[c] /\ NoneAbove(Tail(q), sent[c])
    BY <1>1, <1>5, <2>1, TailOfBounded
  <2> HIDE DEF q
  <2>4. running[c] => q[Len(q)] = sent[c]
    BY <1>5 DEF Sound, Newest, q
  <2> QED
    BY <1>1, <1>5, <2>2, <2>3, <2>4 DEF Sound, InHand, Newest, NoFrame
<1>6. CASE Get(c)
  BY <1>5, <1>6 DEF Get, GoTo, TakeHead, ConsumerTypeOK
<1>7. CASE Drain(c)
  BY <1>5, <1>7 DEF Drain, TakeHead, ConsumerTypeOK
<1>8. CASE DrainEnd(c)
  BY <1>1, <1>8 DEF DrainEnd, GoTo, Sound, InHand, Newest, ConsumerTypeOK
<1>9. CASE Check(c)
  BY <1>1, <1>9 DEF Check, GoTo, Sound, InHand, Newest, ConsumerTypeOK, NoFrame
<1>10. CASE ProcessFrame(c)
  BY <1>1, <1>10
     DEF ProcessFrame, GoTo, Sound, InHand, Newest, ConsumerTypeOK, NoFrame
<1> QED
  BY <1>3, <1>4, <1>6, <1>7, <1>8, <1>9, <1>10 DEF Run

(* A step of the consumers keeps the invariant.                            *)
LEMMA InvStep ==
  ASSUME ConsumerInv, [ConsumerNext]_consumerVars
  PROVE  ConsumerInv'
<1>1. ConsumerTypeOK /\ ConsumerTypeOK'
  BY TypingStep DEF ConsumerInv
<1>2. \A c \in Consumers : Sound(c)
  BY <1>1, InvIsSound
<1>3. ASSUME UNCHANGED consumerVars
      PROVE  \A c \in Consumers : Sound(c)'
  BY <1>2, <1>3, OthersStaySound DEF consumerVars
<1>4. ASSUME NEW c \in Consumers, Run(c) \/ Environment(c)
      PROVE  \A d \in Consumers : Sound(d)'
  <2>1. Sound(c)'
    BY <1>1, <1>2, <1>4, RunKeepsSound, EnvironmentKeepsSound
  <2>2. ASSUME NEW d \in Consumers, d # c
        PROVE  /\ pc'[d] = pc[d] /\ running'[d] = running[d]
               /\ queue'[d] = queue[d] /\ frame'[d] = frame[d]
               /\ sent'[d] = sent[d] /\ last'[d] = last[d]
               /\ stopAt'[d] = stopAt[d]
    BY <1>1, <1>4, <2>2
       DEF ConsumerTypeOK, Environment, Run, Start, Put, Stop, Loop, Get,
           GetTimeout, Drain, DrainEnd, Check, ProcessFrame, GoTo, TakeHead
  <2> QED
    BY <1>2, <2>1, <2>2, OthersStaySound
<1>5. \A c \in Consumers : Sound(c)'
  BY <1>3, <1>4 DEF ConsumerNext
<1> QED
  BY <1>1, <1>5, InvIsSoundNext

(* ConsumerInv is an invariant, whatever puts and stops interleave with    *)
(* the threads.                                                            *)
THEOREM ConsumerInvariance == ConsumerSpec => []ConsumerInv
<1>1. ConsumerInit => ConsumerInv
  BY EmptySeq
     DEF ConsumerInit, ConsumerInv, ConsumerTypeOK, PcValues, NewestIsKept,
         NothingNewAfterStop, InHand, Newest, NoFrame, Increasing, AllAbove,
         NoneAbove
<1> QED
  BY <1>1, InvStep, PTL DEF ConsumerSpec

(* No frame put is lost in run() or in the queue but for a newer one.      *)
THEOREM NewestKept == ConsumerSpec => []NewestIsKept
BY ConsumerInvariance, PTL DEF ConsumerInv

(* A consumer told to stop hands over nothing that was put after that.     *)
THEOREM NothingAfterStop == ConsumerSpec => []NothingNewAfterStop
BY ConsumerInvariance, PTL DEF ConsumerInv

(* What process_frame() is given is newer than what it was given before.   *)
THEOREM NeverGoesBackwards == ConsumerSpec => NeverBackwards
<1>1. ASSUME ConsumerInv, [ConsumerNext]_consumerVars
      PROVE  [\A c \in Consumers :
                pc[c] = "process" /\ pc'[c] # "process"
                  => last'[c] > last[c]]_consumerVars
  <2> SUFFICES ASSUME ConsumerNext, NEW c \in Consumers,
                      pc[c] = "process", pc'[c] # "process"
               PROVE  last'[c] > last[c]
    BY <1>1
  <2>1. ConsumerTypeOK /\ Sound(c)
    BY <1>1, InvIsSound DEF ConsumerInv
  <2>2. ProcessFrame(c)
    BY <2>1 DEF ConsumerNext, Environment, Run, Start, Put, Stop, Loop, Get,
                GetTimeout, Drain, DrainEnd, Check, ProcessFrame, GoTo,
                TakeHead, ConsumerTypeOK
  <2>3. last'[c] = frame[c]
    BY <2>1, <2>2 DEF ProcessFrame, ConsumerTypeOK
  <2> QED
    BY <2>1, <2>3, NumbersAreNaturals DEF Sound, InHand
<1> QED
  BY <1>1, ConsumerInvariance, PTL DEF ConsumerSpec, NeverBackwards
-----------------------------------------------------------------------------
(* The refinement of LatestFrame.                                          *)

(* A step that moves c's thread changes the status of c alone.             *)
LEMMA StatusOfOne ==
  ASSUME NEW c \in Consumers, NEW s,
         \A d \in Consumers \ {c} : pc'[d] = pc[d] /\ running'[d] = running[d],
         Status(c)' = s
  PROVE  [d \in Consumers |-> Status(d)]'
           = [[d \in Consumers |-> Status(d)] EXCEPT ![c] = s]
<1>1. \A d \in Consumers \ {c} : Status(d)' = Status(d)
  BY DEF Status, Finished
<1> QED
  BY <1>1

(* A call of start(), put() or set_running(False) opens, publishes or      *)
(* closes the mailbox, or changes nothing of it.                           *)
LEMMA EnvironmentMaps ==
  ASSUME ConsumerInv, NEW c \in Consumers, Environment(c)
  PROVE  [Mailbox!AbsNext]_(Mailbox!absVars)
<1> DEFINE status == [d \in Consumers |-> Status(d)]
<1>1. ConsumerTypeOK /\ Sound(c)
  BY InvIsSound DEF ConsumerInv
<1>2. /\ frame[c] \in Nat /\ sent[c] \in Nat /\ last[c] \in Nat
      /\ stopAt[c] \in Nat /\ running[c] \in BOOLEAN
  BY <1>1, NumbersAreNaturals
<1>3. CASE Start(c)
  <2>1. status' = [status EXCEPT ![c] = "open"]
    <3>1. \A d \in Consumers \ {c} : pc'[d] = pc[d] /\ running'[d] = running[d]
      BY <1>1, <1>3 DEF Start, ConsumerTypeOK
    <3>2. Status(c)' = "open"
      BY <1>1, <1>3 DEF Start, ConsumerTypeOK, Status, Finished
    <3> QED
      BY <3>1, <3>2, StatusOfOne
  <2>2. status[c] = "idle"
    BY <1>3 DEF Start, Status
  <2>3. UNCHANGED <<sent, last, stopAt>>
    BY <1>3 DEF Start
  <2>4. Mailbox!Open(c)
    BY <2>1, <2>2, <2>3 DEF Mailbox!Open
  <2> QED
    BY <2>4 DEF Mailbox!AbsNext
<1>4. ASSUME NEW f \in Frames, f > sent[c], Put(c, f)
      PROVE  Mailbox!AbsNext
  <2>1. status' = status
    BY <1>4 DEF Put, Status, Finished
  <2>2. f \in (sent[c] + 1) .. MaxFrames
    BY <1>2, <1>4, MaxFramesAssumption DEF Frames
  <2>3. status[c] # "idle"
    BY <1>4 DEF Put, Status, Finished
  <2>4. sent' = [sent EXCEPT ![c] = f] /\ UNCHANGED <<last, stopAt>>
    BY <1>4 DEF Put
  <2>5. Mailbox!Publish(c)
    BY <2>1, <2>2, <2>3, <2>4 DEF Mailbox!Publish
  <2> QED
    BY <2>5 DEF Mailbox!AbsNext
<1>5. CASE Stop(c) /\ running[c]
  <2>1. /\ \A d \in Consumers \ {c} :
             pc'[d] = pc[d] /\ running'[d] = running[d]
        /\ pc'[c] = pc[c] /\ pc[c] # "new" /\ ~running'[c]
    BY <1>1, <1>5 DEF Stop, ConsumerTypeOK
  <2>2. PICK next \in {"closing", "closed"} :
          Status(c)' = next /\ (Finished(c) => next = "closed")
    BY <2>1 DEF Status, Finished
  <2>3. status' = [status EXCEPT ![c] = next]
    BY <2>1, <2>2, StatusOfOne
  <2>4. /\ status[c] \in {"open", "closed"}
        /\ status[c] = "closed" => Finished(c)
    BY <1>5, <2>1 DEF Status
  <2>5. stopAt' = [stopAt EXCEPT ![c] = sent[c]] /\ UNCHANGED <<sent, last>>
    BY <1>5 DEF Stop
  <2>6. Mailbox!Close(c)
    BY <2>2, <2>3, <2>4, <2>5 DEF Mailbox!Close
  <2> QED
    BY <2>6 DEF Mailbox!AbsNext
<1>6. CASE Stop(c) /\ ~running[c]
  <2>1. UNCHANGED <<pc, running, sent, last, stopAt>>
    BY <1>1, <1>6 DEF Stop, ConsumerTypeOK
  <2>2. status' = status
    BY <2>1 DEF Status, Finished
  <2> QED
    BY <2>1, <2>2 DEF Mailbox!absVars
<1> QED
  BY <1>3, <1>4, <1>5, <1>6 DEF Environment

(* A step of run() hands a frame over, or changes nothing of the mailbox.  *)
LEMMA RunMaps ==
  ASSUME ConsumerInv, NEW c \in Consumers, Run(c)
  PROVE  [Mailbox!AbsNext]_(Mailbox!absVars)
<1> DEFINE status == [d \in Consumers |-> Status(d)]
<1>1. ConsumerTypeOK /\ Sound(c)
  BY InvIsSound DEF ConsumerInv
<1>2. /\ frame[c] \in Nat /\ sent[c] \in Nat /\ last[c] \in Nat
      /\ stopAt[c] \in Nat /\ running[c] \in BOOLEAN
  BY <1>1, NumbersAreNaturals
<1>3. CASE ProcessFrame(c)
  <2>1. /\ \A d \in Consumers \ {c} :
             pc'[d] = pc[d] /\ running'[d] = running[d]
        /\ pc[c] = "process" /\ pc'[c] \in {"loop", "dead"}
        /\ running'[c] = running[c]
        /\ last' = [last EXCEPT ![c] = frame[c]]
        /\ UNCHANGED <<sent, stopAt>>
    BY <1>1, <1>3 DEF ProcessFrame, GoTo, ConsumerTypeOK
  <2>2. frame[c] > last[c] /\ frame[c] <= sent[c]
    BY <1>1, <1>2, <2>1 DEF Sound, InHand
  <2>3. CASE running[c]
    <3>1. PICK next \in {"open", "closed"} : Status(c)' = next
      BY <2>1, <2>3 DEF Status, Finished
    <3>2. status' = [status EXCEPT ![c] = next]
      BY <2>1, <3>1, StatusOfOne
    <3>3. status[c] = "open"
      BY <2>1, <2>3 DEF Status, Finished
    <3>4. frame[c] \in (last[c] + 1) .. sent[c]
      BY <1>2, <2>2
    <3>5. Mailbox!Deliver(c)
      BY <2>1, <3>2, <3>3, <3>4 DEF Mailbox!Deliver
    <3> QED
      BY <3>5 DEF Mailbox!AbsNext
  <2>4. CASE ~running[c]
    <3>1. Status(c)' = "closed"
      BY <2>1, <2>4 DEF Status, Finished
    <3>2. status' = [status EXCEPT ![c] = "closed"]
      BY <2>1, <3>1, StatusOfOne
    <3>3. status[c] = "closing"
      BY <2>1, <2>4 DEF Status, Finished
    <3>4. frame[c] \in (last[c] + 1) .. stopAt[c]
      BY <1>1, <1>2, <2>1, <2>2, <2>4 DEF Sound
    <3>5. Mailbox!DeliverLate(c)
      BY <2>1, <3>2, <3>3, <3>4 DEF Mailbox!DeliverLate
    <3> QED
      BY <3>5 DEF Mailbox!AbsNext
  <2> QED
    BY <2>3, <2>4
<1>4. ASSUME ~ProcessFrame(c)
      PROVE  UNCHANGED Mailbox!absVars
  <2>1. /\ UNCHANGED <<running, sent, last, stopAt>>
        /\ \A d \in Consumers \ {c} : pc'[d] = pc[d]
    BY <1>1, <1>4
       DEF Run, Loop, Get, GetTimeout, Drain, DrainEnd, Check, GoTo, TakeHead,
           ConsumerTypeOK
  <2>2. /\ pc[c] \notin {"new", "process", "done", "dead"}
        /\ pc'[c] \notin {"new", "dead"}
        /\ running[c] => pc'[c] # "done"
        /\ ~running[c] => pc'[c] # "process"
    BY <1>1, <1>4
       DEF Run, Loop, Get, GetTimeout, Drain, DrainEnd, Check, GoTo, TakeHead,
           ConsumerTypeOK
  <2>3. \A d \in Consumers : Status(d)' = Status(d)
    BY <2>1, <2>2 DEF Status, Finished
  <2>4. status' = status
    BY <2>3
  <2> QED
    BY <2>1, <2>4 DEF Mailbox!absVars
<1> QED
  BY <1>3, <1>4

(* run(), its queue and its flag implement the mailbox of LatestFrame.     *)
THEOREM ConsumerImplementsMailbox == ConsumerSpec => MailboxSpec
<1>1. ConsumerInit => Mailbox!AbsInit
  BY DEF ConsumerInit, Mailbox!AbsInit, Status, NoFrame
<1>2. ASSUME ConsumerInv, [ConsumerNext]_consumerVars
      PROVE  [Mailbox!AbsNext]_(Mailbox!absVars)
  <2>1. CASE UNCHANGED consumerVars
    BY <2>1 DEF consumerVars, Mailbox!absVars, Status, Finished
  <2>2. CASE ConsumerNext
    BY <1>2, <2>2, RunMaps, EnvironmentMaps DEF ConsumerNext
  <2> QED
    BY <1>2, <2>1, <2>2
<1> QED
  BY <1>1, <1>2, ConsumerInvariance, PTL
     DEF ConsumerSpec, MailboxSpec, Mailbox!AbsSpec

(***************************************************************************)
(* FieldServer.                                                            *)
(***************************************************************************)
(* What the pool's operations do to its list, for lists of any length.     *)

(* A set of naturals that is not empty has a least element.                *)
LEMMA LeastNatural ==
  ASSUME NEW I, I \subseteq Nat, I # {}
  PROVE  \E i \in I : \A j \in I : i <= j
<1>1. PICK i \in I : \A j \in I : <<j, i>> \notin OpToRel(<, Nat)
  BY WFMin, NatLessThanWellFounded
<1>2. \A j \in I : ~ (j < i)
  BY <1>1 DEF OpToRel
<1> QED
  BY <1>2

(* RemoveAt() leaves the elements before the place as they are, and moves  *)
(* those after it down by one.                                             *)
LEMMA RemoveAtProperties ==
  ASSUME NEW S, NEW q \in Seq(S), NEW k \in 1 .. Len(q)
  PROVE  /\ RemoveAt(q, k) \in Seq(S)
         /\ Len(RemoveAt(q, k)) = Len(q) - 1
         /\ \A i \in 1 .. Len(q) - 1 :
              RemoveAt(q, k)[i] = IF i < k THEN q[i] ELSE q[i + 1]
<1> DEFINE before == SubSeq(q, 1, k - 1)
           after == SubSeq(q, k + 1, Len(q))
<1>1. Len(q) \in Nat /\ \A i \in 1 .. Len(q) : q[i] \in S
  BY LenProperties, ElementOfSeq
<1>2. /\ before \in Seq(S)
      /\ Len(before) = k - 1
      /\ \A i \in 1 .. k - 1 : before[i] = q[i]
  <2>1. \A i \in 1 .. k - 1 : q[i] \in S
    BY <1>1
  <2>2. /\ before \in Seq(S)
        /\ Len(before) = IF 1 <= k - 1 THEN (k - 1) - 1 + 1 ELSE 0
        /\ \A i \in 1 .. (k - 1) - 1 + 1 : before[i] = q[1 + i - 1]
    BY <1>1, <2>1, SubSeqProperties
  <2> HIDE DEF before
  <2> QED
    BY <1>1, <2>2
<1>3. /\ after \in Seq(S)
      /\ Len(after) = Len(q) - k
      /\ \A i \in 1 .. Len(q) - k : after[i] = q[k + i]
  <2>1. \A i \in k + 1 .. Len(q) : q[i] \in S
    BY <1>1
  <2>2. /\ after \in Seq(S)
        /\ Len(after) = IF k + 1 <= Len(q) THEN Len(q) - (k + 1) + 1 ELSE 0
        /\ \A i \in 1 .. Len(q) - (k + 1) + 1 : after[i] = q[k + 1 + i - 1]
    BY <1>1, <2>1, SubSeqProperties
  <2> HIDE DEF after
  <2>3. Len(after) = Len(q) - k
    BY <1>1, <2>2
  <2>4. \A i \in 1 .. Len(q) - k : k + 1 + i - 1 = k + i
    BY <1>1
  <2>5. Len(q) - (k + 1) + 1 = Len(q) - k
    BY <1>1
  <2> QED
    BY <2>2, <2>3, <2>4, <2>5
<1> HIDE DEF before, after
<1>4. /\ before \o after \in Seq(S)
      /\ Len(before \o after) = Len(before) + Len(after)
      /\ \A i \in 1 .. Len(before) + Len(after) :
           (before \o after)[i] =
             IF i <= Len(before) THEN before[i] ELSE after[i - Len(before)]
  BY <1>2, <1>3, ConcatProperties
<1>5. RemoveAt(q, k) = before \o after
  BY DEF RemoveAt, before, after
<1>6. ASSUME NEW i \in 1 .. Len(q) - 1
      PROVE  (before \o after)[i] = IF i < k THEN q[i] ELSE q[i + 1]
  <2>1. CASE i < k
    BY <1>1, <1>2, <1>3, <1>4, <2>1
  <2>2. CASE ~ (i < k)
    <3>1. (before \o after)[i] = after[i - (k - 1)]
      BY <1>1, <1>2, <1>3, <1>4, <2>2
    <3>2. i - (k - 1) \in 1 .. Len(q) - k /\ k + (i - (k - 1)) = i + 1
      BY <1>1, <2>2
    <3> QED
      BY <1>3, <2>2, <3>1, <3>2
  <2> QED
    BY <2>1, <2>2
<1>7. Len(before) + Len(after) = Len(q) - 1
  BY <1>1, <1>2, <1>3
<1> QED
  BY <1>4, <1>5, <1>6, <1>7

(* list.remove(e): the other elements stay, once each if they were so.     *)
LEMMA RemoveFirstProperties ==
  ASSUME NEW S, NEW q \in Seq(S), NEW e
  PROVE  /\ RemoveFirst(q, e) \in Seq(S)
         /\ Range(RemoveFirst(q, e)) \subseteq Range(q)
         /\ \A x \in Range(q) : x # e => x \in Range(RemoveFirst(q, e))
         /\ IsInjective(q) => IsInjective(RemoveFirst(q, e))
<1> DEFINE r == RemoveFirst(q, e)
           I == {i \in 1 .. Len(q) : q[i] = e}
<1>1. Len(q) \in Nat /\ DOMAIN q = 1 .. Len(q)
  BY LenProperties
<1>2. CASE I = {}
  BY <1>2 DEF RemoveFirst
<1>3. CASE I # {}
  <2> DEFINE k == SelectInSeq(q, LAMBDA v : v = e)
  <2>1. k = Min(I)
    BY <1>3 DEF SelectInSeq
  <2>2. Min(I) \in I
    <3>1. I \subseteq Nat
      BY <1>1
    <3> HIDE DEF I
    <3> QED
      BY <1>3, <3>1, LeastNatural DEF Min
  <2>3. k \in 1 .. Len(q) /\ q[k] = e
    BY <2>1, <2>2
  <2>4. r = RemoveAt(q, k)
    BY <1>3 DEF RemoveFirst
  <2> HIDE DEF k, r
  <2>5. /\ r \in Seq(S)
        /\ Len(r) = Len(q) - 1
        /\ \A i \in 1 .. Len(q) - 1 : r[i] = IF i < k THEN q[i] ELSE q[i + 1]
    BY <2>3, <2>4, RemoveAtProperties
  <2>6. DOMAIN r = 1 .. Len(q) - 1
    BY <2>5, LenProperties
  <2>7. Range(r) \subseteq Range(q)
    BY <1>1, <2>5, <2>6, SMTT(30) DEF Range
  <2>8. ASSUME NEW x \in Range(q), x # e
        PROVE  x \in Range(r)
    <3>1. PICK j \in 1 .. Len(q) : q[j] = x
      BY <1>1 DEF Range
    <3>2. CASE j < k
      BY <1>1, <2>3, <2>5, <2>6, <3>1, <3>2, SMTT(30) DEF Range
    <3>3. CASE j > k
      <4>1. j - 1 \in 1 .. Len(q) - 1 /\ ~ (j - 1 < k) /\ j - 1 + 1 = j
        BY <1>1, <2>3, <3>3
      <4>2. r[j - 1] = x
        BY <2>5, <3>1, <4>1
      <4> QED
        BY <2>6, <4>1, <4>2 DEF Range
    <3> QED
      BY <1>1, <2>3, <2>8, <3>1, <3>2, <3>3
  <2>9. ASSUME IsInjective(q)
        PROVE  IsInjective(r)
    <3> DEFINE was(i) == IF i < k THEN i ELSE i + 1
    <3>1. \A i \in 1 .. Len(q) - 1 : was(i) \in 1 .. Len(q) /\ r[i] = q[was(i)]
      BY <1>1, <2>3, <2>5
    <3>2. \A i, j \in 1 .. Len(q) - 1 : was(i) = was(j) => i = j
      BY <1>1, <2>3
    <3>3. \A i, j \in 1 .. Len(q) : q[i] = q[j] => i = j
      BY <1>1, <2>9 DEF IsInjective
    <3> HIDE DEF was
    <3> QED
      BY <2>6, <3>1, <3>2, <3>3 DEF IsInjective
  <2> QED
    BY <2>5, <2>7, <2>8, <2>9 DEF r
<1> QED
  BY <1>2, <1>3

(* list.append(e): one more element, once each if e is a new one.          *)
LEMMA AppendedRange ==
  ASSUME NEW S, NEW q \in Seq(S), NEW e \in S
  PROVE  /\ Append(q, e) \in Seq(S)
         /\ Range(Append(q, e)) = Range(q) \union {e}
         /\ IsInjective(q) /\ e \notin Range(q) => IsInjective(Append(q, e))
<1> DEFINE r == Append(q, e)
<1>1. /\ Len(q) \in Nat /\ DOMAIN q = 1 .. Len(q)
      /\ r \in Seq(S) /\ Len(r) = Len(q) + 1 /\ DOMAIN r = 1 .. Len(q) + 1
      /\ \A i \in 1 .. Len(q) : r[i] = q[i]
      /\ r[Len(q) + 1] = e
  BY AppendProperties, LenProperties
<1> HIDE DEF r
<1>2. Range(r) = Range(q) \union {e}
  BY <1>1 DEF Range
<1>3. IsInjective(q) /\ e \notin Range(q) => IsInjective(r)
  BY <1>1 DEF Range, IsInjective
<1> QED
  BY <1>1, <1>2, <1>3 DEF r
-----------------------------------------------------------------------------
(* The steps of the server.                                                *)

(* No step leaves the pool's lock held but in a method of the pool, or by  *)
(* an exception.                                                           *)
LEMMA LockStep ==
  ASSUME LockIsHeldOrLeaked, interrupts \in Nat, [ServerNext]_serverVars
  PROVE  LockIsHeldOrLeaked' /\ interrupts' \in Nat
<1> DEFINE Inv == LockIsHeldOrLeaked /\ interrupts \in Nat
<1>1. Inv
  OBVIOUS
<1>2. Inv'
  <2> USE DEF LockIsHeldOrLeaked
  <2>1. CASE UNCHANGED serverVars
    BY <1>1, <2>1 DEF serverVars, poolVars, watcherVars, mainVars
  <2>2. CASE PutBegin \/ StopBegin \/ JoinBegin
    BY <1>1, <2>2 DEF PutBegin, StopBegin, JoinBegin, BeginForEach, MainGoTo,
                      watcherVars
  <2>3. CASE PutOne \/ StopOne \/ JoinOne
    BY <1>1, <2>3 DEF PutOne, StopOne, JoinOne, AdvanceForEach, MainGoTo,
                      watcherVars
  <2>4. CASE PutEnd \/ StopEnd \/ JoinEnd
    BY <1>1, <2>4 DEF PutEnd, StopEnd, JoinEnd, EndForEach, MainGoTo,
                      watcherVars
  <2>5. CASE StartNotifier
    BY <1>1, <2>5 DEF StartNotifier, MainGoTo, WatcherGoTo, poolVars
  <2>6. CASE StartDebug \/ Receive \/ ReceiveGarbage
    BY <1>1, <2>6 DEF StartDebug, Receive, ReceiveGarbage, MainGoTo, poolVars,
                      watcherVars
  <2>7. CASE Interrupt
    BY <1>1, <2>7 DEF Interrupt, poolVars, watcherVars
  <2>8. CASE Directory /\ UNCHANGED mainVars
    BY <1>1, <2>8 DEF Directory, CreateFile, DeleteFile, RenameTo, RenameFrom,
                      DirectoryOp, poolVars, mainVars
  <2>9. ASSUME NEW c \in Consumers, Thread(c)
        PROVE  Inv'
    BY <1>1, <2>9 DEF Thread, poolVars, watcherVars, mainVars
  <2>10. CASE WatcherThread
    <3>1. UNCHANGED <<mpc, interrupts>>
      BY <2>10 DEF WatcherThread, mainVars
    <3>2. CASE RemoveFromPool
      BY <1>1, <3>1, <3>2 DEF RemoveFromPool, RemoveConsumer, WatcherGoTo
    <3>3. CASE AddToPool
      BY <1>1, <3>1, <3>3 DEF AddToPool, AddConsumer, WatcherGoTo
    <3>4. CASE HandleCreate \/ StartConsumer \/ OpenPortFails \/ HandleDelete
                 \/ IgnoreEvent \/ JoinRemoved
      <4>1. poolLock' = poolLock
        BY <3>4 DEF HandleCreate, StartConsumer, OpenPortFails, HandleDelete,
                    IgnoreEvent, JoinRemoved, poolVars
      <4>2. wpc = "dead" => FALSE
        BY <3>4 DEF HandleCreate, StartConsumer, OpenPortFails, HandleDelete,
                    IgnoreEvent, JoinRemoved, WatcherGoTo
      <4> QED
        BY <1>1, <3>1, <4>1, <4>2
    <3> QED
      BY <2>10, <3>2, <3>3, <3>4 DEF WatcherThread, Watcher
  <2> QED
    BY <1>1, <2>1, <2>2, <2>3, <2>4, <2>5, <2>6, <2>7, <2>8, <2>9, <2>10
       DEF ServerNext, Main, External
<1> QED
  BY <1>2

(* The pool's lock is only ever held by a thread in a method of the pool,  *)
(* or leaked by an exception.                                              *)
THEOREM LockDiscipline == ServerSpec => []LockIsHeldOrLeaked
<1> DEFINE Inv == LockIsHeldOrLeaked /\ interrupts \in Nat
<1>1. ServerInit => Inv
  BY DEF ServerInit, PoolInit, WatcherInit, LockIsHeldOrLeaked
<1>2. Inv /\ [ServerNext]_serverVars => Inv'
  BY LockStep
<1> QED
  BY <1>1, <1>2, PTL DEF ServerSpec
-----------------------------------------------------------------------------
(* The consumers under the server's calls.                                 *)

(* What a call or a step of a consumer may do to its flag, to the frames   *)
(* it was given and to its thread.                                         *)
LEMMA CallEffects ==
  ASSUME ConsumerTypeOK, NEW c \in Consumers, Call(c), NEW d \in Consumers
  PROVE  /\ pc[d] # "new" => pc'[d] # "new"
         /\ Finished(d) => Finished(d)'
         /\ Start(c) \/ Stop(c) \/ Run(c) => sent' = sent
         /\ ~Start(c) => (running'[d] => running[d]) /\
                         (pc'[d] = "new" => pc[d] = "new")
<1>1. CASE Start(c)
  BY <1>1 DEF Start, Stop, Run, ConsumerTypeOK, Finished
<1>2. CASE Stop(c)
  BY <1>2 DEF Stop, ConsumerTypeOK, Finished
<1>3. CASE \E f \in Frames : Put(c, f)
  BY <1>3 DEF Put, Start, Stop, Run, Loop, Get, GetTimeout, Drain, DrainEnd,
              Check, ProcessFrame, GoTo, TakeHead, ConsumerTypeOK, Finished
<1>4. CASE Run(c)
  BY <1>4 DEF Run, Loop, Get, GetTimeout, Drain, DrainEnd, Check,
              ProcessFrame, GoTo, TakeHead, ConsumerTypeOK, Finished
<1> QED
  BY <1>1, <1>2, <1>3, <1>4 DEF Call

(* The consumer that a walk over the pool has reached.                     *)
LEMMA VisitedIsConsumer ==
  ASSUME ServerTypeOK, NEW t, InForEach(t)
  PROVE  Visited \in Consumers /\ InPool(Visited)
<1>1. consumers \in Seq(Consumers) /\ cursor \in DOMAIN consumers
  BY DEF ServerTypeOK, InForEach
<1> QED
  BY <1>1, ElementOfSeq, LenProperties DEF Visited, InPool, Range

(* The consumer that a DELETE event is about.                              *)
LEMMA HandledIsBluetooth ==
  ASSUME ServerTypeOK, HandleDelete
  PROVE  wcon' \in Bluetooth /\ Stop(wcon')
<1>1. events \in Seq([kind : {"create", "delete"}, path : Paths])
        /\ events # <<>>
  BY DEF ServerTypeOK, HandleDelete, NextEvent
<1>2. Head(events) \in [kind : {"create", "delete"}, path : Paths]
  BY <1>1, HeadTailProperties
<1>3. Head(events).path \in Paths
  BY <1>2
<1> QED
  BY <1>3 DEF HandleDelete, ServerTypeOK

(* A step of the server is a call or a step of one consumer, or none; a    *)
(* frame put is newer than what the consumer was given before.             *)
LEMMA CallOfAStep ==
  ASSUME ServerInv, ServerNext
  PROVE  \/ UNCHANGED consumerVars
         \/ StartDebug /\ Start(Debug)
         \/ WatcherThread /\ StartConsumer /\ wcon \in Consumers /\ Start(wcon)
         \/ PutOne /\ Visited \in Consumers /\ received \in Frames
              /\ received > sent[Visited] /\ Put(Visited, received)
         \/ \E c \in Consumers : Stop(c) \/ Run(c)
<1>1. Bluetooth \subseteq Consumers
  BY ConsumersAssumption
<1>2. CASE StartDebug
  BY <1>2 DEF StartDebug
<1>3. CASE PutOne
  <2>1. Visited \in Consumers /\ Put(Visited, received)
    BY <1>3, VisitedIsConsumer DEF PutOne, ServerInv
  <2>2. sent[Visited] < received
    <3>1. cursor \in DOMAIN consumers /\ mpc = "putting"
      BY <1>3 DEF PutOne, InForEach, MainGoTo
    <3>2. cursor \in Nat
      BY DEF ServerInv, ServerTypeOK
    <3> QED
      BY <3>1, <3>2 DEF ServerInv, WalkInv, Visited
  <2>3. received \in Nat /\ received <= MaxFrames
    BY MaxFramesAssumption DEF ServerInv, ServerTypeOK
  <2>4. sent[Visited] \in Nat
    BY <2>1, NumbersAreNaturals DEF ServerInv, ServerTypeOK
  <2>5. received \in Frames /\ received > sent[Visited]
    BY <2>2, <2>3, <2>4, MaxFramesAssumption DEF Frames
  <2> QED
    BY <1>3, <2>1, <2>5
<1>4. CASE StopOne
  BY <1>4, VisitedIsConsumer DEF StopOne, ServerInv
<1>5. CASE WatcherThread
  <2>1. CASE StartConsumer
    <3>1. wcon \in Consumers
      BY <1>1, <2>1 DEF StartConsumer, WatcherGoTo, ServerInv, PoolInv
    <3> QED
      BY <1>5, <2>1, <3>1 DEF StartConsumer
  <2>2. CASE HandleDelete
    <3>1. wcon' \in Consumers /\ Stop(wcon')
      BY <1>1, <2>2, HandledIsBluetooth DEF ServerInv
    <3> QED
      BY <3>1
  <2>3. CASE HandleCreate \/ OpenPortFails \/ AddToPool \/ IgnoreEvent
               \/ RemoveFromPool \/ JoinRemoved
    BY <2>3 DEF HandleCreate, OpenPortFails, AddToPool, IgnoreEvent,
                RemoveFromPool, JoinRemoved
  <2> QED
    BY <1>5, <2>1, <2>2, <2>3 DEF WatcherThread, Watcher
<1>6. ASSUME NEW c \in Consumers, Thread(c)
      PROVE  \E d \in Consumers : Run(d)
  BY <1>6 DEF Thread
<1>7. CASE StartNotifier \/ PutBegin \/ PutEnd \/ StopBegin \/ StopEnd
             \/ JoinBegin \/ JoinOne \/ JoinEnd \/ External
  BY <1>7 DEF StartNotifier, PutBegin, PutEnd, StopBegin, StopEnd, JoinBegin,
              JoinOne, JoinEnd, External, Receive, ReceiveGarbage, Interrupt,
              Directory
<1> QED
  BY <1>2, <1>3, <1>4, <1>5, <1>6, <1>7 DEF ServerNext, Main

(* What the server does to its consumers is what FieldUpdateConsumer lets  *)
(* their environment do.                                                   *)
LEMMA ServerStepOnConsumers ==
  ASSUME ServerInv, [ServerNext]_serverVars
  PROVE  [ConsumerNext]_consumerVars
<1>1. CASE ServerNext
  <2>1. Debug \in Consumers
    BY ServerAssumption
  <2> QED
    BY <1>1, <2>1, CallOfAStep DEF ConsumerNext, Environment
<1>2. CASE UNCHANGED serverVars
  BY <1>2 DEF serverVars, consumerVars
<1> QED
  BY <1>1, <1>2
-----------------------------------------------------------------------------
(* Who changes what.                                                       *)

(* Main, the consumers and the environment leave the pool's list, the      *)
(* dictionary and the handler's local alone.                               *)
LEMMA OthersLeaveWatcher ==
  ASSUME Main \/ External \/ \E c \in Consumers : Thread(c)
  PROVE  /\ consumers' = consumers
         /\ wcon' = wcon
         /\ blueConsumers' = blueConsumers
         /\ wpc' = wpc \/ (wpc = "new" /\ wpc' = "idle")
<1>1. CASE StartNotifier
  BY <1>1 DEF StartNotifier, WatcherGoTo, poolVars
<1>2. CASE StartDebug \/ PutBegin \/ PutOne \/ PutEnd \/ StopBegin \/ StopOne
             \/ StopEnd \/ JoinBegin \/ JoinOne \/ JoinEnd
  BY <1>2 DEF StartDebug, PutBegin, PutOne, PutEnd, StopBegin, StopOne, StopEnd,
              JoinBegin, JoinOne, JoinEnd, BeginForEach, AdvanceForEach,
              EndForEach, poolVars, watcherVars
<1>3. CASE Receive \/ ReceiveGarbage \/ Interrupt
  BY <1>3 DEF Receive, ReceiveGarbage, Interrupt, poolVars, watcherVars
<1>4. CASE Directory
  BY <1>4 DEF Directory, CreateFile, DeleteFile, RenameTo, RenameFrom,
              DirectoryOp, poolVars
<1>5. CASE \E c \in Consumers : Thread(c)
  BY <1>5 DEF Thread, poolVars, watcherVars
<1> QED
  BY <1>1, <1>2, <1>3, <1>4, <1>5 DEF Main, External

(* The watcher leaves main's variables and the walk's cursor alone.        *)
LEMMA WatcherLeavesMain ==
  ASSUME WatcherThread
  PROVE  /\ UNCHANGED <<mpc, received, interrupts, cursor>>
         /\ consumers' = consumers \/ AddToPool \/ RemoveFromPool
BY DEF WatcherThread, Watcher, HandleCreate, StartConsumer, OpenPortFails,
       AddToPool, AddConsumer, HandleDelete, IgnoreEvent, RemoveFromPool,
       RemoveConsumer, JoinRemoved, poolVars, mainVars

(* No thread is started twice or leaves its end; frames are put only by    *)
(* ConsumerPool.put(), and only two steps set a consumer's flag.           *)
LEMMA StepEffects ==
  ASSUME ServerInv, ServerNext
  PROVE  /\ \A d \in Consumers : /\ pc[d] # "new" => pc'[d] # "new"
                                 /\ Finished(d) => Finished(d)'
         /\ PutOne \/ sent' = sent
         /\ \/ StartDebug
            \/ WatcherThread /\ StartConsumer
            \/ \A d \in Consumers : running'[d] => running[d]
<1>0. ConsumerTypeOK /\ Debug \in Consumers
  BY ServerAssumption DEF ServerInv, ServerTypeOK
<1>1. CASE UNCHANGED consumerVars
  BY <1>1 DEF consumerVars, Finished
<1>2. CASE StartDebug /\ Start(Debug)
  BY <1>0, <1>2, CallEffects DEF Call
<1>3. CASE WatcherThread /\ StartConsumer /\ wcon \in Consumers /\ Start(wcon)
  BY <1>0, <1>3, CallEffects DEF Call
<1>4. CASE PutOne /\ Visited \in Consumers /\ received \in Frames
             /\ Put(Visited, received)
  <2>1. Call(Visited)
    BY <1>4 DEF Call
  <2>2. running' = running
    BY <1>4 DEF Put
  <2> QED
    BY <1>0, <1>4, <2>1, <2>2, CallEffects
<1>5. ASSUME NEW c \in Consumers, Stop(c) \/ Run(c)
      PROVE  /\ \A d \in Consumers : /\ pc[d] # "new" => pc'[d] # "new"
                                     /\ Finished(d) => Finished(d)'
             /\ sent' = sent
             /\ \A d \in Consumers : running'[d] => running[d]
  <2>1. Call(c)
    BY <1>5 DEF Call
  <2>2. \A d \in Consumers : running'[d] => running[d]
    BY <1>0, <1>5 DEF Stop, Run, Loop, Get, GetTimeout, Drain, DrainEnd, Check,
                      ProcessFrame, TakeHead, ConsumerTypeOK
  <2> QED
    BY <1>0, <1>5, <2>1, <2>2, CallEffects
<1> QED
  BY <1>1, <1>2, <1>3, <1>4, <1>5, CallOfAStep
-----------------------------------------------------------------------------
(* The parts of ServerInv.                                                 *)

(* A step of the watcher keeps the types of its variables and of the list. *)
LEMMA WatcherTypes ==
  ASSUME ServerInv, WatcherThread
  PROVE  /\ consumers' \in Seq(Consumers)
         /\ poolLock' \in {"free", "main", "watcher"}
         /\ files' \subseteq Paths /\ devOps' = devOps
         /\ events' \in Seq([kind : {"create", "delete"}, path : Paths])
         /\ blueConsumers' \in [Paths -> Bluetooth \union {NoConsumer}]
         /\ wpc' \in WatcherPcs
         /\ wcon' \in Bluetooth \union {NoConsumer}
<1> DEFINE E == [kind : {"create", "delete"}, path : Paths]
<1>1. /\ consumers \in Seq(Consumers)
      /\ poolLock \in {"free", "main", "watcher"}
      /\ files \subseteq Paths
      /\ events \in Seq(E)
      /\ blueConsumers \in [Paths -> Bluetooth \union {NoConsumer}]
      /\ wpc \in WatcherPcs
      /\ wcon \in Bluetooth \union {NoConsumer}
  BY DEF ServerInv, ServerTypeOK
<1>2. Bluetooth \subseteq Consumers
  BY ConsumersAssumption
<1>3. ASSUME events # <<>>
      PROVE  Head(events) \in E /\ Tail(events) \in Seq(E)
  BY <1>1, <1>3, HeadTailProperties
<1> HIDE DEF E
<1>4. \A e \in E : e.path \in Paths
  BY DEF E
<1> USE DEF WatcherGoTo, WatcherPcs, NextEvent
<1>5. CASE HandleCreate
  <2>1. wcon' \in Bluetooth
    BY <1>5 DEF HandleCreate, Unused
  <2> QED
    BY <1>1, <1>3, <1>4, <1>5, <2>1 DEF HandleCreate, poolVars, E
<1>6. CASE StartConsumer
  <2>1. DevFile(wcon) \in Paths
    BY <1>6 DEF StartConsumer, DevFile, ServerInv, PoolInv
  <2>2. Event("create", DevFile(wcon)) \in E
    BY <2>1 DEF Event, E
  <2>3. files' \subseteq Paths
    BY <1>1, <1>6, <2>1 DEF StartConsumer
  <2>4. events' \in Seq(E)
    <3>1. Append(events, Event("create", DevFile(wcon))) \in Seq(E)
      BY <1>1, <2>2, AppendProperties
    <3>2. \/ events' = events
          \/ events' = Append(events, Event("create", DevFile(wcon)))
      BY <1>6 DEF StartConsumer, Notify
    <3> QED
      BY <1>1, <3>1, <3>2
  <2> QED
    BY <1>1, <1>6, <2>3, <2>4 DEF StartConsumer, poolVars, E
<1>7. CASE OpenPortFails
  BY <1>1, <1>7 DEF OpenPortFails, poolVars, E
<1>8. CASE AddToPool
  <2>1. wcon \in Consumers
    BY <1>2, <1>8 DEF AddToPool, ServerInv, PoolInv
  <2>2. Append(consumers, wcon) \in Seq(Consumers)
    BY <1>1, <2>1, AppendProperties
  <2> QED
    BY <1>1, <1>8, <2>2 DEF AddToPool, AddConsumer, E
<1>9. CASE HandleDelete
  <2>1. wcon' \in Bluetooth
    BY <1>9, HandledIsBluetooth DEF ServerInv
  <2> QED
    BY <1>1, <1>3, <1>9, <2>1 DEF HandleDelete, poolVars, E
<1>10. CASE IgnoreEvent
  <2>1. events # <<>> /\ events' = Tail(events)
    BY <1>10 DEF IgnoreEvent
  <2> QED
    BY <1>1, <1>3, <1>10, <2>1 DEF IgnoreEvent, poolVars, E
<1>11. CASE RemoveFromPool
  <2>1. RemoveFirst(consumers, wcon) \in Seq(Consumers)
    BY <1>1, RemoveFirstProperties
  <2> QED
    BY <1>1, <1>11, <2>1 DEF RemoveFromPool, RemoveConsumer, E
<1>12. CASE JoinRemoved
  BY <1>1, <1>12 DEF JoinRemoved, poolVars, E
<1> QED
  BY <1>5, <1>6, <1>7, <1>8, <1>9, <1>10, <1>11, <1>12
     DEF WatcherThread, Watcher, E

(* Every step keeps the types.                                             *)
LEMMA TypesStep ==
  ASSUME ServerInv, ServerNext
  PROVE  ServerTypeOK'
<1>1. ConsumerTypeOK'
  BY ServerStepOnConsumers, TypingStep DEF ServerInv, ServerTypeOK
<1>2. CASE WatcherThread
  BY <1>1, <1>2, WatcherTypes, WatcherLeavesMain
     DEF ServerInv, ServerTypeOK
<1>3. CASE Directory /\ UNCHANGED mainVars
  <2> DEFINE E == [kind : {"create", "delete"}, path : Paths]
  <2>1. events' \in Seq(E)
    <3>1. PICK p \in Paths :
            \/ Notify(Event("create", p)) \/ Notify(Event("delete", p))
            \/ UNCHANGED events
      BY <1>3 DEF Directory, CreateFile, DeleteFile, RenameTo, RenameFrom
    <3>2. Event("create", p) \in E /\ Event("delete", p) \in E
      BY DEF Event
    <3>3. events \in Seq(E)
      BY DEF ServerInv, ServerTypeOK
    <3> HIDE DEF E
    <3> QED
      BY <3>1, <3>2, <3>3, AppendProperties DEF Notify
  <2>2. devOps' \in 0 .. MaxDevOps /\ files' \subseteq Paths
    <3>1. PICK p \in Paths, appears \in BOOLEAN : DirectoryOp(p, appears)
      BY <1>3 DEF Directory, CreateFile, DeleteFile, RenameTo, RenameFrom
    <3>2. devOps \in 0 .. MaxDevOps /\ files \subseteq Paths
      BY DEF ServerInv, ServerTypeOK
    <3>3. devOps' \in 0 .. MaxDevOps
      BY <3>1, <3>2, WatcherAssumption DEF DirectoryOp
    <3>4. files' \subseteq Paths
      BY <3>1, <3>2 DEF DirectoryOp
    <3> QED
      BY <3>3, <3>4
  <2>3. UNCHANGED <<blueConsumers, wpc, wcon, consumers, poolLock, cursor, mpc,
                    received, interrupts>>
    BY <1>3 DEF Directory, CreateFile, DeleteFile, RenameTo, RenameFrom,
                DirectoryOp, poolVars, mainVars
  <2> QED
    BY <1>1, <2>1, <2>2, <2>3 DEF ServerInv, ServerTypeOK
<1>4. CASE \E c \in Consumers : Thread(c)
  BY <1>1, <1>4 DEF Thread, poolVars, watcherVars, mainVars, ServerInv,
                    ServerTypeOK
<1>5. CASE Receive \/ ReceiveGarbage \/ Interrupt
  BY <1>1, <1>5, MaxFramesAssumption, ServerAssumption
     DEF Receive, ReceiveGarbage, Interrupt, MainGoTo, MainPcs, poolVars,
         watcherVars, ServerInv, ServerTypeOK
<1>6. CASE StartNotifier
  BY <1>1, <1>6 DEF StartNotifier, MainGoTo, WatcherGoTo, MainPcs, WatcherPcs,
                    poolVars, ServerInv, ServerTypeOK
<1>7. CASE StartDebug \/ PutBegin \/ PutOne \/ PutEnd \/ StopBegin \/ StopOne
             \/ StopEnd \/ JoinBegin \/ JoinOne \/ JoinEnd
  <2>1. UNCHANGED <<watcherVars, received, interrupts, consumers>>
    BY <1>7 DEF StartDebug, PutBegin, PutOne, PutEnd, StopBegin, StopOne,
                StopEnd, JoinBegin, JoinOne, JoinEnd, MainGoTo, BeginForEach,
                AdvanceForEach, EndForEach, poolVars
  <2>2. /\ mpc' \in MainPcs
        /\ poolLock' \in {"free", "main", "watcher"}
        /\ cursor' \in Nat
    BY <1>7 DEF StartDebug, PutBegin, PutOne, PutEnd, StopBegin, StopOne,
                StopEnd, JoinBegin, JoinOne, JoinEnd, MainGoTo, BeginForEach,
                AdvanceForEach, EndForEach, poolVars, MainPcs, ServerInv,
                ServerTypeOK
  <2> QED
    BY <1>1, <2>1, <2>2 DEF watcherVars, ServerInv, ServerTypeOK
<1> QED
  BY <1>2, <1>3, <1>4, <1>5, <1>6, <1>7 DEF ServerNext, Main, External

(* Every consumer that runs stays reachable: in the pool, or about to be   *)
(* added to it by the watcher.                                             *)
LEMMA ReachableStep ==
  ASSUME ServerInv, ServerNext
  PROVE  RunningIsReachable'
<1>1. /\ RunningIsReachable
      /\ ConsumerTypeOK /\ consumers \in Seq(Consumers)
      /\ InPool(Debug) /\ Debug \in Consumers
      /\ Bluetooth \subseteq Consumers
  BY ServerAssumption, ConsumersAssumption
     DEF ServerInv, ServerTypeOK, PoolInv
<1> USE DEF RunningIsReachable, InPool
<1>2. CASE StartDebug
  <2>1. running' = [running EXCEPT ![Debug] = TRUE]
    BY <1>2 DEF StartDebug, Start
  <2>2. UNCHANGED <<consumers, wpc, wcon>>
    BY <1>2 DEF StartDebug, poolVars, watcherVars
  <2> QED
    BY <1>1, <2>1, <2>2 DEF ConsumerTypeOK
<1>3. CASE WatcherThread /\ StartConsumer
  <2>1. /\ running' = [running EXCEPT ![wcon] = TRUE]
        /\ wpc = "start" /\ wpc' = "add"
        /\ UNCHANGED <<consumers, wcon>>
    BY <1>3 DEF StartConsumer, WatcherGoTo, Start, poolVars
  <2> QED
    BY <1>1, <2>1 DEF ConsumerTypeOK
<1>4. CASE WatcherThread /\ AddToPool
  <2>1. wpc = "add" /\ UNCHANGED running /\ wcon \in Consumers
    BY <1>1, <1>4
       DEF AddToPool, WatcherGoTo, consumerVars, ServerInv, PoolInv
  <2>2. consumers' = Append(consumers, wcon)
    BY <1>4 DEF AddToPool, AddConsumer
  <2>3. Range(consumers') = Range(consumers) \union {wcon}
    BY <1>1, <2>1, <2>2, AppendedRange
  <2> QED
    BY <1>1, <2>1, <2>3
<1>5. CASE WatcherThread /\ RemoveFromPool
  <2>1. /\ wpc = "remove" /\ UNCHANGED running /\ ~running[wcon]
        /\ consumers' = RemoveFirst(consumers, wcon)
    BY <1>5 DEF RemoveFromPool, RemoveConsumer, WatcherGoTo, consumerVars,
                ServerInv, PoolInv
  <2>2. \A x \in Range(consumers) : x # wcon => x \in Range(consumers')
    BY <1>1, <2>1, RemoveFirstProperties
  <2> QED
    BY <1>1, <2>1, <2>2
<1>6. CASE WatcherThread /\ ~StartConsumer /\ ~AddToPool /\ ~RemoveFromPool
  <2>1. \A d \in Consumers : running'[d] => running[d]
    BY <1>6, StepEffects, WatcherLeavesMain
       DEF StartDebug, MainGoTo
  <2>2. wpc # "add" /\ consumers' = consumers
    BY <1>6 DEF WatcherThread, Watcher, HandleCreate, OpenPortFails,
       HandleDelete, IgnoreEvent, JoinRemoved, WatcherGoTo, poolVars
  <2> QED
    BY <1>1, <2>1, <2>2
<1>7. CASE ~WatcherThread /\ ~StartDebug
  <2>1. \A d \in Consumers : running'[d] => running[d]
    BY <1>7, StepEffects
  <2>2. consumers' = consumers /\ wcon' = wcon /\ (wpc = "add" => wpc' = "add")
    BY <1>7, OthersLeaveWatcher DEF ServerNext
  <2> QED
    BY <1>1, <2>1, <2>2
<1> QED
  BY <1>2, <1>3, <1>4, <1>5, <1>6, <1>7

(* The pool's list, the dictionary and the watcher's local stay in step.   *)
LEMMA PoolStep ==
  ASSUME ServerInv, ServerNext
  PROVE  PoolInv'
<1>1. /\ PoolInv
      /\ ConsumerTypeOK /\ consumers \in Seq(Consumers)
      /\ blueConsumers \in [Paths -> Bluetooth \union {NoConsumer}]
      /\ Debug \in Consumers /\ Debug \notin Bluetooth
      /\ Bluetooth \subseteq Consumers
      /\ \A c \in Range(consumers) : c \in Consumers
  BY ServerAssumption, ConsumersAssumption, RangeOfSeq
     DEF ServerInv, ServerTypeOK
<1>2. \A d \in Consumers : pc'[d] = "new" => pc[d] = "new"
  BY StepEffects
<1> USE DEF PoolInv, InPool
<1>3. CASE StartDebug
  <2>1. /\ running' = [running EXCEPT ![Debug] = TRUE]
        /\ pc' = [pc EXCEPT ![Debug] = "loop"]
    BY <1>3 DEF StartDebug, Start
  <2>2. UNCHANGED <<consumers, wpc, wcon, blueConsumers>>
    BY <1>3 DEF StartDebug, poolVars, watcherVars
  <2> QED
    BY <1>1, <2>1, <2>2 DEF ConsumerTypeOK
<1>4. CASE WatcherThread /\ HandleCreate
  <2>1. /\ wpc' = "start" /\ wcon' \in Unused
        /\ Head(events).path \in Paths
        /\ blueConsumers' = [blueConsumers EXCEPT ![Head(events).path] = wcon']
        /\ UNCHANGED <<pc, running, consumers>>
    BY <1>4, WatcherAssumption
       DEF HandleCreate, WatcherGoTo, consumerVars, poolVars
  <2>2. wcon' \in Bluetooth /\ pc[wcon'] = "new"
    BY <2>1 DEF Unused
  <2>3. blueConsumers'[Head(events).path] = wcon'
    BY <1>1, <2>1
  <2> QED
    BY <1>1, <2>1, <2>2, <2>3
<1>5. CASE WatcherThread /\ StartConsumer
  <2>1. /\ running' = [running EXCEPT ![wcon] = TRUE]
        /\ pc' = [pc EXCEPT ![wcon] = "loop"]
        /\ wpc = "start" /\ wpc' = "add"
        /\ UNCHANGED <<consumers, wcon>>
    BY <1>5 DEF StartConsumer, WatcherGoTo, Start, poolVars
  <2> QED
    BY <1>1, <2>1 DEF ConsumerTypeOK
<1>6. CASE WatcherThread /\ AddToPool
  <2>1. /\ wpc = "add" /\ wpc' = "idle"
        /\ consumers' = Append(consumers, wcon)
        /\ UNCHANGED <<pc, running>>
    BY <1>6 DEF AddToPool, AddConsumer, WatcherGoTo, consumerVars
  <2>2. wcon \in Consumers /\ wcon \notin Range(consumers) /\ pc[wcon] # "new"
    BY <1>1, <2>1
  <2>3. /\ Range(consumers') = Range(consumers) \union {wcon}
        /\ IsInjective(consumers')
    BY <1>1, <2>1, <2>2, AppendedRange
  <2> QED
    BY <1>1, <2>1, <2>2, <2>3
<1>7. CASE WatcherThread /\ RemoveFromPool
  <2>1. /\ wpc = "remove" /\ wpc' \in {"join", "dead"}
        /\ consumers' = RemoveFirst(consumers, wcon)
        /\ UNCHANGED <<pc, running, wcon>>
    BY <1>7 DEF RemoveFromPool, RemoveConsumer, WatcherGoTo, consumerVars
  <2>2. /\ Range(consumers') \subseteq Range(consumers)
        /\ \A x \in Range(consumers) : x # wcon => x \in Range(consumers')
        /\ IsInjective(consumers')
    BY <1>1, <2>1, RemoveFirstProperties
  <2>3. wcon \in Bluetooth
    BY <2>1, <1>1
  <2> QED
    BY <1>1, <2>1, <2>2, <2>3
<1>8. CASE WatcherThread /\ HandleDelete
  <2>1. wcon' \in Bluetooth /\ Stop(wcon')
    BY <1>8, HandledIsBluetooth DEF ServerInv
  <2>2. /\ running' = [running EXCEPT ![wcon'] = FALSE]
        /\ UNCHANGED pc
    BY <2>1 DEF Stop
  <2>3. wpc' = "remove" /\ UNCHANGED consumers
    BY <1>8 DEF HandleDelete, WatcherGoTo, poolVars
  <2> QED
    BY <1>1, <2>1, <2>2, <2>3 DEF ConsumerTypeOK
<1>9. CASE WatcherThread /\ (OpenPortFails \/ IgnoreEvent \/ JoinRemoved)
  <2>1. /\ wpc' \in {"idle", "dead"}
        /\ UNCHANGED <<consumers, pc, running>>
    BY <1>9 DEF OpenPortFails, IgnoreEvent, JoinRemoved, WatcherGoTo,
                consumerVars, poolVars
  <2> QED
    BY <1>1, <2>1
<1>10. CASE ~WatcherThread /\ ~StartDebug
  <2>1. \A d \in Consumers : running'[d] => running[d]
    BY <1>10, StepEffects
  <2>2. /\ UNCHANGED <<consumers, wcon, blueConsumers>>
        /\ wpc' = wpc \/ wpc' = "idle"
    BY <1>10, OthersLeaveWatcher DEF ServerNext
  <2> QED
    BY <1>1, <1>2, <2>1, <2>2
<1> QED
  BY <1>3, <1>4, <1>5, <1>6, <1>7, <1>8, <1>9, <1>10
     DEF WatcherThread, Watcher

(* A walk over the pool keeps its account of the consumers passed: the     *)
(* list does not change under it, because the lock is held.                *)
LEMMA WalkStep ==
  ASSUME ServerInv, ServerNext
  PROVE  WalkInv'
<1>1. /\ WalkInv
      /\ cursor \in Nat /\ received \in Nat
      /\ sent \in [Consumers -> Frames \union {NoFrame}]
      /\ \A d \in Consumers : sent[d] \in Nat
      /\ consumers \in Seq(Consumers) /\ IsInjective(consumers)
      /\ \A i \in DOMAIN consumers : consumers[i] \in Consumers
      /\ DOMAIN consumers \subseteq Nat
  <2>1. ConsumerTypeOK /\ consumers \in Seq(Consumers)
    BY DEF ServerInv, ServerTypeOK
  <2>2. /\ DOMAIN consumers \subseteq Nat
        /\ \A i \in DOMAIN consumers : consumers[i] \in Consumers
    BY <2>1, LenProperties, ElementOfSeq
  <2>3. \A d \in Consumers : sent[d] \in Nat
    BY <2>1, NumbersAreNaturals
  <2> QED
    BY <2>1, <2>2, <2>3, MaxFramesAssumption
       DEF ServerInv, ServerTypeOK, ConsumerTypeOK, PoolInv
<1>2. \A d \in Consumers : Finished(d) => Finished(d)'
  BY StepEffects
<1> USE DEF WalkInv
<1>3. CASE PutOne
  <2>1. /\ mpc = "putting" /\ mpc' = "putting"
        /\ cursor \in DOMAIN consumers /\ Visited = consumers[cursor]
        /\ sent' = [sent EXCEPT ![Visited] = received]
        /\ cursor' = cursor + 1
        /\ UNCHANGED <<received, consumers>>
    BY <1>3 DEF PutOne, MainGoTo, InForEach, Visited, Put, AdvanceForEach
  <2>2. /\ sent'[consumers[cursor]] = received
        /\ \A d \in Consumers : d # consumers[cursor] => sent'[d] = sent[d]
    BY <1>1, <2>1
  <2>3. \A i \in DOMAIN consumers :
          i # cursor => sent'[consumers[i]] = sent[consumers[i]]
    BY <1>1, <2>1, <2>2 DEF IsInjective
  <2>4. \A i \in DOMAIN consumers :
          (i < cursor + 1 <=> i < cursor \/ i = cursor)
          /\ (i >= cursor + 1 <=> i >= cursor /\ i # cursor)
    BY <1>1
  <2>5. \A d \in Consumers : sent'[d] <= received
    BY <1>1, <2>2
  <2> QED
    BY <1>1, <2>1, <2>2, <2>3, <2>4, <2>5
<1>4. CASE PutBegin
  BY <1>1, <1>4 DEF PutBegin, MainGoTo, BeginForEach, consumerVars
<1>5. CASE JoinBegin
  BY <1>1, <1>5 DEF JoinBegin, MainGoTo, BeginForEach, consumerVars
<1>6. CASE JoinOne
  <2>1. /\ mpc = "joining" /\ mpc' = "joining"
        /\ cursor' = cursor + 1
        /\ Finished(consumers[cursor])
        /\ UNCHANGED <<received, consumers, sent, pc>>
    BY <1>6 DEF JoinOne, MainGoTo, Visited, AdvanceForEach, consumerVars
  <2>2. \A i \in DOMAIN consumers : i < cursor + 1 => i < cursor \/ i = cursor
    BY <1>1
  <2> QED
    BY <1>1, <2>1, <2>2 DEF Finished
<1>7. CASE Receive
  <2>1. mpc' = "put" /\ received' = received + 1 /\ sent' = sent
    BY <1>7 DEF Receive, MainGoTo, consumerVars
  <2> QED
    BY <1>1, <2>1
<1>8. CASE StartNotifier \/ StartDebug \/ PutEnd \/ StopBegin \/ StopOne
             \/ StopEnd \/ JoinEnd \/ ReceiveGarbage \/ Interrupt
  <2>1. mpc' \notin {"put", "putting", "joining"} /\ received' = received
    BY <1>8 DEF StartNotifier, StartDebug, PutEnd, StopBegin, StopOne, StopEnd,
                JoinEnd, ReceiveGarbage, Interrupt, MainGoTo
  <2>2. sent' = sent
    BY <1>8 DEF StartNotifier, StartDebug, PutEnd, StopBegin, StopOne, StopEnd,
                JoinEnd, ReceiveGarbage, Interrupt, Start, Stop, consumerVars
  <2> QED
    BY <1>1, <2>1, <2>2
<1>9. CASE WatcherThread \/ (Directory /\ UNCHANGED mainVars)
             \/ \E c \in Consumers : Thread(c)
  <2>1. UNCHANGED <<mpc, received, cursor>>
    BY <1>9, WatcherLeavesMain DEF Directory, Thread, mainVars, poolVars
  <2>2. sent' = sent
    BY <1>9 DEF WatcherThread, Watcher, HandleCreate, StartConsumer,
       OpenPortFails, AddToPool, HandleDelete, Stop, IgnoreEvent,
       RemoveFromPool, JoinRemoved, Start, Directory, consumerVars, Thread,
       Run, Loop, Get, GetTimeout, Drain, DrainEnd, Check, ProcessFrame
  <2>3. mpc \in {"putting", "joining"} => consumers' = consumers
    <3>1. mpc \in {"putting", "joining"} => poolLock = "main"
      BY DEF ServerInv, LockIsHeldOrLeaked
    <3>2. AddToPool \/ RemoveFromPool => poolLock = "free"
      BY DEF AddToPool, AddConsumer, RemoveFromPool, RemoveConsumer
    <3>3. AddToPool \/ RemoveFromPool \/ consumers' = consumers
      BY <1>9, WatcherLeavesMain DEF Directory, Thread, poolVars
    <3> QED
      BY <3>1, <3>2, <3>3
  <2> QED
    BY <1>1, <1>2, <2>1, <2>2, <2>3
<1> QED
  BY <1>3, <1>4, <1>5, <1>6, <1>7, <1>8, <1>9 DEF ServerNext, Main, External
-----------------------------------------------------------------------------
(* ServerInv is inductive.                                                 *)
LEMMA ServerStep ==
  ASSUME ServerInv, [ServerNext]_serverVars
  PROVE  ServerInv'
<1>1. CASE ServerNext
  <2>1. LockIsHeldOrLeaked'
    BY <1>1, LockStep DEF ServerInv, ServerTypeOK
  <2> QED
    BY <1>1, <2>1, TypesStep, ReachableStep, PoolStep, WalkStep DEF ServerInv
<1>2. CASE UNCHANGED serverVars
  BY <1>2 DEF serverVars, consumerVars, poolVars, watcherVars, mainVars,
     ServerInv, ServerTypeOK, ConsumerTypeOK, LockIsHeldOrLeaked,
     RunningIsReachable, PoolInv, WalkInv, InPool, Finished
<1> QED
  BY <1>1, <1>2

(* The server starts in it.                                                *)
LEMMA ServerStart == ServerInit => ServerInv
<1> SUFFICES ASSUME ServerInit
             PROVE  ServerInv
  OBVIOUS
<1>1. Debug \in Consumers
  BY ServerAssumption
<1>2. ConsumerTypeOK
  BY DEF ServerInit, ConsumerInit, ConsumerTypeOK, PcValues
<1>3. /\ consumers = <<Debug>> /\ consumers \in Seq(Consumers)
      /\ DOMAIN consumers = {1} /\ Range(consumers) = {Debug}
      /\ IsInjective(consumers)
  BY <1>1 DEF ServerInit, PoolInit, Range, IsInjective
<1>4. ServerTypeOK
  BY <1>2, <1>3, WatcherAssumption, ServerAssumption, MaxFramesAssumption
     DEF ServerInit, PoolInit, WatcherInit, ServerTypeOK, WatcherPcs, MainPcs
<1>5. LockIsHeldOrLeaked
  BY DEF ServerInit, PoolInit, WatcherInit, LockIsHeldOrLeaked
<1>6. RunningIsReachable
  BY DEF ServerInit, ConsumerInit, RunningIsReachable
<1>7. PoolInv
  BY <1>3 DEF ServerInit, ConsumerInit, WatcherInit, PoolInv, InPool
<1>8. WalkInv
  BY DEF ServerInit, ConsumerInit, WalkInv, NoFrame
<1> QED
  BY <1>4, <1>5, <1>6, <1>7, <1>8 DEF ServerInv

(* The inductive invariant of the server holds in every state it reaches,  *)
(* for any consumers, device files and bounds.                             *)
THEOREM ServerInvariance == ServerSpec => []ServerInv
<1>1. ServerInv /\ [ServerNext]_serverVars => ServerInv'
  BY ServerStep
<1> QED
  BY ServerStart, <1>1, PTL DEF ServerSpec

(* No consumer ever runs out of reach of stop_all() and of the watcher.    *)
THEOREM RunningReachable == ServerSpec => []RunningIsReachable
<1>1. ServerInv => RunningIsReachable
  BY DEF ServerInv
<1> QED
  BY <1>1, ServerInvariance, PTL

(* The server uses its consumers as FieldUpdateConsumer says they may be   *)
(* used, so that everything proved of a consumer holds in the server.      *)
THEOREM ServerImplementsConsumers == ServerSpec => ConsumerSpec
<1>1. ServerInit => ConsumerInit
  BY DEF ServerInit
<1>2. ServerInv /\ [ServerNext]_serverVars => [ConsumerNext]_consumerVars
  BY ServerStepOnConsumers
<1> QED
  BY <1>1, <1>2, ServerInvariance, PTL DEF ServerSpec, ConsumerSpec

(* No frame is lost or reordered in the server's consumers, and none is    *)
(* handed over that was put after a consumer was told to stop.             *)
THEOREM ServerConsumersInvariance == ServerSpec => []ConsumerInv
BY ServerImplementsConsumers, ConsumerInvariance

(* ConsumerPool.put() returns having given the frame to every member.      *)
THEOREM PutReachesAll == ServerSpec => PutReachesEveryMember
<1> DEFINE A == mpc = "putting" /\ mpc' = "recv" =>
                  \A c \in Range(consumers) : sent[c] = received
<1>1. ServerInv /\ [ServerNext]_serverVars => [A]_serverVars
  <2> SUFFICES ASSUME ServerInv, [ServerNext]_serverVars,
                      mpc = "putting", mpc' = "recv"
               PROVE  \A c \in Range(consumers) : sent[c] = received
    OBVIOUS
  <2>1. PutEnd
    <3>1. ServerNext
      BY DEF serverVars, mainVars
    <3>2. ~WatcherThread /\ ~ \E c \in Consumers : Thread(c)
      BY DEF WatcherThread, Thread, mainVars
    <3> QED
      BY <3>1, <3>2 DEF ServerNext, Main, External, MainGoTo, StartNotifier,
         StartDebug, Receive, ReceiveGarbage, PutBegin, PutOne, Interrupt,
         StopBegin, StopOne, StopEnd, JoinBegin, JoinOne, JoinEnd, mainVars
  <2>2. cursor > Len(consumers) /\ cursor \in Nat
    BY <2>1 DEF PutEnd, EndForEach, ServerInv, ServerTypeOK
  <2>3. DOMAIN consumers = 1 .. Len(consumers) /\ Len(consumers) \in Nat
    BY LenProperties DEF ServerInv, ServerTypeOK
  <2>4. \A i \in DOMAIN consumers : i < cursor
    BY <2>2, <2>3
  <2> QED
    BY <2>4 DEF ServerInv, WalkInv, Range
<1> QED
  BY <1>1, ServerInvariance, PTL DEF ServerSpec, PutReachesEveryMember

(* ConsumerPool.join_all() returns only when every member has ended.       *)
THEOREM JoinAllWaits == ServerSpec => JoinAllWaitsForAll
<1> DEFINE A == mpc = "joining" /\ mpc' = "exited" =>
                  \A c \in Range(consumers) : Finished(c)
<1>1. ServerInv /\ [ServerNext]_serverVars => [A]_serverVars
  <2> SUFFICES ASSUME ServerInv, [ServerNext]_serverVars,
                      mpc = "joining", mpc' = "exited"
               PROVE  \A c \in Range(consumers) : Finished(c)
    OBVIOUS
  <2>1. JoinEnd
    <3>1. ServerNext
      BY DEF serverVars, mainVars
    <3>2. ~WatcherThread /\ ~ \E c \in Consumers : Thread(c)
      BY DEF WatcherThread, Thread, mainVars
    <3> QED
      BY <3>1, <3>2 DEF ServerNext, Main, External, MainGoTo, StartNotifier,
         StartDebug, Receive, ReceiveGarbage, PutBegin, PutOne, PutEnd,
         Interrupt, StopBegin, StopOne, StopEnd, JoinBegin, JoinOne, mainVars
  <2>2. cursor > Len(consumers) /\ cursor \in Nat
    BY <2>1 DEF JoinEnd, EndForEach, ServerInv, ServerTypeOK
  <2>3. DOMAIN consumers = 1 .. Len(consumers) /\ Len(consumers) \in Nat
    BY LenProperties DEF ServerInv, ServerTypeOK
  <2>4. \A i \in DOMAIN consumers : i < cursor
    BY <2>2, <2>3
  <2> QED
    BY <2>4 DEF ServerInv, WalkInv, Range
<1> QED
  BY <1>1, ServerInvariance, PTL DEF ServerSpec, JoinAllWaitsForAll
=============================================================================
