---------------------------- MODULE FieldServer ----------------------------
(***************************************************************************)
(* The whole process of src/server.py: main(), which receives SSL-Vision   *)
(* packets and puts their detection frames into the pool, together with    *)
(* the consumer threads, the pool and the device watcher's thread.         *)
(*                                                                         *)
(* External: datagrams arrive at any time.  A packet that parses makes a   *)
(* frame, an empty one if it has no detection; a datagram longer than the  *)
(* 1500 bytes asked for is cut and does not parse.                         *)
(* SIGINT raises KeyboardInterrupt in the main thread between any two of   *)
(* its steps (never inside lock.acquire() or join(), which Python 2 does   *)
(* not interrupt: the exception is raised after they return).              *)
(***************************************************************************)
EXTENDS BluetoothDevWatcher

CONSTANTS
  Debug,         (* the DebugConsumer                                      *)
  MaxInterrupts  (* bound: SIGINTs delivered                               *)

ASSUME ServerAssumption ==
  /\ Debug \in Consumers \ Bluetooth
  /\ MaxInterrupts \in Nat

VARIABLES
  mpc,           (* where main() stands                                    *)
  received,      (* history: packets parsed; the n-th one makes frame n    *)
  interrupts     (* SIGINTs so far                                         *)

mainVars == <<mpc, received, interrupts>>
serverVars == <<consumerVars, poolVars, watcherVars, mainVars>>

(* main() up to the notifier: the pool holds the debug consumer, and the   *)
(* watch on the directory is in place before its thread runs.              *)
ServerInit ==
  /\ ConsumerInit
  /\ WatcherInit
  /\ PoolInit(Debug)
  /\ mpc = "notifier"
  /\ received = 0
  /\ interrupts = 0
-----------------------------------------------------------------------------
MainGoTo(from, to) ==
  /\ mpc = from
  /\ mpc' = to
  /\ UNCHANGED interrupts

(* notifier.start()                                                        *)
StartNotifier ==
  /\ MainGoTo("notifier", "debug")
  /\ WatcherGoTo("new", "idle")
  /\ UNCHANGED <<consumerVars, poolVars, received, files, devOps, events,
                 testmode, blueConsumers, wcon>>

(* debug.start()                                                           *)
StartDebug ==
  /\ MainGoTo("debug", "recv")
  /\ Start(Debug)
  /\ UNCHANGED <<poolVars, watcherVars, received>>

(* recvfrom(), ParseFromString(), and wrapper_packet.detection without a   *)
(* look at HasField: a packet without one yields an empty frame.           *)
Receive ==
  /\ MainGoTo("recv", "put")
  /\ received < MaxFrames
  /\ received' = received + 1
  /\ UNCHANGED <<consumerVars, poolVars, watcherVars>>

(* ... raising DecodeError, which only ends the main thread.               *)
ReceiveGarbage ==
  /\ MainGoTo("recv", "dead")
  /\ UNCHANGED <<consumerVars, poolVars, watcherVars, received>>

(* pool.put(frame)                                                         *)
PutBegin ==
  /\ MainGoTo("put", "putting")
  /\ BeginForEach("main")
  /\ UNCHANGED <<consumerVars, watcherVars, received>>

PutOne ==
  /\ MainGoTo("putting", "putting")
  /\ InForEach("main")
  /\ Put(Visited, received)
  /\ AdvanceForEach
  /\ UNCHANGED <<watcherVars, received>>

PutEndRetries ==                  \* mutant: the frame is put once more
  /\ MainGoTo("putting", "put")
  /\ EndForEach("main")
  /\ UNCHANGED <<consumerVars, watcherVars, received>>

PutEnd ==
  /\ MainGoTo("putting", "recv")
  /\ EndForEach("main")
  /\ UNCHANGED <<consumerVars, watcherVars, received>>

(* The try statement covers the receive loop only.  Nothing else catches   *)
(* KeyboardInterrupt, and no lock is released on the way.                  *)
Interrupt ==
  /\ interrupts < MaxInterrupts
  /\ interrupts' = interrupts + 1
  /\ mpc \notin {"exited", "dead"}
  /\ mpc' = IF mpc \in {"recv", "put", "putting"} THEN "stop" ELSE "dead"
  /\ UNCHANGED <<consumerVars, poolVars, watcherVars, received>>

(* pool.stop_all()                                                         *)
StopBegin ==
  /\ MainGoTo("stop", "stopping")
  /\ BeginForEach("main")
  /\ UNCHANGED <<consumerVars, watcherVars, received>>

StopOne ==
  /\ MainGoTo("stopping", "stopping")
  /\ InForEach("main")
  /\ Stop(Visited)
  /\ AdvanceForEach
  /\ UNCHANGED <<watcherVars, received>>

StopEnd ==
  /\ MainGoTo("stopping", "join")
  /\ EndForEach("main")
  /\ UNCHANGED <<consumerVars, watcherVars, received>>

(* pool.join_all()                                                         *)
JoinBegin ==
  /\ MainGoTo("join", "joining")
  /\ BeginForEach("main")
  /\ UNCHANGED <<consumerVars, watcherVars, received>>

JoinWithoutWaiting ==             \* mutant: join(timeout) that gives up
  /\ MainGoTo("joining", "joining")
  /\ InForEach("main")
  /\ AdvanceForEach
  /\ UNCHANGED <<consumerVars, watcherVars, received>>

JoinOne ==
  /\ MainGoTo("joining", "joining")
  /\ InForEach("main")
  /\ Finished(Visited)
  /\ AdvanceForEach
  /\ UNCHANGED <<consumerVars, watcherVars, received>>

(* main() returns; the notifier, which nobody stops, keeps the process up. *)
JoinEnd ==
  /\ MainGoTo("joining", "exited")
  /\ EndForEach("main")
  /\ UNCHANGED <<consumerVars, watcherVars, received>>

(* The steps of main that wait for nothing outside the process.            *)
Main ==
  \/ StartNotifier
  \/ StartDebug
  \/ PutBegin
  \/ PutOne
  \/ PutEnd
  \/ StopBegin
  \/ StopOne
  \/ StopEnd
  \/ JoinBegin
  \/ JoinOne
  \/ JoinEnd

Thread(c) ==
  /\ Run(c)
  /\ UNCHANGED <<poolVars, watcherVars, mainVars>>

WatcherThread == Watcher /\ UNCHANGED mainVars

External ==
  \/ Receive
  \/ ReceiveGarbage
  \/ Interrupt
  \/ Directory /\ UNCHANGED mainVars

ServerNext ==
  \/ Main
  \/ WatcherThread
  \/ \E c \in Consumers : Thread(c)
  \/ External

ServerSpec == ServerInit /\ [][ServerNext]_serverVars

(* Every thread runs when it can: these are operating-system threads, and  *)
(* get() waits 0.1 s at most.  Packets and signals need not come.          *)
ServerFairness ==
  /\ WF_serverVars(Main)
  /\ WF_serverVars(WatcherThread)
  /\ \A c \in Consumers : WF_serverVars(Thread(c))

FairServerSpec == ServerSpec /\ ServerFairness
-----------------------------------------------------------------------------
MainPcs ==
  {"notifier", "debug", "recv", "put", "putting", "stop", "stopping", "join",
   "joining", "exited", "dead"}

WatcherPcs == {"new", "idle", "start", "add", "remove", "join", "dead"}

(* Every variable has its type.                                            *)
ServerTypeOK ==
  /\ ConsumerTypeOK
  /\ consumers \in Seq(Consumers)
  /\ poolLock \in {"free", "main", "watcher"}
  /\ cursor \in Nat
  /\ files \subseteq Paths
  /\ devOps \in 0 .. MaxDevOps
  /\ events \in Seq([kind : {"create", "delete"}, path : Paths])
  /\ blueConsumers \in [Paths -> Bluetooth \union {NoConsumer}]
  /\ wpc \in WatcherPcs
  /\ wcon \in Bluetooth \union {NoConsumer}
  /\ mpc \in MainPcs
  /\ received \in 0 .. MaxFrames
  /\ interrupts \in 0 .. MaxInterrupts

(* The pool's lock is held by a thread inside a method of the pool, or was *)
(* left behind by an exception: a KeyboardInterrupt in main, a ValueError  *)
(* that ended the watcher.                                                 *)
LockIsHeldOrLeaked ==
  /\ mpc \in {"putting", "stopping", "joining"} => poolLock = "main"
  /\ poolLock = "main" =>
       \/ mpc \in {"putting", "stopping", "joining"}
       \/ mpc \in {"stop", "dead"} /\ interrupts > 0
  /\ poolLock = "watcher" => wpc = "dead"

(* A consumer that runs is in the pool, where stop_all() finds it, or in   *)
(* the hands of the watcher, between its start() and add_consumer().       *)
RunningIsReachable ==
  \A c \in Consumers :
    running[c] => InPool(c) \/ (wpc = "add" /\ wcon = c)

(* The pool holds a consumer once, and only the debug consumer before it   *)
(* is started; what the watcher is about to add is not in it yet, and what *)
(* it is about to remove was told to stop.                                 *)
PoolInv ==
  /\ IsInjective(consumers)
  /\ InPool(Debug)
  /\ \A c \in Range(consumers) : c = Debug \/ pc[c] # "new"
  /\ \A c \in Consumers : pc[c] = "new" => ~running[c]
  /\ wpc \in {"start", "add", "remove", "join"} => wcon \in Bluetooth
  /\ wpc \in {"start", "add"} => ~InPool(wcon)
  /\ wpc = "start" => \E p \in Paths : blueConsumers[p] = wcon
  /\ wpc = "add" => pc[wcon] # "new"
  /\ wpc = "remove" => ~running[wcon]

(* How far a walk over the pool has come: the frame being put, which is    *)
(* new to every consumer, to those before the cursor and none after it;    *)
(* the joins to consumers that have ended.                                 *)
WalkInv ==
  /\ \A c \in Consumers : sent[c] <= received
  /\ mpc = "put" => \A c \in Consumers : sent[c] < received
  /\ mpc = "putting" =>
       \A i \in DOMAIN consumers :
         /\ i < cursor => sent[consumers[i]] = received
         /\ i >= cursor => sent[consumers[i]] < received
  /\ mpc = "joining" =>
       \A i \in DOMAIN consumers : i < cursor => Finished(consumers[i])

(* The types, the two invariants above and these two are inductive         *)
(* together.                                                               *)
ServerInv ==
  /\ ServerTypeOK
  /\ LockIsHeldOrLeaked
  /\ RunningIsReachable
  /\ PoolInv
  /\ WalkInv

(* When ConsumerPool.put() returns, whatever was added, removed or stopped *)
(* meanwhile, every consumer in the pool has been given the frame.         *)
PutReachesEveryMember ==
  [][mpc = "putting" /\ mpc' = "recv" =>
       \A c \in Range(consumers) : sent[c] = received]_serverVars

(* When join_all() returns, every consumer in the pool has ended, for      *)
(* whichever reason, including one the watcher added after stop_all().     *)
JoinAllWaitsForAll ==
  [][mpc = "joining" /\ mpc' = "exited" =>
       \A c \in Range(consumers) : Finished(c)]_serverVars

(* The join() of process_IN_DELETE returns: the consumer was told to stop  *)
(* before.                                                                 *)
WatcherJoinReturns == wpc = "join" ~> wpc # "join"

(* A packet received reaches the debug consumer, or a newer one does,      *)
(* unless the user ends the server or the watcher died holding the lock.   *)
DebugSeesEveryPacket ==
  \A n \in Frames :
    received >= n
      ~> last[Debug] >= n \/ interrupts > 0 \/ poolLock = "watcher"

(* After a SIGINT in the receive loop stop_all() returns, unless main was  *)
(* interrupted with the lock held or the watcher left it held; then main() *)
(* exits, unless the pool holds a consumer that was added after stop_all(),*)
(* the watcher left the lock held, or the user interrupts again.           *)
ShutdownCompletes ==
  /\ mpc = "stop"
       ~> \/ mpc \in {"join", "dead"}
          \/ poolLock = "watcher"
          \/ mpc = "stop" /\ poolLock = "main"
  /\ mpc = "join"
       ~> \/ mpc \in {"exited", "dead"}
          \/ poolLock = "watcher"
          \/ \E c \in Range(consumers) : running[c]

(* Nobody waits for a thread that never ends, but for the ways named.      *)
ThreadsAreJoined == WatcherJoinReturns /\ ShutdownCompletes

(* The server goes on serving, and comes to its end when it is told to.    *)
ServerMovesOn == ThreadsAreJoined /\ DebugSeesEveryPacket
-----------------------------------------------------------------------------
(* What the comments say and the code does not keep to.                    *)

(* process_IN_DELETE finds the currently created consumer of the device    *)
(* and shuts it down if needed: it is one that the pool still has.         *)
FindsCurrentConsumer == wpc = "remove" => InPool(wcon)
=============================================================================
