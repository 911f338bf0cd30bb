------------------------ MODULE BluetoothDevWatcher ------------------------
(***************************************************************************)
(* class BluetoothDevWatcher of src/server.py, run by the thread of a      *)
(* pyinotify.ThreadedNotifier, and the device directory it watches.        *)
(*                                                                         *)
(* External: files come and go by creation and deletion, which the watch   *)
(* mask (IN_DELETE | IN_CREATE) reports, and by rename, which it does not. *)
(* inotify may merge an event with an identical one before it.  An         *)
(* exception that leaves a handler ends the notifier's thread.             *)
(***************************************************************************)
EXTENDS ConsumerPool

CONSTANTS
  Paths,         (* paths in the watched directory                         *)
  Prefixed,      (* those that start with the device prefix                *)
  Present,       (* the paths that exist when the server starts            *)
  Testmodes,     (* what may be asked for on the command line: TRUE is -t  *)
  MaxDevOps      (* bound: operations on the directory                     *)

ASSUME WatcherAssumption ==
  /\ Prefixed \subseteq Paths
  /\ Present \subseteq Paths
  /\ Testmodes \subseteq BOOLEAN
  /\ MaxDevOps \in Nat

VARIABLES
  files,         (* the paths that exist                                   *)
  devOps,        (* operations on the directory so far                     *)
  events,        (* inotify events not yet handled                         *)
  testmode,      (* self._testmode: the -t option                          *)
  blueConsumers, (* self._blueConsumers, NoConsumer where there is no key  *)
  wpc,           (* where the notifier thread stands                       *)
  wcon           (* the local blue_con of the handler                      *)

watcherVars == <<files, devOps, events, testmode, blueConsumers, wpc, wcon>>

NoConsumer == "no consumer"

Event(kind, p) == [kind |-> kind, path |-> p]

WatcherInit ==
  /\ files = Present
  /\ devOps = 0
  /\ events = <<>>
  /\ testmode \in Testmodes
  /\ blueConsumers = [p \in Paths |-> NoConsumer]
  /\ wpc = "new"
  /\ wcon = NoConsumer
-----------------------------------------------------------------------------
(* The device directory.                                                   *)

Notify(e) ==
  \/ events' = Append(events, e)
  \/ /\ events # <<>>
     /\ Last(events) = e
     /\ events' = events

DirectoryOp(p, appears) ==
  /\ devOps < MaxDevOps
  /\ devOps' = devOps + 1
  /\ (p \in files) # appears
  /\ files' = IF appears THEN files \union {p} ELSE files \ {p}
  /\ UNCHANGED <<blueConsumers, wpc, wcon>>

CreateFile(p) == DirectoryOp(p, TRUE) /\ Notify(Event("create", p))
DeleteFile(p) == DirectoryOp(p, FALSE) /\ Notify(Event("delete", p))
RenameTo(p) == DirectoryOp(p, TRUE) /\ UNCHANGED events
RenameFrom(p) == DirectoryOp(p, FALSE) /\ UNCHANGED events

Directory ==
  /\ \E p \in Paths :
       CreateFile(p) \/ DeleteFile(p) \/ RenameTo(p) \/ RenameFrom(p)
  /\ UNCHANGED <<consumerVars, poolVars, testmode>>
-----------------------------------------------------------------------------
(* The notifier thread.                                                    *)

WatcherGoTo(from, to) == wpc = from /\ wpc' = to

NextEvent(kind) ==
  /\ events # <<>>
  /\ Head(events).kind = kind
  /\ events' = Tail(events)

Unused == {c \in Bluetooth : pc[c] = "new" /\ c \notin Range(blueConsumers)}

(* process_IN_CREATE: full_path.startswith(prefix), blue_con =             *)
(* BluetoothConsumer() (an object not used before), and its entry in the   *)
(* dictionary, over whatever was there.                                    *)
HandleCreate ==
  /\ WatcherGoTo("idle", "start")
  /\ NextEvent("create")
  /\ Head(events).path \in Prefixed
  /\ Unused # {}
  /\ wcon' = CHOOSE c \in Unused : TRUE
  /\ blueConsumers' = [blueConsumers EXCEPT ![Head(events).path] = wcon']
  /\ UNCHANGED <<consumerVars, poolVars, files, devOps>>

(* full_path of the handler: the path it entered the consumer for.         *)
DevFile(c) == CHOOSE p \in Paths : blueConsumers[p] = c

(* blue_con.start(full_path, testmode).  In test mode open(devfile, 'w'),  *)
(* which creates the file if it is gone, and then the consumer's start().  *)
StartConsumer ==
  /\ testmode
  /\ WatcherGoTo("start", "add")
  /\ Start(wcon)
  /\ IF DevFile(wcon) \in files
     THEN UNCHANGED <<files, events>>
     ELSE /\ files' = files \union {DevFile(wcon)}
          /\ Notify(Event("create", DevFile(wcon)))
  /\ UNCHANGED <<poolVars, devOps, blueConsumers, wcon>>

(* Otherwise self._open_port(devfile): the method has no self parameter,   *)
(* and the call raises TypeError.                                          *)
OpenPortFails ==
  /\ ~testmode
  /\ WatcherGoTo("start", "dead")
  /\ wcon' = NoConsumer
  /\ UNCHANGED <<consumerVars, poolVars, files, devOps, events, blueConsumers>>

(* self._pool.add_consumer(blue_con)                                       *)
AddToPool ==
  /\ WatcherGoTo("add", "idle")
  /\ AddConsumer(wcon)
  /\ wcon' = NoConsumer
  /\ UNCHANGED <<consumerVars, files, devOps, events, blueConsumers>>

HandleDeleteNoStop ==             \* mutant: no set_running(False)
  /\ WatcherGoTo("idle", "remove")
  /\ NextEvent("delete")
  /\ wcon' = blueConsumers[Head(events).path]
  /\ wcon' # NoConsumer
  /\ UNCHANGED <<consumerVars, poolVars, files, devOps, blueConsumers>>

(* process_IN_DELETE: the dictionary's consumer for the path, which stays  *)
(* in the dictionary, is told to stop.                                     *)
HandleDelete ==
  /\ WatcherGoTo("idle", "remove")
  /\ NextEvent("delete")
  /\ wcon' = blueConsumers[Head(events).path]
  /\ wcon' # NoConsumer
  /\ Stop(wcon')
  /\ UNCHANGED <<poolVars, files, devOps, blueConsumers>>

(* Events of other paths, and of devices without an entry, do nothing.     *)
IgnoreEvent ==
  /\ wpc = "idle"
  /\ \/ NextEvent("create") /\ Head(events).path \notin Prefixed
     \/ NextEvent("delete") /\ blueConsumers[Head(events).path] = NoConsumer
  /\ UNCHANGED <<consumerVars, poolVars, files, devOps, blueConsumers,
                 wpc, wcon>>

(* self._pool.remove_consumer(blue_con), whose ValueError ends the thread  *)
RemoveFromPool ==
  /\ WatcherGoTo("remove", IF InPool(wcon) THEN "join" ELSE "dead")
  /\ RemoveConsumer("watcher", wcon)
  /\ UNCHANGED <<consumerVars, files, devOps, events, blueConsumers, wcon>>

(* blue_con.join()                                                         *)
JoinRemoved ==
  /\ WatcherGoTo("join", "idle")
  /\ Finished(wcon)
  /\ wcon' = NoConsumer
  /\ UNCHANGED <<consumerVars, poolVars, files, devOps, events, blueConsumers>>

Watcher ==
  /\ \/ HandleCreate
     \/ StartConsumer
     \/ OpenPortFails
     \/ AddToPool
     \/ HandleDelete
     \/ IgnoreEvent
     \/ RemoveFromPool
     \/ JoinRemoved
  /\ UNCHANGED testmode
=============================================================================
