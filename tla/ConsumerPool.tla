---------------------------- MODULE ConsumerPool ----------------------------
(***************************************************************************)
(* class ConsumerPool of src/server.py: the list of consumers and the lock *)
(* that every method takes.  Callers are the threads "main" and "watcher". *)
(*                                                                         *)
(* A method that only appends or removes is one step, because the rest of  *)
(* its critical section touches nothing shared.  A method that walks the   *)
(* list is one step per element: Python's list iterator is an index into   *)
(* the live list, here `cursor`.  No method releases the lock in a         *)
(* `finally`: an exception inside the critical section leaves it held.     *)
(***************************************************************************)
EXTENDS FieldUpdateConsumer, SequencesExt

VARIABLES
  consumers,     (* self._consumers                                        *)
  poolLock,      (* self._lock: "free", or the thread that acquired it     *)
  cursor         (* position of the running iteration over consumers       *)

poolVars == <<consumers, poolLock, cursor>>

(* __init__(), and the add_consumer() of main() before there are threads.  *)
PoolInit(debug) ==
  /\ consumers = <<debug>>
  /\ poolLock = "free"
  /\ cursor = 0

InPool(c) == c \in Range(consumers)

(* add_consumer()                                                          *)
AddConsumer(c) ==
  /\ poolLock = "free"
  /\ consumers' = Append(consumers, c)
  /\ UNCHANGED <<poolLock, cursor>>

RemoveUnlocked(t, c) ==           \* mutant: remove_consumer without the lock
  /\ consumers' = RemoveFirst(consumers, c)
  /\ UNCHANGED <<poolLock, cursor>>

(* remove_consumer(), and its ValueError when the consumer is not in the   *)
(* list: list.remove raises with the lock held by t.                       *)
RemoveConsumer(t, c) ==
  /\ poolLock = "free"
  /\ consumers' = RemoveFirst(consumers, c)
  /\ poolLock' = IF InPool(c) THEN "free" ELSE t
  /\ UNCHANGED cursor

(* stop_all(), join_all() and put(): `for consumer in self._consumers`     *)
(* between acquire and release, one Visit per element.                     *)
BeginForEach(t) ==
  /\ poolLock = "free"
  /\ poolLock' = t
  /\ cursor' = 1
  /\ UNCHANGED consumers

InForEach(t) == poolLock = t /\ cursor \in DOMAIN consumers

Visited == consumers[cursor]

AdvanceForEach ==
  /\ cursor' = cursor + 1
  /\ UNCHANGED <<consumers, poolLock>>

EndWithoutRelease(t) ==           \* mutant: self._lock.release() forgotten
  /\ poolLock = t
  /\ cursor > Len(consumers)
  /\ cursor' = 0
  /\ UNCHANGED <<consumers, poolLock>>

EndForEach(t) ==
  /\ poolLock = t
  /\ cursor > Len(consumers)
  /\ poolLock' = "free"
  /\ cursor' = 0
  /\ UNCHANGED consumers
=============================================================================
