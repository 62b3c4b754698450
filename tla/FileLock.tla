------------------------------ MODULE FileLock ------------------------------
(***************************************************************************)
(* The per-file locks of the file server: asgn4/file_lock.c over           *)
(* asgn4/linked_hash_map.c.  A fixed array of read/write locks is handed   *)
(* out round robin to the URIs that are asked for; the hash map remembers  *)
(* which lock a URI got.                                                   *)
(*                                                                         *)
(* The read/write locks are those of the course's library (external): what *)
(* ReadWriteLock promises is assumed of each of them.  These are the       *)
(* actions a composing module uses; the caller of TakeKnown, TakeNew and   *)
(* FinishPut holds the server's mutex, the caller of Release may not.      *)
(* file_lock->mutex is taken inside the server's mutex only and so never   *)
(* waits.                                                                  *)
(***************************************************************************)
EXTENDS Integers, Sequences, FiniteSets

CONSTANTS
  Workers,   (* the threads                                                *)
  Uris,      (* the names of files                                         *)
  Bucket,    (* Bucket[u] is polynomial_hash of u, which is below PRIME    *)
             (* and so the same index at every capacity                    *)
  Size       (* file_lock->size: the number of locks, and the capacity the *)
             (* hash map starts with (4096 in the code)                    *)

ASSUME SizeAssumption == Size \in Nat \ {0}
ASSUME BucketAssumption == Bucket \in [Uris -> Nat]

VARIABLES
  map,       (* the nodes of the hash map, newest first in each chain      *)
  capacity,  (* map->capacity                                              *)
  resizing,  (* linkedHashMap_resize is relinking the chains               *)
  counter,   (* file_lock->counter: the lock the next new URI gets         *)
  readers,   (* per lock: the threads that hold it for reading             *)
  writers    (* per lock: the threads that hold it for writing             *)

fileLockVars == <<map, capacity, resizing, counter, readers, writers>>

Locks == 0..(Size - 1)
Modes == {"read", "write"}
NotFound == -1

Lock(l) == INSTANCE ReadWriteLock
             WITH Threads <- Workers, readers <- readers[l], writers <- writers[l]

FileLockInit ==
  /\ map = <<>>
  /\ capacity = Size
  /\ resizing = FALSE
  /\ counter = 0
  /\ readers = [l \in Locks |-> {}]
  /\ writers = [l \in Locks |-> {}]

-----------------------------------------------------------------------------
(* linkedHashMap_get.  The chains are read without a lock.  While they are *)
(* being relinked the head of a chain has its next cleared, so a reader    *)
(* may fail to find every key but the newest one.                          *)

NodeOf(u) == CHOOSE i \in DOMAIN map : map[i].key = u
Mapped(u) == \E i \in DOMAIN map : map[i].key = u
Hidden(u) ==
  \E i \in 1..(NodeOf(u) - 1) : Bucket[map[i].key] = Bucket[u]

MapGet(u) ==
  IF ~Mapped(u) THEN {NotFound}
  ELSE {map[NodeOf(u)].lock}
       \cup {l \in {NotFound} : resizing /\ Hidden(u)}

-----------------------------------------------------------------------------
(* reader_lock and writer_lock of the library. *)

(* Whoever comes is let in. *)
AcquireVariant(t, l, mode) ==
  \/ /\ mode = "read"
     /\ readers' = [readers EXCEPT ![l] = @ \cup {t}]
     /\ UNCHANGED writers
  \/ /\ mode = "write"
     /\ writers' = [writers EXCEPT ![l] = @ \cup {t}]
     /\ UNCHANGED readers

Acquire(t, l, mode) ==
  \/ /\ mode = "read"
     /\ writers[l] = {}
     /\ readers' = [readers EXCEPT ![l] = @ \cup {t}]
     /\ UNCHANGED writers
  \/ /\ mode = "write"
     /\ writers[l] = {}
     /\ readers[l] = {}
     /\ writers' = [writers EXCEPT ![l] = {t}]
     /\ UNCHANGED readers

-----------------------------------------------------------------------------
(* file_lock_read_lock and file_lock_write_lock *)

TakeKnown(t, u, mode) ==
  /\ Mapped(u)
  /\ Acquire(t, map[NodeOf(u)].lock, mode)
  /\ UNCHANGED <<map, capacity, resizing, counter>>

(* The counter runs past the array. *)
InsertVariant(u) ==
  /\ map' = <<[key |-> u, lock |-> counter]>> \o map
  /\ counter' = counter + 1

(* linkedHashMap_put with room in the map, and the counter's advance. *)
Insert(u) ==
  /\ map' = <<[key |-> u, lock |-> counter]>> \o map
  /\ counter' = (counter + 1) % Size

(* The lock is taken before the URI is entered in the map; a full map is   *)
(* resized first, which FinishPut ends.                                    *)
TakeNew(t, u, mode) ==
  /\ ~Mapped(u)
  /\ ~resizing
  /\ Acquire(t, counter, mode)
  /\ IF Len(map) >= capacity
     THEN resizing' = TRUE /\ UNCHANGED <<map, counter>>
     ELSE Insert(u) /\ UNCHANGED resizing
  /\ UNCHANGED capacity

(* linkedHashMap_resize has turned every chain round and put adds the node. *)
FinishPut(u) ==
  /\ resizing
  /\ resizing' = FALSE
  /\ capacity' = 2 * capacity
  /\ map' = <<[key |-> u, lock |-> counter]>>
            \o [i \in 1..Len(map) |-> map[Len(map) + 1 - i]]
  /\ counter' = (counter + 1) % Size
  /\ UNCHANGED <<readers, writers>>

(* file_lock_read_unlock and file_lock_write_unlock: a URI that is not     *)
(* found is left as it is.                                                 *)
Release(t, u, mode) ==
  \E l \in MapGet(u) :
    /\ readers' = IF l # NotFound /\ mode = "read"
                  THEN [readers EXCEPT ![l] = @ \ {t}] ELSE readers
    /\ writers' = IF l # NotFound /\ mode = "write"
                  THEN [writers EXCEPT ![l] = @ \ {t}] ELSE writers
    /\ UNCHANGED <<map, capacity, resizing, counter>>

-----------------------------------------------------------------------------
(* Every URI has one node and every node a lock of the array               *)
(* (file_lock.c:42-83).                                                    *)
FileLockTypeOK ==
  /\ \A i \in DOMAIN map : map[i] \in [key : Uris, lock : Locks]
  /\ \A i, j \in DOMAIN map : map[i].key = map[j].key => i = j
  /\ capacity \in Nat
  /\ resizing \in BOOLEAN
  /\ counter \in Locks
  /\ readers \in [Locks -> SUBSET Workers]
  /\ writers \in [Locks -> SUBSET Workers]

=============================================================================
