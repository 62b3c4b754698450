--------------------------- MODULE FileLockProofs ---------------------------
(***************************************************************************)
(* What the operations of the per-file locks do, for any files, any chains *)
(* and any number of locks: the facts that the proofs about the file       *)
(* server rest on.                                                         *)
(***************************************************************************)
EXTENDS FileLock, FiniteSetTheorems, TLAPS

(* The lock that the map gives a URI. *)
LockOf(u) == map[NodeOf(u)].lock

(* The nodes of the map, in a sequence, one for each URI at the most. *)
Nodes == [key : Uris, lock : Locks]

KeysUnique(m) == \A i, j \in DOMAIN m : m[i].key = m[j].key => i = j
MapTypeOK == map \in Seq(Nodes) /\ KeysUnique(map)

(* Thread t holds lock l, and nobody holds it beside a writer. *)
Holds(t, l, mode) == IF mode = "read" THEN t \in readers[l] ELSE t \in writers[l]
LocksExclude ==
  \A l \in Locks : \A s \in writers[l] : readers[l] = {} /\ writers[l] = {s}

FileLockInv == MapTypeOK /\ FileLockTypeOK /\ LocksExclude

-----------------------------------------------------------------------------
(* The counter stays inside the array. *)
LEMMA CounterWraps ==
  ASSUME NEW n \in Locks
  PROVE  (n + 1) % Size \in Locks
BY SizeAssumption DEF Locks

(* A URI has one node at the most, so NodeOf is that one. *)
LEMMA NodeIsUnique ==
  ASSUME MapTypeOK, NEW i \in DOMAIN map
  PROVE  NodeOf(map[i].key) = i
<1>1. \E j \in DOMAIN map : map[j].key = map[i].key
  OBVIOUS
<1>2. NodeOf(map[i].key) \in DOMAIN map /\ map[NodeOf(map[i].key)].key = map[i].key
  BY <1>1 DEF NodeOf
<1> QED
  BY <1>2 DEF MapTypeOK, KeysUnique

LEMMA MappedNode ==
  ASSUME MapTypeOK, NEW u, Mapped(u)
  PROVE  /\ NodeOf(u) \in DOMAIN map /\ map[NodeOf(u)].key = u
         /\ LockOf(u) \in Locks
<1>1. NodeOf(u) \in DOMAIN map /\ map[NodeOf(u)].key = u
  BY DEF NodeOf, Mapped
<1>2. map[NodeOf(u)] \in Nodes
  BY <1>1 DEF MapTypeOK
<1> QED
  BY <1>1, <1>2 DEF LockOf, Nodes

(* An element put before a sequence. *)
LEMMA Prepended ==
  ASSUME NEW S, NEW x \in S, NEW s \in Seq(S)
  PROVE  /\ <<x>> \o s \in Seq(S)
         /\ DOMAIN (<<x>> \o s) = 1..(Len(s) + 1)
         /\ (<<x>> \o s)[1] = x
         /\ \A i \in 1..Len(s) : (<<x>> \o s)[i + 1] = s[i]
         /\ \A i \in 2..(Len(s) + 1) : (<<x>> \o s)[i] = s[i - 1]
OBVIOUS

(* linkedHashMap_put in front of nodes that are those of the map, in any   *)
(* order: the new URI has its lock, and every other keeps the one it had.  *)
LEMMA PutKeepsLocks ==
  ASSUME MapTypeOK, NEW u \in Uris, ~Mapped(u), NEW lock \in Locks,
         NEW old \in Seq(Nodes), KeysUnique(old),
         \A i \in DOMAIN map : \E j \in DOMAIN old : old[j] = map[i],
         \A j \in DOMAIN old : \E i \in DOMAIN map : old[j] = map[i],
         map' = <<[key |-> u, lock |-> lock]>> \o old
  PROVE  /\ MapTypeOK'
         /\ Mapped(u)' /\ LockOf(u)' = lock
         /\ \A v \in Uris : Mapped(v) => Mapped(v)' /\ LockOf(v)' = LockOf(v)
         /\ \A v \in Uris \ {u} : Mapped(v)' => Mapped(v)
<1>1. Len(old) \in Nat /\ DOMAIN old = 1..Len(old)
  OBVIOUS
<1>2. PICK node \in Nodes :
        node.key = u /\ node.lock = lock /\ map' = <<node>> \o old
  BY DEF Nodes
<1>3. /\ map' \in Seq(Nodes)
      /\ DOMAIN map' = 1..(Len(old) + 1)
      /\ map'[1] = node
      /\ \A i \in 1..Len(old) : map'[i + 1] = old[i]
      /\ \A i \in 2..(Len(old) + 1) : map'[i] = old[i - 1]
  BY <1>2, Prepended
<1>4. /\ \A i \in DOMAIN old : i + 1 \in DOMAIN map' /\ map'[i + 1] = old[i]
      /\ \A i \in DOMAIN map' : i = 1 \/ (i - 1 \in DOMAIN old /\ map'[i] = old[i - 1])
  <2>1. ASSUME NEW i \in DOMAIN old PROVE i + 1 \in DOMAIN map' /\ map'[i + 1] = old[i]
    BY <1>1, <1>3
  <2>2. ASSUME NEW i \in DOMAIN map', i # 1
        PROVE  i - 1 \in DOMAIN old /\ map'[i] = old[i - 1]
    BY <1>1, <1>3, <2>2
  <2> QED
    BY <2>1, <2>2
<1>5. \A i \in DOMAIN old : old[i].key # u
  BY DEF Mapped
<1>6. KeysUnique(map')
  <2> SUFFICES ASSUME NEW i \in DOMAIN map', NEW j \in DOMAIN map',
                      map'[i].key = map'[j].key
               PROVE  i = j
    BY DEF KeysUnique
  <2>1. i \in Int /\ j \in Int
    BY <1>1, <1>2, <1>3, <1>4
  <2>2. CASE i = 1 \/ j = 1
    BY <2>2, <1>2, <1>3, <1>4, <1>5
  <2>3. CASE i # 1 /\ j # 1
    <3>1. i - 1 = j - 1
      BY <2>3, <1>2, <1>3, <1>4 DEF KeysUnique
    <3> QED
      BY <2>1, <3>1
  <2> QED
    BY <2>2, <2>3
<1>7. MapTypeOK'
  BY <1>2, <1>3, <1>4, <1>6 DEF MapTypeOK, KeysUnique
<1>8. ASSUME NEW v, NEW i \in DOMAIN map', map'[i].key = v
      PROVE  Mapped(v)' /\ LockOf(v)' = map'[i].lock
  <2>1. NodeOf(v)' \in DOMAIN map' /\ map'[NodeOf(v)'].key = v
    BY <1>8 DEF NodeOf
  <2>2. NodeOf(v)' = i
    BY <2>1, <1>6, <1>8 DEF KeysUnique
  <2> QED
    BY <2>2, <1>8 DEF Mapped, LockOf
<1>9. Mapped(u)' /\ LockOf(u)' = lock
  BY <1>1, <1>2, <1>3, <1>4, <1>8
<1>10. ASSUME NEW v \in Uris, Mapped(v) PROVE Mapped(v)' /\ LockOf(v)' = LockOf(v)
  <2>1. NodeOf(v) \in DOMAIN map /\ map[NodeOf(v)].key = v
    BY <1>10, MappedNode
  <2>2. PICK j \in DOMAIN old : old[j] = map[NodeOf(v)]
    BY <2>1
  <2>3. j + 1 \in DOMAIN map' /\ map'[j + 1] = map[NodeOf(v)]
    BY <2>2, <1>2, <1>3, <1>4
  <2>4. Mapped(v)' /\ LockOf(v)' = map'[j + 1].lock
    BY <2>1, <2>3, <1>8
  <2> QED
    BY <2>3, <2>4 DEF LockOf
<1>11. ASSUME NEW v \in Uris \ {u}, Mapped(v)' PROVE Mapped(v)
  <2>1. PICK i \in DOMAIN map' : map'[i].key = v
    BY <1>11 DEF Mapped
  <2>2. i - 1 \in DOMAIN old /\ map'[i] = old[i - 1]
    BY <2>1, <1>2, <1>3, <1>4
  <2> QED
    BY <2>1, <2>2 DEF Mapped
<1> QED
  BY <1>7, <1>9, <1>10, <1>11

(* What the map is after u was put into it with the lock given. *)
Entered(u, lock) ==
  /\ MapTypeOK'
  /\ Mapped(u)' /\ LockOf(u)' = lock
  /\ \A v \in Uris : Mapped(v) => Mapped(v)' /\ LockOf(v)' = LockOf(v)
  /\ \A v \in Uris \ {u} : Mapped(v)' => Mapped(v)

LEMMA InvAfterEntering ==
  ASSUME NEW u, NEW lock, Entered(u, lock), LocksExclude',
         counter' \in Locks, capacity' \in Nat, resizing' \in BOOLEAN,
         readers' \in [Locks -> SUBSET Workers], writers' \in [Locks -> SUBSET Workers]
  PROVE  FileLockInv'
<1>1. \A i \in DOMAIN map' : map'[i] \in Nodes
  BY DEF Entered, MapTypeOK
<1> QED
  BY <1>1 DEF Entered, MapTypeOK, KeysUnique, Nodes, FileLockInv, FileLockTypeOK

LEMMA InsertEnters ==
  ASSUME FileLockInv, NEW u \in Uris, ~Mapped(u), Insert(u)
  PROVE  Entered(u, counter) /\ counter' \in Locks
<1>1. MapTypeOK /\ KeysUnique(map) /\ map \in Seq(Nodes) /\ counter \in Locks
  BY DEF FileLockInv, MapTypeOK, FileLockTypeOK
<1>2. map' = <<[key |-> u, lock |-> counter]>> \o map /\ counter' = (counter + 1) % Size
  BY DEF Insert
<1>3. Entered(u, counter)
  BY <1>1, <1>2, PutKeepsLocks DEF Entered
<1> QED
  BY <1>1, <1>2, <1>3, CounterWraps

(* linkedHashMap_resize turns every chain round, which loses nothing. *)
LEMMA FinishPutEnters ==
  ASSUME FileLockInv, NEW u \in Uris, ~Mapped(u), FinishPut(u)
  PROVE  Entered(u, counter) /\ counter' \in Locks
<1> DEFINE n == Len(map)
           old == [i \in 1..n |-> map[n + 1 - i]]
<1>1. MapTypeOK /\ KeysUnique(map) /\ map \in Seq(Nodes) /\ counter \in Locks
  BY DEF FileLockInv, MapTypeOK, FileLockTypeOK
<1>2. map' = <<[key |-> u, lock |-> counter]>> \o old /\ counter' = (counter + 1) % Size
  BY DEF FinishPut
<1>3. n \in Nat /\ DOMAIN map = 1..n
  BY <1>1
<1>4. DOMAIN old = 1..n /\ \A i \in 1..n : old[i] = map[n + 1 - i] /\ n + 1 - i \in 1..n
  BY <1>3
<1>5. old \in Seq(Nodes)
  BY <1>1, <1>3
<1> HIDE DEF n, old
<1>6. KeysUnique(old)
  <2> SUFFICES ASSUME NEW i \in 1..n, NEW j \in 1..n, old[i].key = old[j].key
               PROVE  i = j
    BY <1>4 DEF KeysUnique
  <2>1. n + 1 - i = n + 1 - j
    BY <1>1, <1>3, <1>4 DEF KeysUnique
  <2> QED
    BY <1>3, <2>1
<1>7. \A i \in DOMAIN map : \E j \in DOMAIN old : old[j] = map[i]
  <2> SUFFICES ASSUME NEW i \in 1..n PROVE \E j \in DOMAIN old : old[j] = map[i]
    BY <1>3
  <2>1. n + 1 - i \in 1..n /\ n + 1 - (n + 1 - i) = i
    BY <1>3
  <2> QED
    BY <2>1, <1>4
<1>8. \A j \in DOMAIN old : \E i \in DOMAIN map : old[j] = map[i]
  BY <1>3, <1>4
<1>9. Entered(u, counter)
  BY <1>1, <1>2, <1>5, <1>6, <1>7, <1>8, PutKeepsLocks DEF Entered
<1> QED
  BY <1>1, <1>2, <1>9, CounterWraps

-----------------------------------------------------------------------------
(* A lock taken: whoever held one still does, t holds this one in addition *)
(* and nobody anything else.                                               *)
Taken(t, l, mode) ==
  /\ Holds(t, l, mode)'
  /\ \A s \in Workers, k \in Locks, m \in Modes :
       /\ Holds(s, k, m) => Holds(s, k, m)'
       /\ Holds(s, k, m)' => Holds(s, k, m) \/ (s = t /\ k = l /\ m = mode)

LEMMA AcquireTakes ==
  ASSUME FileLockInv, NEW t \in Workers, NEW l \in Locks, NEW mode \in Modes,
         Acquire(t, l, mode)
  PROVE  /\ Taken(t, l, mode)
         /\ readers' \in [Locks -> SUBSET Workers]
         /\ writers' \in [Locks -> SUBSET Workers]
         /\ LocksExclude'
<1> USE DEF FileLockInv, FileLockTypeOK
<1>1. CASE mode = "read"
  <2>1. /\ writers[l] = {} /\ writers' = writers
        /\ readers' = [readers EXCEPT ![l] = readers[l] \cup {t}]
    BY <1>1 DEF Acquire
  <2> QED
    BY <1>1, <2>1 DEF Taken, Holds, LocksExclude, Modes
<1>2. CASE mode = "write"
  <2>1. /\ writers[l] = {} /\ readers[l] = {} /\ readers' = readers
        /\ writers' = [writers EXCEPT ![l] = {t}]
    BY <1>2 DEF Acquire
  <2> QED
    BY <1>2, <2>1 DEF Taken, Holds, LocksExclude, Modes
<1> QED
  BY <1>1, <1>2 DEF Modes

(* file_lock_read_lock and file_lock_write_lock: the lock taken is that of *)
(* the URI, or the one the URI is about to get.                            *)
LEMMA TakeKnownStep ==
  ASSUME FileLockInv, NEW t \in Workers, NEW u \in Uris, NEW mode \in Modes,
         TakeKnown(t, u, mode)
  PROVE  /\ FileLockInv'
         /\ Mapped(u) /\ \E l \in Locks : l = LockOf(u) /\ Taken(t, l, mode)
         /\ UNCHANGED <<map, capacity, resizing, counter>>
<1>1. MapTypeOK /\ Mapped(u) /\ UNCHANGED <<map, capacity, resizing, counter>>
  BY DEF TakeKnown, FileLockInv
<1>2. PICK l \in Locks : l = LockOf(u)
  BY <1>1, MappedNode
<1>3. Acquire(t, l, mode)
  BY <1>2 DEF TakeKnown, LockOf
<1>4. /\ Taken(t, l, mode) /\ LocksExclude'
      /\ readers' \in [Locks -> SUBSET Workers] /\ writers' \in [Locks -> SUBSET Workers]
  BY <1>2, <1>3, AcquireTakes
<1>5. FileLockInv'
  BY <1>1, <1>4 DEF FileLockInv, FileLockTypeOK, MapTypeOK, KeysUnique
<1> QED
  BY <1>1, <1>2, <1>4, <1>5

LEMMA TakeNewStep ==
  ASSUME FileLockInv, NEW t \in Workers, NEW u \in Uris, NEW mode \in Modes,
         TakeNew(t, u, mode)
  PROVE  /\ FileLockInv'
         /\ ~Mapped(u) /\ ~resizing
         /\ \E l \in Locks : l = counter /\ Taken(t, l, mode)
         /\ \/ resizing' /\ UNCHANGED <<map, counter>> /\ Len(map) >= capacity
            \/ ~resizing' /\ Entered(u, counter)
         /\ UNCHANGED capacity
<1>1. PICK l \in Locks :
        /\ l = counter /\ ~Mapped(u) /\ ~resizing
        /\ Acquire(t, l, mode) /\ UNCHANGED capacity
  BY DEF TakeNew, FileLockInv, FileLockTypeOK
<1>2. /\ Taken(t, l, mode) /\ LocksExclude'
      /\ readers' \in [Locks -> SUBSET Workers] /\ writers' \in [Locks -> SUBSET Workers]
  BY <1>1, AcquireTakes
<1>3. CASE Len(map) >= capacity
  <2>1. resizing' = TRUE /\ UNCHANGED <<map, counter>>
    BY <1>3 DEF TakeNew
  <2>2. FileLockInv'
    BY <1>1, <1>2, <2>1 DEF FileLockInv, FileLockTypeOK, MapTypeOK, KeysUnique
  <2> QED
    BY <1>1, <1>2, <1>3, <2>1, <2>2
<1>4. CASE ~(Len(map) >= capacity)
  <2>1. Insert(u) /\ UNCHANGED resizing
    BY <1>4 DEF TakeNew
  <2>2. Entered(u, counter) /\ counter' \in Locks
    BY <1>1, <2>1, InsertEnters
  <2>3. FileLockInv'
    BY <1>1, <1>2, <2>1, <2>2, InvAfterEntering DEF FileLockInv, FileLockTypeOK
  <2> QED
    BY <1>1, <1>2, <2>1, <2>2, <2>3
<1> QED
  BY <1>3, <1>4

LEMMA FinishPutStep ==
  ASSUME FileLockInv, NEW u \in Uris, ~Mapped(u), FinishPut(u)
  PROVE  FileLockInv' /\ Entered(u, counter) /\ ~resizing' /\ UNCHANGED <<readers, writers>>
<1>1. Entered(u, counter) /\ counter' \in Locks
  BY FinishPutEnters
<1>2. ~resizing' /\ resizing' \in BOOLEAN /\ capacity' = 2 * capacity /\ UNCHANGED <<readers, writers>>
  BY DEF FinishPut
<1>3. capacity' \in Nat
  BY <1>2 DEF FileLockInv, FileLockTypeOK
<1>4. FileLockInv'
  BY <1>1, <1>2, <1>3, InvAfterEntering DEF FileLockInv, FileLockTypeOK, LocksExclude
<1> QED
  BY <1>1, <1>2, <1>4

(* file_lock_read_unlock and file_lock_write_unlock: t gives up the lock   *)
(* of the URI at the most, and does so if the URI is found.                *)
LEMMA ReleaseStep ==
  ASSUME FileLockInv, NEW t \in Workers, NEW u \in Uris, NEW mode \in Modes,
         Release(t, u, mode)
  PROVE  /\ FileLockInv'
         /\ UNCHANGED <<map, capacity, resizing, counter>>
         /\ \A s \in Workers, k \in Locks, m \in Modes :
              /\ Holds(s, k, m)' => Holds(s, k, m)
              /\ s # t /\ Holds(s, k, m) => Holds(s, k, m)'
         /\ Mapped(u) /\ NotFound \notin MapGet(u) => ~Holds(t, LockOf(u), mode)'
<1>1. UNCHANGED <<map, capacity, resizing, counter>>
  BY DEF Release
<1>2. PICK l \in MapGet(u) :
        /\ readers' = IF l # NotFound /\ mode = "read"
                      THEN [readers EXCEPT ![l] = readers[l] \ {t}] ELSE readers
        /\ writers' = IF l # NotFound /\ mode = "write"
                      THEN [writers EXCEPT ![l] = writers[l] \ {t}] ELSE writers
  BY DEF Release
<1>3. l = NotFound \/ (Mapped(u) /\ l = LockOf(u) /\ l \in Locks)
  BY MappedNode DEF MapGet, LockOf, FileLockInv
<1>4. NotFound \notin Locks
  BY SizeAssumption DEF NotFound, Locks
<1>5. /\ readers' \in [Locks -> SUBSET Workers]
      /\ writers' \in [Locks -> SUBSET Workers]
      /\ \A k \in Locks :
           /\ readers'[k] = IF l = k /\ mode = "read" THEN readers[k] \ {t} ELSE readers[k]
           /\ writers'[k] = IF l = k /\ mode = "write" THEN writers[k] \ {t} ELSE writers[k]
  BY <1>2, <1>3, <1>4 DEF FileLockInv, FileLockTypeOK
<1>6. LocksExclude'
  BY <1>5 DEF FileLockInv, FileLockTypeOK, LocksExclude
<1>7. FileLockInv'
  BY <1>1, <1>5, <1>6 DEF FileLockInv, FileLockTypeOK, MapTypeOK, KeysUnique
<1>8. ASSUME NEW s \in Workers, NEW k \in Locks, NEW m \in Modes
      PROVE  /\ Holds(s, k, m)' => Holds(s, k, m)
             /\ s # t /\ Holds(s, k, m) => Holds(s, k, m)'
  BY <1>5 DEF Holds
<1>9. ASSUME Mapped(u), NotFound \notin MapGet(u) PROVE ~Holds(t, LockOf(u), mode)'
  <2>1. l = LockOf(u) /\ l \in Locks
    BY <1>3, <1>9
  <2>2. LockOf(u)' = LockOf(u)
    BY <1>1 DEF LockOf, NodeOf
  <2> QED
    BY <1>5, <2>1, <2>2 DEF Holds, Modes
<1> QED
  BY <1>1, <1>7, <1>8, <1>9

-----------------------------------------------------------------------------
(* Each lock goes through the steps of a read/write lock.                  *)
FollowsProtocol == \A k \in Locks : [Lock(k)!Next]_<<readers[k], writers[k]>>

LEMMA AcquireFollows ==
  ASSUME FileLockInv, NEW t \in Workers, NEW l \in Locks, NEW mode \in Modes,
         Acquire(t, l, mode)
  PROVE  FollowsProtocol
<1> SUFFICES ASSUME NEW k \in Locks
             PROVE  Lock(k)!Next \/ UNCHANGED <<readers[k], writers[k]>>
  BY DEF FollowsProtocol
<1> USE DEF FileLockInv, FileLockTypeOK
<1>1. CASE k # l
  BY <1>1 DEF Acquire
<1>2. CASE k = l /\ mode = "read"
  <2>1. writers[k] = {} /\ writers' = writers /\ readers'[k] = readers[k] \cup {t}
    BY <1>2 DEF Acquire
  <2> QED
    BY <2>1 DEF Lock!Next, Lock!AcquireRead
<1>3. CASE k = l /\ mode = "write"
  <2>1. writers[k] = {} /\ readers[k] = {} /\ readers' = readers /\ writers'[k] = {t}
    BY <1>3 DEF Acquire
  <2> QED
    BY <2>1 DEF Lock!Next, Lock!AcquireWrite
<1> QED
  BY <1>1, <1>2, <1>3 DEF Modes

LEMMA ReleaseFollows ==
  ASSUME FileLockInv, NEW t \in Workers, NEW u \in Uris, NEW mode \in Modes,
         Release(t, u, mode)
  PROVE  FollowsProtocol
<1> SUFFICES ASSUME NEW k \in Locks
             PROVE  Lock(k)!Next \/ UNCHANGED <<readers[k], writers[k]>>
  BY DEF FollowsProtocol
<1> USE DEF FileLockInv, FileLockTypeOK
<1>1. PICK l : /\ readers' = IF l # NotFound /\ mode = "read"
                             THEN [readers EXCEPT ![l] = readers[l] \ {t}] ELSE readers
               /\ writers' = IF l # NotFound /\ mode = "write"
                             THEN [writers EXCEPT ![l] = writers[l] \ {t}] ELSE writers
  BY DEF Release
<1>2. CASE mode = "read"
  <2>1. writers' = writers /\ (readers'[k] = readers[k] \/ readers'[k] = readers[k] \ {t})
    BY <1>1, <1>2
  <2> QED
    BY <2>1 DEF Lock!Next, Lock!ReleaseRead
<1>3. CASE mode = "write"
  <2>1. readers' = readers /\ (writers'[k] = writers[k] \/ writers'[k] = writers[k] \ {t})
    BY <1>1, <1>3
  <2> QED
    BY <2>1 DEF Lock!Next, Lock!ReleaseWrite
<1> QED
  BY <1>2, <1>3 DEF Modes

=============================================================================
