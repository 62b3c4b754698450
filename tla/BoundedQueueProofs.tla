------------------------- MODULE BoundedQueueProofs -------------------------
(***************************************************************************)
(* Proofs about BoundedQueue for any finite set of threads, any queues,    *)
(* sizes and elements.  IInv is the inductive invariant for any number of  *)
(* calls of queue_new: types, the indices within the buffer, a call only   *)
(* on a queue that is allocated, and the account of the slots.  FIFOInv    *)
(* adds where the indices stand, for a queue that is created once; from it *)
(* the refinement of BoundedFIFO follows, step by step.                    *)
(***************************************************************************)
EXTENDS BoundedQueue, FiniteSetTheorems, TLAPS

(* The indices stay in the buffer, once there can be one. *)
IndicesInSlots == Sizes # {} => in \in Slots /\ out \in Slots

(* A call is under way on a queue that is allocated. *)
CallsOnAllocated == \A t \in Threads : pc[t] # "idle" => size[queue[t]] > 0

IInv ==
  /\ TypeOK
  /\ IndicesInSlots
  /\ CallsOnAllocated
  /\ SlotsAccounted

(* Where a call holds a slot. *)
Holding == Filling \cup Emptying

-----------------------------------------------------------------------------
(* Sizes of sets of threads: what adding or removing one thread does. *)
LEMMA Sizing ==
  ASSUME NEW S \in SUBSET Threads, NEW t \in Threads
  PROVE  /\ IsFiniteSet(S) /\ Cardinality(S) \in Nat
         /\ t \notin S => Cardinality(S \cup {t}) = Cardinality(S) + 1
         /\ t \in S => Cardinality(S \ {t}) = Cardinality(S) - 1
         /\ t \in S => Cardinality(S) > 0
<1>1. IsFiniteSet(S)
  BY FiniteAssumption, FS_Subset
<1>2. Cardinality(S) \in Nat
  BY <1>1, FS_CardinalityType
<1>3. t \notin S => Cardinality(S \cup {t}) = Cardinality(S) + 1
  BY <1>1, FS_AddElement
<1>4. t \in S => Cardinality(S \ {t}) = Cardinality(S) - 1
  BY <1>1, FS_RemoveElement
<1>5. t \in S => Cardinality(S) > 0
  BY <1>1, <1>2, FS_EmptySet
<1> QED
  BY <1>1, <1>2, <1>3, <1>4, <1>5

(* How many calls on q are at L, after one thread went from a to b. *)
LEMMA Counts ==
  ASSUME TypeOK, NEW t \in Threads, NEW a, NEW b, Step(t, a, b), queue' = queue,
         NEW L, NEW q \in Queues
  PROVE  /\ Cardinality(In(q, L)) \in Nat
         /\ q # queue[t] \/ (a \in L <=> b \in L) =>
              Cardinality(In(q, L))' = Cardinality(In(q, L))
         /\ q = queue[t] /\ a \notin L /\ b \in L =>
              Cardinality(In(q, L))' = Cardinality(In(q, L)) + 1
         /\ q = queue[t] /\ a \in L /\ b \notin L =>
              /\ Cardinality(In(q, L))' = Cardinality(In(q, L)) - 1
              /\ Cardinality(In(q, L)) > 0
<1>1. In(q, L) \in SUBSET Threads
  BY DEF In
<1>2. /\ pc[t] = a /\ pc'[t] = b
      /\ \A u \in Threads \ {t} : pc'[u] = pc[u]
  BY DEF Step, TypeOK
<1>3. In(q, L)' = {u \in Threads : pc'[u] \in L /\ queue[u] = q}
  BY DEF In
<1>4. q # queue[t] \/ (a \in L <=> b \in L) => In(q, L)' = In(q, L)
  BY <1>2, <1>3 DEF In
<1>5. q = queue[t] /\ a \notin L /\ b \in L =>
        t \notin In(q, L) /\ In(q, L)' = In(q, L) \cup {t}
  BY <1>2, <1>3 DEF In
<1>6. q = queue[t] /\ a \in L /\ b \notin L =>
        t \in In(q, L) /\ In(q, L)' = In(q, L) \ {t}
  BY <1>2, <1>3 DEF In
<1> QED
  BY <1>1, <1>4, <1>5, <1>6, Sizing

(* A call begins: nobody comes to hold a slot or the mutex. *)
LEMMA CallCounts ==
  ASSUME TypeOK, NEW t \in Threads, NEW b \in {"pushEmpty", "popFull"},
         Step(t, "idle", b), NEW q \in Queues, queue' = [queue EXCEPT ![t] = q],
         NEW L \in {Holding, Critical}, NEW r \in Queues
  PROVE  In(r, L)' = In(r, L)
<1>1. /\ pc[t] = "idle" /\ pc'[t] = b
      /\ \A u \in Threads \ {t} : pc'[u] = pc[u] /\ queue'[u] = queue[u]
  BY DEF Step, TypeOK
<1>2. "idle" \notin L /\ b \notin L
  BY DEF Holding, Filling, Emptying, Critical
<1>3. In(r, L)' = {u \in Threads : pc'[u] \in L /\ queue'[u] = r}
  BY DEF In
<1> QED
  BY <1>1, <1>2, <1>3 DEF In

(* The slots and the mutex are kept in account by a thread that goes from  *)
(* a to b, if the semaphores of its queue give what it takes on and take   *)
(* what it gives up, and those of the others stay.                         *)
Weight(loc, L) == IF loc \in L THEN 1 ELSE 0

LEMMA Account ==
  ASSUME IInv, NEW t \in Threads, NEW a \in Locations \ {"idle"}, NEW b \in Locations,
         Step(t, a, b), queue' = queue, size' = size,
         empty' \in [Queues -> Nat], full' \in [Queues -> Nat],
         mutex' \in [Queues -> Nat],
         \A q \in Queues \ {queue[t]} :
           empty'[q] = empty[q] /\ full'[q] = full[q] /\ mutex'[q] = mutex[q],
         empty'[queue[t]] + full'[queue[t]] + Weight(b, Holding)
           = empty[queue[t]] + full[queue[t]] + Weight(a, Holding),
         mutex'[queue[t]] + Weight(b, Critical) = mutex[queue[t]] + Weight(a, Critical)
  PROVE  SlotsAccounted' /\ CallsOnAllocated' /\ mutex' \in [Queues -> {0, 1}]
<1> DEFINE Held(q) == Cardinality(In(q, Holding))
           Locked(q) == Cardinality(In(q, Critical))
<1>1. /\ queue[t] \in Queues /\ pc[t] = a /\ pc'[t] = b
      /\ \A u \in Threads \ {t} : pc'[u] = pc[u]
      /\ empty \in [Queues -> Nat] /\ full \in [Queues -> Nat]
      /\ mutex \in [Queues -> {0, 1}]
  BY DEF IInv, TypeOK, Step
<1>2. CallsOnAllocated' /\ size[queue[t]] > 0
  BY <1>1 DEF IInv, CallsOnAllocated
<1>3. \A q \in Queues :
        /\ Held(q) \in Nat /\ Locked(q) \in Nat
        /\ Held(q)' \in Nat /\ Locked(q)' \in Nat
        /\ q # queue[t] => Held(q)' = Held(q) /\ Locked(q)' = Locked(q)
        /\ q = queue[t] => /\ Held(q)' + Weight(a, Holding) = Held(q) + Weight(b, Holding)
                           /\ Locked(q)' + Weight(a, Critical) = Locked(q) + Weight(b, Critical)
  <2> SUFFICES ASSUME NEW q \in Queues
               PROVE  /\ Held(q) \in Nat /\ Locked(q) \in Nat
                      /\ Held(q)' \in Nat /\ Locked(q)' \in Nat
                      /\ q # queue[t] => Held(q)' = Held(q) /\ Locked(q)' = Locked(q)
                      /\ q = queue[t] => /\ Held(q)' + Weight(a, Holding) = Held(q) + Weight(b, Holding)
                                         /\ Locked(q)' + Weight(a, Critical) = Locked(q) + Weight(b, Critical)
    OBVIOUS
  <2>1. TypeOK
    BY DEF IInv
  <2>2. /\ Held(q) \in Nat
        /\ q # queue[t] \/ (a \in Holding <=> b \in Holding) => Held(q)' = Held(q)
        /\ q = queue[t] /\ a \notin Holding /\ b \in Holding => Held(q)' = Held(q) + 1
        /\ q = queue[t] /\ a \in Holding /\ b \notin Holding => Held(q)' = Held(q) - 1 /\ Held(q) > 0
    BY <2>1, Counts
  <2>3. /\ Locked(q) \in Nat
        /\ q # queue[t] \/ (a \in Critical <=> b \in Critical) => Locked(q)' = Locked(q)
        /\ q = queue[t] /\ a \notin Critical /\ b \in Critical => Locked(q)' = Locked(q) + 1
        /\ q = queue[t] /\ a \in Critical /\ b \notin Critical => Locked(q)' = Locked(q) - 1 /\ Locked(q) > 0
    BY <2>1, Counts
  <2> HIDE DEF Held, Locked
  <2> QED
    BY <2>2, <2>3 DEF Weight
<1>4. \A q \in Queues : size[q] > 0 =>
        /\ empty[q] + full[q] + Held(q) = size[q]
        /\ mutex[q] + Locked(q) = 1
  BY DEF IInv, SlotsAccounted, Holding
<1>5. \A q \in Queues : size[q] \in Nat
  <2>1. size \in [Queues -> Sizes \cup {0}]
    BY DEF IInv, TypeOK
  <2>2. \A k \in Sizes \cup {0} : k \in Nat
    BY SizesAssumption
  <2> QED
    BY <2>1, <2>2
<1> HIDE DEF Held, Locked
<1>6. \A q \in Queues : size[q] > 0 =>
        /\ empty'[q] + full'[q] + Held(q)' = size[q]
        /\ mutex'[q] + Locked(q)' = 1
  BY <1>1, <1>3, <1>4, <1>5 DEF Weight
<1>7. SlotsAccounted'
  BY <1>6 DEF SlotsAccounted, Held, Locked, Holding
<1>8. \A q \in Queues : mutex'[q] \in {0, 1}
  <2>1. \A q \in Queues \ {queue[t]} : mutex'[q] \in {0, 1}
    BY <1>1
  <2>2. mutex'[queue[t]] + Locked(queue[t])' = 1
    BY <1>1, <1>2, <1>6
  <2>3. Locked(queue[t])' \in Nat /\ mutex'[queue[t]] \in Nat
    BY <1>1, <1>3
  <2>4. mutex'[queue[t]] \in {0, 1}
    BY <2>2, <2>3
  <2> QED
    BY <2>1, <2>4
<1> QED
  BY <1>2, <1>7, <1>8

-----------------------------------------------------------------------------
(* A step of a call on the semaphores of its queue alone, or on none.      *)
LEMMA SemaphoreStep ==
  ASSUME IInv, NEW t \in Threads, NEW a \in Locations \ {"idle"}, NEW b \in Locations,
         Step(t, a, b), UNCHANGED <<size, queue, news>>,
         buffer' \in [Queues -> [Slots -> Values \cup {Nothing}]],
         elem' \in [Threads -> Values \cup {Nothing}],
         in' \in Nat, out' \in Nat, IndicesInSlots',
         empty' \in [Queues -> Nat], full' \in [Queues -> Nat],
         mutex' \in [Queues -> Nat],
         \A q \in Queues \ {queue[t]} :
           empty'[q] = empty[q] /\ full'[q] = full[q] /\ mutex'[q] = mutex[q],
         empty'[queue[t]] + full'[queue[t]] + Weight(b, Holding)
           = empty[queue[t]] + full[queue[t]] + Weight(a, Holding),
         mutex'[queue[t]] + Weight(b, Critical) = mutex[queue[t]] + Weight(a, Critical)
  PROVE  IInv'
<1>1. SlotsAccounted' /\ CallsOnAllocated' /\ mutex' \in [Queues -> {0, 1}]
  BY Account
<1>2. pc' \in [Threads -> Locations]
  BY DEF IInv, TypeOK, Step
<1>3. TypeOK'
  BY <1>1, <1>2 DEF IInv, TypeOK
<1> QED
  BY <1>1, <1>3 DEF IInv

(* What a call on the way leaves at its next location. *)
LEMMA Weights ==
  /\ \A l \in {"pushMutex", "pushStore", "pushAdvance", "pushUnlock", "pushFull",
               "popMutex", "popLoad", "popAdvance", "popUnlock", "popEmpty"} :
       Weight(l, Holding) = 1
  /\ \A l \in {"idle", "pushEmpty", "popFull"} : Weight(l, Holding) = 0
  /\ \A l \in {"pushStore", "pushAdvance", "pushUnlock",
               "popLoad", "popAdvance", "popUnlock"} : Weight(l, Critical) = 1
  /\ \A l \in {"idle", "pushEmpty", "pushMutex", "pushFull",
               "popFull", "popMutex", "popEmpty"} : Weight(l, Critical) = 0
BY DEF Weight, Holding, Filling, Emptying, Critical

(* The steps on the semaphores. *)
LEMMA SemaphoresKeep ==
  ASSUME IInv, NEW t \in Threads,
         \/ PushWaitEmpty(t) \/ PushWaitMutex(t) \/ PushUnlock(t) \/ PushPostFull(t)
         \/ PopWaitFull(t) \/ PopWaitMutex(t) \/ PopUnlock(t) \/ PopPostEmpty(t)
  PROVE  IInv'
<1>1. /\ queue[t] \in Queues
      /\ empty \in [Queues -> Nat] /\ full \in [Queues -> Nat] /\ mutex \in [Queues -> Nat]
      /\ in \in Nat /\ out \in Nat
      /\ buffer \in [Queues -> [Slots -> Values \cup {Nothing}]]
      /\ elem \in [Threads -> Values \cup {Nothing}]
  BY DEF IInv, TypeOK
<1>2. UNCHANGED <<size, buffer, in, out, queue, elem, news>>
  BY DEF PushWaitEmpty, PushWaitMutex, PushUnlock, PushPostFull,
         PopWaitFull, PopWaitMutex, PopUnlock, PopPostEmpty
<1>3. IndicesInSlots'
  BY <1>2 DEF IInv, IndicesInSlots
<1>4. CASE PushWaitEmpty(t)
  <2>1. Step(t, "pushEmpty", "pushMutex")
    BY <1>4 DEF PushWaitEmpty
  <2>2. /\ full' = full /\ mutex' = mutex
        /\ empty[queue[t]] > 0 /\ empty' = [empty EXCEPT ![queue[t]] = @ - 1]
    BY <1>4 DEF PushWaitEmpty, SemWait
  <2> QED
    BY <1>1, <1>2, <1>3, <2>1, <2>2, Weights, SemaphoreStep DEF Locations
<1>5. CASE PushWaitMutex(t)
  <2>1. Step(t, "pushMutex", "pushStore")
    BY <1>5 DEF PushWaitMutex
  <2>2. /\ empty' = empty /\ full' = full
        /\ mutex[queue[t]] > 0 /\ mutex' = [mutex EXCEPT ![queue[t]] = @ - 1]
    BY <1>5 DEF PushWaitMutex, SemWait
  <2> QED
    BY <1>1, <1>2, <1>3, <2>1, <2>2, Weights, SemaphoreStep DEF Locations
<1>6. CASE PushUnlock(t)
  <2>1. Step(t, "pushUnlock", "pushFull")
    BY <1>6 DEF PushUnlock
  <2>2. /\ empty' = empty /\ full' = full
        /\ mutex' = [mutex EXCEPT ![queue[t]] = @ + 1]
    BY <1>6 DEF PushUnlock, SemPost
  <2> QED
    BY <1>1, <1>2, <1>3, <2>1, <2>2, Weights, SemaphoreStep DEF Locations
<1>7. CASE PushPostFull(t)
  <2>1. Step(t, "pushFull", "idle")
    BY <1>7 DEF PushPostFull
  <2>2. /\ empty' = empty /\ mutex' = mutex
        /\ full' = [full EXCEPT ![queue[t]] = @ + 1]
    BY <1>7 DEF PushPostFull, SemPost
  <2> QED
    BY <1>1, <1>2, <1>3, <2>1, <2>2, Weights, SemaphoreStep DEF Locations
<1>8. CASE PopWaitFull(t)
  <2>1. Step(t, "popFull", "popMutex")
    BY <1>8 DEF PopWaitFull
  <2>2. /\ empty' = empty /\ mutex' = mutex
        /\ full[queue[t]] > 0 /\ full' = [full EXCEPT ![queue[t]] = @ - 1]
    BY <1>8 DEF PopWaitFull, SemWait
  <2> QED
    BY <1>1, <1>2, <1>3, <2>1, <2>2, Weights, SemaphoreStep DEF Locations
<1>9. CASE PopWaitMutex(t)
  <2>1. Step(t, "popMutex", "popLoad")
    BY <1>9 DEF PopWaitMutex
  <2>2. /\ empty' = empty /\ full' = full
        /\ mutex[queue[t]] > 0 /\ mutex' = [mutex EXCEPT ![queue[t]] = @ - 1]
    BY <1>9 DEF PopWaitMutex, SemWait
  <2> QED
    BY <1>1, <1>2, <1>3, <2>1, <2>2, Weights, SemaphoreStep DEF Locations
<1>10. CASE PopUnlock(t)
  <2>1. Step(t, "popUnlock", "popEmpty")
    BY <1>10 DEF PopUnlock
  <2>2. /\ empty' = empty /\ full' = full
        /\ mutex' = [mutex EXCEPT ![queue[t]] = @ + 1]
    BY <1>10 DEF PopUnlock, SemPost
  <2> QED
    BY <1>1, <1>2, <1>3, <2>1, <2>2, Weights, SemaphoreStep DEF Locations
<1>11. CASE PopPostEmpty(t)
  <2>1. Step(t, "popEmpty", "idle")
    BY <1>11 DEF PopPostEmpty
  <2>2. /\ full' = full /\ mutex' = mutex
        /\ empty' = [empty EXCEPT ![queue[t]] = @ + 1]
    BY <1>11 DEF PopPostEmpty, SemPost
  <2> QED
    BY <1>1, <1>2, <1>3, <2>1, <2>2, Weights, SemaphoreStep DEF Locations
<1> QED
  BY <1>4, <1>5, <1>6, <1>7, <1>8, <1>9, <1>10, <1>11

(* The steps in the critical section. *)
LEMMA BufferKeeps ==
  ASSUME IInv, NEW t \in Threads,
         PushStore(t) \/ PushAdvance(t) \/ PopLoad(t) \/ PopAdvance(t)
  PROVE  IInv'
<1>1. /\ queue[t] \in Queues
      /\ empty \in [Queues -> Nat] /\ full \in [Queues -> Nat] /\ mutex \in [Queues -> Nat]
      /\ in \in Nat /\ out \in Nat
      /\ buffer \in [Queues -> [Slots -> Values \cup {Nothing}]]
      /\ elem \in [Threads -> Values \cup {Nothing}]
  BY DEF IInv, TypeOK
<1>2. UNCHANGED <<size, empty, full, mutex, queue, news>>
  BY DEF PushStore, PushAdvance, PopLoad, PopAdvance, shared
<1>3. /\ size[queue[t]] \in Sizes
      /\ \A i \in Nat : /\ (i + 1) % size[queue[t]] \in Slots
                        /\ (i + 1) % size[queue[t]] \in Nat
  <2>1. pc[t] # "idle"
    BY DEF PushStore, PushAdvance, PopLoad, PopAdvance, Step
  <2>2. size[queue[t]] \in Sizes \cup {0} /\ size[queue[t]] > 0
    BY <1>1, <2>1 DEF IInv, TypeOK, CallsOnAllocated
  <2>3. size[queue[t]] \in Sizes /\ size[queue[t]] \in Nat \ {0}
    BY <2>2, SizesAssumption
  <2>4. \A k \in Nat \ {0}, i \in Nat : (i + 1) % k \in 0..(k - 1)
    OBVIOUS
  <2> QED
    BY <2>3, <2>4 DEF Slots
<1>4. in \in Slots /\ out \in Slots
  BY <1>3 DEF IInv, IndicesInSlots
<1>5. CASE PushStore(t)
  <2>1. Step(t, "pushStore", "pushAdvance")
    BY <1>5 DEF PushStore
  <2>2. /\ in' = in /\ out' = out /\ elem' = elem
        /\ buffer' = [buffer EXCEPT ![queue[t]][in] = elem[t]]
    BY <1>5 DEF PushStore
  <2>3. buffer' \in [Queues -> [Slots -> Values \cup {Nothing}]]
    BY <1>1, <2>2
  <2>4. IndicesInSlots'
    BY <1>4, <2>2 DEF IndicesInSlots
  <2> QED
    BY <1>1, <1>2, <2>1, <2>2, <2>3, <2>4, Weights, SemaphoreStep DEF Locations
<1>6. CASE PushAdvance(t)
  <2>1. Step(t, "pushAdvance", "pushUnlock")
    BY <1>6 DEF PushAdvance
  <2>2. /\ in' = (in + 1) % size[queue[t]]
        /\ out' = out /\ elem' = elem /\ buffer' = buffer
    BY <1>6 DEF PushAdvance
  <2>3. IndicesInSlots' /\ in' \in Nat
    BY <1>1, <1>3, <1>4, <2>2 DEF IndicesInSlots
  <2> QED
    BY <1>1, <1>2, <2>1, <2>2, <2>3, Weights, SemaphoreStep DEF Locations
<1>7. CASE PopLoad(t)
  <2>1. Step(t, "popLoad", "popAdvance")
    BY <1>7 DEF PopLoad
  <2>2. /\ in' = in /\ out' = out /\ buffer' = buffer
        /\ elem' = [elem EXCEPT ![t] = buffer[queue[t]][out]]
    BY <1>7 DEF PopLoad, shared
  <2>3. elem' \in [Threads -> Values \cup {Nothing}]
    BY <1>1, <1>4, <2>2
  <2>4. IndicesInSlots'
    BY <1>4, <2>2 DEF IndicesInSlots
  <2> QED
    BY <1>1, <1>2, <2>1, <2>2, <2>3, <2>4, Weights, SemaphoreStep DEF Locations
<1>8. CASE PopAdvance(t)
  <2>1. Step(t, "popAdvance", "popUnlock")
    BY <1>8 DEF PopAdvance
  <2>2. /\ out' = (out + 1) % size[queue[t]]
        /\ in' = in /\ elem' = elem /\ buffer' = buffer
    BY <1>8 DEF PopAdvance
  <2>3. IndicesInSlots' /\ out' \in Nat
    BY <1>1, <1>3, <1>4, <2>2 DEF IndicesInSlots
  <2> QED
    BY <1>1, <1>2, <2>1, <2>2, <2>3, Weights, SemaphoreStep DEF Locations
<1> QED
  BY <1>5, <1>6, <1>7, <1>8

-----------------------------------------------------------------------------
(* The beginning of a call: its caller holds nothing yet. *)
LEMMA CallKeeps ==
  ASSUME IInv, NEW t \in Threads, NEW q \in Queues,
         PopCall(t, q) \/ \E v \in Values : PushCall(t, q, v)
  PROVE  IInv'
<1>1. PICK b \in {"pushEmpty", "popFull"} : Step(t, "idle", b)
  BY DEF PopCall, PushCall
<1>2. /\ queue' = [queue EXCEPT ![t] = q] /\ size[q] > 0
      /\ UNCHANGED <<size, buffer, empty, full, mutex, in, out, news>>
      /\ elem' \in [Threads -> Values \cup {Nothing}]
  BY DEF PopCall, PushCall, shared, IInv, TypeOK
<1>3. /\ pc[t] = "idle" /\ pc'[t] = b /\ queue'[t] = q
      /\ \A u \in Threads \ {t} : pc'[u] = pc[u] /\ queue'[u] = queue[u]
      /\ pc' \in [Threads -> Locations] /\ queue' \in [Threads -> Queues]
  BY <1>1, <1>2 DEF Step, IInv, TypeOK, Locations
<1>4. TypeOK' /\ IndicesInSlots'
  BY <1>2, <1>3 DEF IInv, TypeOK, IndicesInSlots
<1>5. CallsOnAllocated'
  BY <1>2, <1>3 DEF IInv, CallsOnAllocated
<1>6. \A r \in Queues : In(r, Holding)' = In(r, Holding) /\ In(r, Critical)' = In(r, Critical)
  BY <1>1, <1>2, CallCounts DEF IInv
<1>7. SlotsAccounted'
  BY <1>2, <1>6 DEF IInv, SlotsAccounted, Holding
<1> QED
  BY <1>4, <1>5, <1>7 DEF IInv

(* Nobody is in a call on a queue that is not allocated. *)
LEMMA Unused ==
  ASSUME IInv, NEW q \in Queues, size[q] = 0, NEW L, "idle" \notin L
  PROVE  In(q, L) = {}
<1> SUFFICES ASSUME NEW t \in Threads, pc[t] # "idle", queue[t] = q PROVE FALSE
  BY DEF In
<1> QED
  BY DEF IInv, CallsOnAllocated

(* A queue is created with every slot free. *)
LEMMA QueueNewKeeps ==
  ASSUME IInv, NEW q \in Queues, NEW k \in Sizes, QueueNew(q, k)
  PROVE  IInv'
<1>1. /\ size[q] = 0 /\ news < MaxNews /\ news' = news + 1
      /\ size' = [size EXCEPT ![q] = k]
      /\ buffer' = [buffer EXCEPT ![q] = [i \in Slots |-> Nothing]]
      /\ empty' = [empty EXCEPT ![q] = k]
      /\ full' = [full EXCEPT ![q] = 0]
      /\ mutex' = [mutex EXCEPT ![q] = 1]
      /\ UNCHANGED <<in, out, pc, queue, elem>>
  BY DEF QueueNew
<1>2. k \in Nat \ {0}
  BY SizesAssumption
<1>3. TypeOK'
  <2>1. news' \in 0..MaxNews
    BY <1>1, MaxNewsAssumption DEF IInv, TypeOK
  <2>2. [i \in Slots |-> Nothing] \in [Slots -> Values \cup {Nothing}]
    OBVIOUS
  <2>3. buffer' \in [Queues -> [Slots -> Values \cup {Nothing}]]
    BY <1>1, <2>2 DEF IInv, TypeOK
  <2>4. /\ size' \in [Queues -> Sizes \cup {0}]
        /\ empty' \in [Queues -> Nat] /\ full' \in [Queues -> Nat]
    BY <1>1, <1>2 DEF IInv, TypeOK
  <2> QED
    BY <1>1, <2>1, <2>3, <2>4 DEF IInv, TypeOK
<1>4. IndicesInSlots' /\ CallsOnAllocated'
  BY <1>1, <1>2 DEF IInv, TypeOK, IndicesInSlots, CallsOnAllocated
<1>5. \A r \in Queues : In(r, Holding)' = In(r, Holding) /\ In(r, Critical)' = In(r, Critical)
  BY <1>1 DEF In
<1>6. In(q, Holding) = {} /\ In(q, Critical) = {}
  BY <1>1, Unused DEF Holding, Filling, Emptying, Critical
<1>7. Cardinality(In(q, Holding)) = 0 /\ Cardinality(In(q, Critical)) = 0
  BY <1>6, FS_EmptySet
<1>8. /\ empty'[q] = k /\ full'[q] = 0 /\ size'[q] = k /\ mutex'[q] = 1
      /\ \A r \in Queues \ {q} : /\ empty'[r] = empty[r] /\ full'[r] = full[r]
                                 /\ size'[r] = size[r] /\ mutex'[r] = mutex[r]
  BY <1>1 DEF IInv, TypeOK
<1>9. \A r \in Queues : size'[r] > 0 =>
        /\ empty'[r] + full'[r] + Cardinality(In(r, Holding))' = size'[r]
        /\ mutex'[r] + Cardinality(In(r, Critical))' = 1
  <2>1. empty'[q] + full'[q] + Cardinality(In(q, Holding))' = size'[q]
    BY <1>2, <1>5, <1>7, <1>8
  <2>2. mutex'[q] + Cardinality(In(q, Critical))' = 1
    BY <1>5, <1>7, <1>8
  <2>3. \A r \in Queues \ {q} : size'[r] > 0 =>
          /\ empty'[r] + full'[r] + Cardinality(In(r, Holding))' = size'[r]
          /\ mutex'[r] + Cardinality(In(r, Critical))' = 1
    BY <1>5, <1>8 DEF IInv, SlotsAccounted, Holding
  <2> QED
    BY <2>1, <2>2, <2>3
<1>10. SlotsAccounted'
  BY <1>9 DEF SlotsAccounted, Holding
<1> QED
  BY <1>3, <1>4, <1>10 DEF IInv

(* A queue is deleted when no call on it is under way. *)
LEMMA QueueDeleteKeeps ==
  ASSUME IInv, NEW q \in Queues, QueueDelete(q)
  PROVE  IInv'
<1>1. /\ size' = [size EXCEPT ![q] = 0] /\ full' = [full EXCEPT ![q] = 0]
      /\ In(q, Locations \ {"idle"}) = {}
      /\ UNCHANGED <<buffer, empty, mutex, in, out, pc, queue, elem, news>>
  BY DEF QueueDelete
<1>2. TypeOK' /\ IndicesInSlots'
  BY <1>1 DEF IInv, TypeOK, IndicesInSlots
<1>3. \A t \in Threads : pc[t] # "idle" => queue[t] # q
  BY <1>1 DEF In, IInv, TypeOK
<1>4. CallsOnAllocated'
  BY <1>1, <1>3 DEF IInv, TypeOK, CallsOnAllocated
<1>5. \A r \in Queues : In(r, Holding)' = In(r, Holding) /\ In(r, Critical)' = In(r, Critical)
  BY <1>1 DEF In
<1>6. \A r \in Queues : size'[r] > 0 =>
        r # q /\ size'[r] = size[r] /\ full'[r] = full[r]
  BY <1>1 DEF IInv, TypeOK
<1>7. SlotsAccounted'
  BY <1>1, <1>5, <1>6 DEF IInv, SlotsAccounted, Holding
<1> QED
  BY <1>2, <1>4, <1>7 DEF IInv

(* Nothing changes. *)
LEMMA StutterKeeps ==
  ASSUME IInv, UNCHANGED vars
  PROVE  IInv'
BY DEF IInv, vars, shared, TypeOK, IndicesInSlots, CallsOnAllocated, SlotsAccounted, In

-----------------------------------------------------------------------------
(* No queue is allocated at first. *)
LEMMA IInvInit == Init => IInv
<1> SUFFICES ASSUME Init PROVE IInv
  OBVIOUS
<1>1. TypeOK
  BY MaxNewsAssumption DEF Init, TypeOK, Locations
<1>2. IndicesInSlots
  <2> SUFFICES ASSUME NEW k \in Sizes PROVE 0 \in Slots
    BY DEF Init, IndicesInSlots
  <2> QED
    BY SizesAssumption DEF Slots
<1>3. CallsOnAllocated /\ SlotsAccounted
  BY DEF Init, CallsOnAllocated, SlotsAccounted
<1> QED
  BY <1>1, <1>2, <1>3 DEF IInv

(* Every step keeps the inductive invariant. *)
LEMMA IInvNext == IInv /\ [Next]_vars => IInv'
<1> SUFFICES ASSUME IInv, [Next]_vars PROVE IInv'
  OBVIOUS
<1>1. ASSUME NEW q \in Queues, NEW k \in Sizes, QueueNew(q, k) PROVE IInv'
  BY <1>1, QueueNewKeeps
<1>2. ASSUME NEW q \in Queues, QueueDelete(q) PROVE IInv'
  BY <1>2, QueueDeleteKeeps
<1>3. ASSUME NEW t \in Threads, NEW q \in Queues,
             PopCall(t, q) \/ \E v \in Values : PushCall(t, q, v)
      PROVE  IInv'
  BY <1>3, CallKeeps
<1>4. ASSUME NEW t \in Threads, Continue(t) PROVE IInv'
  BY <1>4, SemaphoresKeep, BufferKeeps DEF Continue
<1>5. CASE UNCHANGED vars
  BY <1>5, StutterKeeps
<1> QED
  BY <1>1, <1>2, <1>3, <1>4, <1>5 DEF Next

(* The globals in and out are indices of the block behind the buffer of    *)
(* every queue there is; of the buffer itself if all queues are of one     *)
(* size.                                                                   *)
IndicesInBuffer ==
  \A q \in Queues : size[q] > 0 =>
    /\ in \in DOMAIN buffer[q] /\ out \in DOMAIN buffer[q]
    /\ Sizes = {size[q]} => in < size[q] /\ out < size[q]

(* Type correctness of the queue and its callers, and no access outside    *)
(* the block behind a buffer, for any number of threads and queues         *)
(* (queue.c:12-81).                                                        *)
THEOREM TypesHold == Spec => [](TypeOK /\ IndicesInBuffer)
<1>1. Init => IInv
  BY IInvInit
<1>2. IInv => TypeOK /\ IndicesInBuffer
  <2> SUFFICES ASSUME IInv, NEW q \in Queues, size[q] > 0
               PROVE  /\ in \in DOMAIN buffer[q] /\ out \in DOMAIN buffer[q]
                      /\ Sizes = {size[q]} => in < size[q] /\ out < size[q]
    BY DEF IInv, IndicesInBuffer
  <2>0. /\ buffer \in [Queues -> [Slots -> Values \cup {Nothing}]]
        /\ size \in [Queues -> Sizes \cup {0}]
    BY DEF IInv, TypeOK
  <2>1. DOMAIN buffer[q] = Slots
    BY <2>0
  <2>2. size[q] \in Sizes /\ size[q] \in Nat
    <3>1. size[q] \in Sizes \/ size[q] = 0
      BY <2>0
    <3>2. size[q] # 0
      OBVIOUS
    <3> QED
      BY <3>1, <3>2, SizesAssumption
  <2>3. in \in Slots /\ out \in Slots
    BY <2>2 DEF IInv, IndicesInSlots
  <2>4. Sizes = {size[q]} => Slots = 0..(size[q] - 1)
    BY DEF Slots
  <2> QED
    BY <2>1, <2>2, <2>3, <2>4
<1> QED
  BY <1>1, <1>2, IInvNext, PTL DEF Spec

(* No slot is lost or given out twice, and one call at a time is in the    *)
(* critical section of a queue, although the indices are shared            *)
(* (queue.c:53-81).                                                        *)
THEOREM SlotsHold == Spec => []SlotsAccounted
<1>1. Init => IInv
  BY IInvInit
<1>2. IInv => SlotsAccounted
  BY DEF IInv
<1> QED
  BY <1>1, <1>2, IInvNext, PTL DEF Spec

-----------------------------------------------------------------------------
(* The ring as a sequence. *)

(* P elements of the ring b of n slots, from slot f on. *)
Cells(b, f, n, P) == [i \in 1..P |-> b[(f + i - 1) % n]]

(* What the slots of the ring hold. *)
Holds(b, n, R) == \A k \in 0..(n - 1) : b[k] \in R

Wrap(j, n) == IF j < n THEN j ELSE j - n

LEMMA Wraps ==
  ASSUME NEW n \in Nat \ {0}, NEW j \in 0..(2 * n - 1)
  PROVE  j % n = Wrap(j, n) /\ j % n \in 0..(n - 1)
<1>1. CASE j < n
  BY <1>1 DEF Wrap
<1>2. CASE j >= n
  <2>1. PICK r \in 0..(n - 1) : j = n + r
    <3>1. j - n \in 0..(n - 1) /\ j = n + (j - n)
      BY <1>2
    <3> QED
      BY <3>1
  <2>2. j % n = r
    BY <2>1
  <2> QED
    BY <1>2, <2>1, <2>2 DEF Wrap
<1> QED
  BY <1>1, <1>2

LEMMA ModNext ==
  ASSUME NEW n \in Nat \ {0}, NEW k \in 0..(2 * n - 2)
  PROVE  ((k % n) + 1) % n = (k + 1) % n
<1>1. k % n = Wrap(k, n) /\ k % n \in 0..(n - 1)
  BY Wraps
<1>2. PICK j \in 0..(n - 1) : j = k % n
  BY <1>1
<1>3. (j + 1) % n = Wrap(j + 1, n) /\ (k + 1) % n = Wrap(k + 1, n)
  <2>1. j + 1 \in 0..(2 * n - 1) /\ k + 1 \in 0..(2 * n - 1)
    OBVIOUS
  <2> QED
    BY <2>1, Wraps
<1>4. Wrap(j + 1, n) = Wrap(k + 1, n)
  BY <1>1, <1>2 DEF Wrap
<1> QED
  BY <1>2, <1>3, <1>4

LEMMA ModShift ==
  ASSUME NEW n \in Nat \ {0}, NEW o \in 0..(n - 1), NEW j \in 0..(n - 1)
  PROVE  (((o + 1) % n) + j) % n = (o + 1 + j) % n
<1>1. PICK k \in 0..(n - 1) : k = (o + 1) % n /\ k = Wrap(o + 1, n)
  <2>1. o + 1 \in 0..(2 * n - 1)
    OBVIOUS
  <2> QED
    BY <2>1, Wraps
<1>2. (k + j) % n = Wrap(k + j, n) /\ (o + 1 + j) % n = Wrap(o + 1 + j, n)
  <2>1. k + j \in 0..(2 * n - 1) /\ o + 1 + j \in 0..(2 * n - 1)
    OBVIOUS
  <2> QED
    BY <2>1, Wraps
<1>3. Wrap(k + j, n) = Wrap(o + 1 + j, n)
  BY <1>1 DEF Wrap
<1> QED
  BY <1>1, <1>2, <1>3

LEMMA SameSequence ==
  ASSUME NEW S, NEW q \in Seq(S), NEW r \in Seq(S), Len(q) = Len(r),
         \A i \in 1..Len(q) : q[i] = r[i]
  PROVE  q = r
OBVIOUS

LEMMA CellsAre ==
  ASSUME NEW n \in Nat \ {0}, NEW f \in Nat, NEW P \in Nat, NEW R, NEW b,
         Holds(b, n, R)
  PROVE  Cells(b, f, n, P) \in Seq(R) /\ Len(Cells(b, f, n, P)) = P
<1>1. \A i \in 1..P : (f + i - 1) % n \in 0..(n - 1)
  OBVIOUS
<1>2. \A i \in 1..P : b[(f + i - 1) % n] \in R
  BY <1>1 DEF Holds
<1>3. Cells(b, f, n, P) \in [1..P -> R]
  BY <1>2 DEF Cells
<1> QED
  BY <1>3

StoredAt(c, b, k, n, v) == \A j \in 0..(n - 1) : c[j] = IF j = k THEN v ELSE b[j]

(* An element stored behind the last one. *)
AppendReady(n, f, P, R, v, b, k, Q, c) ==
  /\ n \in Nat \ {0} /\ f \in 0..n /\ P \in 0..(n - 1) /\ v \in R
  /\ Holds(b, n, R) /\ k = (f + P) % n /\ Q = P + 1 /\ StoredAt(c, b, k, n, v)

LEMMA CellsAppend ==
  ASSUME NEW n, NEW f, NEW P, NEW R, NEW v, NEW b, NEW k, NEW Q, NEW c,
         AppendReady(n, f, P, R, v, b, k, Q, c)
  PROVE  Cells(c, f, n, Q) = Append(Cells(b, f, n, P), v)
<1>a. /\ n \in Nat \ {0} /\ f \in 0..n /\ P \in 0..(n - 1) /\ v \in R
      /\ Holds(b, n, R) /\ k = (f + P) % n /\ Q = P + 1
  BY DEF AppendReady
<1>0. \A j \in 0..(n - 1) : c[j] = IF j = (f + P) % n THEN v ELSE b[j]
  BY DEF StoredAt, AppendReady
<1> USE <1>a
<1>1. PICK s : s = Cells(b, f, n, P)
  OBVIOUS
<1>2. PICK r : r = Cells(c, f, n, P + 1)
  OBVIOUS
<1>3. s \in Seq(R) /\ Len(s) = P /\ \A i \in 1..P : s[i] = b[(f + i - 1) % n]
  <2>1. f \in Nat /\ P \in Nat
    OBVIOUS
  <2>2. s \in Seq(R) /\ Len(s) = P
    BY <1>1, <2>1, CellsAre
  <2> QED
    BY <1>1, <2>2 DEF Cells
<1>4. (f + P) % n \in 0..(n - 1)
  OBVIOUS
<1>5. /\ r \in Seq(R) /\ Len(r) = P + 1
      /\ \A i \in 1..(P + 1) : r[i] = c[(f + i - 1) % n]
  <2>1. Holds(c, n, R)
    BY <1>0 DEF Holds
  <2>2. Q \in Nat /\ f \in Nat
    OBVIOUS
  <2>3. r = Cells(c, f, n, Q)
    BY <1>2
  <2>4. r \in Seq(R) /\ Len(r) = Q
    BY <2>1, <2>2, <2>3, CellsAre
  <2> QED
    BY <1>2, <2>2, <2>4 DEF Cells
<1>6. r[P + 1] = v
  <2>1. P + 1 \in 1..(P + 1) /\ f + (P + 1) - 1 = f + P
    OBVIOUS
  <2>2. r[P + 1] = c[(f + P) % n]
    BY <1>5, <2>1
  <2> QED
    BY <1>0, <1>4, <2>2
<1>7. ASSUME NEW i \in 1..P
      PROVE  r[i] = s[i]
  <2>1. PICK j \in 0..(2 * n - 1) : j = f + i - 1
    <3>1. f + i - 1 \in 0..(2 * n - 1)
      OBVIOUS
    <3> QED
      BY <3>1
  <2>2. PICK m \in 0..(2 * n - 1) : m = f + P
    <3>1. f + P \in 0..(2 * n - 1)
      OBVIOUS
    <3> QED
      BY <3>1
  <2>3. j < m /\ m - j < n
    BY <2>1, <2>2
  <2>4. Wrap(j, n) # Wrap(m, n)
    BY <2>3 DEF Wrap
  <2>5. j % n # m % n /\ j % n \in 0..(n - 1)
    BY <2>4, Wraps
  <2>6. r[i] = c[j % n] /\ s[i] = b[j % n]
    <3>1. i \in 1..(P + 1)
      OBVIOUS
    <3> QED
      BY <1>3, <1>5, <2>1, <3>1
  <2> QED
    BY <1>0, <2>2, <2>5, <2>6
<1>8. Append(s, v) \in Seq(R) /\ Len(Append(s, v)) = P + 1
      /\ Append(s, v)[P + 1] = v /\ \A i \in 1..P : Append(s, v)[i] = s[i]
  BY <1>3
<1>9. ASSUME NEW i \in 1..(P + 1)
      PROVE  r[i] = Append(s, v)[i]
  <2>1. i \in 1..P \/ i = P + 1
    OBVIOUS
  <2> QED
    BY <1>6, <1>7, <1>8, <2>1
<1>10. r = Append(s, v)
  <2>1. PICK w : w = Append(s, v)
    OBVIOUS
  <2>2. w \in Seq(R) /\ Len(w) = Len(r) /\ \A i \in 1..Len(r) : r[i] = w[i]
    BY <1>5, <1>8, <1>9, <2>1
  <2>3. w = r
    BY <1>5, <2>2
  <2> QED
    BY <2>1, <2>3
<1> QED
  BY <1>1, <1>2, <1>10

(* The oldest element, and those behind it. *)
HeadReady(n, f, P, R, b, g, Q) ==
  /\ n \in Nat \ {0} /\ f \in 0..(n - 1) /\ P \in Nat /\ P > 0
  /\ Holds(b, n, R) /\ g = f + 1 /\ Q = P - 1

LEMMA CellsHead ==
  ASSUME NEW n, NEW f, NEW P, NEW R, NEW b, NEW g, NEW Q, HeadReady(n, f, P, R, b, g, Q)
  PROVE  /\ Cells(b, f, n, P) # <<>>
         /\ b[f] = Head(Cells(b, f, n, P))
         /\ Cells(b, g, n, Q) = Tail(Cells(b, f, n, P))
<1>0. /\ n \in Nat \ {0} /\ f \in 0..(n - 1) /\ P \in Nat /\ P > 0
      /\ Holds(b, n, R) /\ g = f + 1 /\ Q = P - 1
  BY DEF HeadReady
<1> USE <1>0
<1>1. PICK s : s = Cells(b, f, n, P)
  OBVIOUS
<1>2. s \in Seq(R) /\ Len(s) = P /\ \A i \in 1..P : s[i] = b[(f + i - 1) % n]
  <2>1. f \in Nat
    OBVIOUS
  <2>2. s \in Seq(R) /\ Len(s) = P
    BY <1>1, <2>1, CellsAre
  <2> QED
    BY <1>1, <2>2 DEF Cells
<1>3. PICK r : r = Cells(b, f + 1, n, P - 1)
  OBVIOUS
<1>4. r \in Seq(R) /\ Len(r) = P - 1 /\ \A i \in 1..(P - 1) : r[i] = b[(f + 1 + i - 1) % n]
  <2>1. Q \in Nat /\ g \in Nat
    OBVIOUS
  <2>2. r = Cells(b, g, n, Q)
    BY <1>3
  <2>3. r \in Seq(R) /\ Len(r) = Q
    BY <2>1, <2>2, CellsAre
  <2> QED
    BY <1>3, <2>1, <2>3 DEF Cells
<1>5. s # <<>> /\ Head(s) = s[1]
  BY <1>2
<1>6. s[1] = b[f]
  <2>1. 1 \in 1..P /\ f + 1 - 1 = f /\ f % n = f
    OBVIOUS
  <2>2. s[1] = b[(f + 1 - 1) % n]
    BY <1>2, <2>1
  <2> QED
    BY <2>1, <2>2
<1>7. PICK w : w = Tail(s)
  OBVIOUS
<1>8. w \in Seq(R) /\ Len(w) = P - 1 /\ \A i \in 1..(P - 1) : w[i] = s[i + 1]
  BY <1>2, <1>5, <1>7
<1>9. ASSUME NEW i \in 1..(P - 1)
      PROVE  r[i] = w[i]
  <2>1. i + 1 \in 1..P /\ f + (i + 1) - 1 = f + 1 + i - 1
    OBVIOUS
  <2> QED
    BY <1>2, <1>4, <1>8, <2>1
<1>10. r = w
  BY <1>4, <1>8, <1>9, SameSequence
<1> QED
  BY <1>1, <1>3, <1>5, <1>6, <1>7, <1>10

(* The slot of the oldest element is passed by wrapping round or not. *)
LEMMA CellsShift ==
  ASSUME NEW n \in Nat \ {0}, NEW o \in 0..(n - 1), NEW P \in 0..(n - 1), NEW b
  PROVE  Cells(b, (o + 1) % n, n, P) = Cells(b, o + 1, n, P)
<1>1. ASSUME NEW i \in 1..P
      PROVE  (((o + 1) % n) + i - 1) % n = (o + 1 + i - 1) % n
  <2>1. PICK j \in 0..(n - 1) : j = i - 1
    <3>1. i - 1 \in 0..(n - 1)
      OBVIOUS
    <3> QED
      BY <3>1
  <2>2. (o + 1) % n \in Nat
    OBVIOUS
  <2>3. ((o + 1) % n) + i - 1 = ((o + 1) % n) + j /\ o + 1 + i - 1 = o + 1 + j
    BY <2>1, <2>2
  <2> QED
    BY <2>3, ModShift
<1> QED
  BY <1>1 DEF Cells

-----------------------------------------------------------------------------
(* One queue, whose ring the indices follow. *)

First(q) == IF In(q, {"popAdvance"}) = {} THEN out ELSE out + 1

(* An element is stored and in not yet advanced. *)
Behind(q) == IF In(q, {"pushAdvance"}) = {} THEN 0 ELSE 1

(* Where calls hold a slot whose element is there, and where one without. *)
Added == {"pushAdvance", "pushUnlock", "pushFull"}
Owing == {"popMutex", "popLoad"}
Apart == {"pushMutex", "pushStore", "popAdvance", "popUnlock", "popEmpty"}

(* The next element goes behind the last one. *)
InStep(i, o, n, f, P, B) ==
  /\ i \in 0..(n - 1) /\ o \in 0..(n - 1)
  /\ i = (f + P - B) % n

Ring == \A q \in Queues :
  size[q] > 0 => InStep(in, out, size[q], First(q), Present(q), Behind(q))

(* There is one queue at a time, and the indices begin at its start. *)
OneQueue == \A q, r \in Queues : size[q] > 0 /\ size[r] > 0 => q = r

Fresh ==
  /\ news = 0 => in = 0 /\ out = 0 /\ \A q \in Queues : size[q] = 0
  /\ \A q \in Queues : size[q] = 0 => full[q] = 0

PushesValues ==
  \A t \in Threads : pc[t] \in {"pushEmpty", "pushMutex", "pushStore"} => elem[t] \in Values

FIFOInv == IInv /\ Ring /\ OneQueue /\ Fresh /\ PushesValues

LEMMA ContentIs ==
  ASSUME NEW q
  PROVE  /\ Content(q) = Cells(buffer[q], First(q), size[q], Present(q))
         /\ Content(q)' = Cells(buffer'[q], First(q)', size'[q], Present(q)')
BY DEF Content, Cells, First

(* Who is where, after a thread went from a to b. *)
LEMMA InMoves ==
  ASSUME TypeOK, NEW t \in Threads, NEW a, NEW b, Step(t, a, b), queue' = queue,
         NEW L, NEW r \in Queues
  PROVE  /\ r # queue[t] \/ (a \in L <=> b \in L) => In(r, L)' = In(r, L)
         /\ r = queue[t] /\ b \in L => In(r, L)' = In(r, L) \cup {t}
         /\ r = queue[t] /\ b \notin L => In(r, L)' = In(r, L) \ {t}
<1>1. /\ pc[t] = a /\ pc'[t] = b
      /\ \A u \in Threads \ {t} : pc'[u] = pc[u]
  BY DEF Step, TypeOK
<1>2. In(r, L)' = {u \in Threads : pc'[u] \in L /\ queue[u] = r}
  BY DEF In
<1> QED
  BY <1>1, <1>2 DEF In

(* Of two disjoint sets of locations. *)
LEMMA InBoth ==
  ASSUME NEW q, NEW L, NEW M, L \cap M = {}
  PROVE  /\ Cardinality(In(q, L \cup M)) = Cardinality(In(q, L)) + Cardinality(In(q, M))
         /\ Cardinality(In(q, L)) \in Nat /\ Cardinality(In(q, M)) \in Nat
<1>1. In(q, L \cup M) = In(q, L) \cup In(q, M) /\ In(q, L) \cap In(q, M) = {}
  BY DEF In
<1>2. IsFiniteSet(In(q, L)) /\ IsFiniteSet(In(q, M))
  BY FiniteAssumption, FS_Subset DEF In
<1>3. Cardinality(In(q, L) \cup In(q, M))
        = Cardinality(In(q, L)) + Cardinality(In(q, M)) - Cardinality(In(q, L) \cap In(q, M))
  BY <1>2, FS_Union
<1>4. /\ Cardinality(In(q, L)) \in Nat /\ Cardinality(In(q, M)) \in Nat
      /\ Cardinality(In(q, L) \cap In(q, M)) = 0
  BY <1>1, <1>2, FS_CardinalityType, FS_EmptySet
<1>5. Cardinality(In(q, L) \cup In(q, M)) = Cardinality(In(q, L)) + Cardinality(In(q, M))
  BY <1>3, <1>4
<1> QED
  BY <1>1, <1>4, <1>5

(* No more elements than slots. *)
LEMMA PresentFits ==
  ASSUME IInv, NEW q \in Queues, size[q] > 0
  PROVE  /\ size[q] \in Nat \ {0} /\ Present(q) \in 0..size[q]
         /\ Cardinality(In(q, Apart)) \in 0..(size[q] - Present(q))
<1>1. size[q] \in Nat \ {0} /\ empty[q] \in Nat /\ full[q] \in Nat
  <2>1. size[q] \in Sizes
    BY DEF IInv, TypeOK
  <2> QED
    BY <2>1, SizesAssumption DEF IInv, TypeOK
<1>2. empty[q] + full[q] + Cardinality(In(q, Filling \cup Emptying)) = size[q]
  BY DEF IInv, SlotsAccounted
<1>3. Filling \cup Emptying = (Added \cup Owing) \cup Apart
  BY DEF Filling, Emptying, Added, Owing, Apart
<1>4. Added \cap Owing = {} /\ (Added \cup Owing) \cap Apart = {}
  BY DEF Added, Owing, Apart
<1>5. /\ Cardinality(In(q, Filling \cup Emptying))
           = Cardinality(In(q, Added \cup Owing)) + Cardinality(In(q, Apart))
      /\ Cardinality(In(q, Apart)) \in Nat
  BY <1>3, <1>4, InBoth
<1>6. /\ Cardinality(In(q, Added \cup Owing)) = Cardinality(In(q, Added)) + Cardinality(In(q, Owing))
      /\ Cardinality(In(q, Added)) \in Nat /\ Cardinality(In(q, Owing)) \in Nat
  BY <1>4, InBoth
<1>7. Present(q) = full[q] + Cardinality(In(q, Added)) + Cardinality(In(q, Owing))
  BY DEF Present, Added, Owing
<1> QED
  BY <1>1, <1>2, <1>5, <1>6, <1>7

(* Nothing is in a queue that is not allocated. *)
LEMMA PresentNowhere ==
  ASSUME IInv, Fresh, NEW q \in Queues, size[q] = 0
  PROVE  Present(q) = 0
<1>1. full[q] = 0
  BY DEF Fresh
<1>2. In(q, {"pushAdvance", "pushUnlock", "pushFull"}) = {} /\ In(q, {"popMutex", "popLoad"}) = {}
  BY Unused
<1> QED
  BY <1>1, <1>2, FS_EmptySet DEF Present

(* The elements after a thread of the queue went from a to b. *)
Balanced(P1, k, wa, P, k1, wb) == P1 + k + wa = P + k1 + wb

LEMMA PresentMoves ==
  ASSUME TypeOK, NEW t \in Threads, NEW a, NEW b, Step(t, a, b), queue' = queue,
         NEW q \in Queues, full'[q] \in Nat
  PROVE  /\ Present(q) \in Nat /\ Present(q)' \in Nat
         /\ q # queue[t] /\ full'[q] = full[q] => Present(q)' = Present(q)
         /\ q = queue[t] => Balanced(Present(q)', full[q], Weight(a, Added \cup Owing),
                                     Present(q), full'[q], Weight(b, Added \cup Owing))
<1> DEFINE A == Cardinality(In(q, Added))
           O == Cardinality(In(q, Owing))
<1>1. full[q] \in Nat
  BY DEF TypeOK
<1>2. /\ A \in Nat
      /\ q # queue[t] \/ (a \in Added <=> b \in Added) => A' = A
      /\ q = queue[t] /\ a \notin Added /\ b \in Added => A' = A + 1
      /\ q = queue[t] /\ a \in Added /\ b \notin Added => A' = A - 1 /\ A > 0
  BY Counts
<1>3. /\ O \in Nat
      /\ q # queue[t] \/ (a \in Owing <=> b \in Owing) => O' = O
      /\ q = queue[t] /\ a \notin Owing /\ b \in Owing => O' = O + 1
      /\ q = queue[t] /\ a \in Owing /\ b \notin Owing => O' = O - 1 /\ O > 0
  BY Counts
<1>4. Present(q) = full[q] + A + O /\ Present(q)' = full'[q] + A' + O'
  BY DEF Present, Added, Owing
<1>5. /\ Weight(a, Added \cup Owing) = Weight(a, Added) + Weight(a, Owing)
      /\ Weight(b, Added \cup Owing) = Weight(b, Added) + Weight(b, Owing)
  BY DEF Weight, Added, Owing
<1> HIDE DEF A, O
<1>6. A' \in Nat /\ O' \in Nat
  BY <1>2, <1>3
<1>7. q = queue[t] => /\ A' + Weight(a, Added) = A + Weight(b, Added)
                      /\ O' + Weight(a, Owing) = O + Weight(b, Owing)
  BY <1>2, <1>3 DEF Weight
<1>8. /\ Weight(a, Added) \in Nat /\ Weight(b, Added) \in Nat
      /\ Weight(a, Owing) \in Nat /\ Weight(b, Owing) \in Nat
  BY DEF Weight
<1>9. Present(q) \in Nat /\ Present(q)' \in Nat
  BY <1>1, <1>2, <1>3, <1>4, <1>6
<1>10. q # queue[t] /\ full'[q] = full[q] => Present(q)' = Present(q)
  BY <1>2, <1>3, <1>4
<1>11. ASSUME q = queue[t]
       PROVE  Balanced(Present(q)', full[q], Weight(a, Added \cup Owing),
                       Present(q), full'[q], Weight(b, Added \cup Owing))
  <2>1. /\ A' + Weight(a, Added) = A + Weight(b, Added)
        /\ O' + Weight(a, Owing) = O + Weight(b, Owing)
    BY <1>7, <1>11
  <2>2. PICK P, P1, wa, wb : /\ P = Present(q) /\ P1 = Present(q)'
                             /\ wa = Weight(a, Added \cup Owing) /\ wb = Weight(b, Added \cup Owing)
    OBVIOUS
  <2>3. /\ P = full[q] + A + O /\ P1 = full'[q] + A' + O'
        /\ wa = Weight(a, Added) + Weight(a, Owing) /\ wb = Weight(b, Added) + Weight(b, Owing)
    BY <1>4, <1>5, <2>2
  <2>4. P1 + full[q] + wa = P + full'[q] + wb
    BY <1>1, <1>2, <1>3, <1>6, <1>8, <2>1, <2>3
  <2> QED
    BY <2>2, <2>4 DEF Balanced
<1> QED
  BY <1>9, <1>10, <1>11

(* The same, where the semaphore full is left alone. *)
Shifted(P1, wa, P, wb) == P1 + wa = P + wb

LEMMA PresentSteps ==
  ASSUME TypeOK, NEW t \in Threads, NEW a, NEW b, Step(t, a, b), queue' = queue,
         NEW q \in Queues, q = queue[t], full'[q] = full[q]
  PROVE  /\ Present(q) \in Nat /\ Present(q)' \in Nat
         /\ Shifted(Present(q)', Weight(a, Added \cup Owing), Present(q), Weight(b, Added \cup Owing))
<1>1. full[q] \in Nat /\ full'[q] = full[q]
  BY DEF TypeOK
<1>2. /\ Present(q) \in Nat /\ Present(q)' \in Nat
      /\ Balanced(Present(q)', full[q], Weight(a, Added \cup Owing),
                  Present(q), full'[q], Weight(b, Added \cup Owing))
  <2>1. full'[q] \in Nat
    BY <1>1
  <2> QED
    BY <1>1, <2>1, PresentMoves
<1>3. Weight(a, Added \cup Owing) \in Nat /\ Weight(b, Added \cup Owing) \in Nat
  BY DEF Weight
<1>4. PICK P \in Nat, P1 \in Nat : P = Present(q) /\ P1 = Present(q)'
  BY <1>2
<1>5. P1 + full[q] + Weight(a, Added \cup Owing) = P + full[q] + Weight(b, Added \cup Owing)
  BY <1>1, <1>2, <1>4 DEF Balanced
<1>6. P1 + Weight(a, Added \cup Owing) = P + Weight(b, Added \cup Owing)
  BY <1>1, <1>3, <1>4, <1>5
<1> QED
  BY <1>2, <1>4, <1>6 DEF Shifted

(* One call at a time is in the critical section. *)
LEMMA Alone ==
  ASSUME IInv, NEW t \in Threads, pc[t] \in Critical
  PROVE  /\ queue[t] \in Queues /\ size[queue[t]] > 0
         /\ \A l \in Critical : In(queue[t], {l}) = IF pc[t] = l THEN {t} ELSE {}
<1>1. queue[t] \in Queues /\ pc[t] # "idle" /\ size[queue[t]] > 0
  BY DEF IInv, TypeOK, CallsOnAllocated, Critical
<1> DEFINE S == In(queue[t], Critical)
<1>2. S \in SUBSET Threads /\ t \in S
  BY DEF In
<1>3. mutex[queue[t]] + Cardinality(S) = 1 /\ mutex[queue[t]] \in Nat
  BY <1>1 DEF IInv, TypeOK, SlotsAccounted
<1>4. \A l \in Critical : In(queue[t], {l}) = {u \in S : pc[u] = l}
  BY DEF In
<1> HIDE DEF S
<1>5. Cardinality(S \ {t}) = 0 /\ IsFiniteSet(S \ {t})
  <2>1. /\ Cardinality(S \ {t}) = Cardinality(S) - 1 /\ Cardinality(S) > 0 /\ Cardinality(S) \in Nat
    BY <1>2, Sizing
  <2>2. IsFiniteSet(S \ {t})
    BY <1>2, Sizing
  <2> QED
    BY <1>3, <2>1, <2>2
<1>6. S \ {t} = {}
  BY <1>5, FS_EmptySet
<1>7. S = {t}
  BY <1>2, <1>6
<1> QED
  BY <1>1, <1>4, <1>7

-----------------------------------------------------------------------------
(* The steps of a call, seen from the ring. *)

LEMMA InACall ==
  ASSUME FIFOInv, NEW t \in Threads, pc[t] # "idle"
  PROVE  /\ queue[t] \in Queues /\ size[queue[t]] > 0 /\ size[queue[t]] \in Nat \ {0}
         /\ InStep(in, out, size[queue[t]], First(queue[t]), Present(queue[t]), Behind(queue[t]))
         /\ \A r \in Queues \ {queue[t]} : size[r] = 0
<1>1. queue[t] \in Queues /\ size[queue[t]] > 0
  BY DEF FIFOInv, IInv, TypeOK, CallsOnAllocated
<1>2. \A r \in Queues : size[r] \in Nat
  <2>1. size \in [Queues -> Sizes \cup {0}]
    BY DEF FIFOInv, IInv, TypeOK
  <2>2. \A k \in Sizes \cup {0} : k \in Nat
    BY SizesAssumption
  <2> QED
    BY <2>1, <2>2
<1>3. \A r \in Queues \ {queue[t]} : size[r] = 0
  BY <1>1, <1>2 DEF FIFOInv, OneQueue
<1> QED
  BY <1>1, <1>2, <1>3 DEF FIFOInv, Ring

(* What is the same for all of them: the other queues. *)
LEMMA ThreadStep ==
  ASSUME FIFOInv, NEW t \in Threads, NEW q \in Queues, q = queue[t],
         NEW a \in Locations \ {"idle"}, NEW b \in Locations,
         Step(t, a, b), UNCHANGED <<size, queue, news>>, full' \in [Queues -> Nat],
         \A r \in Queues \ {q} : full'[r] = full[r],
         InStep(in', out', size[q], First(q)', Present(q)', Behind(q)')
  PROVE  /\ Ring' /\ OneQueue' /\ Fresh'
         /\ \A r \in Queues \ {q} : Content(r)' = Content(r)
<1>1. TypeOK /\ IInv /\ Fresh /\ pc[t] # "idle"
  BY DEF FIFOInv, IInv, Step
<1>2. /\ size[q] > 0
      /\ \A r \in Queues \ {q} : size[r] = 0
  BY <1>1, InACall
<1>3. ASSUME NEW r \in Queues \ {q}
      PROVE  Content(r)' = Content(r)
  <2>1. Present(r) = 0
    BY <1>1, <1>2, PresentNowhere
  <2>2. Present(r)' = 0
    BY <1>1, <2>1, PresentMoves
  <2> QED
    BY <2>1, <2>2, ContentIs DEF Cells
<1>4. Ring'
  BY <1>2 DEF Ring
<1>5. OneQueue'
  BY DEF FIFOInv, OneQueue
<1>6. Fresh'
  BY <1>1, <1>2 DEF Fresh
<1> QED
  BY <1>3, <1>4, <1>5, <1>6

(* A step that leaves the ring alone, and moves no element in or out. *)
LEMMA QuietStep ==
  ASSUME FIFOInv, NEW t \in Threads, NEW q \in Queues, q = queue[t],
         NEW a \in Locations \ {"idle", "pushAdvance", "popAdvance"},
         NEW b \in Locations \ {"pushAdvance", "popAdvance"},
         Step(t, a, b), UNCHANGED <<size, buffer, in, out, queue, news>>,
         full' \in [Queues -> Nat],
         \A r \in Queues \ {q} : full'[r] = full[r],
         full'[q] + Weight(b, Added \cup Owing) = full[q] + Weight(a, Added \cup Owing)
  PROVE  /\ Ring' /\ OneQueue' /\ Fresh'
         /\ \A r \in Queues : Content(r)' = Content(r)
<1>1. TypeOK /\ pc[t] # "idle" /\ full \in [Queues -> Nat]
  BY DEF FIFOInv, IInv, TypeOK, Step
<1>2. InStep(in, out, size[q], First(q), Present(q), Behind(q))
  BY <1>1, InACall
<1>3. Present(q)' = Present(q)
  <2>1. /\ Present(q) \in Nat /\ Present(q)' \in Nat
        /\ Balanced(Present(q)', full[q], Weight(a, Added \cup Owing),
                    Present(q), full'[q], Weight(b, Added \cup Owing))
    <3>1. full'[q] \in Nat
      OBVIOUS
    <3> QED
      BY <1>1, <3>1, PresentMoves
  <2>2. /\ full[q] \in Nat /\ full'[q] \in Nat
        /\ Weight(a, Added \cup Owing) \in Nat /\ Weight(b, Added \cup Owing) \in Nat
    BY <1>1, <1>2 DEF Weight
  <2>3. full'[q] + Weight(b, Added \cup Owing) = full[q] + Weight(a, Added \cup Owing)
    OBVIOUS
  <2>4. PICK P \in Nat, P1 \in Nat : P = Present(q) /\ P1 = Present(q)'
    BY <2>1
  <2>5. P1 + full[q] + Weight(a, Added \cup Owing) = P + full'[q] + Weight(b, Added \cup Owing)
    BY <2>1, <2>4 DEF Balanced
  <2>6. P1 = P
    BY <2>2, <2>3, <2>4, <2>5
  <2> QED
    BY <2>4, <2>6
<1>4. /\ In(q, {"popAdvance"})' = In(q, {"popAdvance"})
      /\ In(q, {"pushAdvance"})' = In(q, {"pushAdvance"})
  BY <1>1, <1>2, InMoves
<1>5. First(q)' = First(q) /\ Behind(q)' = Behind(q)
  BY <1>4 DEF First, Behind
<1>6. Content(q)' = Content(q)
  BY <1>3, <1>5, ContentIs
<1>7. InStep(in', out', size[q], First(q)', Present(q)', Behind(q)')
  BY <1>2, <1>3, <1>5
<1>8. /\ Ring' /\ OneQueue' /\ Fresh'
      /\ \A r \in Queues \ {q} : Content(r)' = Content(r)
  BY <1>7, ThreadStep
<1> QED
  BY <1>6, <1>8

(* The weights of the locations that the elements' account goes by. *)
LEMMA ElementWeights ==
  /\ \A l \in {"pushAdvance", "pushUnlock", "pushFull", "popMutex", "popLoad"} :
       Weight(l, Added \cup Owing) = 1
  /\ \A l \in {"idle", "pushEmpty", "pushMutex", "pushStore", "popFull",
               "popAdvance", "popUnlock", "popEmpty"} : Weight(l, Added \cup Owing) = 0
BY DEF Weight, Added, Owing

LEMMA SemaphoresQuiet ==
  ASSUME FIFOInv, NEW t \in Threads,
         \/ PushWaitEmpty(t) \/ PushWaitMutex(t) \/ PushUnlock(t) \/ PushPostFull(t)
         \/ PopWaitFull(t) \/ PopWaitMutex(t) \/ PopUnlock(t) \/ PopPostEmpty(t)
  PROVE  /\ Ring' /\ OneQueue' /\ Fresh'
         /\ \A r \in Queues : Content(r)' = Content(r)
<1>1. queue[t] \in Queues /\ full \in [Queues -> Nat]
  BY DEF FIFOInv, IInv, TypeOK
<1>2. UNCHANGED <<size, buffer, in, out, queue, elem, news>>
  BY DEF PushWaitEmpty, PushWaitMutex, PushUnlock, PushPostFull,
         PopWaitFull, PopWaitMutex, PopUnlock, PopPostEmpty
<1>3. CASE PushWaitEmpty(t)
  <2>1. Step(t, "pushEmpty", "pushMutex") /\ full' = full
    BY <1>3 DEF PushWaitEmpty
  <2> QED
    BY <1>1, <1>2, <2>1, ElementWeights, QuietStep DEF Locations
<1>4. CASE PushWaitMutex(t)
  <2>1. Step(t, "pushMutex", "pushStore") /\ full' = full
    BY <1>4 DEF PushWaitMutex
  <2> QED
    BY <1>1, <1>2, <2>1, ElementWeights, QuietStep DEF Locations
<1>5. CASE PushUnlock(t)
  <2>1. Step(t, "pushUnlock", "pushFull") /\ full' = full
    BY <1>5 DEF PushUnlock
  <2> QED
    BY <1>1, <1>2, <2>1, ElementWeights, QuietStep DEF Locations
<1>6. CASE PushPostFull(t)
  <2>1. Step(t, "pushFull", "idle") /\ full' = [full EXCEPT ![queue[t]] = @ + 1]
    BY <1>6 DEF PushPostFull, SemPost
  <2>2. /\ full' \in [Queues -> Nat] /\ \A r \in Queues \ {queue[t]} : full'[r] = full[r]
        /\ full'[queue[t]] + Weight("idle", Added \cup Owing)
             = full[queue[t]] + Weight("pushFull", Added \cup Owing)
    BY <1>1, <2>1, ElementWeights
  <2> QED
    BY <1>1, <1>2, <2>1, <2>2, QuietStep DEF Locations
<1>7. CASE PopWaitFull(t)
  <2>1. /\ Step(t, "popFull", "popMutex")
        /\ full[queue[t]] > 0 /\ full' = [full EXCEPT ![queue[t]] = @ - 1]
    BY <1>7 DEF PopWaitFull, SemWait
  <2>2. /\ full' \in [Queues -> Nat] /\ \A r \in Queues \ {queue[t]} : full'[r] = full[r]
        /\ full'[queue[t]] + Weight("popMutex", Added \cup Owing)
             = full[queue[t]] + Weight("popFull", Added \cup Owing)
    BY <1>1, <2>1, ElementWeights
  <2> QED
    BY <1>1, <1>2, <2>1, <2>2, QuietStep DEF Locations
<1>8. CASE PopWaitMutex(t)
  <2>1. Step(t, "popMutex", "popLoad") /\ full' = full
    BY <1>8 DEF PopWaitMutex
  <2> QED
    BY <1>1, <1>2, <2>1, ElementWeights, QuietStep DEF Locations
<1>9. CASE PopUnlock(t)
  <2>1. Step(t, "popUnlock", "popEmpty") /\ full' = full
    BY <1>9 DEF PopUnlock
  <2> QED
    BY <1>1, <1>2, <2>1, ElementWeights, QuietStep DEF Locations
<1>10. CASE PopPostEmpty(t)
  <2>1. Step(t, "popEmpty", "idle") /\ full' = full
    BY <1>10 DEF PopPostEmpty
  <2> QED
    BY <1>1, <1>2, <2>1, ElementWeights, QuietStep DEF Locations
<1> QED
  BY <1>3, <1>4, <1>5, <1>6, <1>7, <1>8, <1>9, <1>10

(* What the ring of a queue in use holds. *)
LEMMA RingHolds ==
  ASSUME IInv, NEW q \in Queues, size[q] > 0
  PROVE  /\ 0..(size[q] - 1) \subseteq Slots
         /\ Holds(buffer[q], size[q], Values \cup {Nothing})
<1>1. size[q] \in Sizes /\ buffer[q] \in [Slots -> Values \cup {Nothing}]
  BY DEF IInv, TypeOK
<1>2. 0..(size[q] - 1) \subseteq Slots
  BY <1>1 DEF Slots
<1> QED
  BY <1>1, <1>2 DEF Holds

(* The element is stored behind the last one. *)
LEMMA StoreAppends ==
  ASSUME FIFOInv, NEW t \in Threads, PushStore(t), NEW q \in Queues, q = queue[t]
  PROVE  /\ Ring' /\ OneQueue' /\ Fresh'
         /\ \A r \in Queues \ {q} : Content(r)' = Content(r)
         /\ Len(Content(q)) < size[q] /\ elem[t] \in Values
         /\ Content(q)' = Append(Content(q), elem[t])
<1>1. /\ Step(t, "pushStore", "pushAdvance")
      /\ buffer' = [buffer EXCEPT ![q][in] = elem[t]]
      /\ UNCHANGED <<size, empty, full, mutex, in, out, queue, elem, news>>
  BY DEF PushStore
<1>2. IInv /\ TypeOK /\ pc[t] = "pushStore" /\ full \in [Queues -> Nat]
  BY <1>1 DEF FIFOInv, IInv, TypeOK, Step
<1>3. PICK n \in Nat \ {0} : n = size[q]
  BY <1>2, InACall
<1>4. size[q] > 0 /\ InStep(in, out, n, First(q), Present(q), Behind(q))
  BY <1>2, <1>3, InACall
<1>5. In(q, {"pushAdvance"}) = {} /\ In(q, {"popAdvance"}) = {}
  <2>1. pc[t] \in Critical /\ "pushAdvance" \in Critical /\ "popAdvance" \in Critical
    BY <1>2 DEF Critical
  <2> QED
    BY <1>2, <2>1, Alone
<1>6. First(q) = out /\ Behind(q) = 0
  BY <1>5 DEF First, Behind
<1>7. PICK P \in 0..(n - 1) : P = Present(q)
  <2>1. Present(q) \in 0..n /\ Cardinality(In(q, Apart)) \in 0..(n - Present(q))
    BY <1>2, <1>3, <1>4, PresentFits
  <2>2. Cardinality(In(q, Apart)) > 0
    <3>1. In(q, Apart) \in SUBSET Threads /\ t \in In(q, Apart)
      BY <1>2 DEF In, Apart
    <3> QED
      BY <3>1, Sizing
  <2>3. Present(q) \in 0..(n - 1)
    BY <2>1, <2>2
  <2> QED
    BY <2>3
<1>8. PICK f \in 0..(n - 1) : f = out
  BY <1>4 DEF InStep
<1>9. in = (f + P) % n /\ in \in 0..(n - 1)
  BY <1>4, <1>6, <1>7, <1>8 DEF InStep
<1>10. Present(q)' = P + 1
  <2>1. /\ Present(q)' \in Nat
        /\ Shifted(Present(q)', Weight("pushStore", Added \cup Owing),
                   Present(q), Weight("pushAdvance", Added \cup Owing))
    <3>1. PICK a, b : a = "pushStore" /\ b = "pushAdvance"
      OBVIOUS
    <3>2. Step(t, a, b) /\ queue' = queue /\ full' = full
      BY <1>1, <3>1
    <3>3. /\ Present(q)' \in Nat
          /\ Shifted(Present(q)', Weight(a, Added \cup Owing), Present(q), Weight(b, Added \cup Owing))
      BY <1>2, <3>2, PresentSteps
    <3> QED
      BY <3>1, <3>3
  <2>2. PICK P1 \in Nat : P1 = Present(q)'
    BY <2>1
  <2>3. P1 + 0 = P + 1
    BY <1>7, <2>1, <2>2, ElementWeights DEF Shifted
  <2>4. P1 = P + 1
    BY <2>3
  <2> QED
    BY <2>2, <2>4
<1>11. First(q)' = f /\ Behind(q)' = 1
  <2>1. In(q, {"popAdvance"})' = In(q, {"popAdvance"}) /\ In(q, {"pushAdvance"})' = In(q, {"pushAdvance"}) \cup {t}
    BY <1>1, <1>2, InMoves
  <2> QED
    BY <1>1, <1>5, <1>8, <2>1 DEF First, Behind
<1>12. InStep(in', out', size[q], First(q)', Present(q)', Behind(q)')
  <2>1. f + (P + 1) - 1 = f + P
    OBVIOUS
  <2>2. InStep(in, f, n, f, P + 1, 1)
    BY <1>9, <2>1 DEF InStep
  <2> QED
    BY <1>1, <1>3, <1>8, <1>10, <1>11, <2>2
<1>13. /\ Ring' /\ OneQueue' /\ Fresh'
       /\ \A r \in Queues \ {q} : Content(r)' = Content(r)
  BY <1>1, <1>2, <1>12, ThreadStep DEF Locations
<1>14. elem[t] \in Values
  BY <1>2 DEF FIFOInv, PushesValues
<1>15. PICK b, c, v, R : /\ b = buffer[q] /\ c = buffer'[q] /\ v = elem[t]
                         /\ R = Values \cup {Nothing}
  OBVIOUS
<1>16. Holds(b, n, R) /\ v \in R
  BY <1>2, <1>3, <1>4, <1>14, <1>15, RingHolds
<1>17. StoredAt(c, b, (f + P) % n, n, v)
  <2>1. c = [b EXCEPT ![in] = v] /\ b \in [Slots -> Values \cup {Nothing}]
    BY <1>1, <1>2, <1>15 DEF TypeOK
  <2>2. 0..(n - 1) \subseteq Slots
    BY <1>2, <1>3, <1>4, RingHolds
  <2> QED
    BY <1>9, <2>1, <2>2 DEF StoredAt
<1>18. Content(q) = Cells(b, f, n, P) /\ Content(q)' = Cells(c, f, n, P + 1)
  BY <1>1, <1>3, <1>6, <1>7, <1>8, <1>10, <1>11, <1>15, ContentIs
<1>19. f \in 0..n /\ f \in Nat /\ P \in Nat
  OBVIOUS
<1>20. Cells(c, f, n, P + 1) = Append(Cells(b, f, n, P), v)
  <2>1. PICK k, Q : k = (f + P) % n /\ Q = P + 1
    OBVIOUS
  <2>2. StoredAt(c, b, k, n, v)
    BY <1>17, <2>1
  <2>3. Cells(c, f, n, Q) = Append(Cells(b, f, n, P), v)
    <3>1. AppendReady(n, f, P, R, v, b, k, Q, c)
      BY <1>16, <1>19, <2>1, <2>2 DEF AppendReady
    <3> QED
      BY <3>1, CellsAppend
  <2> QED
    BY <2>1, <2>3
<1>21. Len(Cells(b, f, n, P)) = P
  BY <1>16, <1>19, CellsAre
<1>22. Len(Content(q)) < size[q]
  BY <1>3, <1>18, <1>21
<1> QED
  BY <1>13, <1>14, <1>15, <1>18, <1>20, <1>22

(* The index in follows it. *)
LEMMA AdvanceInQuiet ==
  ASSUME FIFOInv, NEW t \in Threads, PushAdvance(t), NEW q \in Queues, q = queue[t]
  PROVE  /\ Ring' /\ OneQueue' /\ Fresh'
         /\ \A r \in Queues : Content(r)' = Content(r)
<1>1. /\ Step(t, "pushAdvance", "pushUnlock")
      /\ in' = (in + 1) % size[q]
      /\ UNCHANGED <<size, buffer, empty, full, mutex, out, queue, elem, news>>
  BY DEF PushAdvance
<1>2. IInv /\ TypeOK /\ pc[t] = "pushAdvance" /\ full \in [Queues -> Nat]
  BY <1>1 DEF FIFOInv, IInv, TypeOK, Step
<1>3. PICK n \in Nat \ {0} : n = size[q]
  BY <1>2, InACall
<1>4. size[q] > 0 /\ InStep(in, out, n, First(q), Present(q), Behind(q))
  BY <1>2, <1>3, InACall
<1>5. In(q, {"pushAdvance"}) = {t} /\ In(q, {"popAdvance"}) = {}
  <2>1. pc[t] \in Critical /\ "pushAdvance" \in Critical /\ "popAdvance" \in Critical
    BY <1>2 DEF Critical
  <2> QED
    BY <1>2, <2>1, Alone
<1>6. First(q) = out /\ Behind(q) = 1
  BY <1>5 DEF First, Behind
<1>7. PICK P \in 1..n : P = Present(q)
  <2>1. Present(q) \in 0..n
    BY <1>2, <1>3, <1>4, PresentFits
  <2>2. Cardinality(In(q, Added)) > 0 /\ Cardinality(In(q, Added)) \in Nat
    <3>1. In(q, Added) \in SUBSET Threads /\ t \in In(q, Added)
      BY <1>2 DEF In, Added
    <3> QED
      BY <3>1, Sizing
  <2>3. Cardinality(In(q, Owing)) \in Nat
    <3>1. In(q, Owing) \in SUBSET Threads
      BY DEF In
    <3> QED
      BY <3>1, Sizing
  <2>4. Present(q) = full[q] + Cardinality(In(q, Added)) + Cardinality(In(q, Owing)) /\ full[q] \in Nat
    BY <1>2 DEF Present, Added, Owing
  <2>5. Present(q) \in 1..n
    BY <2>1, <2>2, <2>3, <2>4
  <2> QED
    BY <2>5
<1>8. PICK f \in 0..(n - 1) : f = out
  BY <1>4 DEF InStep
<1>9. in = (f + P - 1) % n
  BY <1>4, <1>6, <1>7, <1>8 DEF InStep
<1>10. Present(q)' = P
  <2>1. /\ Present(q)' \in Nat
        /\ Shifted(Present(q)', Weight("pushAdvance", Added \cup Owing),
                   Present(q), Weight("pushUnlock", Added \cup Owing))
    <3>1. PICK a, b : a = "pushAdvance" /\ b = "pushUnlock"
      OBVIOUS
    <3>2. Step(t, a, b) /\ queue' = queue /\ full' = full
      BY <1>1, <3>1
    <3>3. /\ Present(q)' \in Nat
          /\ Shifted(Present(q)', Weight(a, Added \cup Owing), Present(q), Weight(b, Added \cup Owing))
      BY <1>2, <3>2, PresentSteps
    <3> QED
      BY <3>1, <3>3
  <2>2. PICK P1 \in Nat : P1 = Present(q)'
    BY <2>1
  <2>3. P1 + 1 = P + 1
    BY <1>7, <2>1, <2>2, ElementWeights DEF Shifted
  <2>4. P1 = P
    BY <2>3
  <2> QED
    BY <2>2, <2>4
<1>11. First(q)' = f /\ Behind(q)' = 0
  <2>1. In(q, {"popAdvance"})' = In(q, {"popAdvance"}) /\ In(q, {"pushAdvance"})' = In(q, {"pushAdvance"}) \ {t}
    BY <1>1, <1>2, InMoves
  <2> QED
    BY <1>1, <1>5, <1>8, <2>1 DEF First, Behind
<1>12. InStep(in', out', size[q], First(q)', Present(q)', Behind(q)')
  <2>1. PICK k \in 0..(2 * n - 2) : k = f + P - 1
    <3>1. f + P - 1 \in 0..(2 * n - 2)
      OBVIOUS
    <3> QED
      BY <3>1
  <2>2. ((k % n) + 1) % n = (k + 1) % n
    BY ModNext
  <2>3. k + 1 = f + P - 0
    BY <2>1
  <2>4. in' = (f + P - 0) % n /\ in' \in 0..(n - 1)
    <3>1. in' = ((k % n) + 1) % n
      BY <1>1, <1>3, <1>9, <2>1
    <3>2. in' = (k + 1) % n /\ k + 1 \in Nat
      BY <2>2, <3>1
    <3>3. (k + 1) % n \in 0..(n - 1)
      BY <3>2
    <3> QED
      BY <2>3, <3>2, <3>3
  <2>5. InStep(in', f, n, f, P, 0)
    BY <2>4 DEF InStep
  <2> QED
    BY <1>1, <1>3, <1>8, <1>10, <1>11, <2>5
<1>13. /\ Ring' /\ OneQueue' /\ Fresh'
       /\ \A r \in Queues \ {q} : Content(r)' = Content(r)
  BY <1>1, <1>2, <1>12, ThreadStep DEF Locations
<1>14. Content(q)' = Content(q)
  BY <1>1, <1>6, <1>7, <1>8, <1>10, <1>11, ContentIs
<1> QED
  BY <1>13, <1>14

(* The oldest element is read, and no longer there. *)
LEMMA LoadTakesHead ==
  ASSUME FIFOInv, NEW t \in Threads, PopLoad(t), NEW q \in Queues, q = queue[t]
  PROVE  /\ Ring' /\ OneQueue' /\ Fresh'
         /\ \A r \in Queues \ {q} : Content(r)' = Content(r)
         /\ Content(q) # <<>> /\ elem' = [elem EXCEPT ![t] = Head(Content(q))]
         /\ Content(q)' = Tail(Content(q))
<1>1. /\ Step(t, "popLoad", "popAdvance")
      /\ elem' = [elem EXCEPT ![t] = buffer[q][out]]
      /\ UNCHANGED <<size, buffer, empty, full, mutex, in, out, queue, news>>
  BY DEF PopLoad, shared
<1>2. IInv /\ TypeOK /\ pc[t] = "popLoad" /\ full \in [Queues -> Nat]
  BY <1>1 DEF FIFOInv, IInv, TypeOK, Step
<1>3. PICK n \in Nat \ {0} : n = size[q]
  BY <1>2, InACall
<1>4. size[q] > 0 /\ InStep(in, out, n, First(q), Present(q), Behind(q))
  BY <1>2, <1>3, InACall
<1>5. In(q, {"pushAdvance"}) = {} /\ In(q, {"popAdvance"}) = {}
  <2>1. pc[t] \in Critical /\ "pushAdvance" \in Critical /\ "popAdvance" \in Critical
    BY <1>2 DEF Critical
  <2> QED
    BY <1>2, <2>1, Alone
<1>6. First(q) = out /\ Behind(q) = 0
  BY <1>5 DEF First, Behind
<1>7. Present(q) \in Nat /\ Present(q)' \in Nat /\ Present(q)' + 1 = Present(q)
  <2>1. /\ Present(q) \in Nat /\ Present(q)' \in Nat
        /\ Shifted(Present(q)', Weight("popLoad", Added \cup Owing),
                   Present(q), Weight("popAdvance", Added \cup Owing))
    <3>1. PICK a, b : a = "popLoad" /\ b = "popAdvance"
      OBVIOUS
    <3>2. Step(t, a, b) /\ queue' = queue /\ full' = full
      BY <1>1, <3>1
    <3>3. /\ Present(q) \in Nat /\ Present(q)' \in Nat
          /\ Shifted(Present(q)', Weight(a, Added \cup Owing), Present(q), Weight(b, Added \cup Owing))
      BY <1>2, <3>2, PresentSteps
    <3> QED
      BY <3>1, <3>3
  <2>2. PICK P \in Nat, P1 \in Nat : P = Present(q) /\ P1 = Present(q)'
    BY <2>1
  <2>3. P1 + 1 = P + 0
    BY <2>1, <2>2, ElementWeights DEF Shifted
  <2>4. P1 + 1 = P
    BY <2>3
  <2> QED
    BY <2>2, <2>4
<1>8. PICK P \in Nat : P = Present(q) /\ P > 0 /\ Present(q)' = P - 1
  BY <1>7
<1>9. PICK f \in 0..(n - 1) : f = out
  BY <1>4 DEF InStep
<1>10. in = (f + P - 0) % n /\ in \in 0..(n - 1)
  BY <1>4, <1>6, <1>8, <1>9 DEF InStep
<1>11. First(q)' = f + 1 /\ Behind(q)' = 0
  <2>1. In(q, {"popAdvance"})' = In(q, {"popAdvance"}) \cup {t} /\ In(q, {"pushAdvance"})' = In(q, {"pushAdvance"})
    BY <1>1, <1>2, InMoves
  <2> QED
    BY <1>1, <1>5, <1>9, <2>1 DEF First, Behind
<1>12. InStep(in', out', size[q], First(q)', Present(q)', Behind(q)')
  <2>1. (f + 1) + (P - 1) - 0 = f + P - 0
    OBVIOUS
  <2>2. InStep(in, f, n, f + 1, P - 1, 0)
    BY <1>10, <2>1 DEF InStep
  <2> QED
    BY <1>1, <1>3, <1>8, <1>9, <1>11, <2>2
<1>13. /\ Ring' /\ OneQueue' /\ Fresh'
       /\ \A r \in Queues \ {q} : Content(r)' = Content(r)
  BY <1>1, <1>2, <1>12, ThreadStep DEF Locations
<1>14. PICK b, R : b = buffer[q] /\ R = Values \cup {Nothing}
  OBVIOUS
<1>15. Holds(b, n, R)
  BY <1>2, <1>3, <1>4, <1>14, RingHolds
<1>16. Content(q) = Cells(b, f, n, P) /\ Content(q)' = Cells(b, f + 1, n, P - 1)
  BY <1>1, <1>3, <1>6, <1>8, <1>9, <1>11, <1>14, ContentIs
<1>17. /\ Cells(b, f, n, P) # <<>>
       /\ b[f] = Head(Cells(b, f, n, P))
       /\ Cells(b, f + 1, n, P - 1) = Tail(Cells(b, f, n, P))
  <2>1. PICK g, Q : g = f + 1 /\ Q = P - 1
    OBVIOUS
  <2>2. /\ Cells(b, f, n, P) # <<>> /\ b[f] = Head(Cells(b, f, n, P))
        /\ Cells(b, g, n, Q) = Tail(Cells(b, f, n, P))
    <3>1. HeadReady(n, f, P, R, b, g, Q)
      BY <1>8, <1>15, <2>1 DEF HeadReady
    <3> QED
      BY <3>1, CellsHead
  <2> QED
    BY <2>1, <2>2
<1> QED
  BY <1>1, <1>9, <1>13, <1>14, <1>16, <1>17

(* The index out follows it. *)
LEMMA AdvanceOutQuiet ==
  ASSUME FIFOInv, NEW t \in Threads, PopAdvance(t), NEW q \in Queues, q = queue[t]
  PROVE  /\ Ring' /\ OneQueue' /\ Fresh'
         /\ \A r \in Queues : Content(r)' = Content(r)
<1>1. /\ Step(t, "popAdvance", "popUnlock")
      /\ out' = (out + 1) % size[q]
      /\ UNCHANGED <<size, buffer, empty, full, mutex, in, queue, elem, news>>
  BY DEF PopAdvance
<1>2. IInv /\ TypeOK /\ pc[t] = "popAdvance" /\ full \in [Queues -> Nat]
  BY <1>1 DEF FIFOInv, IInv, TypeOK, Step
<1>3. PICK n \in Nat \ {0} : n = size[q]
  BY <1>2, InACall
<1>4. size[q] > 0 /\ InStep(in, out, n, First(q), Present(q), Behind(q))
  BY <1>2, <1>3, InACall
<1>5. In(q, {"pushAdvance"}) = {} /\ In(q, {"popAdvance"}) = {t}
  <2>1. pc[t] \in Critical /\ "pushAdvance" \in Critical /\ "popAdvance" \in Critical
    BY <1>2 DEF Critical
  <2> QED
    BY <1>2, <2>1, Alone
<1>6. First(q) = out + 1 /\ Behind(q) = 0
  BY <1>5 DEF First, Behind
<1>7. PICK P \in 0..(n - 1) : P = Present(q)
  <2>1. Present(q) \in 0..n /\ Cardinality(In(q, Apart)) \in 0..(n - Present(q))
    BY <1>2, <1>3, <1>4, PresentFits
  <2>2. Cardinality(In(q, Apart)) > 0
    <3>1. In(q, Apart) \in SUBSET Threads /\ t \in In(q, Apart)
      BY <1>2 DEF In, Apart
    <3> QED
      BY <3>1, Sizing
  <2>3. Present(q) \in 0..(n - 1)
    BY <2>1, <2>2
  <2> QED
    BY <2>3
<1>8. PICK o \in 0..(n - 1) : o = out
  BY <1>4 DEF InStep
<1>9. in = (o + 1 + P - 0) % n /\ in \in 0..(n - 1)
  BY <1>4, <1>6, <1>7, <1>8 DEF InStep
<1>10. Present(q)' = P
  <2>1. /\ Present(q)' \in Nat
        /\ Shifted(Present(q)', Weight("popAdvance", Added \cup Owing),
                   Present(q), Weight("popUnlock", Added \cup Owing))
    <3>1. PICK a, b : a = "popAdvance" /\ b = "popUnlock"
      OBVIOUS
    <3>2. Step(t, a, b) /\ queue' = queue /\ full' = full
      BY <1>1, <3>1
    <3>3. /\ Present(q)' \in Nat
          /\ Shifted(Present(q)', Weight(a, Added \cup Owing), Present(q), Weight(b, Added \cup Owing))
      BY <1>2, <3>2, PresentSteps
    <3> QED
      BY <3>1, <3>3
  <2>2. PICK P1 \in Nat : P1 = Present(q)'
    BY <2>1
  <2>3. P1 + 0 = P + 0
    BY <1>7, <2>1, <2>2, ElementWeights DEF Shifted
  <2>4. P1 = P
    BY <2>3
  <2> QED
    BY <2>2, <2>4
<1>11. First(q)' = out' /\ Behind(q)' = 0
  <2>1. In(q, {"popAdvance"})' = In(q, {"popAdvance"}) \ {t} /\ In(q, {"pushAdvance"})' = In(q, {"pushAdvance"})
    BY <1>1, <1>2, InMoves
  <2> QED
    BY <1>5, <2>1 DEF First, Behind
<1>12. PICK g : g = (o + 1) % n
  OBVIOUS
<1>13. g = out' /\ g \in 0..(n - 1)
  BY <1>1, <1>3, <1>8, <1>12
<1>14. InStep(in', out', size[q], First(q)', Present(q)', Behind(q)')
  <2>1. (((o + 1) % n) + P) % n = (o + 1 + P) % n
    BY ModShift
  <2>2. g + P - 0 = g + P /\ o + 1 + P - 0 = o + 1 + P
    BY <1>13
  <2>3. in = (g + P - 0) % n
    BY <1>9, <1>12, <2>1, <2>2
  <2>4. InStep(in, g, n, g, P, 0)
    BY <1>9, <1>13, <2>3 DEF InStep
  <2> QED
    BY <1>1, <1>3, <1>10, <1>11, <1>13, <2>4
<1>15. /\ Ring' /\ OneQueue' /\ Fresh'
       /\ \A r \in Queues \ {q} : Content(r)' = Content(r)
  BY <1>1, <1>2, <1>14, ThreadStep DEF Locations
<1>16. Content(q) = Cells(buffer[q], o + 1, n, P) /\ Content(q)' = Cells(buffer[q], g, n, P)
  BY <1>1, <1>3, <1>6, <1>7, <1>8, <1>10, <1>11, <1>13, ContentIs
<1>17. Cells(buffer[q], g, n, P) = Cells(buffer[q], o + 1, n, P)
  BY <1>12, CellsShift
<1> QED
  BY <1>15, <1>16, <1>17

-----------------------------------------------------------------------------
(* The steps that are not taken inside a call. *)

LEMMA CellsNone ==
  ASSUME NEW b, NEW f, NEW n
  PROVE  Cells(b, f, n, 0) = <<>>
BY DEF Cells

(* A queue without elements. *)
LEMMA NothingPresent ==
  ASSUME NEW q
  PROVE  /\ Present(q) = 0 => Content(q) = <<>>
         /\ Present(q)' = 0 => Content(q)' = <<>>
BY ContentIs, CellsNone

(* Who is where, after a call began at b. *)
LEMMA InCall ==
  ASSUME TypeOK, NEW t \in Threads, NEW b, Step(t, "idle", b),
         NEW q \in Queues, queue' = [queue EXCEPT ![t] = q],
         NEW L, "idle" \notin L, b \notin L, NEW r
  PROVE  In(r, L)' = In(r, L)
<1>1. /\ pc[t] = "idle" /\ pc'[t] = b
      /\ \A u \in Threads \ {t} : pc'[u] = pc[u] /\ queue'[u] = queue[u]
  BY DEF Step, TypeOK
<1>2. In(r, L)' = {u \in Threads : pc'[u] \in L /\ queue'[u] = r}
  BY DEF In
<1> QED
  BY <1>1, <1>2 DEF In

LEMMA CallQuiet ==
  ASSUME FIFOInv, NEW t \in Threads, NEW q \in Queues,
         PopCall(t, q) \/ \E v \in Values : PushCall(t, q, v)
  PROVE  /\ Ring' /\ OneQueue' /\ Fresh' /\ size' = size
         /\ \A r \in Queues : Content(r)' = Content(r)
<1>1. PICK b \in {"pushEmpty", "popFull"} : Step(t, "idle", b)
  BY DEF PopCall, PushCall
<1>2. /\ queue' = [queue EXCEPT ![t] = q]
      /\ UNCHANGED <<size, buffer, full, in, out, news>>
  BY DEF PopCall, PushCall, shared
<1>3. TypeOK
  BY DEF FIFOInv, IInv
<1>4. ASSUME NEW r \in Queues
      PROVE  First(r)' = First(r) /\ Present(r)' = Present(r) /\ Behind(r)' = Behind(r)
  <2>1. /\ In(r, {"pushAdvance", "pushUnlock", "pushFull"})' = In(r, {"pushAdvance", "pushUnlock", "pushFull"})
        /\ In(r, {"popMutex", "popLoad"})' = In(r, {"popMutex", "popLoad"})
    BY <1>1, <1>2, <1>3, InCall
  <2>2. In(r, {"popAdvance"})' = In(r, {"popAdvance"}) /\ In(r, {"pushAdvance"})' = In(r, {"pushAdvance"})
    BY <1>1, <1>2, <1>3, InCall
  <2> QED
    BY <1>2, <2>1, <2>2 DEF First, Present, Behind
<1>5. \A r \in Queues : Content(r)' = Content(r)
  BY <1>2, <1>4, ContentIs
<1>6. Ring'
  BY <1>2, <1>4 DEF FIFOInv, Ring
<1>7. OneQueue' /\ Fresh'
  BY <1>2 DEF FIFOInv, OneQueue, Fresh
<1> QED
  BY <1>2, <1>5, <1>6, <1>7

(* The first queue begins at the start of its ring. *)
LEMMA NewIsEmpty ==
  ASSUME FIFOInv, MaxNews <= 1, NEW q \in Queues, NEW k \in Sizes, QueueNew(q, k)
  PROVE  /\ Ring' /\ OneQueue' /\ Fresh'
         /\ Content(q)' = <<>>
         /\ \A r \in Queues \ {q} : Content(r)' = Content(r)
<1>1. /\ size[q] = 0 /\ news < MaxNews /\ news' = news + 1
      /\ size' = [size EXCEPT ![q] = k]
      /\ full' = [full EXCEPT ![q] = 0]
      /\ UNCHANGED <<in, out, pc, queue, elem>>
  BY DEF QueueNew
<1>2. k \in Nat \ {0} /\ IInv /\ Fresh
  BY SizesAssumption DEF FIFOInv
<1>3. news = 0
  <2>1. news \in Nat /\ MaxNews \in Nat
    BY MaxNewsAssumption DEF FIFOInv, IInv, TypeOK
  <2> QED
    BY <1>1, <2>1
<1>4. in = 0 /\ out = 0 /\ \A r \in Queues : size[r] = 0 /\ full[r] = 0
  BY <1>2, <1>3 DEF Fresh
<1>5. /\ size'[q] = k /\ \A r \in Queues \ {q} : size'[r] = 0
      /\ \A r \in Queues : full'[r] = 0
  <2>1. size \in [Queues -> Sizes \cup {0}] /\ full \in [Queues -> Nat]
    BY <1>2 DEF IInv, TypeOK
  <2> QED
    BY <1>1, <1>4, <2>1
<1>6. ASSUME NEW r \in Queues
      PROVE  /\ In(r, {"popAdvance"})' = {} /\ In(r, {"pushAdvance"})' = {}
             /\ Present(r)' = 0 /\ Present(r) = 0
  <2>1. ASSUME NEW L, "idle" \notin L
        PROVE  In(r, L) = {} /\ In(r, L)' = {}
    BY <1>1, <1>2, <1>4, <2>1, Unused DEF In
  <2>2. /\ In(r, {"pushAdvance", "pushUnlock", "pushFull"})' = {}
        /\ In(r, {"popMutex", "popLoad"})' = {}
    BY <2>1
  <2>3. In(r, {"popAdvance"})' = {} /\ In(r, {"pushAdvance"})' = {}
    BY <2>1
  <2>4. Present(r)' = 0
    BY <1>5, <2>2, FS_EmptySet DEF Present
  <2>5. Present(r) = 0
    BY <1>2, <1>4, PresentNowhere
  <2> QED
    BY <2>3, <2>4, <2>5
<1>7. Content(q)' = <<>> /\ \A r \in Queues \ {q} : Content(r)' = Content(r)
  BY <1>6, NothingPresent
<1>8. Ring'
  <2>1. First(q)' = 0 /\ Behind(q)' = 0 /\ Present(q)' = 0
    BY <1>1, <1>4, <1>6 DEF First, Behind
  <2>2. InStep(0, 0, k, 0, 0, 0)
    BY <1>2 DEF InStep
  <2>3. InStep(in', out', size'[q], First(q)', Present(q)', Behind(q)')
    BY <1>1, <1>4, <1>5, <2>1, <2>2
  <2> QED
    BY <1>5, <2>3 DEF Ring
<1>9. OneQueue'
  BY <1>5 DEF OneQueue
<1>10. Fresh'
  BY <1>1, <1>3, <1>5 DEF Fresh
<1> QED
  BY <1>7, <1>8, <1>9, <1>10

(* A deleted queue is no longer there, and no other is. *)
LEMMA DeleteEmpties ==
  ASSUME FIFOInv, NEW q \in Queues, QueueDelete(q)
  PROVE  /\ Ring' /\ OneQueue' /\ Fresh'
         /\ Content(q)' = <<>>
         /\ \A r \in Queues \ {q} : Content(r)' = Content(r)
<1>1. /\ size[q] > 0 /\ size' = [size EXCEPT ![q] = 0] /\ full' = [full EXCEPT ![q] = 0]
      /\ In(q, Locations \ {"idle"}) = {}
      /\ UNCHANGED <<buffer, in, out, pc, queue, elem, news>>
  BY DEF QueueDelete
<1>2. /\ IInv /\ Fresh /\ pc \in [Threads -> Locations]
      /\ size \in [Queues -> Nat] /\ full \in [Queues -> Nat]
  <2>1. /\ IInv /\ Fresh /\ pc \in [Threads -> Locations]
        /\ size \in [Queues -> Sizes \cup {0}] /\ full \in [Queues -> Nat]
    BY DEF FIFOInv, IInv, TypeOK
  <2>2. \A k \in Sizes \cup {0} : k \in Nat
    BY SizesAssumption
  <2> QED
    BY <2>1, <2>2
<1>3. \A r \in Queues \ {q} : size[r] = 0 /\ full[r] = 0
  BY <1>1, <1>2 DEF FIFOInv, OneQueue, Fresh
<1>4. \A r \in Queues : size'[r] = 0 /\ full'[r] = 0
  BY <1>1, <1>2, <1>3
<1>5. ASSUME NEW r \in Queues, NEW L, "idle" \notin L
      PROVE  In(r, L)' = {}
  <2>1. In(r, L)' = In(r, L)
    BY <1>1 DEF In
  <2>2. CASE r = q
    BY <1>1, <1>2, <1>5, <2>1, <2>2 DEF In
  <2>3. CASE r # q
    BY <1>2, <1>3, <1>5, <2>1, <2>3, Unused
  <2> QED
    BY <2>2, <2>3
<1>6. ASSUME NEW r \in Queues
      PROVE  Present(r)' = 0
  <2>1. /\ In(r, {"pushAdvance", "pushUnlock", "pushFull"})' = {}
        /\ In(r, {"popMutex", "popLoad"})' = {}
    BY <1>5
  <2> QED
    BY <1>4, <2>1, FS_EmptySet DEF Present
<1>7. \A r \in Queues \ {q} : Present(r) = 0
  BY <1>2, <1>3, PresentNowhere
<1>8. Content(q)' = <<>> /\ \A r \in Queues \ {q} : Content(r)' = Content(r)
  BY <1>6, <1>7, NothingPresent
<1>9. Ring' /\ OneQueue'
  BY <1>4 DEF Ring, OneQueue
<1>10. Fresh'
  BY <1>1, <1>2, <1>4 DEF Fresh
<1> QED
  BY <1>8, <1>9, <1>10

-----------------------------------------------------------------------------
(* The callers' variables: where one holds the element to push, and where  *)
(* one holds the element a pop was given.                                  *)
Pushing == {"pushEmpty", "pushMutex", "pushStore"}
Using == {"popAdvance", "popUnlock", "popEmpty"}

LEMMA VariablesKept ==
  ASSUME FIFOInv, NEW t \in Threads, NEW a, NEW b, Step(t, a, b), elem' = elem,
         b \in Pushing => a \in Pushing
  PROVE  /\ PushesValues'
         /\ (a \in Using <=> b \in Using) => Taken' = Taken
         /\ b \notin Using => Taken' = [Taken EXCEPT ![t] = Nothing]
<1>1. /\ pc[t] = a /\ pc'[t] = b
      /\ \A u \in Threads \ {t} : pc'[u] = pc[u]
  BY DEF Step, FIFOInv, IInv, TypeOK
<1>2. PushesValues'
  BY <1>1 DEF FIFOInv, PushesValues, Pushing
<1>3. (a \in Using <=> b \in Using) => Taken' = Taken
  BY <1>1 DEF Taken, Using
<1>4. b \notin Using => Taken' = [Taken EXCEPT ![t] = Nothing]
  BY <1>1 DEF Taken, Using
<1> QED
  BY <1>2, <1>3, <1>4

LEMMA VariablesOfLoad ==
  ASSUME FIFOInv, NEW t \in Threads, NEW v, Step(t, "popLoad", "popAdvance"),
         elem' = [elem EXCEPT ![t] = v]
  PROVE  PushesValues' /\ Taken' = [Taken EXCEPT ![t] = v]
<1>1. /\ pc[t] = "popLoad" /\ pc'[t] = "popAdvance" /\ elem'[t] = v
      /\ \A u \in Threads \ {t} : pc'[u] = pc[u] /\ elem'[u] = elem[u]
  BY DEF Step, FIFOInv, IInv, TypeOK
<1>2. PushesValues'
  BY <1>1 DEF FIFOInv, PushesValues
<1>3. Taken' = [Taken EXCEPT ![t] = v]
  BY <1>1 DEF Taken
<1> QED
  BY <1>2, <1>3

LEMMA VariablesOfCall ==
  ASSUME FIFOInv, NEW t \in Threads, NEW q \in Queues,
         PopCall(t, q) \/ \E v \in Values : PushCall(t, q, v)
  PROVE  PushesValues' /\ Taken' = Taken
<1>1. PICK b \in {"pushEmpty", "popFull"} :
        Step(t, "idle", b) /\ (b = "pushEmpty" => elem'[t] \in Values)
  BY DEF PopCall, PushCall, FIFOInv, IInv, TypeOK
<1>2. \A u \in Threads \ {t} : elem'[u] = elem[u]
  BY DEF PopCall, PushCall, FIFOInv, IInv, TypeOK
<1>3. /\ pc[t] = "idle" /\ pc'[t] = b
      /\ \A u \in Threads \ {t} : pc'[u] = pc[u]
  BY <1>1 DEF Step, FIFOInv, IInv, TypeOK
<1>4. PushesValues'
  BY <1>1, <1>2, <1>3 DEF FIFOInv, PushesValues
<1>5. Taken' = Taken
  BY <1>2, <1>3 DEF Taken
<1> QED
  BY <1>4, <1>5

-----------------------------------------------------------------------------
(* What a step of a call is to the abstract queue. *)

LEMMA SemaphoresMap ==
  ASSUME FIFOInv, NEW t \in Threads,
         \/ PushWaitEmpty(t) \/ PushWaitMutex(t) \/ PushUnlock(t) \/ PushPostFull(t)
         \/ PopWaitFull(t) \/ PopWaitMutex(t) \/ PopUnlock(t) \/ PopPostEmpty(t)
  PROVE  /\ PushesValues' /\ size' = size
         /\ Taken' = Taken \/ Taken' = [Taken EXCEPT ![t] = Nothing]
<1>1. UNCHANGED <<size, elem>>
  BY DEF PushWaitEmpty, PushWaitMutex, PushUnlock, PushPostFull,
         PopWaitFull, PopWaitMutex, PopUnlock, PopPostEmpty
<1>2. PICK a, b : /\ Step(t, a, b) /\ (b \in Pushing => a \in Pushing)
                  /\ (a \in Using <=> b \in Using) \/ b \notin Using
  BY DEF PushWaitEmpty, PushWaitMutex, PushUnlock, PushPostFull,
         PopWaitFull, PopWaitMutex, PopUnlock, PopPostEmpty, Pushing, Using
<1> QED
  BY <1>1, <1>2, VariablesKept

LEMMA AdvancesMap ==
  ASSUME FIFOInv, NEW t \in Threads, PushAdvance(t) \/ PopAdvance(t)
  PROVE  PushesValues' /\ size' = size /\ Taken' = Taken
<1>1. UNCHANGED <<size, elem>>
  BY DEF PushAdvance, PopAdvance
<1>2. PICK a, b : /\ Step(t, a, b) /\ (b \in Pushing => a \in Pushing)
                  /\ (a \in Using <=> b \in Using)
  BY DEF PushAdvance, PopAdvance, Pushing, Using
<1> QED
  BY <1>1, <1>2, VariablesKept

LEMMA StoreMaps ==
  ASSUME FIFOInv, NEW t \in Threads, PushStore(t)
  PROVE  PushesValues' /\ size' = size /\ Taken' = Taken
<1>1. UNCHANGED <<size, elem>>
  BY DEF PushStore
<1>2. PICK a, b : /\ Step(t, a, b) /\ (b \in Pushing => a \in Pushing)
                  /\ (a \in Using <=> b \in Using)
  BY DEF PushStore, Pushing, Using
<1> QED
  BY <1>1, <1>2, VariablesKept

(* Every step keeps the invariant, and is one of the abstract queue's. *)
Kept == Ring' /\ OneQueue' /\ Fresh' /\ PushesValues'

(* A step that leaves every queue's elements alone. *)
LEMMA NoElementMoves ==
  ASSUME size' = size, \A r \in Queues : Content(r)' = Content(r), NEW t \in Threads,
         Taken' = Taken \/ Taken' = [Taken EXCEPT ![t] = Nothing]
  PROVE  [Abstract!Next]_(Abstract!fifoVars)
<1>1. [q \in Queues |-> Content(q)]' = [q \in Queues |-> Content(q)]
  OBVIOUS
<1>2. CASE Taken' = Taken
  BY <1>1, <1>2 DEF Abstract!fifoVars
<1>3. CASE Taken' = [Taken EXCEPT ![t] = Nothing]
  BY <1>1, <1>3 DEF Abstract!Next, Abstract!Forget
<1> QED
  BY <1>2, <1>3

(* The elements of one queue change. *)
LEMMA OneContent ==
  ASSUME NEW q \in Queues, NEW s, Content(q)' = s,
         \A r \in Queues \ {q} : Content(r)' = Content(r)
  PROVE  [r \in Queues |-> Content(r)]' = [[r \in Queues |-> Content(r)] EXCEPT ![q] = s]
OBVIOUS

LEMMA ContinueMaps ==
  ASSUME FIFOInv, NEW t \in Threads, Continue(t)
  PROVE  Kept /\ [Abstract!Next]_(Abstract!fifoVars)
<1>1. CASE \/ PushWaitEmpty(t) \/ PushWaitMutex(t) \/ PushUnlock(t) \/ PushPostFull(t)
           \/ PopWaitFull(t) \/ PopWaitMutex(t) \/ PopUnlock(t) \/ PopPostEmpty(t)
  <2>1. Ring' /\ OneQueue' /\ Fresh' /\ \A r \in Queues : Content(r)' = Content(r)
    BY <1>1, SemaphoresQuiet
  <2>2. /\ PushesValues' /\ size' = size
        /\ Taken' = Taken \/ Taken' = [Taken EXCEPT ![t] = Nothing]
    BY <1>1, SemaphoresMap
  <2>3. [Abstract!Next]_(Abstract!fifoVars)
    BY <2>1, <2>2, NoElementMoves
  <2> QED
    BY <2>1, <2>2, <2>3 DEF Kept
<1>2. queue[t] \in Queues
  BY DEF FIFOInv, IInv, TypeOK
<1>3. PICK q \in Queues : q = queue[t]
  BY <1>2
<1>4. CASE PushAdvance(t) \/ PopAdvance(t)
  <2>1. Ring' /\ OneQueue' /\ Fresh' /\ \A r \in Queues : Content(r)' = Content(r)
    BY <1>3, <1>4, AdvanceInQuiet, AdvanceOutQuiet
  <2>2. PushesValues' /\ size' = size /\ Taken' = Taken
    BY <1>4, AdvancesMap
  <2>3. [Abstract!Next]_(Abstract!fifoVars)
    BY <2>1, <2>2, NoElementMoves
  <2> QED
    BY <2>1, <2>2, <2>3 DEF Kept
<1>5. CASE PushStore(t)
  <2>1. PICK v : v = elem[t]
    OBVIOUS
  <2>2. /\ Ring' /\ OneQueue' /\ Fresh'
        /\ \A r \in Queues \ {q} : Content(r)' = Content(r)
        /\ Len(Content(q)) < size[q] /\ v \in Values
        /\ Content(q)' = Append(Content(q), v)
    BY <1>3, <1>5, <2>1, StoreAppends
  <2>3. PushesValues' /\ size' = size /\ Taken' = Taken
    BY <1>5, StoreMaps
  <2>4. PICK s : s = Append(Content(q), v)
    OBVIOUS
  <2>5. [r \in Queues |-> Content(r)]' = [[r \in Queues |-> Content(r)] EXCEPT ![q] = s]
    BY <2>2, <2>4, OneContent
  <2>6. Abstract!Push(q, v)
    BY <2>2, <2>3, <2>4, <2>5 DEF Abstract!Push
  <2> QED
    BY <2>2, <2>3, <2>6 DEF Kept, Abstract!Next
<1>6. CASE PopLoad(t)
  <2>1. /\ Ring' /\ OneQueue' /\ Fresh'
        /\ \A r \in Queues \ {q} : Content(r)' = Content(r)
        /\ Content(q) # <<>> /\ elem' = [elem EXCEPT ![t] = Head(Content(q))]
        /\ Content(q)' = Tail(Content(q))
    BY <1>3, <1>6, LoadTakesHead
  <2>2. Step(t, "popLoad", "popAdvance") /\ size' = size
    BY <1>6 DEF PopLoad, shared
  <2>3. PICK v : v = Head(Content(q))
    OBVIOUS
  <2>4. PushesValues' /\ Taken' = [Taken EXCEPT ![t] = v]
    BY <2>1, <2>2, <2>3, VariablesOfLoad
  <2>5. PICK s : s = Tail(Content(q))
    OBVIOUS
  <2>6. [r \in Queues |-> Content(r)]' = [[r \in Queues |-> Content(r)] EXCEPT ![q] = s]
    BY <2>1, <2>5, OneContent
  <2>7. Abstract!Pop(q, t)
    BY <2>1, <2>2, <2>3, <2>4, <2>5, <2>6 DEF Abstract!Pop
  <2> QED
    BY <2>1, <2>4, <2>7 DEF Kept, Abstract!Next
<1> QED
  BY <1>1, <1>4, <1>5, <1>6 DEF Continue

LEMMA QueueNewMaps ==
  ASSUME FIFOInv, MaxNews <= 1, NEW q \in Queues, NEW k \in Sizes, QueueNew(q, k)
  PROVE  Kept /\ Abstract!New(q)
<1>1. /\ size[q] = 0 /\ size' = [size EXCEPT ![q] = k]
      /\ UNCHANGED <<pc, elem>>
  BY DEF QueueNew
<1>2. /\ Ring' /\ OneQueue' /\ Fresh'
      /\ Content(q)' = <<>> /\ \A r \in Queues \ {q} : Content(r)' = Content(r)
  BY NewIsEmpty
<1>3. PushesValues' /\ Taken' = Taken
  BY <1>1 DEF FIFOInv, PushesValues, Taken
<1>4. [r \in Queues |-> Content(r)]' = [[r \in Queues |-> Content(r)] EXCEPT ![q] = <<>>]
  BY <1>2, OneContent
<1>5. size' \in [Queues -> Nat] /\ size'[q] > 0 /\ \A r \in Queues \ {q} : size'[r] = size[r]
  <2>1. size \in [Queues -> Sizes \cup {0}]
    BY DEF FIFOInv, IInv, TypeOK
  <2>2. \A j \in Sizes \cup {0} : j \in Nat
    BY SizesAssumption
  <2>3. k \in Nat /\ k > 0
    BY SizesAssumption
  <2> QED
    BY <1>1, <2>1, <2>2, <2>3
<1> QED
  BY <1>1, <1>2, <1>3, <1>4, <1>5 DEF Kept, Abstract!New

LEMMA QueueDeleteMaps ==
  ASSUME FIFOInv, NEW q \in Queues, QueueDelete(q)
  PROVE  Kept /\ Abstract!Delete(q)
<1>1. /\ size[q] > 0 /\ size' = [size EXCEPT ![q] = 0]
      /\ UNCHANGED <<pc, elem>>
  BY DEF QueueDelete
<1>2. /\ Ring' /\ OneQueue' /\ Fresh'
      /\ Content(q)' = <<>> /\ \A r \in Queues \ {q} : Content(r)' = Content(r)
  BY DeleteEmpties
<1>3. PushesValues' /\ Taken' = Taken
  BY <1>1 DEF FIFOInv, PushesValues, Taken
<1>4. [r \in Queues |-> Content(r)]' = [[r \in Queues |-> Content(r)] EXCEPT ![q] = <<>>]
  BY <1>2, OneContent
<1> QED
  BY <1>1, <1>2, <1>3, <1>4 DEF Kept, Abstract!Delete

LEMMA CallMaps ==
  ASSUME FIFOInv, NEW t \in Threads, NEW q \in Queues,
         PopCall(t, q) \/ \E v \in Values : PushCall(t, q, v)
  PROVE  Kept /\ [Abstract!Next]_(Abstract!fifoVars)
<1>1. /\ Ring' /\ OneQueue' /\ Fresh' /\ size' = size
      /\ \A r \in Queues : Content(r)' = Content(r)
  BY CallQuiet
<1>2. PushesValues' /\ Taken' = Taken
  BY VariablesOfCall
<1> QED
  BY <1>1, <1>2, NoElementMoves DEF Kept

LEMMA StutterMaps ==
  ASSUME FIFOInv, UNCHANGED vars
  PROVE  Kept /\ UNCHANGED Abstract!fifoVars
<1>1. UNCHANGED <<size, buffer, full, in, out, pc, queue, elem, news>>
  BY DEF vars, shared
<1>2. \A q \in Queues : First(q)' = First(q) /\ Present(q)' = Present(q) /\ Behind(q)' = Behind(q)
  BY <1>1 DEF First, Present, Behind, In
<1>3. \A q \in Queues : Content(q)' = Content(q)
  BY <1>1, <1>2, ContentIs
<1>4. Taken' = Taken
  BY <1>1 DEF Taken
<1>5. Ring'
  BY <1>1, <1>2 DEF FIFOInv, Ring
<1>6. OneQueue' /\ Fresh' /\ PushesValues'
  BY <1>1 DEF FIFOInv, OneQueue, Fresh, PushesValues
<1> QED
  BY <1>1, <1>3, <1>4, <1>5, <1>6 DEF Kept, Abstract!fifoVars

LEMMA StepMaps ==
  ASSUME MaxNews <= 1, FIFOInv, [Next]_vars
  PROVE  FIFOInv' /\ [Abstract!Next]_(Abstract!fifoVars)
<1>1. IInv'
  BY IInvNext DEF FIFOInv
<1>2. Kept /\ [Abstract!Next]_(Abstract!fifoVars)
  <2>1. ASSUME NEW q \in Queues, NEW k \in Sizes, QueueNew(q, k)
        PROVE  Kept /\ [Abstract!Next]_(Abstract!fifoVars)
    BY <2>1, QueueNewMaps DEF Abstract!Next
  <2>2. ASSUME NEW q \in Queues, QueueDelete(q)
        PROVE  Kept /\ [Abstract!Next]_(Abstract!fifoVars)
    BY <2>2, QueueDeleteMaps DEF Abstract!Next
  <2>3. ASSUME NEW t \in Threads, NEW q \in Queues,
               PopCall(t, q) \/ \E v \in Values : PushCall(t, q, v)
        PROVE  Kept /\ [Abstract!Next]_(Abstract!fifoVars)
    BY <2>3, CallMaps
  <2>4. ASSUME NEW t \in Threads, Continue(t)
        PROVE  Kept /\ [Abstract!Next]_(Abstract!fifoVars)
    BY <2>4, ContinueMaps
  <2>5. CASE UNCHANGED vars
    BY <2>5, StutterMaps
  <2> QED
    BY <2>1, <2>2, <2>3, <2>4, <2>5 DEF Next
<1> QED
  BY <1>1, <1>2 DEF FIFOInv, Kept

LEMMA FIFOInvInit ==
  ASSUME Init
  PROVE  FIFOInv /\ Abstract!Init
<1>1. IInv
  BY IInvInit
<1>2. \A q \in Queues : size[q] = 0 /\ full[q] = 0
  BY DEF Init
<1>3. Ring /\ OneQueue /\ Fresh /\ PushesValues
  BY <1>2 DEF Init, Ring, OneQueue, Fresh, PushesValues
<1>4. \A q \in Queues : Content(q) = <<>>
  BY <1>1, <1>2, <1>3, PresentNowhere, NothingPresent
<1>5. Taken = [t \in Threads |-> Nothing]
  BY DEF Init, Taken
<1>6. [q \in Queues |-> Content(q)] = [q \in Queues |-> <<>>]
  BY <1>4
<1> QED
  BY <1>1, <1>3, <1>5, <1>6 DEF FIFOInv, Init, Abstract!Init

(* What the elements in a queue, and those a pop under way was given, are. *)
OnlyElements ==
  /\ \A q \in Queues : Content(q) \in Seq(Values)
  /\ PopGivesElement

LEMMA OnlyElementsKept ==
  ASSUME MaxNews <= 1, FIFOInv, OnlyElements, [Next]_vars
  PROVE  OnlyElements'
<1>1. \A q \in Queues : Content(q)' \in Seq(Values)
  <2>1. ASSUME NEW q \in Queues, Content(q)' = Content(q) PROVE Content(q)' \in Seq(Values)
    BY <2>1 DEF OnlyElements
  <2>2. ASSUME NEW q \in Queues, NEW k \in Sizes, QueueNew(q, k)
        PROVE  \A r \in Queues : Content(r)' \in Seq(Values)
    <3>1. Content(q)' = <<>> /\ \A r \in Queues \ {q} : Content(r)' = Content(r)
      BY <2>2, NewIsEmpty
    <3>2. <<>> \in Seq(Values)
      OBVIOUS
    <3> QED
      BY <2>1, <3>1, <3>2
  <2>3. ASSUME NEW q \in Queues, QueueDelete(q)
        PROVE  \A r \in Queues : Content(r)' \in Seq(Values)
    <3>1. Content(q)' = <<>> /\ \A r \in Queues \ {q} : Content(r)' = Content(r)
      BY <2>3, DeleteEmpties
    <3>2. <<>> \in Seq(Values)
      OBVIOUS
    <3> QED
      BY <2>1, <3>1, <3>2
  <2>4. ASSUME NEW t \in Threads, NEW q \in Queues,
               PopCall(t, q) \/ \E v \in Values : PushCall(t, q, v)
        PROVE  \A r \in Queues : Content(r)' \in Seq(Values)
    BY <2>1, <2>4, CallQuiet
  <2>5. ASSUME NEW t \in Threads, PushStore(t)
        PROVE  \A r \in Queues : Content(r)' \in Seq(Values)
    <3>1. PICK q \in Queues : q = queue[t]
      BY DEF FIFOInv, IInv, TypeOK
    <3>2. /\ \A r \in Queues \ {q} : Content(r)' = Content(r)
          /\ elem[t] \in Values /\ Content(q)' = Append(Content(q), elem[t])
      BY <2>5, <3>1, StoreAppends
    <3>3. Content(q)' \in Seq(Values)
      BY <3>2 DEF OnlyElements
    <3> QED
      BY <2>1, <3>2, <3>3
  <2>6. ASSUME NEW t \in Threads, PopLoad(t)
        PROVE  \A r \in Queues : Content(r)' \in Seq(Values)
    <3>1. PICK q \in Queues : q = queue[t]
      BY DEF FIFOInv, IInv, TypeOK
    <3>2. /\ \A r \in Queues \ {q} : Content(r)' = Content(r)
          /\ Content(q) # <<>> /\ Content(q)' = Tail(Content(q))
      BY <2>6, <3>1, LoadTakesHead
    <3>3. Content(q)' \in Seq(Values)
      BY <3>2 DEF OnlyElements
    <3> QED
      BY <2>1, <3>2, <3>3
  <2>7. ASSUME NEW t \in Threads, Continue(t), ~PushStore(t), ~PopLoad(t)
        PROVE  \A r \in Queues : Content(r)' \in Seq(Values)
    <3>1. PICK q \in Queues : q = queue[t]
      BY DEF FIFOInv, IInv, TypeOK
    <3>2. \A r \in Queues : Content(r)' = Content(r)
      BY <2>7, <3>1, SemaphoresQuiet, AdvanceInQuiet, AdvanceOutQuiet DEF Continue
    <3> QED
      BY <2>1, <3>2
  <2>8. CASE UNCHANGED vars
    <3>1. UNCHANGED <<size, buffer, full, out, pc, queue>>
      BY <2>8 DEF vars, shared
    <3>2. \A q \in Queues : First(q)' = First(q) /\ Present(q)' = Present(q)
      BY <3>1 DEF First, Present, In
    <3> QED
      BY <2>1, <3>1, <3>2, ContentIs
  <2> QED
    BY <2>2, <2>3, <2>4, <2>5, <2>6, <2>7, <2>8 DEF Next
<1>2. ASSUME NEW t \in Threads, pc'[t] = "popAdvance"
      PROVE  elem'[t] \in Values
  <2>1. CASE PopLoad(t)
    <3>1. PICK q \in Queues : q = queue[t]
      BY DEF FIFOInv, IInv, TypeOK
    <3>2. Content(q) # <<>> /\ elem' = [elem EXCEPT ![t] = Head(Content(q))]
      BY <2>1, <3>1, LoadTakesHead
    <3>3. Head(Content(q)) \in Values
      BY <3>2 DEF OnlyElements
    <3> QED
      BY <3>2, <3>3 DEF FIFOInv, IInv, TypeOK
  <2>2. CASE ~PopLoad(t)
    <3>1. pc[t] = "popAdvance" /\ elem'[t] = elem[t]
      <4> USE <1>2, <2>2 DEF FIFOInv, IInv, TypeOK, Step
      <4>1. ASSUME NEW u \in Threads, Continue(u) PROVE pc[t] = "popAdvance" /\ elem'[t] = elem[t]
        BY <4>1 DEF Continue, PushWaitEmpty, PushWaitMutex, PushStore, PushAdvance, PushUnlock,
                    PushPostFull, PopWaitFull, PopWaitMutex, PopLoad, PopAdvance, PopUnlock,
                    PopPostEmpty
      <4>2. ASSUME NEW u \in Threads, NEW q \in Queues,
                   PopCall(u, q) \/ \E v \in Values : PushCall(u, q, v)
            PROVE  pc[t] = "popAdvance" /\ elem'[t] = elem[t]
        BY <4>2 DEF PopCall, PushCall
      <4>3. CASE UNCHANGED <<pc, elem>>
        BY <4>3
      <4> QED
        BY <4>1, <4>2, <4>3 DEF Next, QueueNew, QueueDelete, vars
    <3> QED
      BY <3>1 DEF OnlyElements, PopGivesElement
  <2> QED
    BY <2>1, <2>2
<1> QED
  BY <1>1, <1>2 DEF OnlyElements, PopGivesElement

(* A queue created once, as a server does (asgn4/httpserver.c:106), is a   *)
(* bounded FIFO for any number of threads and any size: pops give the      *)
(* pushed elements in the order they were pushed, each to one caller, and  *)
(* at most size are held (queue.c:53-81).  The indices are globals that    *)
(* queue_new does not reset, so a second queue breaks it.                  *)
THEOREM QueueIsABoundedFIFO ==
  ASSUME MaxNews <= 1
  PROVE  Spec => Refinement
<1>1. Init => FIFOInv /\ Abstract!Init
  BY FIFOInvInit
<1>2. FIFOInv /\ [Next]_vars => FIFOInv' /\ [Abstract!Next]_(Abstract!fifoVars)
  BY StepMaps
<1> QED
  BY <1>1, <1>2, PTL DEF Spec, Refinement, Abstract!Spec

(* A pop from a queue created once gives an element somebody pushed, never *)
(* what an unused slot holds (queue.c:67-81).                              *)
THEOREM PopsGiveElements ==
  ASSUME MaxNews <= 1
  PROVE  Spec => []PopGivesElement
<1>1. Init => FIFOInv /\ OnlyElements
  <2> SUFFICES ASSUME Init PROVE FIFOInv /\ OnlyElements
    OBVIOUS
  <2>1. FIFOInv /\ Abstract!Init
    BY FIFOInvInit
  <2>2. \A q \in Queues : size[q] = 0
    BY DEF Init
  <2>3. \A q \in Queues : Content(q) = <<>>
    BY <2>1, <2>2, PresentNowhere, NothingPresent DEF FIFOInv
  <2>4. PopGivesElement
    BY DEF Init, PopGivesElement
  <2>5. <<>> \in Seq(Values)
    OBVIOUS
  <2>6. \A q \in Queues : Content(q) \in Seq(Values)
    BY <2>3, <2>5
  <2> QED
    BY <2>1, <2>4, <2>6 DEF OnlyElements
<1>2. FIFOInv /\ OnlyElements /\ [Next]_vars => FIFOInv' /\ OnlyElements'
  BY StepMaps, OnlyElementsKept
<1>3. OnlyElements => PopGivesElement
  BY DEF OnlyElements
<1> QED
  BY <1>1, <1>2, <1>3, PTL DEF Spec

=============================================================================
