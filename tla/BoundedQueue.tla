---------------------------- MODULE BoundedQueue ----------------------------
(***************************************************************************)
(* The bounded queue of asgn3/queue.c: a ring buffer guarded by three      *)
(* semaphores.  The indices in and out are globals of the file, shared by  *)
(* every queue and set by nobody but queue_push and queue_pop.             *)
(*                                                                         *)
(* Each semaphore operation, each access to the buffer and each update of  *)
(* an index is one step of the calling thread.                             *)
(***************************************************************************)
EXTENDS Integers, Sequences, FiniteSets

CONSTANTS
  Queues,   (* the handles queue_new returns                                *)
  Threads,  (* the callers                                                  *)
  Values,   (* the elements                                                 *)
  Nothing,  (* what an uninitialised slot or variable holds                 *)
  Sizes,    (* the arguments of queue_new                                   *)
  MaxNews   (* bound: how many calls of queue_new there are                 *)

ASSUME SizesAssumption == Sizes \subseteq Nat \ {0}
ASSUME NothingAssumption == Nothing \notin Values
ASSUME MaxNewsAssumption == MaxNews \in Nat
ASSUME FiniteAssumption == IsFiniteSet(Threads) /\ IsFiniteSet(Sizes)

(* An index that another queue left behind falls in the buffer's block, so *)
(* that Slots below stands for every queue's: there is no other queue, all *)
(* are of one size, or none has more than the three pointers that malloc   *)
(* gives room for at the least.                                            *)
ASSUME BlockAssumption ==
  MaxNews <= 1 \/ Cardinality(Sizes) <= 1 \/ Sizes \subseteq 1..3

VARIABLES
  in, out,             (* the globals (queue.c:20)                          *)
  size,                (* per queue; 0 while it is not allocated            *)
  buffer,              (* per queue                                         *)
  empty, full, mutex,  (* per queue: the values of its semaphores           *)
  pc,                  (* per thread: its next statement                    *)
  queue,               (* per thread: the argument q of its call            *)
  elem,                (* per thread: the element to push, or the popped one *)
  news                 (* calls of queue_new so far                         *)

shared == <<size, buffer, empty, full, mutex, in, out>>
vars == <<shared, pc, queue, elem, news>>

(* The slots of the heap block behind buffer. *)
Slots == UNION {0..(k - 1) : k \in Sizes}

Locations ==
  {"idle",
   "pushEmpty", "pushMutex", "pushStore", "pushAdvance", "pushUnlock", "pushFull",
   "popFull", "popMutex", "popLoad", "popAdvance", "popUnlock", "popEmpty"}

Step(t, from, to) ==
  /\ pc[t] = from
  /\ pc' = [pc EXCEPT ![t] = to]

(* The threads at one of the locations L in a call on q. *)
In(q, L) == {t \in Threads : pc[t] \in L /\ queue[t] = q}

-----------------------------------------------------------------------------
(* Semaphores *)

SemWait(sem, q) == sem[q] > 0 /\ sem' = [sem EXCEPT ![q] = @ - 1]
SemPost(sem, q) == sem' = [sem EXCEPT ![q] = @ + 1]

-----------------------------------------------------------------------------
(* queue_new and queue_delete.  The indices are not reset.  Deleting a     *)
(* queue in use is undefined and left to the caller to avoid.              *)

QueueNew(q, k) ==
  /\ size[q] = 0
  /\ news < MaxNews
  /\ news' = news + 1
  /\ size' = [size EXCEPT ![q] = k]
  /\ buffer' = [buffer EXCEPT ![q] = [i \in Slots |-> Nothing]]
  /\ empty' = [empty EXCEPT ![q] = k]
  /\ full' = [full EXCEPT ![q] = 0]
  /\ mutex' = [mutex EXCEPT ![q] = 1]
  /\ UNCHANGED <<in, out, pc, queue, elem>>

QueueDelete(q) ==
  /\ size[q] > 0
  /\ In(q, Locations \ {"idle"}) = {}
  /\ size' = [size EXCEPT ![q] = 0]
  /\ full' = [full EXCEPT ![q] = 0]
  /\ UNCHANGED <<buffer, empty, mutex, in, out, pc, queue, elem, news>>

-----------------------------------------------------------------------------
(* queue_push *)

PushCall(t, q, v) ==
  /\ size[q] > 0
  /\ Step(t, "idle", "pushEmpty")
  /\ queue' = [queue EXCEPT ![t] = q]
  /\ elem' = [elem EXCEPT ![t] = v]
  /\ UNCHANGED <<shared, news>>

PushWaitEmpty(t) ==
  /\ Step(t, "pushEmpty", "pushMutex")
  /\ SemWait(empty, queue[t])
  /\ UNCHANGED <<size, buffer, full, mutex, in, out, queue, elem, news>>

(* The queue's mutex is not taken. *)
PushWaitMutexVariant(t) ==
  /\ Step(t, "pushMutex", "pushStore")
  /\ UNCHANGED <<shared, queue, elem, news>>

PushWaitMutex(t) ==
  /\ Step(t, "pushMutex", "pushStore")
  /\ SemWait(mutex, queue[t])
  /\ UNCHANGED <<size, buffer, empty, full, in, out, queue, elem, news>>

PushStore(t) ==
  /\ Step(t, "pushStore", "pushAdvance")
  /\ buffer' = [buffer EXCEPT ![queue[t]][in] = elem[t]]
  /\ UNCHANGED <<size, empty, full, mutex, in, out, queue, elem, news>>

PushAdvance(t) ==
  /\ Step(t, "pushAdvance", "pushUnlock")
  /\ in' = (in + 1) % size[queue[t]]
  /\ UNCHANGED <<size, buffer, empty, full, mutex, out, queue, elem, news>>

PushUnlock(t) ==
  /\ Step(t, "pushUnlock", "pushFull")
  /\ SemPost(mutex, queue[t])
  /\ UNCHANGED <<size, buffer, empty, full, in, out, queue, elem, news>>

(* The wrong semaphore is posted: the slot is counted free again. *)
PushPostFullVariant(t) ==
  /\ Step(t, "pushFull", "idle")
  /\ SemPost(empty, queue[t])
  /\ UNCHANGED <<size, buffer, full, mutex, in, out, queue, elem, news>>

PushPostFull(t) ==
  /\ Step(t, "pushFull", "idle")
  /\ SemPost(full, queue[t])
  /\ UNCHANGED <<size, buffer, empty, mutex, in, out, queue, elem, news>>

-----------------------------------------------------------------------------
(* queue_pop.  elem[t] is the caller's variable behind the argument elem.  *)

PopCall(t, q) ==
  /\ size[q] > 0
  /\ Step(t, "idle", "popFull")
  /\ queue' = [queue EXCEPT ![t] = q]
  /\ elem' = [elem EXCEPT ![t] = Nothing]
  /\ UNCHANGED <<shared, news>>

PopWaitFull(t) ==
  /\ Step(t, "popFull", "popMutex")
  /\ SemWait(full, queue[t])
  /\ UNCHANGED <<size, buffer, empty, mutex, in, out, queue, elem, news>>

PopWaitMutex(t) ==
  /\ Step(t, "popMutex", "popLoad")
  /\ SemWait(mutex, queue[t])
  /\ UNCHANGED <<size, buffer, empty, full, in, out, queue, elem, news>>

PopLoad(t) ==
  /\ Step(t, "popLoad", "popAdvance")
  /\ elem' = [elem EXCEPT ![t] = buffer[queue[t]][out]]
  /\ UNCHANGED <<shared, queue, news>>

PopAdvance(t) ==
  /\ Step(t, "popAdvance", "popUnlock")
  /\ out' = (out + 1) % size[queue[t]]
  /\ UNCHANGED <<size, buffer, empty, full, mutex, in, queue, elem, news>>

PopUnlock(t) ==
  /\ Step(t, "popUnlock", "popEmpty")
  /\ SemPost(mutex, queue[t])
  /\ UNCHANGED <<size, buffer, empty, full, in, out, queue, elem, news>>

(* The freed slot is not announced. *)
PopPostEmptyVariant(t) ==
  /\ Step(t, "popEmpty", "idle")
  /\ UNCHANGED <<shared, queue, elem, news>>

PopPostEmpty(t) ==
  /\ Step(t, "popEmpty", "idle")
  /\ SemPost(empty, queue[t])
  /\ UNCHANGED <<size, buffer, full, mutex, in, out, queue, elem, news>>

-----------------------------------------------------------------------------

Init ==
  /\ in = 0
  /\ out = 0
  /\ size = [q \in Queues |-> 0]
  /\ buffer = [q \in Queues |-> [i \in Slots |-> Nothing]]
  /\ empty = [q \in Queues |-> 0]
  /\ full = [q \in Queues |-> 0]
  /\ mutex = [q \in Queues |-> 0]
  /\ pc = [t \in Threads |-> "idle"]
  /\ queue \in [Threads -> Queues]
  /\ elem = [t \in Threads |-> Nothing]
  /\ news = 0

(* The statements of a thread inside a call. *)
Continue(t) ==
  \/ PushWaitEmpty(t) \/ PushWaitMutex(t) \/ PushStore(t)
  \/ PushAdvance(t) \/ PushUnlock(t) \/ PushPostFull(t)
  \/ PopWaitFull(t) \/ PopWaitMutex(t) \/ PopLoad(t)
  \/ PopAdvance(t) \/ PopUnlock(t) \/ PopPostEmpty(t)

Next ==
  \/ \E q \in Queues, k \in Sizes : QueueNew(q, k)
  \/ \E q \in Queues : QueueDelete(q)
  \/ \E t \in Threads, q \in Queues, v \in Values : PushCall(t, q, v)
  \/ \E t \in Threads, q \in Queues : PopCall(t, q)
  \/ \E t \in Threads : Continue(t)

Spec == Init /\ [][Next]_vars

(* A thread that can go on does so in the end; nothing makes a semaphore   *)
(* serve its waiters in order, and nobody has to call.                     *)
FairSpec == Spec /\ \A t \in Threads : WF_vars(Continue(t))

-----------------------------------------------------------------------------
(* Properties *)

(* The indices, the semaphores and the callers' variables stay in their    *)
(* types; mutex is never posted twice (queue.c:12-20).                     *)
TypeOK ==
  /\ in \in Nat /\ out \in Nat
  /\ size \in [Queues -> Sizes \cup {0}]
  /\ buffer \in [Queues -> [Slots -> Values \cup {Nothing}]]
  /\ empty \in [Queues -> Nat]
  /\ full \in [Queues -> Nat]
  /\ mutex \in [Queues -> {0, 1}]
  /\ pc \in [Threads -> Locations]
  /\ queue \in [Threads -> Queues]
  /\ elem \in [Threads -> Values \cup {Nothing}]
  /\ news \in 0..MaxNews

(* Where a push, or a pop, has a slot of its own, and where a call has the *)
(* mutex.                                                                  *)
Filling == {"pushMutex", "pushStore", "pushAdvance", "pushUnlock", "pushFull"}
Emptying == {"popMutex", "popLoad", "popAdvance", "popUnlock", "popEmpty"}
Critical == {"pushStore", "pushAdvance", "pushUnlock",
             "popLoad", "popAdvance", "popUnlock"}

(* The slots a queue's semaphores and callers account for: free, filled,   *)
(* or held by a call under way (queue.c:53-81).  A slot is never lost nor  *)
(* given out twice, and mutex lets one call at a time near the buffer.     *)
SlotsAccounted ==
  \A q \in Queues : size[q] > 0 =>
    /\ empty[q] + full[q] + Cardinality(In(q, Filling \cup Emptying)) = size[q]
    /\ mutex[q] + Cardinality(In(q, Critical)) = 1

(* The abstract queue.  The elements present are those full counts, those  *)
(* stored and not yet counted, and those counted off and not yet loaded;   *)
(* the oldest is at out, or past it while a pop is about to advance.       *)
Present(q) ==
  full[q] + Cardinality(In(q, {"pushAdvance", "pushUnlock", "pushFull"}))
          + Cardinality(In(q, {"popMutex", "popLoad"}))

Content(q) ==
  LET first == IF In(q, {"popAdvance"}) = {} THEN out ELSE out + 1
  IN  [i \in 1..Present(q) |-> buffer[q][(first + i - 1) % size[q]]]

(* What a pop under way has been given. *)
Taken ==
  [t \in Threads |->
     IF pc[t] \in {"popAdvance", "popUnlock", "popEmpty"} THEN elem[t] ELSE Nothing]

Abstract == INSTANCE BoundedFIFO WITH room <- size, content <- [q \in Queues |-> Content(q)],
                                      taken <- Taken

(* The queue is a bounded FIFO: pops give the pushed elements in the order *)
(* they were pushed, each to one caller, and at most size are held         *)
(* (queue.h:40-60 of queue.c:53-81).                                       *)
Refinement == Abstract!Spec

(* A pop gives an element somebody pushed, never what an unused slot       *)
(* holds (queue.h:51 of queue.c:67-81).                                    *)
PopGivesElement == \A t \in Threads : pc[t] = "popAdvance" => elem[t] \in Values

(* An element in the queue and a caller waiting to pop: some caller gets   *)
(* an element (queue.c:64, 72).                                            *)
ItemTaken ==
  \A q \in Queues :
    (Content(q) # <<>> /\ In(q, {"popFull"}) # {}) ~> (In(q, {"popAdvance"}) # {})

(* Room in the queue and a caller waiting to push: some caller stores its  *)
(* element (queue.c:58, 78).                                               *)
RoomUsed ==
  \A q \in Queues :
    (Len(Content(q)) < size[q] /\ In(q, {"pushEmpty"}) # {})
      ~> (In(q, {"pushAdvance"}) # {})

=============================================================================
