------------------------------- MODULE RWLock -------------------------------
(***************************************************************************)
(* The read/write lock of asgn3/rwlock.c: a mutex, two condition variables *)
(* (readGo, writeGo) and five counters, with three priorities.             *)
(*                                                                         *)
(* Every access to the counters is made with rw->mutex held, so a critical *)
(* section (from pthread_mutex_lock, or from the return of                 *)
(* pthread_cond_wait, to pthread_mutex_unlock or to the next               *)
(* pthread_cond_wait) is one action.  A thread that blocks in              *)
(* pthread_cond_wait sleeps ("waitRead", "waitWrite"); a signal, a         *)
(* broadcast or a spurious wakeup makes it runnable ("wokenRead",          *)
(* "wokenWrite"); it then takes the mutex again, behind whoever comes      *)
(* first, and re-evaluates its while condition.                            *)
(*                                                                         *)
(* A definition called ...Variant is a plausible slip in the definition    *)
(* that follows it; no specification uses it, the properties are tried     *)
(* against it.                                                             *)
(***************************************************************************)
EXTENDS Integers, FiniteSets

CONSTANTS
  Threads,     (* the threads that call the lock                            *)
  Priorities,  (* the arguments p that rwlock_new is called with            *)
  NArgs,       (* the arguments n that rwlock_new is called with            *)
  UintMod      (* 2^32 in the code: totalActiveReaders and n are uint32_t   *)

ASSUME ThreadsAssumption == IsFiniteSet(Threads)
ASSUME PrioritiesAssumption == Priorities \subseteq {"READERS", "WRITERS", "N_WAY"}
ASSUME UintAssumption == UintMod \in Nat /\ UintMod > 1
ASSUME NArgsAssumption == NArgs \subseteq 0..(UintMod - 1)

VARIABLES
  live,    (* the lock is allocated: between rwlock_new and rwlock_delete   *)
  p, n,
  activeReaders, activeWriters,
  waitingReaders, waitingWriters,
  totalActiveReaders,
  pc       (* where each thread is *)

setup == <<live, p, n>>
counters == <<activeReaders, activeWriters, waitingReaders, waitingWriters,
              totalActiveReaders>>
vars == <<setup, counters, pc>>

Locations == {"idle", "waitRead", "wokenRead", "reading",
              "waitWrite", "wokenWrite", "writing"}

At(S) == {t \in Threads : pc[t] \in S}
Reading == At({"reading"})
Writing == At({"writing"})
ReadWaiters == At({"waitRead", "wokenRead"})
WriteWaiters == At({"waitWrite", "wokenWrite"})

Goto(t, loc) == pc' = [pc EXCEPT ![t] = loc]

-----------------------------------------------------------------------------
(* The two conditions.  With N_WAY both also write totalActiveReaders when *)
(* they let the caller through; AdmitReader and AdmitWriter do that.       *)

ReaderShouldWait ==
  \/ p = "WRITERS" /\ (activeWriters > 0 \/ waitingWriters > 0)
  \/ p = "READERS" /\ activeWriters > 0
  \/ p = "N_WAY" /\ totalActiveReaders >= n /\ waitingWriters # 0

(* Readers left out of the condition for WRITERS. *)
WriterShouldWaitVariant ==
  \/ p = "WRITERS" /\ activeWriters > 0
  \/ p = "READERS" /\ (activeReaders > 0 \/ waitingReaders > 0)
  \/ p = "N_WAY" /\ n # totalActiveReaders /\ activeReaders # 0 /\ waitingReaders # 0

WriterShouldWait ==
  \/ p = "WRITERS" /\ (activeWriters > 0 \/ activeReaders > 0)
  \/ p = "READERS" /\ (activeReaders > 0 \/ waitingReaders > 0)
  \/ p = "N_WAY" /\ n # totalActiveReaders /\ activeReaders # 0 /\ waitingReaders # 0

(* Every admission counted, not those made with N_WAY alone, and no wrap. *)
AdmitReaderVariant(t) ==
  /\ activeReaders' = activeReaders + 1
  /\ totalActiveReaders' = totalActiveReaders + 1
  /\ Goto(t, "reading")
  /\ UNCHANGED <<setup, activeWriters, waitingWriters>>

AdmitReader(t) ==
  /\ activeReaders' = activeReaders + 1
  /\ totalActiveReaders' = IF p = "N_WAY"
                           THEN (totalActiveReaders + 1) % UintMod
                           ELSE totalActiveReaders
  /\ Goto(t, "reading")
  /\ UNCHANGED <<setup, activeWriters, waitingWriters>>

AdmitWriter(t) ==
  /\ activeWriters' = activeWriters + 1
  /\ totalActiveReaders' = IF p = "N_WAY" THEN 0 ELSE totalActiveReaders
  /\ Goto(t, "writing")
  /\ UNCHANGED <<setup, activeReaders, waitingReaders>>

-----------------------------------------------------------------------------
(* reader_lock and writer_lock: the first evaluation of the condition, and *)
(* the one after each return of pthread_cond_wait.  The waiting counter is *)
(* raised on entry and lowered on admission, so a thread admitted at once  *)
(* leaves it alone; neither condition reads the caller's own counter.      *)

ReaderLock(t) ==
  /\ live
  /\ pc[t] = "idle"
  /\ \/ /\ ReaderShouldWait
        /\ waitingReaders' = waitingReaders + 1
        /\ Goto(t, "waitRead")
        /\ UNCHANGED <<setup, activeReaders, activeWriters, waitingWriters,
                       totalActiveReaders>>
     \/ /\ ~ReaderShouldWait
        /\ AdmitReader(t)
        /\ UNCHANGED waitingReaders

(* The counter of waiting readers is not lowered on admission. *)
ReaderResumeVariant(t) ==
  /\ pc[t] = "wokenRead"
  /\ ~ReaderShouldWait
  /\ AdmitReader(t)
  /\ UNCHANGED waitingReaders

ReaderResume(t) ==
  /\ pc[t] = "wokenRead"
  /\ \/ /\ ReaderShouldWait
        /\ Goto(t, "waitRead")
        /\ UNCHANGED <<setup, counters>>
     \/ /\ ~ReaderShouldWait
        /\ AdmitReader(t)
        /\ waitingReaders' = waitingReaders - 1

WriterLock(t) ==
  /\ live
  /\ pc[t] = "idle"
  /\ \/ /\ WriterShouldWait
        /\ waitingWriters' = waitingWriters + 1
        /\ Goto(t, "waitWrite")
        /\ UNCHANGED <<setup, activeReaders, activeWriters, waitingReaders,
                       totalActiveReaders>>
     \/ /\ ~WriterShouldWait
        /\ AdmitWriter(t)
        /\ UNCHANGED waitingWriters

(* "if" instead of "while": a woken writer does not look again. *)
WriterResumeVariant(t) ==
  /\ pc[t] = "wokenWrite"
  /\ AdmitWriter(t)
  /\ waitingWriters' = waitingWriters - 1

WriterResume(t) ==
  /\ pc[t] = "wokenWrite"
  /\ \/ /\ WriterShouldWait
        /\ Goto(t, "waitWrite")
        /\ UNCHANGED <<setup, counters>>
     \/ /\ ~WriterShouldWait
        /\ AdmitWriter(t)
        /\ waitingWriters' = waitingWriters - 1

(* t goes idle and pthread_cond_signal(&rw->writeGo) wakes one sleeping    *)
(* writer, if there is one.                                                *)
LeaveSignallingWriter(t) ==
  IF At({"waitWrite"}) = {}
  THEN Goto(t, "idle")
  ELSE \E w \in At({"waitWrite"}) :
         pc' = [pc EXCEPT ![t] = "idle", ![w] = "wokenWrite"]

(* A signal where the code broadcasts. *)
LeaveBroadcastingReadersVariant(t) ==
  IF At({"waitRead"}) = {}
  THEN Goto(t, "idle")
  ELSE \E r \in At({"waitRead"}) :
         pc' = [pc EXCEPT ![t] = "idle", ![r] = "wokenRead"]

(* t goes idle and pthread_cond_broadcast(&rw->readGo) wakes every         *)
(* sleeping reader.                                                        *)
LeaveBroadcastingReaders(t) ==
  pc' = [u \in Threads |-> IF u = t THEN "idle"
                           ELSE IF pc[u] = "waitRead" THEN "wokenRead"
                           ELSE pc[u]]

(* The last reader leaves without a signal. *)
ReaderUnlockVariant(t) ==
  /\ pc[t] = "reading"
  /\ activeReaders' = activeReaders - 1
  /\ Goto(t, "idle")
  /\ UNCHANGED <<setup, activeWriters, waitingReaders, waitingWriters,
                 totalActiveReaders>>

ReaderUnlock(t) ==
  /\ pc[t] = "reading"
  /\ activeReaders' = activeReaders - 1
  /\ IF activeReaders' = 0 /\ waitingWriters > 0
     THEN LeaveSignallingWriter(t)
     ELSE Goto(t, "idle")
  /\ UNCHANGED <<setup, activeWriters, waitingReaders, waitingWriters,
                 totalActiveReaders>>

WriterUnlock(t) ==
  /\ pc[t] = "writing"
  /\ activeWriters' = activeWriters - 1
  /\ IF activeWriters' = 0 /\ waitingWriters > 0
     THEN LeaveSignallingWriter(t)
     ELSE LeaveBroadcastingReaders(t)
  /\ UNCHANGED <<setup, activeReaders, waitingReaders, waitingWriters,
                 totalActiveReaders>>

(* POSIX lets pthread_cond_wait return without a signal. *)
SpuriousWakeup(t) ==
  /\ \/ pc[t] = "waitRead" /\ Goto(t, "wokenRead")
     \/ pc[t] = "waitWrite" /\ Goto(t, "wokenWrite")
  /\ UNCHANGED <<setup, counters>>

-----------------------------------------------------------------------------
(* rwlock_new(prio, arg) and rwlock_delete.  n is (uint32_t) -1 unless the *)
(* priority is N_WAY.  Deleting a lock in use is undefined in POSIX and    *)
(* left to the caller to avoid.                                            *)

RWLockNew(prio, arg) ==
  /\ ~live
  /\ live' = TRUE
  /\ p' = prio
  /\ n' = IF prio = "N_WAY" THEN arg ELSE UintMod - 1
  /\ activeReaders' = 0
  /\ activeWriters' = 0
  /\ waitingReaders' = 0
  /\ waitingWriters' = 0
  /\ totalActiveReaders' = 0
  /\ UNCHANGED pc

RWLockDelete ==
  /\ live
  /\ \A t \in Threads : pc[t] = "idle"
  /\ live' = FALSE
  /\ UNCHANGED <<p, n, counters, pc>>

Init ==
  /\ live = FALSE
  /\ p \in Priorities
  /\ n = UintMod - 1
  /\ activeReaders = 0
  /\ activeWriters = 0
  /\ waitingReaders = 0
  /\ waitingWriters = 0
  /\ totalActiveReaders = 0
  /\ pc = [t \in Threads |-> "idle"]

Next ==
  \/ \E prio \in Priorities, arg \in NArgs : RWLockNew(prio, arg)
  \/ RWLockDelete
  \/ \E t \in Threads :
       \/ ReaderLock(t) \/ ReaderResume(t) \/ ReaderUnlock(t)
       \/ WriterLock(t) \/ WriterResume(t) \/ WriterUnlock(t)
       \/ SpuriousWakeup(t)

Spec == Init /\ [][Next]_vars

(* A woken thread gets the mutex in the end, and a holder releases the     *)
(* lock.  Nothing is assumed of arrivals, of spurious wakeups, or of which *)
(* sleeper a signal picks.                                                 *)
Fairness ==
  \A t \in Threads :
    /\ WF_vars(ReaderResume(t))
    /\ WF_vars(WriterResume(t))
    /\ WF_vars(ReaderUnlock(t))
    /\ WF_vars(WriterUnlock(t))

FairSpec == Spec /\ Fairness

-----------------------------------------------------------------------------
(* Properties *)

(* The counters stay in their types: the int counters never go negative,   *)
(* and totalActiveReaders wraps at the width of uint32_t (rwlock.c:13-26). *)
TypeOK ==
  /\ live \in BOOLEAN
  /\ p \in Priorities
  /\ n \in 0..(UintMod - 1)
  /\ activeReaders \in Nat
  /\ activeWriters \in Nat
  /\ waitingReaders \in Nat
  /\ waitingWriters \in Nat
  /\ totalActiveReaders \in 0..(UintMod - 1)
  /\ pc \in [Threads -> Locations]

(* The four counters say how many threads read, write, and wait to: what   *)
(* every decision of the lock is taken on (rwlock.c:63-112).               *)
CountersAgree ==
  /\ activeReaders = Cardinality(Reading)
  /\ activeWriters = Cardinality(Writing)
  /\ waitingReaders = Cardinality(ReadWaiters)
  /\ waitingWriters = Cardinality(WriteWaiters)

NoReaderWithWriter == p # "N_WAY" => Reading = {} \/ Writing = {}

OneWriter == p = "WRITERS" => \A t, u \in Writing : t = u

(* With WRITERS and with READERS, a reader and a writer never hold the     *)
(* lock together; with WRITERS, neither do two writers (rwlock.c:114-161). *)
Exclusion == NoReaderWithWriter /\ OneWriter

SleepingWriterHasWaker ==
  At({"waitWrite"}) # {} =>
    Reading # {} \/ Writing # {} \/ At({"wokenWrite"}) # {}

SleepingReaderHasWaker ==
  At({"waitRead"}) # {} => Writing # {} \/ WriteWaiters # {}

(* No wakeup is lost with WRITERS: while a writer sleeps there is a holder *)
(* who will signal writeGo when it leaves, or a woken writer; while a      *)
(* reader sleeps there is a writer, active or waiting, whose writer_unlock *)
(* will broadcast readGo (rwlock.c:78-112).                                *)
NoLostWakeup == p = "WRITERS" => SleepingWriterHasWaker /\ SleepingReaderHasWaker

(* What the comment says of a writer with N_WAY: it is let in when n       *)
(* readers had the lock since the last writer, or no reader waits or reads *)
(* (rwlock.c:89-91, 148-150).  The code asks for one of the two counters   *)
(* to be zero, not for both.                                               *)
NWayTakesTurns ==
  [][p = "N_WAY" => \A t \in Writing' \ Writing :
       totalActiveReaders >= n \/ ReadWaiters \cup Reading = {}]_vars

(* With WRITERS, as long as a writer waits a writer is admitted again and  *)
(* again: readers cannot starve the writers as a group (rwlock.c:88-100).  *)
WritersProgress == (p = "WRITERS" /\ waitingWriters > 0) ~> (activeWriters > 0)

(* A waiting reader gets in once writers no longer hold the lock           *)
(* (rwlock.c:63-76 with the wakeups of 78-112).  READERS does not keep it. *)
ReadersProgress ==
  <>[](activeWriters = 0) =>
    \A t \in Threads : (t \in ReadWaiters) ~> (t \in Reading)

(* With WRITERS it is so (rwlock.c:63-76 with the wakeups of 78-112).      *)
ReadersFollow ==
  <>[](activeWriters = 0) =>
    \A t \in Threads : (p = "WRITERS" /\ t \in ReadWaiters) ~> (t \in Reading)

-----------------------------------------------------------------------------
(* The abstract lock, its holders read off the program counters while the  *)
(* lock is one built with WRITERS; the others let two writers in.          *)
Holders(S) == IF p = "WRITERS" THEN S ELSE {}
Abstract ==
  INSTANCE ReadWriteLock WITH readers <- Holders(Reading), writers <- Holders(Writing)

(* A lock built with WRITERS is a read/write lock: many readers, or one    *)
(* writer, also when it follows a lock of another priority                 *)
(* (rwlock.h:44-64 of rwlock.c:44-161).                                    *)
Refinement == Abstract!Spec

=============================================================================
