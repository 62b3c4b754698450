---------------------------- MODULE RWLockProofs ----------------------------
(***************************************************************************)
(* Proofs about RWLock for any finite set of threads, any set of           *)
(* priorities and any width of the counters.  IInv is the inductive        *)
(* invariant: types, the counters' meaning, and what each priority keeps   *)
(* apart.                                                                  *)
(***************************************************************************)
EXTENDS RWLock, FiniteSetTheorems, TLAPS

(* A lock that is not allocated has no users. *)
UnusedWhenDead == live \/ \A t \in Threads : pc[t] = "idle"

(* With N_WAY a reader is held back only by a waiting writer and a writer  *)
(* only by a waiting reader, and the first of them never comes             *)
(* (rwlock.c:123-132, 147-157).                                            *)
NobodyWaits == p = "N_WAY" => ReadWaiters = {} /\ WriteWaiters = {}

IInv ==
  /\ TypeOK
  /\ UnusedWhenDead
  /\ CountersAgree
  /\ Exclusion
  /\ NobodyWaits

-----------------------------------------------------------------------------
(* Sizes of sets of threads: what adding or removing one thread does, and  *)
(* that a size is zero for the empty set alone.                            *)
LEMMA Sizes ==
  ASSUME NEW S \in SUBSET Threads
  PROVE  /\ Cardinality(S) \in Nat
         /\ Cardinality(S) = 0 <=> S = {}
         /\ Cardinality(S) > 0 <=> S # {}
         /\ \A t \in Threads \ S : Cardinality(S \cup {t}) = Cardinality(S) + 1
         /\ \A t \in S : Cardinality(S \ {t}) = Cardinality(S) - 1
<1>1. IsFiniteSet(S)
  BY ThreadsAssumption, FS_Subset
<1>2. Cardinality(S) \in Nat /\ (Cardinality(S) = 0 <=> S = {})
  BY <1>1, FS_CardinalityType, FS_EmptySet
<1>3. \A t \in Threads \ S : Cardinality(S \cup {t}) = Cardinality(S) + 1
  BY <1>1, FS_AddElement
<1>4. \A t \in S : Cardinality(S \ {t}) = Cardinality(S) - 1
  BY <1>1, FS_RemoveElement
<1> QED
  BY <1>2, <1>3, <1>4

(* The counters are zero exactly when nobody is in the role they count. *)
LEMMA CountersDecide ==
  ASSUME CountersAgree
  PROVE  /\ activeReaders \in Nat /\ (activeReaders > 0 <=> Reading # {})
         /\ activeWriters \in Nat /\ (activeWriters > 0 <=> Writing # {})
         /\ waitingReaders \in Nat /\ (waitingReaders > 0 <=> ReadWaiters # {})
         /\ waitingWriters \in Nat /\ (waitingWriters > 0 <=> WriteWaiters # {})
<1>1. /\ Reading \in SUBSET Threads /\ Writing \in SUBSET Threads
      /\ ReadWaiters \in SUBSET Threads /\ WriteWaiters \in SUBSET Threads
  BY DEF Reading, Writing, ReadWaiters, WriteWaiters, At
<1> QED
  BY <1>1, Sizes DEF CountersAgree

(* uint32_t arithmetic stays in its type. *)
LEMMA Wraps ==
  /\ 0 \in 0..(UintMod - 1)
  /\ \A x \in 0..(UintMod - 1) : (x + 1) % UintMod \in 0..(UintMod - 1)
BY UintAssumption

-----------------------------------------------------------------------------
(* What a step does to the roles, when it moves one thread. *)
LEMMA Move ==
  ASSUME NEW t \in Threads, NEW loc \in Locations, TypeOK, Goto(t, loc)
  PROVE  /\ pc' \in [Threads -> Locations]
         /\ pc'[t] = loc
         /\ \A u \in Threads \ {t} : pc'[u] = pc[u]
BY DEF TypeOK, Goto

(* A signal moves the caller to "idle" and at most one sleeping writer to  *)
(* "wokenWrite", and one if there is one; the other threads stay.          *)
LEMMA Signal ==
  ASSUME NEW t \in Threads, TypeOK, pc[t] \notin {"waitWrite"},
         LeaveSignallingWriter(t)
  PROVE  /\ pc' \in [Threads -> Locations]
         /\ pc'[t] = "idle"
         /\ \A u \in Threads \ {t} :
              pc'[u] = pc[u] \/ (pc[u] = "waitWrite" /\ pc'[u] = "wokenWrite")
         /\ At({"waitWrite"}) # {} => At({"wokenWrite"})' # {}
<1>1. CASE At({"waitWrite"}) = {}
  BY <1>1, Move DEF LeaveSignallingWriter, Locations
<1>2. CASE At({"waitWrite"}) # {}
  <2>1. PICK w \in At({"waitWrite"}) :
          pc' = [pc EXCEPT ![t] = "idle", ![w] = "wokenWrite"]
    BY <1>2 DEF LeaveSignallingWriter
  <2>2. w \in Threads /\ pc[w] = "waitWrite" /\ w # t
    BY <2>1 DEF At
  <2>3. w \in At({"wokenWrite"})'
    BY <2>1, <2>2 DEF At, TypeOK
  <2> QED
    BY <2>1, <2>2, <2>3 DEF TypeOK, Locations
<1> QED
  BY <1>1, <1>2

(* A broadcast moves the caller to "idle" and leaves no reader asleep. *)
LEMMA Broadcast ==
  ASSUME NEW t \in Threads, TypeOK, LeaveBroadcastingReaders(t)
  PROVE  /\ pc' \in [Threads -> Locations]
         /\ pc'[t] = "idle"
         /\ \A u \in Threads \ {t} :
              \/ pc'[u] = pc[u] /\ pc[u] # "waitRead"
              \/ pc[u] = "waitRead" /\ pc'[u] = "wokenRead"
<1>1. \A u \in Threads :
        pc'[u] = IF u = t THEN "idle"
                 ELSE IF pc[u] = "waitRead" THEN "wokenRead" ELSE pc[u]
  BY DEF LeaveBroadcastingReaders
<1>2. \A u \in Threads : pc'[u] \in Locations
  BY <1>1 DEF TypeOK, Locations
<1>3. pc' \in [Threads -> Locations]
  BY <1>2 DEF LeaveBroadcastingReaders
<1> QED
  BY <1>1, <1>3

(* In every case each role loses t and gains it back if t moved into it;   *)
(* the others keep their roles, asleep or woken.                           *)
KeepsRole(u) ==
  \/ pc'[u] = pc[u]
  \/ pc[u] = "waitRead" /\ pc'[u] = "wokenRead"
  \/ pc[u] = "waitWrite" /\ pc'[u] = "wokenWrite"

MovedTo(role, t, loc, S) == IF loc \in S THEN role \cup {t} ELSE role \ {t}

(* The roles after a step that keeps every other thread in its own. *)
LEMMA Roles ==
  ASSUME NEW t \in Threads, \A u \in Threads \ {t} : KeepsRole(u)
  PROVE  /\ Reading' = MovedTo(Reading, t, pc'[t], {"reading"})
         /\ Writing' = MovedTo(Writing, t, pc'[t], {"writing"})
         /\ ReadWaiters' = MovedTo(ReadWaiters, t, pc'[t], {"waitRead", "wokenRead"})
         /\ WriteWaiters' = MovedTo(WriteWaiters, t, pc'[t], {"waitWrite", "wokenWrite"})
<1>1. Reading' = MovedTo(Reading, t, pc'[t], {"reading"})
  BY DEF KeepsRole, MovedTo, Reading, At
<1>2. Writing' = MovedTo(Writing, t, pc'[t], {"writing"})
  BY DEF KeepsRole, MovedTo, Writing, At
<1>3. ReadWaiters' = MovedTo(ReadWaiters, t, pc'[t], {"waitRead", "wokenRead"})
  BY DEF KeepsRole, MovedTo, ReadWaiters, At
<1>4. WriteWaiters' = MovedTo(WriteWaiters, t, pc'[t], {"waitWrite", "wokenWrite"})
  BY DEF KeepsRole, MovedTo, WriteWaiters, At
<1> QED
  BY <1>1, <1>2, <1>3, <1>4

(* Which role a thread has. *)
LEMMA RoleOf ==
  /\ Reading \in SUBSET Threads /\ Writing \in SUBSET Threads
  /\ ReadWaiters \in SUBSET Threads /\ WriteWaiters \in SUBSET Threads
  /\ \A t \in Threads :
       /\ t \in Reading <=> pc[t] = "reading"
       /\ t \in Writing <=> pc[t] = "writing"
       /\ t \in ReadWaiters <=> pc[t] \in {"waitRead", "wokenRead"}
       /\ t \in WriteWaiters <=> pc[t] \in {"waitWrite", "wokenWrite"}
BY DEF Reading, Writing, ReadWaiters, WriteWaiters, At

-----------------------------------------------------------------------------
(* The inductive invariant holds initially. *)
LEMMA IInvInit == Init => IInv
<1> SUFFICES ASSUME Init PROVE IInv
  OBVIOUS
<1>1. TypeOK /\ UnusedWhenDead
  <2>1. n \in 0..(UintMod - 1) /\ totalActiveReaders \in 0..(UintMod - 1)
    BY UintAssumption DEF Init
  <2>2. pc \in [Threads -> Locations]
    BY DEF Init, Locations
  <2> QED
    BY <2>1, <2>2 DEF Init, TypeOK, UnusedWhenDead
<1>2. Reading = {} /\ Writing = {} /\ ReadWaiters = {} /\ WriteWaiters = {}
  BY DEF Init, Reading, Writing, ReadWaiters, WriteWaiters, At
<1>3. CountersAgree
  BY <1>2, FS_EmptySet DEF Init, CountersAgree
<1> QED
  BY <1>1, <1>2, <1>3
  DEF IInv, Exclusion, NoReaderWithWriter, OneWriter, NobodyWaits

(* What admitting a thread does, from its call or from its sleep. *)
LEMMA AdmitReaderMoves ==
  ASSUME TypeOK, NEW t \in Threads, AdmitReader(t)
  PROVE  /\ pc'[t] = "reading" /\ pc' \in [Threads -> Locations]
         /\ \A u \in Threads \ {t} : KeepsRole(u)
         /\ totalActiveReaders' \in 0..(UintMod - 1)
         /\ live' = live /\ p' = p /\ n' = n
         /\ activeReaders' = activeReaders + 1
         /\ activeWriters' = activeWriters /\ waitingWriters' = waitingWriters
<1>1. totalActiveReaders' \in 0..(UintMod - 1)
  BY Wraps DEF AdmitReader, TypeOK
<1>2. /\ pc'[t] = "reading" /\ pc' \in [Threads -> Locations]
      /\ \A u \in Threads \ {t} : KeepsRole(u)
  BY Move DEF AdmitReader, Locations, KeepsRole
<1>3. /\ live' = live /\ p' = p /\ n' = n
      /\ activeReaders' = activeReaders + 1
      /\ activeWriters' = activeWriters /\ waitingWriters' = waitingWriters
  BY DEF AdmitReader, setup
<1> QED
  BY <1>1, <1>2, <1>3

(* The same of a writer. *)
LEMMA AdmitWriterMoves ==
  ASSUME TypeOK, NEW t \in Threads, AdmitWriter(t)
  PROVE  /\ pc'[t] = "writing" /\ pc' \in [Threads -> Locations]
         /\ \A u \in Threads \ {t} : KeepsRole(u)
         /\ totalActiveReaders' \in 0..(UintMod - 1)
         /\ live' = live /\ p' = p /\ n' = n
         /\ activeWriters' = activeWriters + 1
         /\ activeReaders' = activeReaders /\ waitingReaders' = waitingReaders
<1>1. totalActiveReaders' \in 0..(UintMod - 1)
  BY Wraps DEF AdmitWriter, TypeOK
<1>2. /\ pc'[t] = "writing" /\ pc' \in [Threads -> Locations]
      /\ \A u \in Threads \ {t} : KeepsRole(u)
  BY Move DEF AdmitWriter, Locations, KeepsRole
<1>3. /\ live' = live /\ p' = p /\ n' = n
      /\ activeWriters' = activeWriters + 1
      /\ activeReaders' = activeReaders /\ waitingReaders' = waitingReaders
  BY DEF AdmitWriter, setup
<1> QED
  BY <1>1, <1>2, <1>3

-----------------------------------------------------------------------------
(* Entering and leaving the lock, and going to sleep again: every action   *)
(* of a thread keeps the inductive invariant.                              *)
LEMMA ReaderLockKeeps ==
  ASSUME IInv, NEW t \in Threads, ReaderLock(t)
  PROVE  IInv'
<1> USE DEF IInv
<1>1. CASE ReaderShouldWait
  <2>1. /\ pc[t] = "idle" /\ live' /\ p' = p
        /\ pc'[t] = "waitRead" /\ TypeOK'
    BY <1>1, Move DEF ReaderLock, setup, TypeOK, Locations
  <2>2. \A u \in Threads \ {t} : KeepsRole(u)
    BY <1>1, Move DEF ReaderLock, KeepsRole, Locations
  <2>3. /\ Reading' = Reading /\ Writing' = Writing
        /\ ReadWaiters' = ReadWaiters \cup {t} /\ WriteWaiters' = WriteWaiters
        /\ t \notin ReadWaiters
    BY <2>1, <2>2, Roles, RoleOf DEF MovedTo
  <2>4. CountersAgree'
    BY <1>1, <2>3, Sizes, RoleOf DEF ReaderLock, CountersAgree, TypeOK
  <2>5. Exclusion' /\ UnusedWhenDead'
    BY <2>1, <2>3 DEF Exclusion, NoReaderWithWriter, OneWriter, UnusedWhenDead
  <2>6. NobodyWaits'
    BY <1>1, <2>1, <2>3, CountersDecide DEF NobodyWaits, ReaderShouldWait
  <2> QED
    BY <2>1, <2>4, <2>5, <2>6
<1>2. CASE ~ReaderShouldWait
  <2>1. live /\ pc[t] = "idle" /\ AdmitReader(t) /\ waitingReaders' = waitingReaders
    BY <1>2 DEF ReaderLock
  <2>2. /\ Reading' = Reading \cup {t} /\ Writing' = Writing
        /\ ReadWaiters' = ReadWaiters /\ WriteWaiters' = WriteWaiters
        /\ t \notin Reading
    BY <2>1, AdmitReaderMoves, Roles, RoleOf DEF MovedTo
  <2>3. CountersAgree'
    BY <2>1, <2>2, AdmitReaderMoves, Sizes, RoleOf DEF CountersAgree
  <2>4. TypeOK' /\ UnusedWhenDead'
    BY <2>1, <2>2, <2>3, AdmitReaderMoves, Sizes, RoleOf
    DEF TypeOK, UnusedWhenDead, CountersAgree
  <2>5. Exclusion'
    BY <1>2, <2>1, <2>2, AdmitReaderMoves, CountersDecide, PrioritiesAssumption
    DEF Exclusion, NoReaderWithWriter, OneWriter, ReaderShouldWait, TypeOK
  <2>6. NobodyWaits'
    BY <2>1, <2>2, AdmitReaderMoves DEF NobodyWaits
  <2> QED
    BY <2>3, <2>4, <2>5, <2>6
<1> QED
  BY <1>1, <1>2

(* A woken reader. *)
LEMMA ReaderResumeKeeps ==
  ASSUME IInv, NEW t \in Threads, ReaderResume(t)
  PROVE  IInv'
<1> USE DEF IInv
<1>1. CASE ReaderShouldWait
  <2>1. /\ pc[t] = "wokenRead" /\ live' = live /\ p' = p
        /\ pc'[t] = "waitRead" /\ TypeOK'
    BY <1>1, Move DEF ReaderResume, setup, counters, TypeOK, Locations
  <2>2. \A u \in Threads \ {t} : KeepsRole(u)
    BY <1>1, Move DEF ReaderResume, KeepsRole, Locations
  <2>3. /\ Reading' = Reading /\ Writing' = Writing
        /\ ReadWaiters' = ReadWaiters /\ WriteWaiters' = WriteWaiters
    BY <2>1, <2>2, Roles, RoleOf DEF MovedTo
  <2>4. CountersAgree'
    BY <1>1, <2>3 DEF ReaderResume, CountersAgree, counters
  <2>5. Exclusion' /\ UnusedWhenDead'
    BY <2>1, <2>3 DEF Exclusion, NoReaderWithWriter, OneWriter, UnusedWhenDead
  <2>6. NobodyWaits'
    BY <2>1, <2>3 DEF NobodyWaits
  <2> QED
    BY <2>1, <2>4, <2>5, <2>6
<1>2. CASE ~ReaderShouldWait
  <2>1. pc[t] = "wokenRead" /\ AdmitReader(t) /\ waitingReaders' = waitingReaders - 1
    BY <1>2 DEF ReaderResume
  <2>2. /\ Reading' = Reading \cup {t} /\ Writing' = Writing
        /\ ReadWaiters' = ReadWaiters \ {t} /\ WriteWaiters' = WriteWaiters
        /\ t \notin Reading /\ t \in ReadWaiters
    BY <2>1, AdmitReaderMoves, Roles, RoleOf DEF MovedTo
  <2>3. CountersAgree'
    BY <2>1, <2>2, AdmitReaderMoves, Sizes, RoleOf DEF CountersAgree
  <2>4. TypeOK' /\ UnusedWhenDead'
    BY <2>1, <2>2, <2>3, AdmitReaderMoves, Sizes, RoleOf
    DEF TypeOK, UnusedWhenDead, CountersAgree
  <2>5. Exclusion'
    BY <1>2, <2>1, <2>2, AdmitReaderMoves, CountersDecide, PrioritiesAssumption
    DEF Exclusion, NoReaderWithWriter, OneWriter, ReaderShouldWait, TypeOK
  <2>6. NobodyWaits'
    BY <2>1, <2>2, AdmitReaderMoves DEF NobodyWaits
  <2> QED
    BY <2>3, <2>4, <2>5, <2>6
<1> QED
  BY <1>1, <1>2

(* A writer that comes. *)
LEMMA WriterLockKeeps ==
  ASSUME IInv, NEW t \in Threads, WriterLock(t)
  PROVE  IInv'
<1> USE DEF IInv
<1>1. CASE WriterShouldWait
  <2>1. /\ pc[t] = "idle" /\ live' /\ p' = p
        /\ pc'[t] = "waitWrite" /\ TypeOK'
    BY <1>1, Move DEF WriterLock, setup, TypeOK, Locations
  <2>2. \A u \in Threads \ {t} : KeepsRole(u)
    BY <1>1, Move DEF WriterLock, KeepsRole, Locations
  <2>3. /\ Reading' = Reading /\ Writing' = Writing
        /\ ReadWaiters' = ReadWaiters /\ WriteWaiters' = WriteWaiters \cup {t}
        /\ t \notin WriteWaiters
    BY <2>1, <2>2, Roles, RoleOf DEF MovedTo
  <2>4. CountersAgree'
    BY <1>1, <2>3, Sizes, RoleOf DEF WriterLock, CountersAgree, TypeOK
  <2>5. Exclusion' /\ UnusedWhenDead'
    BY <2>1, <2>3 DEF Exclusion, NoReaderWithWriter, OneWriter, UnusedWhenDead
  <2>6. NobodyWaits'
    BY <1>1, <2>1, <2>3, CountersDecide DEF NobodyWaits, WriterShouldWait
  <2> QED
    BY <2>1, <2>4, <2>5, <2>6
<1>2. CASE ~WriterShouldWait
  <2>1. live /\ pc[t] = "idle" /\ AdmitWriter(t) /\ waitingWriters' = waitingWriters
    BY <1>2 DEF WriterLock
  <2>2. /\ Reading' = Reading /\ Writing' = Writing \cup {t}
        /\ ReadWaiters' = ReadWaiters /\ WriteWaiters' = WriteWaiters
        /\ t \notin Writing
    BY <2>1, AdmitWriterMoves, Roles, RoleOf DEF MovedTo
  <2>3. CountersAgree'
    BY <2>1, <2>2, AdmitWriterMoves, Sizes, RoleOf DEF CountersAgree
  <2>4. TypeOK' /\ UnusedWhenDead'
    BY <2>1, <2>2, <2>3, AdmitWriterMoves, Sizes, RoleOf
    DEF TypeOK, UnusedWhenDead, CountersAgree
  <2>5. Exclusion'
    BY <1>2, <2>1, <2>2, AdmitWriterMoves, CountersDecide, PrioritiesAssumption
    DEF Exclusion, NoReaderWithWriter, OneWriter, WriterShouldWait, TypeOK
  <2>6. NobodyWaits'
    BY <2>1, <2>2, AdmitWriterMoves DEF NobodyWaits
  <2> QED
    BY <2>3, <2>4, <2>5, <2>6
<1> QED
  BY <1>1, <1>2

(* A woken writer. *)
LEMMA WriterResumeKeeps ==
  ASSUME IInv, NEW t \in Threads, WriterResume(t)
  PROVE  IInv'
<1> USE DEF IInv
<1>1. CASE WriterShouldWait
  <2>1. /\ pc[t] = "wokenWrite" /\ live' = live /\ p' = p
        /\ pc'[t] = "waitWrite" /\ TypeOK'
    BY <1>1, Move DEF WriterResume, setup, counters, TypeOK, Locations
  <2>2. \A u \in Threads \ {t} : KeepsRole(u)
    BY <1>1, Move DEF WriterResume, KeepsRole, Locations
  <2>3. /\ Reading' = Reading /\ Writing' = Writing
        /\ ReadWaiters' = ReadWaiters /\ WriteWaiters' = WriteWaiters
    BY <2>1, <2>2, Roles, RoleOf DEF MovedTo
  <2>4. CountersAgree'
    BY <1>1, <2>3 DEF WriterResume, CountersAgree, counters
  <2>5. Exclusion' /\ UnusedWhenDead'
    BY <2>1, <2>3 DEF Exclusion, NoReaderWithWriter, OneWriter, UnusedWhenDead
  <2>6. NobodyWaits'
    BY <2>1, <2>3 DEF NobodyWaits
  <2> QED
    BY <2>1, <2>4, <2>5, <2>6
<1>2. CASE ~WriterShouldWait
  <2>1. pc[t] = "wokenWrite" /\ AdmitWriter(t) /\ waitingWriters' = waitingWriters - 1
    BY <1>2 DEF WriterResume
  <2>2. /\ Reading' = Reading /\ Writing' = Writing \cup {t}
        /\ ReadWaiters' = ReadWaiters /\ WriteWaiters' = WriteWaiters \ {t}
        /\ t \notin Writing /\ t \in WriteWaiters
    BY <2>1, AdmitWriterMoves, Roles, RoleOf DEF MovedTo
  <2>3. CountersAgree'
    BY <2>1, <2>2, AdmitWriterMoves, Sizes, RoleOf DEF CountersAgree
  <2>4. TypeOK' /\ UnusedWhenDead'
    BY <2>1, <2>2, <2>3, AdmitWriterMoves, Sizes, RoleOf
    DEF TypeOK, UnusedWhenDead, CountersAgree
  <2>5. Exclusion'
    BY <1>2, <2>1, <2>2, AdmitWriterMoves, CountersDecide, PrioritiesAssumption
    DEF Exclusion, NoReaderWithWriter, OneWriter, WriterShouldWait, TypeOK
  <2>6. NobodyWaits'
    BY <2>1, <2>2, AdmitWriterMoves DEF NobodyWaits
  <2> QED
    BY <2>3, <2>4, <2>5, <2>6
<1> QED
  BY <1>1, <1>2

(* A reader that leaves, with or without a signal. *)
LEMMA ReaderUnlockKeeps ==
  ASSUME IInv, NEW t \in Threads, ReaderUnlock(t)
  PROVE  IInv'
<1> USE DEF IInv
<1>1. /\ pc[t] = "reading" /\ live' = live /\ p' = p /\ n' = n
      /\ activeReaders' = activeReaders - 1
      /\ UNCHANGED <<activeWriters, waitingReaders, waitingWriters,
                     totalActiveReaders>>
  BY DEF ReaderUnlock, setup
<1>2. /\ pc' \in [Threads -> Locations] /\ pc'[t] = "idle"
      /\ \A u \in Threads \ {t} : KeepsRole(u)
  <2>1. CASE LeaveSignallingWriter(t)
    BY <1>1, <2>1, Signal DEF KeepsRole
  <2>2. CASE Goto(t, "idle")
    BY <2>2, Move DEF KeepsRole, Locations
  <2> QED
    BY <2>1, <2>2 DEF ReaderUnlock
<1>3. /\ Reading' = Reading \ {t} /\ Writing' = Writing
      /\ ReadWaiters' = ReadWaiters /\ WriteWaiters' = WriteWaiters
      /\ t \in Reading
  BY <1>1, <1>2, Roles, RoleOf DEF MovedTo
<1>4. CountersAgree'
  BY <1>1, <1>3, Sizes, RoleOf DEF CountersAgree
<1>5. TypeOK'
  BY <1>1, <1>2, <1>3, Sizes, RoleOf DEF TypeOK, CountersAgree
<1>6. UnusedWhenDead' /\ Exclusion' /\ NobodyWaits'
  BY <1>1, <1>3
  DEF UnusedWhenDead, Exclusion, NoReaderWithWriter, OneWriter, NobodyWaits
<1> QED
  BY <1>4, <1>5, <1>6

(* A writer that leaves, with a signal or a broadcast. *)
LEMMA WriterUnlockKeeps ==
  ASSUME IInv, NEW t \in Threads, WriterUnlock(t)
  PROVE  IInv'
<1> USE DEF IInv
<1>1. /\ pc[t] = "writing" /\ live' = live /\ p' = p /\ n' = n
      /\ activeWriters' = activeWriters - 1
      /\ UNCHANGED <<activeReaders, waitingReaders, waitingWriters,
                     totalActiveReaders>>
  BY DEF WriterUnlock, setup
<1>2. /\ pc' \in [Threads -> Locations] /\ pc'[t] = "idle"
      /\ \A u \in Threads \ {t} : KeepsRole(u)
  <2>1. CASE LeaveSignallingWriter(t)
    BY <1>1, <2>1, Signal DEF KeepsRole
  <2>2. CASE LeaveBroadcastingReaders(t)
    BY <2>2, Broadcast DEF KeepsRole
  <2> QED
    BY <2>1, <2>2 DEF WriterUnlock
<1>3. /\ Reading' = Reading /\ Writing' = Writing \ {t}
      /\ ReadWaiters' = ReadWaiters /\ WriteWaiters' = WriteWaiters
      /\ t \in Writing
  BY <1>1, <1>2, Roles, RoleOf DEF MovedTo
<1>4. CountersAgree'
  BY <1>1, <1>3, Sizes, RoleOf DEF CountersAgree
<1>5. TypeOK'
  BY <1>1, <1>2, <1>3, Sizes, RoleOf DEF TypeOK, CountersAgree
<1>6. UnusedWhenDead' /\ Exclusion' /\ NobodyWaits'
  BY <1>1, <1>3
  DEF UnusedWhenDead, Exclusion, NoReaderWithWriter, OneWriter, NobodyWaits
<1> QED
  BY <1>4, <1>5, <1>6

(* A step that leaves every thread in its role and the counters alone. *)
LEMMA SpuriousWakeupKeeps ==
  ASSUME IInv, NEW t \in Threads, SpuriousWakeup(t)
  PROVE  IInv'
<1> USE DEF IInv
<1>1. /\ pc[t] \in {"waitRead", "waitWrite"}
      /\ pc[t] = "waitRead" => pc'[t] = "wokenRead"
      /\ pc[t] = "waitWrite" => pc'[t] = "wokenWrite"
      /\ pc' \in [Threads -> Locations] /\ \A u \in Threads \ {t} : KeepsRole(u)
  BY Move DEF SpuriousWakeup, Locations, KeepsRole
<1>2. /\ Reading' = Reading /\ Writing' = Writing
      /\ ReadWaiters' = ReadWaiters /\ WriteWaiters' = WriteWaiters
  <2>1. CASE pc[t] = "waitRead"
    <3>1. Reading' = Reading /\ Writing' = Writing
      BY <1>1, <2>1, Roles, RoleOf DEF MovedTo
    <3>2. ReadWaiters' = ReadWaiters /\ WriteWaiters' = WriteWaiters
      BY <1>1, <2>1, Roles, RoleOf DEF MovedTo
    <3> QED
      BY <3>1, <3>2
  <2>2. CASE pc[t] = "waitWrite"
    <3>1. Reading' = Reading /\ Writing' = Writing
      BY <1>1, <2>2, Roles, RoleOf DEF MovedTo
    <3>2. ReadWaiters' = ReadWaiters /\ WriteWaiters' = WriteWaiters
      BY <1>1, <2>2, Roles, RoleOf DEF MovedTo
    <3> QED
      BY <3>1, <3>2
  <2> QED
    BY <1>1, <2>1, <2>2
<1>3. UNCHANGED <<live, p, n, activeReaders, activeWriters, waitingReaders,
                  waitingWriters, totalActiveReaders>>
  BY DEF SpuriousWakeup, setup, counters
<1> QED
  BY <1>1, <1>2, <1>3
  DEF TypeOK, CountersAgree, UnusedWhenDead, Exclusion, NoReaderWithWriter,
      OneWriter, NobodyWaits

(* A lock is built and deleted when nobody uses it. *)
LEMMA RWLockNewKeeps ==
  ASSUME IInv, NEW prio \in Priorities, NEW arg \in NArgs, RWLockNew(prio, arg)
  PROVE  IInv'
<1> USE DEF IInv
<1>1. pc' = pc /\ \A t \in Threads : pc'[t] = "idle"
  BY DEF RWLockNew, UnusedWhenDead
<1>2. Reading' = {} /\ Writing' = {} /\ ReadWaiters' = {} /\ WriteWaiters' = {}
  BY <1>1 DEF Reading, Writing, ReadWaiters, WriteWaiters, At
<1>3. TypeOK'
  <2>1. n' \in 0..(UintMod - 1) /\ totalActiveReaders' \in 0..(UintMod - 1)
    BY UintAssumption, NArgsAssumption DEF RWLockNew
  <2> QED
    BY <1>1, <2>1 DEF RWLockNew, TypeOK
<1>4. CountersAgree'
  BY <1>2, FS_EmptySet DEF RWLockNew, CountersAgree
<1> QED
  BY <1>1, <1>2, <1>3, <1>4
  DEF UnusedWhenDead, Exclusion, NoReaderWithWriter, OneWriter, NobodyWaits

(* A lock is deleted when nobody uses it. *)
LEMMA RWLockDeleteKeeps ==
  ASSUME IInv, RWLockDelete
  PROVE  IInv'
BY DEF IInv, RWLockDelete, counters, TypeOK, CountersAgree, UnusedWhenDead,
       Exclusion, NoReaderWithWriter, OneWriter, NobodyWaits, Reading,
       Writing, ReadWaiters, WriteWaiters, At

(* Nothing changes. *)
LEMMA StutterKeeps ==
  ASSUME IInv, UNCHANGED vars
  PROVE  IInv'
BY DEF IInv, vars, setup, counters, TypeOK, CountersAgree, UnusedWhenDead,
       Exclusion, NoReaderWithWriter, OneWriter, NobodyWaits, Reading,
       Writing, ReadWaiters, WriteWaiters, At

(* Every step keeps the inductive invariant. *)
LEMMA IInvNext == IInv /\ [Next]_vars => IInv'
<1> SUFFICES ASSUME IInv, [Next]_vars PROVE IInv'
  OBVIOUS
<1>1. CASE \E prio \in Priorities, arg \in NArgs : RWLockNew(prio, arg)
  BY <1>1, RWLockNewKeeps
<1>2. CASE RWLockDelete
  BY <1>2, RWLockDeleteKeeps
<1>3. ASSUME NEW t \in Threads,
             \/ ReaderLock(t) \/ ReaderResume(t) \/ ReaderUnlock(t)
             \/ WriterLock(t) \/ WriterResume(t) \/ WriterUnlock(t)
             \/ SpuriousWakeup(t)
      PROVE  IInv'
  BY <1>3, ReaderLockKeeps, ReaderResumeKeeps, ReaderUnlockKeeps,
     WriterLockKeeps, WriterResumeKeeps, WriterUnlockKeeps, SpuriousWakeupKeeps
<1>4. CASE UNCHANGED vars
  BY <1>4, StutterKeeps
<1> QED
  BY <1>1, <1>2, <1>3, <1>4 DEF Next

-----------------------------------------------------------------------------
(* The inductive invariant is an invariant. *)
LEMMA Inductive == Spec => []IInv
BY IInvInit, IInvNext, PTL DEF Spec

(* Type correctness, for any number of threads (rwlock.c:13-26). *)
THEOREM TypesHold == Spec => []TypeOK
<1>1. IInv => TypeOK
  BY DEF IInv
<1> QED
  BY <1>1, Inductive, PTL

(* Every decision of the lock is taken on true counts (rwlock.c:63-112). *)
THEOREM CountersHold == Spec => []CountersAgree
<1>1. IInv => CountersAgree
  BY DEF IInv
<1> QED
  BY <1>1, Inductive, PTL

(* No reader with a writer but with N_WAY, no two writers with WRITERS     *)
(* (rwlock.c:114-161).                                                     *)
THEOREM ExclusionHolds == Spec => []Exclusion
<1>1. IInv => Exclusion
  BY DEF IInv
<1> QED
  BY <1>1, Inductive, PTL

-----------------------------------------------------------------------------
(* No lost wakeup.  Sleepers and their wakers, and the counters, thread by *)
(* thread.                                                                 *)
WritersHaveWakers ==
  \A u \in Threads : pc[u] = "waitWrite" =>
    \E h \in Threads : pc[h] \in {"reading", "writing", "wokenWrite"}

ReadersHaveWakers ==
  \A u \in Threads : pc[u] = "waitRead" =>
    \E h \in Threads : pc[h] \in {"writing", "waitWrite", "wokenWrite"}

CountersSee ==
  /\ activeReaders > 0 <=> \E h \in Threads : pc[h] = "reading"
  /\ activeWriters > 0 <=> \E h \in Threads : pc[h] = "writing"
  /\ waitingWriters > 0 <=> \E h \in Threads : pc[h] \in {"waitWrite", "wokenWrite"}
  /\ activeReaders \in Nat /\ activeWriters \in Nat /\ waitingWriters \in Nat

(* The counters and the wakers, said of single threads. *)
LEMMA ThreadByThread ==
  /\ SleepingWriterHasWaker <=> WritersHaveWakers
  /\ SleepingReaderHasWaker <=> ReadersHaveWakers
  /\ CountersAgree => CountersSee
<1>1. CountersAgree => CountersSee
  BY CountersDecide DEF CountersSee, Reading, Writing, WriteWaiters, At
<1> QED
  BY <1>1 DEF SleepingWriterHasWaker, SleepingReaderHasWaker, WritersHaveWakers,
     ReadersHaveWakers, Reading, Writing, WriteWaiters, At

(* With WRITERS, no step leaves a sleeper without a waker. *)
LEMMA WakerNext ==
  ASSUME IInv, IInv', NoLostWakeup, [Next]_vars
  PROVE  NoLostWakeup'
<1>a. /\ (SleepingWriterHasWaker <=> WritersHaveWakers)'
      /\ (SleepingReaderHasWaker <=> ReadersHaveWakers)'
      /\ CountersSee'
  BY ThreadByThread, PTL DEF IInv
<1> SUFFICES ASSUME p' = "WRITERS"
             PROVE  WritersHaveWakers' /\ ReadersHaveWakers'
  BY <1>a DEF NoLostWakeup
<1>b. CountersSee /\ (p = "WRITERS" => WritersHaveWakers /\ ReadersHaveWakers)
  BY ThreadByThread DEF IInv, NoLostWakeup
<1> USE <1>a, <1>b DEF IInv, TypeOK, CountersSee, WritersHaveWakers, ReadersHaveWakers
<1>1. CASE \E prio \in Priorities, arg \in NArgs : RWLockNew(prio, arg)
  BY <1>1 DEF RWLockNew, UnusedWhenDead
<1>2. CASE p = "WRITERS" /\ pc' = pc
  BY <1>2
<1>3. ASSUME NEW t \in Threads, p = "WRITERS", ReaderLock(t) \/ ReaderResume(t)
      PROVE  WritersHaveWakers' /\ ReadersHaveWakers'
  <2>1. CASE ReaderShouldWait
    BY <1>3, <2>1
    DEF ReaderLock, ReaderResume, ReaderShouldWait, Goto
  <2>2. CASE ~ReaderShouldWait
    BY <1>3, <2>2
    DEF ReaderLock, ReaderResume, AdmitReader, Goto
  <2> QED
    BY <2>1, <2>2
<1>4. ASSUME NEW t \in Threads, p = "WRITERS", WriterLock(t) \/ WriterResume(t)
      PROVE  WritersHaveWakers' /\ ReadersHaveWakers'
  <2>1. CASE WriterShouldWait
    BY <1>4, <2>1
    DEF WriterLock, WriterResume, WriterShouldWait, Goto
  <2>2. CASE ~WriterShouldWait
    BY <1>4, <2>2
    DEF WriterLock, WriterResume, AdmitWriter, Goto
  <2> QED
    BY <2>1, <2>2
<1>5. ASSUME NEW t \in Threads, p = "WRITERS", LeaveSignallingWriter(t),
             pc[t] \in {"reading", "writing"}, waitingWriters > 0,
             \A h \in Threads \ {t} : pc[h] \notin {"reading", "writing"}
      PROVE  WritersHaveWakers' /\ ReadersHaveWakers'
  <2>1. /\ pc'[t] = "idle"
        /\ \A u \in Threads \ {t} :
              pc'[u] = pc[u] \/ (pc[u] = "waitWrite" /\ pc'[u] = "wokenWrite")
        /\ At({"waitWrite"}) # {} => At({"wokenWrite"})' # {}
    BY <1>5, Signal
  <2>2. \E h \in Threads : pc'[h] \in {"waitWrite", "wokenWrite"}
    BY <1>5, <2>1
  <2>3. \A u \in Threads : pc'[u] = "waitWrite" => \E h \in Threads : pc'[h] = "wokenWrite"
    BY <2>1 DEF At
  <2> QED
    BY <2>2, <2>3
<1>6. ASSUME NEW t \in Threads, p = "WRITERS", ReaderUnlock(t)
      PROVE  WritersHaveWakers' /\ ReadersHaveWakers'
  <2>1. CASE activeReaders' = 0 /\ waitingWriters > 0
    <3>1. \A h \in Threads \ {t} : pc[h] \notin {"reading", "writing"}
      <4>1. pc[t] = "reading" /\ LeaveSignallingWriter(t)
        BY <1>6, <2>1 DEF ReaderUnlock
      <4>2. \A h \in Threads \ {t} : pc'[h] = pc[h] \/ pc[h] = "waitWrite"
        BY <4>1, Signal
      <4>3. \A h \in Threads : pc'[h] # "reading"
        BY <2>1
      <4>4. Writing = {}
        BY <1>6, <4>1, RoleOf DEF Exclusion, NoReaderWithWriter
      <4> QED
        BY <4>2, <4>3, <4>4, RoleOf
    <3> QED
      BY <1>5, <1>6, <2>1, <3>1 DEF ReaderUnlock
  <2>2. CASE activeReaders' # 0 /\ waitingWriters > 0
    <3>1. \E h \in Threads : pc'[h] = "reading"
      BY <2>2
    <3>2. Goto(t, "idle") /\ pc[t] = "reading"
      BY <1>6, <2>2 DEF ReaderUnlock
    <3> QED
      BY <1>6, <3>1, <3>2
      DEF Goto
  <2>3. CASE ~(waitingWriters > 0)
    <3>1. \A h \in Threads : pc[h] \notin {"waitWrite", "wokenWrite"}
      BY <2>3
    <3>2. Goto(t, "idle") /\ pc[t] = "reading"
      BY <1>6, <2>3 DEF ReaderUnlock
    <3> QED
      BY <1>6, <3>1, <3>2
      DEF Goto
  <2> QED
    BY <2>1, <2>2, <2>3
<1>7. ASSUME NEW t \in Threads, p = "WRITERS", WriterUnlock(t)
      PROVE  WritersHaveWakers' /\ ReadersHaveWakers'
  <2>1. \A h \in Threads \ {t} : pc[h] \notin {"reading", "writing"}
    BY <1>7, RoleOf DEF WriterUnlock, Exclusion, NoReaderWithWriter, OneWriter
  <2>2. CASE LeaveSignallingWriter(t) /\ waitingWriters > 0
    BY <1>5, <1>7, <2>1, <2>2 DEF WriterUnlock
  <2>3. CASE LeaveBroadcastingReaders(t) /\ ~(waitingWriters > 0)
    BY <2>3, Broadcast
  <2>4. activeWriters' = 0
    <3>1. \A h \in Threads : pc'[h] # "writing"
      BY <1>7, <2>1, Signal, Broadcast DEF WriterUnlock
    <3> QED
      BY <3>1
  <2> QED
    BY <1>7, <2>2, <2>3, <2>4 DEF WriterUnlock
<1>8. ASSUME NEW t \in Threads, p = "WRITERS", SpuriousWakeup(t)
      PROVE  WritersHaveWakers' /\ ReadersHaveWakers'
  BY <1>8
  DEF SpuriousWakeup, Goto
<1>9. \/ \E prio \in Priorities, arg \in NArgs : RWLockNew(prio, arg)
      \/ p = "WRITERS"
  BY DEF Next, vars, setup, RWLockDelete, ReaderLock, ReaderResume, ReaderUnlock,
     WriterLock, WriterResume, WriterUnlock, SpuriousWakeup, AdmitReader, AdmitWriter
<1> QED
  BY <1>1, <1>2, <1>3, <1>4, <1>6, <1>7, <1>8, <1>9 DEF Next, vars, RWLockDelete

(* With WRITERS no wakeup is lost (rwlock.c:78-112). *)
THEOREM NoLostWakeupHolds == Spec => []NoLostWakeup
<1>1. Init => NoLostWakeup
  BY DEF Init, NoLostWakeup, SleepingWriterHasWaker, SleepingReaderHasWaker, At
<1>2. IInv /\ IInv' /\ NoLostWakeup /\ [Next]_vars => NoLostWakeup'
  BY WakerNext
<1> QED
  BY <1>1, <1>2, Inductive, PTL DEF Spec

-----------------------------------------------------------------------------
(* The lock built with WRITERS implements the abstract lock: an admission  *)
(* is an acquisition, an unlock a release, everything else a stutter.      *)
Plain == INSTANCE ReadWriteLock WITH readers <- Reading, writers <- Writing
AbstractStep == [Plain!Next]_<<Reading, Writing>>

(* A step that leaves readers and writers as they are is a stutter. *)
LEMMA StutterRefines ==
  ASSUME Reading' = Reading, Writing' = Writing
  PROVE  AbstractStep
BY DEF AbstractStep

(* A reader that is admitted acquires; one that is not, stutters. *)
LEMMA ReadersRefine ==
  ASSUME IInv, p = "WRITERS", NEW t \in Threads, ReaderLock(t) \/ ReaderResume(t)
  PROVE  AbstractStep
<1> USE DEF IInv
<1>1. pc[t] \in {"idle", "wokenRead"}
  BY DEF ReaderLock, ReaderResume
<1>2. CASE ReaderShouldWait
  <2>1. Goto(t, "waitRead")
    BY <1>2 DEF ReaderLock, ReaderResume
  <2>2. pc'[t] = "waitRead" /\ \A u \in Threads \ {t} : KeepsRole(u)
    BY <2>1, Move DEF KeepsRole, Locations
  <2>3. Reading' = Reading /\ Writing' = Writing
    BY <1>1, <2>2, Roles, RoleOf DEF MovedTo
  <2> QED
    BY <2>3, StutterRefines
<1>3. CASE ~ReaderShouldWait
  <2>1. AdmitReader(t)
    BY <1>3 DEF ReaderLock, ReaderResume
  <2>2. Reading' = Reading \cup {t} /\ Writing' = Writing /\ t \notin Reading
    BY <1>1, <2>1, AdmitReaderMoves, Roles, RoleOf DEF MovedTo
  <2>3. Writing = {}
    BY <1>3, CountersDecide DEF ReaderShouldWait
  <2>4. Plain!AcquireRead(t)
    BY <2>2, <2>3 DEF Plain!AcquireRead
  <2> QED
    BY <2>4 DEF AbstractStep, Plain!Next
<1> QED
  BY <1>2, <1>3

(* A writer that is admitted acquires; one that is not, stutters. *)
LEMMA WritersRefine ==
  ASSUME IInv, p = "WRITERS", NEW t \in Threads, WriterLock(t) \/ WriterResume(t)
  PROVE  AbstractStep
<1> USE DEF IInv
<1>1. pc[t] \in {"idle", "wokenWrite"}
  BY DEF WriterLock, WriterResume
<1>2. CASE WriterShouldWait
  <2>1. Goto(t, "waitWrite")
    BY <1>2 DEF WriterLock, WriterResume
  <2>2. pc'[t] = "waitWrite" /\ \A u \in Threads \ {t} : KeepsRole(u)
    BY <2>1, Move DEF KeepsRole, Locations
  <2>3. Reading' = Reading /\ Writing' = Writing
    BY <1>1, <2>2, Roles, RoleOf DEF MovedTo
  <2> QED
    BY <2>3, StutterRefines
<1>3. CASE ~WriterShouldWait
  <2>1. AdmitWriter(t)
    BY <1>3 DEF WriterLock, WriterResume
  <2>2. Reading = {} /\ Writing = {}
    BY <1>3, CountersDecide DEF WriterShouldWait
  <2>3. Reading' = Reading /\ Writing' = {t}
    BY <1>1, <2>1, <2>2, AdmitWriterMoves, Roles, RoleOf DEF MovedTo
  <2>4. Plain!AcquireWrite(t)
    BY <2>2, <2>3 DEF Plain!AcquireWrite
  <2> QED
    BY <2>4 DEF AbstractStep, Plain!Next
<1> QED
  BY <1>2, <1>3

(* An unlock is a release. *)
LEMMA UnlocksRefine ==
  ASSUME IInv, NEW t \in Threads, ReaderUnlock(t) \/ WriterUnlock(t)
  PROVE  AbstractStep
<1> USE DEF IInv
<1>1. pc[t] \in {"reading", "writing"}
  BY DEF ReaderUnlock, WriterUnlock
<1>2. pc'[t] = "idle" /\ \A u \in Threads \ {t} : KeepsRole(u)
  <2>1. CASE LeaveSignallingWriter(t)
    BY <1>1, <2>1, Signal DEF KeepsRole
  <2>2. CASE Goto(t, "idle")
    BY <2>2, Move DEF KeepsRole, Locations
  <2>3. CASE LeaveBroadcastingReaders(t)
    BY <2>3, Broadcast DEF KeepsRole
  <2> QED
    BY <2>1, <2>2, <2>3 DEF ReaderUnlock, WriterUnlock
<1>3. CASE pc[t] = "reading"
  <2>1. t \in Reading /\ Reading' = Reading \ {t} /\ Writing' = Writing
    BY <1>2, <1>3, Roles, RoleOf DEF MovedTo
  <2> QED
    BY <2>1 DEF AbstractStep, Plain!Next, Plain!ReleaseRead
<1>4. CASE pc[t] = "writing"
  <2>1. t \in Writing /\ Writing' = Writing \ {t} /\ Reading' = Reading
    BY <1>2, <1>4, Roles, RoleOf DEF MovedTo
  <2> QED
    BY <2>1 DEF AbstractStep, Plain!Next, Plain!ReleaseWrite
<1> QED
  BY <1>1, <1>3, <1>4

(* Every step of a lock built with WRITERS is a step of the abstract lock. *)
LEMMA StepRefines ==
  ASSUME IInv, p = "WRITERS", [Next]_vars
  PROVE  AbstractStep
<1>1. CASE pc' = pc
  BY <1>1, StutterRefines DEF Reading, Writing, At
<1>2. ASSUME NEW t \in Threads, SpuriousWakeup(t)
      PROVE  AbstractStep
  <2>1. /\ pc[t] \in {"waitRead", "waitWrite"} /\ pc'[t] \in {"wokenRead", "wokenWrite"}
        /\ \A u \in Threads \ {t} : KeepsRole(u)
    BY <1>2, Move DEF SpuriousWakeup, KeepsRole, Locations, IInv
  <2>2. Reading' = Reading /\ Writing' = Writing
    BY <2>1, Roles, RoleOf DEF MovedTo
  <2> QED
    BY <2>2, StutterRefines
<1>3. ASSUME NEW t \in Threads,
             \/ ReaderLock(t) \/ ReaderResume(t) \/ ReaderUnlock(t)
             \/ WriterLock(t) \/ WriterResume(t) \/ WriterUnlock(t)
      PROVE  AbstractStep
  BY <1>3, ReadersRefine, WritersRefine, UnlocksRefine
<1> QED
  BY <1>1, <1>2, <1>3 DEF Next, vars, RWLockNew, RWLockDelete

(* A lock built with WRITERS is a read/write lock (rwlock.c:44-161); the   *)
(* lock of another priority that it may follow was given back first.       *)
THEOREM WritersImplementReadWriteLock == Spec => Refinement
<1>1. Init => Abstract!Init
  BY DEF Init, Abstract!Init, Holders, Reading, Writing, At
<1>2. IInv /\ [Next]_vars => [Abstract!Next]_(Abstract!lockVars)
  <2> SUFFICES ASSUME IInv, [Next]_vars PROVE [Abstract!Next]_(Abstract!lockVars)
    OBVIOUS
  <2>1. CASE p' = p /\ p = "WRITERS"
    <3>1. AbstractStep
      BY <2>1, StepRefines
    <3> QED
      BY <2>1, <3>1 DEF AbstractStep, Holders, Abstract!lockVars, Abstract!Next, Plain!Next,
         Abstract!AcquireRead, Plain!AcquireRead, Abstract!AcquireWrite, Plain!AcquireWrite,
         Abstract!ReleaseRead, Plain!ReleaseRead, Abstract!ReleaseWrite, Plain!ReleaseWrite
  <2>2. CASE p' = p /\ p # "WRITERS"
    BY <2>2 DEF Holders, Abstract!lockVars
  <2>3. CASE p' # p
    <3>1. ~live /\ pc' = pc
      BY <2>3 DEF Next, vars, setup, RWLockNew, RWLockDelete, ReaderLock, ReaderResume,
         ReaderUnlock, WriterLock, WriterResume, WriterUnlock, SpuriousWakeup,
         AdmitReader, AdmitWriter
    <3>2. Reading = {} /\ Writing = {} /\ Reading' = {} /\ Writing' = {}
      BY <3>1 DEF IInv, UnusedWhenDead, Reading, Writing, At
    <3> QED
      BY <3>2 DEF Holders, Abstract!lockVars
  <2> QED
    BY <2>1, <2>2, <2>3
<1> QED
  BY <1>1, <1>2, Inductive, PTL DEF Spec, Refinement, Abstract!Spec

=============================================================================
