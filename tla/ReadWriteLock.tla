--------------------------- MODULE ReadWriteLock ---------------------------
(***************************************************************************)
(* What a read/write lock promises its callers (rwlock.h: "acquire rw for  *)
(* reading", "acquire rw for writing"): any number of readers together, or *)
(* one writer alone.  No counters, no condition variables, no priority.    *)
(* RWLock is shown to implement this specification when it is built with   *)
(* the WRITERS priority, and the file server is built on top of it.        *)
(***************************************************************************)

CONSTANT Threads   (* the threads that use the lock *)

VARIABLES
  readers,  (* the threads that hold the lock for reading *)
  writers   (* the threads that hold the lock for writing *)

lockVars == <<readers, writers>>

Init ==
  /\ readers = {}
  /\ writers = {}

AcquireRead(t) ==
  /\ t \notin readers
  /\ writers = {}
  /\ readers' = readers \cup {t}
  /\ UNCHANGED writers

AcquireWrite(t) ==
  /\ readers = {}
  /\ writers = {}
  /\ writers' = {t}
  /\ UNCHANGED readers

ReleaseRead(t) ==
  /\ t \in readers
  /\ readers' = readers \ {t}
  /\ UNCHANGED writers

ReleaseWrite(t) ==
  /\ t \in writers
  /\ writers' = writers \ {t}
  /\ UNCHANGED readers

Next ==
  \E t \in Threads :
    AcquireRead(t) \/ AcquireWrite(t) \/ ReleaseRead(t) \/ ReleaseWrite(t)

Spec == Init /\ [][Next]_lockVars

=============================================================================
