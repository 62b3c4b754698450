-------------------------- MODULE FileServerProofs --------------------------
(***************************************************************************)
(* Proofs about FileServer for any workers, connections, files and chains, *)
(* any number of locks and any length of the queue: types, the audit log   *)
(* as a linearization, descriptors, PUTs alone at their files, and, until  *)
(* the hash map is resized, that an idle worker holds nothing.             *)
(***************************************************************************)
EXTENDS FileServer, FileLockProofs, WellFoundedInduction

(* Where a connection is. *)
Queued(c) == \E i \in DOMAIN queue : queue[i] = c
Served(c) == \E t \in Workers : conn[t] = c
Logged(c) == \E i \in DOMAIN log : log[i].conn = c

(* A connection is in one place at a time; it is in the log from its       *)
(* worker's way out on.                                                    *)
ConnectionsApart ==
  /\ \A t \in Workers : pc[t] = "pop" <=> conn[t] = Nobody
  /\ \A s, t \in Workers : conn[s] = conn[t] /\ conn[s] # Nobody => s = t
  /\ \A i, j \in DOMAIN queue : queue[i] = queue[j] => i = j
  /\ \A c \in Conns :
       /\ c = accepted => ~Queued(c)
       /\ c = accepted \/ Queued(c) => ~Served(c) /\ ~Logged(c) /\ c \notin closed
       /\ Served(c) => c \notin closed
       /\ request[c] = NoRequest =>
            c # accepted /\ ~Queued(c) /\ ~Served(c) /\ ~Logged(c) /\ c \notin closed
  /\ \A t \in Workers : Logged(conn[t]) => pc[t] \in {"unlock", "release", "close"}

InRequest == {"mutex", "lock", "put", "open", "receive", "unlock", "release"}
InMutex == {"lock", "put", "open", "release"}

(* What a worker's place says about its request and the mutex. *)
PlacesFit ==
  \A t \in Workers :
    /\ pc[t] \in InRequest => IsGet(t) \/ IsPut(t)
    /\ pc[t] = "mutex" => IsGet(t)
    /\ pc[t] = "receive" => IsPut(t)
    /\ pc[t] \in InMutex => mutex = t
    /\ mutex = t => pc[t] \in InMutex \cup {"unlock"}

(* A worker holds its file's lock from the moment it took it until its     *)
(* unlock.                                                                 *)
FilesLocked ==
  \A t \in Workers :
    /\ pc[t] \in {"open", "receive", "unlock"} =>
         Mapped(UriOf(t)) /\ Holds(t, LockOf(UriOf(t)), Mode(t))
    /\ pc[t] = "put" =>
         resizing /\ ~Mapped(UriOf(t)) /\ Holds(t, counter, Mode(t))

Pending(u) == \E t \in Workers : pc[t] = "receive" /\ UriOf(t) = u
Regular == {"file", "absent"}

(* Unless a PUT is receiving it, a file is what the log makes of it; one   *)
(* that is not regular is as it was.                                       *)
FilesAsLogged ==
  \A u \in Uris :
    /\ initial[u] \notin Regular => file[u] = Unwritten(initial[u])
    /\ initial[u] \in Regular => file[u].kind \in Regular
    /\ ~Pending(u) => file[u] = FileAfter(Len(log), u)

(* What a PUT knows of its file: nobody can take it away before the PUT    *)
(* opened it, and nobody else has finished one while it receives.          *)
PutsInformed ==
  \A t \in Workers :
    /\ pc[t] \in {"lock", "put", "open"} /\ IsPut(t) =>
         (existed[t] <=> Exists(UriOf(t)))
    /\ pc[t] = "receive" =>
         /\ initial[UriOf(t)] \in Regular
         /\ file[UriOf(t)].kind = "file"
         /\ FileAfter(Len(log), UriOf(t)).kind =
              IF existed[t] THEN "file" ELSE "absent"

Missing == {"absent", "orphan"}

(* A GET that found a file will find one; a GET that found none came before *)
(* a moment at which there was none.                                       *)
GetsInformed ==
  /\ \A c \in Conns : arrived[c] <= Len(log)
  /\ \A t \in Workers :
       pc[t] \in {"mutex", "lock", "put", "open"} /\ IsGet(t) =>
         IF existed[t] THEN Exists(UriOf(t))
         ELSE \E k \in arrived[conn[t]]..Len(log) :
                FileAfter(k, UriOf(t)).kind \in Missing

(* A PUT that opened its file receives its body or is in the log.          *)
PutsOpened ==
  /\ \A t \in Workers : pc[t] = "receive" => conn[t] \in opened
  /\ \A c \in opened :
       Logged(c) \/ \E t \in Workers : conn[t] = c /\ pc[t] = "receive"

DescriptorsKept ==
  \A c \in fds :
    \/ Logged(c) /\ reply[c].code = 404
    \/ \E t \in Workers : conn[t] = c /\ pc[t] = "receive"

(* The inductive invariant. *)
IInv ==
  /\ TypeOK
  /\ FileLockInv
  /\ ConnectionsApart
  /\ PlacesFit
  /\ FilesLocked
  /\ PutsOpened
  /\ FilesAsLogged
  /\ PutsInformed
  /\ GetsInformed
  /\ DescriptorsKept
  /\ LogIsLinearization

-----------------------------------------------------------------------------
(* As long as the map has not been resized, a worker holds a lock only     *)
(* while it needs it, and of its file only.                                *)
Unresized == ~resizing /\ capacity = Size
HeldAsNeeded ==
  \A t \in Workers, l \in Locks, m \in Modes :
    Holds(t, l, m) =>
      /\ pc[t] \in {"put", "open", "receive", "unlock"}
      /\ m = Mode(t)
      /\ l = IF pc[t] = "put" THEN counter ELSE LockOf(UriOf(t))

-----------------------------------------------------------------------------
(* A set of positive integers with a bound has a largest member.           *)
LEMMA LargestExists ==
  ASSUME NEW n \in Nat, NEW S, S \subseteq 1..n, S # {}
  PROVE  Max(S) \in S /\ \A i \in S : i <= Max(S)
<1> DEFINE T == {n - i : i \in S}
           R == OpToRel(<, Nat)
<1>1. T \subseteq Nat /\ T # {}
  <2>1. \A i \in S : n - i \in Nat
    OBVIOUS
  <2> QED
    BY <2>1
<1>2. PICK x \in T : \A y \in T : ~(<<y, x>> \in R)
  <2> HIDE DEF T
  <2>1. IsWellFoundedOn(R, Nat)
    BY NatLessThanWellFounded
  <2> HIDE DEF R
  <2> QED
    BY <1>1, <2>1, WFMin
<1>3. \A y \in T : y >= x
  <2> HIDE DEF T
  <2> SUFFICES ASSUME NEW y \in T PROVE y >= x
    OBVIOUS
  <2>1. x \in Nat /\ y \in Nat
    BY <1>1
  <2>2. y < x => <<y, x>> \in R
    BY <2>1 DEF OpToRel
  <2> HIDE DEF R
  <2> QED
    BY <1>2, <2>1, <2>2
<1>4. PICK m \in S : x = n - m
  OBVIOUS
<1>5. \A i \in S : m >= i
  <2> SUFFICES ASSUME NEW i \in S PROVE m >= i
    OBVIOUS
  <2>1. n - i \in T
    OBVIOUS
  <2>2. n - i >= n - m
    BY <1>3, <1>4, <2>1
  <2> QED
    BY <2>2
<1> HIDE DEF T
<1>6. Max(S) \in S /\ \A i \in S : Max(S) >= i
  BY <1>5 DEF Max
<1> QED
  BY <1>6

(* The lines of the log, the responses and the requests, by their kinds.   *)
Replies == [code : {0, 200, 201, 400, 403, 404, 500, 501}, body : Contents]
Lines == [conn : Conns, code : {200, 201, 403, 404, 500}]
PutOf(u) == [method |-> "PUT", uri |-> u]

LEMMA LogLines ==
  ASSUME TypeOK
  PROVE  /\ log \in Seq(Lines) /\ Len(log) \in Nat /\ DOMAIN log = 1..Len(log)
         /\ \A i \in 1..Len(log) : log[i] \in Lines /\ log[i].conn \in Conns
<1>1. log \in Seq(Lines)
  BY DEF TypeOK, Lines
<1>2. Len(log) \in Nat /\ DOMAIN log = 1..Len(log) /\ \A i \in 1..Len(log) : log[i] \in Lines
  BY <1>1
<1> QED
  BY <1>1, <1>2 DEF Lines

LEMMA RequestKinds ==
  ASSUME TypeOK, NEW c \in Conns
  PROVE  /\ request[c].method \in {"GET", "PUT"} =>
              request[c].uri \in Uris /\ request[c] # NoRequest
         /\ \A u : request[c] = PutOf(u) <=>
                     request[c].method = "PUT" /\ request[c].uri = u
<1>1. request[c] \in Requests \cup {NoRequest}
  BY DEF TypeOK
<1>2. CASE request[c] = NoRequest
  BY <1>2 DEF NoRequest, PutOf
<1>3. CASE request[c] \in [method : Methods \cap {"GET", "PUT"}, uri : Uris]
  <2>1. request[c] = [method |-> request[c].method, uri |-> request[c].uri]
    BY <1>3
  <2> QED
    BY <1>3, <2>1 DEF NoRequest, PutOf
<1>4. CASE request[c] \in [method : Methods \cap {"OTHER", "BAD"}]
  BY <1>4 DEF NoRequest, PutOf
<1> QED
  BY <1>1, <1>2, <1>3, <1>4 DEF Requests

-----------------------------------------------------------------------------
(* FileAfter.  Puts are the lines of the PUTs among the first k that       *)
(* opened u.                                                               *)
Puts(k, u) == {i \in 1..k : log[i].conn \in opened /\ request[log[i].conn] = PutOf(u)}
LastLine(k, u) == log[Max(Puts(k, u))]

Left(line) == Written(line.conn, line.code # 500)
FileFromPuts(k, u) ==
  IF Puts(k, u) = {}
  THEN Unwritten(initial[u])
  ELSE Left(LastLine(k, u))

LEMMA FileAfterIs ==
  ASSUME NEW k, NEW u
  PROVE  FileAfter(k, u) = FileFromPuts(k, u) /\ FileAfter(k, u)' = FileFromPuts(k, u)'
BY DEF FileAfter, FileFromPuts, Puts, LastLine, PutOf, Left

(* What a step may do to the log: add a line, leave what the lines are     *)
(* about as it is.                                                         *)
LogGrows ==
  /\ Len(log') \in {Len(log), Len(log) + 1}
  /\ \A i \in 1..Len(log) :
       /\ log'[i] = log[i] /\ request'[log[i].conn] = request[log[i].conn]
       /\ log[i].conn \in opened' <=> log[i].conn \in opened
  /\ initial' = initial

(* What the first lines make of a file stays so.                           *)
LEMMA FileAfterStays ==
  ASSUME TypeOK, LogGrows, NEW k \in 0..Len(log), NEW u
  PROVE  FileAfter(k, u)' = FileAfter(k, u)
<1>1. Len(log) \in Nat
  BY LogLines
<1>2. Puts(k, u)' = Puts(k, u)
  BY <1>1 DEF Puts, LogGrows
<1>3. CASE Puts(k, u) # {}
  <2>0. Puts(k, u) \subseteq 1..k /\ k \in Nat
    BY <1>1 DEF Puts
  <2>1. Max(Puts(k, u)) \in 1..k
    BY <1>3, <2>0, LargestExists
  <2>2. LastLine(k, u)' = LastLine(k, u)
    BY <1>1, <1>2, <2>1 DEF LastLine, LogGrows
  <2> QED
    BY <1>2, <2>2, FileAfterIs DEF FileFromPuts, LogGrows
<1>4. CASE Puts(k, u) = {}
  BY <1>2, <1>4, FileAfterIs DEF FileFromPuts, LogGrows
<1> QED
  BY <1>3, <1>4

(* A new line of a PUT that opened the file tells what is there; another   *)
(* one changes nothing.                                                    *)
LEMMA FileAfterLine ==
  ASSUME TypeOK, LogGrows, NEW n \in Nat, Len(log) = n, Len(log') = n + 1, NEW u
  PROVE  FileAfter(n + 1, u)' =
           IF log'[n + 1].conn \in opened' /\ request'[log'[n + 1].conn] = PutOf(u)
           THEN Left(log'[n + 1])
           ELSE FileAfter(n, u)
<1>1. FileAfter(n, u)' = FileAfter(n, u)
  BY FileAfterStays
<1>2. Puts(n + 1, u)' =
        Puts(n, u)' \cup {i \in {n + 1} : /\ log'[i].conn \in opened'
                                         /\ request'[log'[i].conn] = PutOf(u)}
  BY DEF Puts, PutOf
<1>3. CASE log'[n + 1].conn \in opened' /\ request'[log'[n + 1].conn] = PutOf(u)
  <2>1. n + 1 \in Puts(n + 1, u)' /\ Puts(n + 1, u)' \subseteq 1..(n + 1)
    BY <1>3 DEF Puts, PutOf
  <2>2. Max(Puts(n + 1, u)') \in Puts(n + 1, u)' /\ n + 1 <= Max(Puts(n + 1, u)')
    BY <2>1, LargestExists
  <2>3. Max(Puts(n + 1, u)') = n + 1
    BY <2>1, <2>2
  <2>4. LastLine(n + 1, u)' = log'[n + 1]
    BY <2>3 DEF LastLine
  <2> QED
    BY <1>3, <2>1, <2>4, FileAfterIs DEF FileFromPuts, LogGrows
<1>4. CASE ~(log'[n + 1].conn \in opened' /\ request'[log'[n + 1].conn] = PutOf(u))
  <2>1. Puts(n + 1, u)' = Puts(n, u)'
    BY <1>2, <1>4
  <2>2. FileAfter(n + 1, u)' = FileAfter(n, u)'
    BY <2>1, FileAfterIs DEF FileFromPuts, LastLine
  <2> QED
    BY <1>1, <1>4, <2>2
<1> QED
  BY <1>3, <1>4

-----------------------------------------------------------------------------
(* A worker, the connection and the file it is busy with.                  *)
LEMMA Busy ==
  ASSUME TypeOK, ConnectionsApart, PlacesFit, NEW t \in Workers
  PROVE  /\ pc[t] # "pop" => conn[t] \in Conns /\ request[conn[t]] # NoRequest
         /\ pc[t] \in InRequest =>
              UriOf(t) \in Uris /\ Mode(t) \in Modes /\ (IsGet(t) <=> ~IsPut(t))
<1>1. pc[t] # "pop" => conn[t] \in Conns
  BY NobodyAssumption DEF TypeOK, ConnectionsApart
<1>2. pc[t] # "pop" => request[conn[t]] # NoRequest
  BY <1>1 DEF ConnectionsApart, Served
<1>3. ASSUME pc[t] \in InRequest
      PROVE  UriOf(t) \in Uris /\ Mode(t) \in Modes /\ (IsGet(t) <=> ~IsPut(t))
  <2>1. conn[t] \in Conns
    BY <1>1, <1>3 DEF InRequest
  <2>2. IsGet(t) \/ IsPut(t)
    BY <1>3 DEF PlacesFit
  <2> QED
    BY <2>1, <2>2, RequestKinds DEF UriOf, RequestOf, IsGet, IsPut, Mode, Modes
<1> QED
  BY <1>1, <1>2, <1>3

(* Which of a worker's actions touch what.                                 *)
LockAction(t) == LockFile(t) \/ EndPut(t) \/ UnlockFile(t)
FileAction(t) == PutOpen(t) \/ PutReceive(t)
Answer(t) ==
  GetNotExisted(t) \/ GetRefused(t) \/ GetServe(t) \/ PutRefused(t) \/ PutReceive(t)

(* What a step of one worker leaves alone.                                 *)
LEMMA Frame ==
  ASSUME TypeOK, NEW t \in Workers, Work(t)
  PROVE  /\ UNCHANGED <<request, initial, accepted, arrived>>
         /\ \A s \in Workers \ {t} :
              pc'[s] = pc[s] /\ conn'[s] = conn[s] /\ existed'[s] = existed[s]
         /\ \A c \in Conns \ {conn[t]} : reply'[c] = reply[c]
         /\ pc[t] \notin {"pop", "close"} => UNCHANGED <<queue, closed, conn>>
         /\ FileAction(t) \/ UNCHANGED file
         /\ FileAction(t) \/ GetNotExisted(t) \/ UNCHANGED fds
         /\ PutOpen(t) \/ UNCHANGED opened
         /\ Answer(t) \/ UNCHANGED log
         /\ LockAction(t) \/ UNCHANGED fileLockVars
<1> DEFINE Apart ==
             /\ UNCHANGED <<request, initial, accepted, arrived>>
             /\ \A s \in Workers \ {t} :
                  pc'[s] = pc[s] /\ conn'[s] = conn[s] /\ existed'[s] = existed[s]
             /\ \A c \in Conns \ {conn[t]} : reply'[c] = reply[c]
             /\ pc[t] \notin {"pop", "close"} => UNCHANGED <<queue, closed, conn>>
           Spared ==
             /\ FileAction(t) \/ UNCHANGED file
             /\ FileAction(t) \/ GetNotExisted(t) \/ UNCHANGED fds
             /\ PutOpen(t) \/ UNCHANGED opened
             /\ Answer(t) \/ UNCHANGED log
             /\ LockAction(t) \/ UNCHANGED fileLockVars
<1>1. /\ pc \in [Workers -> Locations]
      /\ conn \in [Workers -> Conns \cup {Nobody}]
      /\ existed \in [Workers -> BOOLEAN]
      /\ reply \in [Conns -> Replies]
  BY DEF TypeOK, Replies
<1>2. ASSUME Pop(t) PROVE Apart /\ Spared
  BY <1>1, <1>2 DEF Pop, Step, frontVars, diskVars, outVars
<1>3. ASSUME HandleOther(t) PROVE Apart /\ Spared
  BY <1>1, <1>3 DEF HandleOther, Step, frontVars, diskVars, outVars, Send, SendFile
<1>4. ASSUME Close(t) PROVE Apart /\ Spared
  BY <1>1, <1>4 DEF Close, Step, frontVars, diskVars, outVars
<1>5. ASSUME GetAccess(t) PROVE Apart /\ Spared
  BY <1>1, <1>5 DEF GetAccess, Step, frontVars, diskVars, outVars
<1>6. ASSUME GetMutex(t) PROVE Apart /\ Spared
  BY <1>1, <1>6 DEF GetMutex, Step, frontVars, diskVars, outVars
<1>7. ASSUME PutMutex(t) PROVE Apart /\ Spared
  BY <1>1, <1>7 DEF PutMutex, Step, frontVars, diskVars, outVars
<1>8. ASSUME LockFile(t) PROVE Apart /\ Spared
  BY <1>1, <1>8 DEF LockFile, Step, frontVars, diskVars, outVars, LockAction
<1>9. ASSUME EndPut(t) PROVE Apart /\ Spared
  BY <1>1, <1>9 DEF EndPut, Step, frontVars, diskVars, outVars, LockAction
<1>10. ASSUME GetNotExisted(t) PROVE Apart /\ Spared
  BY <1>1, <1>10 DEF GetNotExisted, Step, frontVars, diskVars, outVars, Send, SendFile, Answer
<1>11. ASSUME GetRefused(t) PROVE Apart /\ Spared
  BY <1>1, <1>11 DEF GetRefused, Step, frontVars, diskVars, outVars, Send, SendFile, Answer
<1>12. ASSUME GetServe(t) PROVE Apart /\ Spared
  BY <1>1, <1>12 DEF GetServe, Step, frontVars, diskVars, outVars, Send, SendFile, Answer
<1>13. ASSUME PutRefused(t) PROVE Apart /\ Spared
  BY <1>1, <1>13 DEF PutRefused, Step, frontVars, diskVars, outVars, Send, SendFile, Answer
<1>14. ASSUME PutOpen(t) PROVE Apart /\ Spared
  BY <1>1, <1>14 DEF PutOpen, Step, frontVars, diskVars, outVars, FileAction
<1>15. ASSUME PutReceive(t) PROVE Apart /\ Spared
  BY <1>1, <1>15 DEF PutReceive, Step, frontVars, diskVars, outVars, Send, SendFile, FileAction, Answer
<1>16. ASSUME UnlockFile(t) PROVE Apart /\ Spared
  BY <1>1, <1>16 DEF UnlockFile, Step, frontVars, diskVars, outVars, LockAction
<1>17. ASSUME ReleaseMutex(t) PROVE Apart /\ Spared
  BY <1>1, <1>17 DEF ReleaseMutex, Step, frontVars, diskVars, outVars
<1> QED
  BY <1>2, <1>3, <1>4, <1>5, <1>6, <1>7, <1>8, <1>9, <1>10, <1>11, <1>12, <1>13, <1>14, <1>15, <1>16, <1>17 DEF Work

LEMMA StepMoves ==
  ASSUME TypeOK, NEW t \in Workers, NEW from, NEW to, Step(t, from, to)
  PROVE  pc[t] = from /\ pc'[t] = to
BY DEF TypeOK, Step

(* The way of a worker through a request, with the action of each step.    *)
LEMMA Moves ==
  ASSUME TypeOK, NEW t \in Workers, Work(t)
  PROVE  /\ pc[t] = "pop" => Pop(t) /\ pc'[t] = "handle"
         /\ pc[t] = "handle" =>
              \/ HandleOther(t) /\ pc'[t] = "close"
              \/ GetAccess(t) /\ pc'[t] = "mutex"
              \/ PutMutex(t) /\ pc'[t] = "lock"
         /\ pc[t] = "mutex" => GetMutex(t) /\ pc'[t] = "lock"
         /\ pc[t] = "lock" => LockFile(t) /\ pc'[t] \in {"put", "open"}
         /\ pc[t] = "put" => EndPut(t) /\ pc'[t] = "open"
         /\ pc[t] = "open" =>
              \/ Answer(t) /\ ~FileAction(t) /\ pc'[t] = "unlock"
              \/ PutOpen(t) /\ ~Answer(t) /\ pc'[t] = "receive"
         /\ pc[t] = "receive" => PutReceive(t) /\ pc'[t] = "unlock"
         /\ pc[t] = "unlock" => UnlockFile(t) /\ pc'[t] \in {"release", "close"}
         /\ pc[t] = "release" => ReleaseMutex(t) /\ pc'[t] = "close"
         /\ pc[t] = "close" => Close(t) /\ pc'[t] = "pop"
         /\ pc[t] \in Locations
         /\ Answer(t) => pc[t] \in {"open", "receive"}
         /\ FileAction(t) => pc[t] \in {"open", "receive"}
         /\ LockAction(t) => pc[t] \in {"lock", "put", "unlock"}
<1>1. pc[t] \in Locations /\ \A from, to : Step(t, from, to) => pc[t] = from /\ pc'[t] = to
  BY DEF TypeOK, Step
<1>2. /\ Pop(t) => pc[t] = "pop" /\ pc'[t] = "handle"
      /\ HandleOther(t) => pc[t] = "handle" /\ pc'[t] = "close"
      /\ GetAccess(t) => pc[t] = "handle" /\ pc'[t] = "mutex"
      /\ PutMutex(t) => pc[t] = "handle" /\ pc'[t] = "lock"
      /\ GetMutex(t) => pc[t] = "mutex" /\ pc'[t] = "lock"
      /\ LockFile(t) => pc[t] = "lock" /\ pc'[t] \in {"put", "open"}
      /\ EndPut(t) => pc[t] = "put" /\ pc'[t] = "open"
      /\ Close(t) => pc[t] = "close" /\ pc'[t] = "pop"
      /\ ReleaseMutex(t) => pc[t] = "release" /\ pc'[t] = "close"
      /\ UnlockFile(t) => pc[t] = "unlock" /\ pc'[t] \in {"release", "close"}
  BY <1>1 DEF Pop, HandleOther, GetAccess, PutMutex, GetMutex, LockFile, EndPut, Close,
         ReleaseMutex, UnlockFile
<1>3. /\ GetNotExisted(t) => pc[t] = "open" /\ pc'[t] = "unlock"
      /\ GetRefused(t) => pc[t] = "open" /\ pc'[t] = "unlock"
      /\ GetServe(t) => pc[t] = "open" /\ pc'[t] = "unlock"
      /\ PutRefused(t) => pc[t] = "open" /\ pc'[t] = "unlock"
      /\ PutOpen(t) => pc[t] = "open" /\ pc'[t] = "receive"
      /\ PutReceive(t) => pc[t] = "receive" /\ pc'[t] = "unlock"
  BY <1>1 DEF GetNotExisted, GetRefused, GetServe, PutRefused, PutOpen, PutReceive
<1> QED
  BY <1>1, <1>2, <1>3 DEF Work, Answer, FileAction, LockAction

LEMMA Others ==
  ASSUME TypeOK, NEW t \in Workers, Work(t), NEW s \in Workers, s # t
  PROVE  /\ pc'[s] = pc[s] /\ conn'[s] = conn[s] /\ existed'[s] = existed[s]
         /\ UriOf(s)' = UriOf(s) /\ Mode(s)' = Mode(s)
         /\ (IsGet(s)' <=> IsGet(s)) /\ (IsPut(s)' <=> IsPut(s))
<1>1. UNCHANGED request /\ pc'[s] = pc[s] /\ conn'[s] = conn[s] /\ existed'[s] = existed[s]
  BY Frame
<1> QED
  BY <1>1 DEF UriOf, Mode, IsGet, IsPut, RequestOf

(* A step inside a request leaves the worker's own connection too.         *)
LEMMA SameRequest ==
  ASSUME TypeOK, NEW t \in Workers, Work(t), pc[t] \notin {"pop", "close"}
  PROVE  /\ conn' = conn /\ request' = request
         /\ UriOf(t)' = UriOf(t) /\ Mode(t)' = Mode(t)
         /\ (IsGet(t)' <=> IsGet(t)) /\ (IsPut(t)' <=> IsPut(t))
<1>1. conn' = conn /\ request' = request
  BY Frame
<1> QED
  BY <1>1 DEF UriOf, Mode, IsGet, IsPut, RequestOf

(* What main leaves alone: everything but the way to the workers.          *)
MainStep == (\E c \in Conns, r \in Requests : Accept(c, r)) \/ Push

LEMMA MainFrame ==
  ASSUME MainStep \/ UNCHANGED vars
  PROVE  /\ UNCHANGED <<fileLockVars, file, initial, fds, opened, reply, log, closed>>
         /\ UNCHANGED <<mutex, pc, conn, existed>>
<1>1. ASSUME NEW c \in Conns, NEW r \in Requests, Accept(c, r)
      PROVE  /\ UNCHANGED <<fileLockVars, file, initial, fds, opened, reply, log, closed>>
             /\ UNCHANGED <<mutex, pc, conn, existed>>
  BY <1>1 DEF Accept, diskVars, outVars
<1>2. CASE Push
  BY <1>2 DEF Push, diskVars, outVars
<1>3. CASE UNCHANGED vars
  BY <1>3 DEF vars, frontVars, diskVars, outVars
<1> QED
  BY <1>1, <1>2, <1>3 DEF MainStep

(* A request is changed only by its Accept, which then queues the
   connection; what a worker has or logged is left as it is. *)
LEMMA RequestsStay ==
  ASSUME IInv, MainStep \/ UNCHANGED vars
  PROVE  /\ \A c \in Conns : request[c] # NoRequest =>
                request'[c] = request[c] /\ arrived'[c] = arrived[c]
         /\ \A t \in Workers : pc[t] # "pop" =>
              /\ UriOf(t)' = UriOf(t) /\ Mode(t)' = Mode(t)
              /\ (IsGet(t)' <=> IsGet(t)) /\ (IsPut(t)' <=> IsPut(t))
<1>1. \A c \in Conns : request[c] # NoRequest =>
        request'[c] = request[c] /\ arrived'[c] = arrived[c]
  <2>1. /\ request \in [Conns -> Requests \cup {NoRequest}]
        /\ arrived \in [Conns -> Nat]
    BY DEF IInv, TypeOK
  <2>2. ASSUME NEW d \in Conns, NEW r \in Requests, Accept(d, r),
               NEW c \in Conns, request[c] # NoRequest
        PROVE  request'[c] = request[c] /\ arrived'[c] = arrived[c]
    BY <2>1, <2>2 DEF Accept
  <2>3. Push \/ UNCHANGED vars => UNCHANGED <<request, arrived>>
    BY DEF Push, vars, frontVars
  <2> QED
    BY <2>2, <2>3 DEF MainStep
<1>2. UNCHANGED conn
  BY MainFrame
<1>3. ASSUME NEW t \in Workers, pc[t] # "pop"
      PROVE  request'[conn'[t]] = request[conn[t]]
  BY <1>1, <1>2, <1>3, Busy DEF IInv
<1> QED
  BY <1>1, <1>3 DEF UriOf, Mode, IsGet, IsPut, RequestOf

LEMMA NextCases ==
  ASSUME [Next]_vars
  PROVE  MainStep \/ UNCHANGED vars \/ \E t \in Workers : Work(t)
BY DEF Next, MainStep

-----------------------------------------------------------------------------
(* The locks: three actions touch them.                                    *)
LEMMA LockInvUnchanged ==
  ASSUME UNCHANGED fileLockVars
  PROVE  /\ FileLockInv' <=> FileLockInv
         /\ \A u : (Mapped(u)' <=> Mapped(u)) /\ LockOf(u)' = LockOf(u)
         /\ \A t, l, m : Holds(t, l, m)' <=> Holds(t, l, m)
         /\ counter' = counter /\ resizing' = resizing /\ capacity' = capacity
<1>1. /\ map' = map /\ capacity' = capacity /\ resizing' = resizing
      /\ counter' = counter /\ readers' = readers /\ writers' = writers
  BY DEF fileLockVars
<1>2. MapTypeOK' <=> MapTypeOK
  BY <1>1 DEF MapTypeOK, KeysUnique
<1>3. FileLockTypeOK' <=> FileLockTypeOK
  BY <1>1 DEF FileLockTypeOK
<1>4. LocksExclude' <=> LocksExclude
  BY <1>1 DEF LocksExclude
<1>5. \A u : (Mapped(u)' <=> Mapped(u)) /\ LockOf(u)' = LockOf(u)
  BY <1>1 DEF Mapped, LockOf, NodeOf
<1>6. \A t, l, m : Holds(t, l, m)' <=> Holds(t, l, m)
  BY <1>1 DEF Holds
<1> QED
  BY <1>1, <1>2, <1>3, <1>4, <1>5, <1>6 DEF FileLockInv

LEMMA LocksKept ==
  ASSUME IInv, [Next]_vars
  PROVE  FileLockInv'
<1>1. CASE \A t \in Workers : ~LockAction(t)
  <2>1. UNCHANGED fileLockVars
    BY <1>1, NextCases, MainFrame, Frame DEF IInv
  <2> QED
    BY <2>1, LockInvUnchanged DEF IInv
<1>2. ASSUME NEW t \in Workers, LockFile(t) PROVE FileLockInv'
  <2>1. UriOf(t) \in Uris /\ Mode(t) \in Modes
    BY <1>2, Busy DEF LockFile, InRequest, IInv
  <2>2. TakeKnown(t, UriOf(t), Mode(t)) \/ TakeNew(t, UriOf(t), Mode(t))
    BY <1>2 DEF LockFile
  <2> QED
    BY <2>1, <2>2, TakeKnownStep, TakeNewStep DEF IInv
<1>3. ASSUME NEW t \in Workers, EndPut(t) PROVE FileLockInv'
  <2>1. pc[t] = "put" /\ FinishPut(UriOf(t))
    BY <1>3 DEF EndPut, Step
  <2>2. UriOf(t) \in Uris /\ ~Mapped(UriOf(t))
    BY <2>1, Busy DEF InRequest, IInv, FilesLocked
  <2> QED
    BY <2>1, <2>2, FinishPutStep DEF IInv
<1>4. ASSUME NEW t \in Workers, UnlockFile(t) PROVE FileLockInv'
  <2>1. pc[t] = "unlock" /\ Release(t, UriOf(t), Mode(t))
    BY <1>4 DEF UnlockFile, Step
  <2>2. UriOf(t) \in Uris /\ Mode(t) \in Modes
    BY <2>1, Busy DEF InRequest, IInv
  <2> QED
    BY <2>1, <2>2, ReleaseStep DEF IInv
<1> QED
  BY <1>1, <1>2, <1>3, <1>4 DEF LockAction

-----------------------------------------------------------------------------
(* The types.                                                              *)
OwnTypes ==
  /\ file \in [Uris -> Contents]
  /\ initial \in [Uris -> Kinds]
  /\ fds \subseteq Conns
  /\ opened \subseteq Conns
  /\ accepted \in Conns \cup {Nobody}
  /\ queue \in Seq(Conns) /\ Len(queue) <= QueueSize
  /\ request \in [Conns -> Requests \cup {NoRequest}]
  /\ closed \subseteq Conns
  /\ arrived \in [Conns -> Nat]
  /\ reply \in [Conns -> Replies]
  /\ log \in Seq(Lines)
  /\ mutex \in Workers \cup {Nobody}
  /\ pc \in [Workers -> Locations]
  /\ conn \in [Workers -> Conns \cup {Nobody}]
  /\ existed \in [Workers -> BOOLEAN]

LEMMA TypesAre == TypeOK <=> FileLockTypeOK /\ OwnTypes
BY DEF TypeOK, OwnTypes, Replies, Lines

LEMMA ContentsAre ==
  /\ \A k \in Kinds : Unwritten(k) \in Contents
  /\ \A c \in Conns, b \in BOOLEAN : Written(c, b) \in Contents
  /\ NoBody \in Contents
BY DEF Contents, Unwritten, Written, NoBody, Kinds

(* A response, with its line in the log. *)
LEMMA SendsReply ==
  ASSUME OwnTypes, NEW t \in Workers, conn[t] \in Conns,
         NEW code \in {200, 201, 400, 403, 404, 500, 501}, NEW body \in Contents
  PROVE  /\ SendFile(t, code, body) =>
              /\ reply' \in [Conns -> Replies]
              /\ reply'[conn[t]].code = code /\ reply'[conn[t]].body = body
         /\ Send(t, code) =>
              reply' \in [Conns -> Replies] /\ reply'[conn[t]].code = code
<1>1. ASSUME NEW b \in Contents, SendFile(t, code, b)
      PROVE  /\ reply' \in [Conns -> Replies]
             /\ reply'[conn[t]].code = code /\ reply'[conn[t]].body = b
  <2>1. reply' = [reply EXCEPT ![conn[t]] = [code |-> code, body |-> b]]
    BY <1>1 DEF SendFile
  <2>2. [code |-> code, body |-> b] \in Replies
    BY DEF Replies
  <2> QED
    BY <2>1, <2>2 DEF OwnTypes
<1> QED
  BY <1>1, ContentsAre DEF Send

LEMMA Audits ==
  ASSUME OwnTypes, NEW t \in Workers, conn[t] \in Conns,
         NEW code \in {200, 201, 403, 404, 500}, Audit(t, code)
  PROVE  /\ log' \in Seq(Lines)
         /\ Len(log) \in Nat /\ Len(log') = Len(log) + 1
         /\ \A i \in 1..Len(log) : log'[i] = log[i]
         /\ log'[Len(log) + 1].conn = conn[t] /\ log'[Len(log) + 1].code = code
<1>1. PICK line \in Lines :
        line.conn = conn[t] /\ line.code = code /\ log' = Append(log, line)
  BY DEF Lines, Audit
<1>2. log \in Seq(Lines)
  BY DEF OwnTypes
<1> QED
  BY <1>1, <1>2

(* A worker that answers logs what it sends.                               *)
LEMMA AnswerStep ==
  ASSUME OwnTypes, NEW t \in Workers, conn[t] \in Conns, UriOf(t) \in Uris, Answer(t)
  PROVE  /\ Step(t, pc[t], "unlock") /\ pc[t] \in {"open", "receive"}
         /\ log' \in Seq(Lines) /\ reply' \in [Conns -> Replies]
         /\ Len(log) \in Nat /\ Len(log') = Len(log) + 1
         /\ \A i \in 1..Len(log) : log'[i] = log[i]
         /\ log'[Len(log) + 1].conn = conn[t]
         /\ log'[Len(log) + 1].code = reply'[conn[t]].code
<1> DEFINE Answered(code, body) ==
             /\ code \in {200, 201, 403, 404, 500} /\ body \in Contents
             /\ SendFile(t, code, body) /\ Audit(t, code)
<1>1. \E code, body : Answered(code, body)
  <2>1. file[UriOf(t)] \in Contents /\ NoBody \in Contents
    BY ContentsAre DEF OwnTypes
  <2>2. CASE GetNotExisted(t)
    BY <2>1, <2>2 DEF GetNotExisted, Send
  <2>3. CASE GetRefused(t)
    BY <2>1, <2>3 DEF GetRefused, Send
  <2>4. CASE GetServe(t)
    BY <2>1, <2>4 DEF GetServe, Send
  <2>5. CASE PutRefused(t)
    BY <2>1, <2>5 DEF PutRefused, Send
  <2>6. CASE PutReceive(t)
    BY <2>1, <2>6 DEF PutReceive, Send
  <2> QED
    BY <2>2, <2>3, <2>4, <2>5, <2>6 DEF Answer
<1>2. Step(t, pc[t], "unlock") /\ pc[t] \in {"open", "receive"}
  BY DEF Answer, Step, GetNotExisted, GetRefused, GetServe, PutRefused, PutReceive
<1>3. PICK code, body : Answered(code, body)
  BY <1>1
<1> QED
  BY <1>2, <1>3, SendsReply, Audits

LEMMA MainTypes ==
  ASSUME IInv, MainStep \/ UNCHANGED vars
  PROVE  OwnTypes'
<1>1. OwnTypes
  BY TypesAre DEF IInv
<1>2. ASSUME NEW c \in Conns, NEW r \in Requests, Accept(c, r) PROVE OwnTypes'
  <2>1. Len(log) \in Nat
    BY <1>1 DEF OwnTypes
  <2>2. /\ accepted' \in Conns \cup {Nobody}
        /\ request' \in [Conns -> Requests \cup {NoRequest}]
        /\ arrived' \in [Conns -> Nat]
        /\ queue' = queue
    BY <1>1, <1>2, <2>1 DEF Accept, OwnTypes
  <2> QED
    BY <1>1, <1>2, <2>2, MainFrame DEF OwnTypes, MainStep
<1>3. CASE Push
  <2>1. accepted \in Conns /\ queue \in Seq(Conns) /\ QueueSize \in Nat
    BY <1>1, <1>3, QueueAssumption DEF Push, OwnTypes
  <2>2. /\ accepted' \in Conns \cup {Nobody}
        /\ queue' \in Seq(Conns) /\ Len(queue') <= QueueSize
        /\ request' = request /\ arrived' = arrived
    BY <1>3, <2>1 DEF Push
  <2> QED
    BY <1>1, <1>3, <2>2, MainFrame DEF OwnTypes, MainStep
<1>4. CASE UNCHANGED vars
  BY <1>1, <1>4 DEF vars, OwnTypes, frontVars, diskVars, outVars
<1> QED
  BY <1>2, <1>3, <1>4 DEF MainStep

LEMMA WorkTypes ==
  ASSUME IInv, NEW t \in Workers, Work(t)
  PROVE  OwnTypes'
<1>1. OwnTypes /\ TypeOK
  BY TypesAre DEF IInv
<1>2. UNCHANGED <<request, initial, accepted, arrived>>
  BY <1>1, Frame
<1>3. pc[t] # "pop" => conn[t] \in Conns
  BY Busy DEF IInv
<1>4. pc[t] \in InRequest => UriOf(t) \in Uris
  BY Busy DEF IInv
<1>5. /\ pc' \in [Workers -> Locations]
      /\ mutex' \in Workers \cup {Nobody}
      /\ existed' \in [Workers -> BOOLEAN]
  <2>1. \E to \in Locations : pc' = [pc EXCEPT ![t] = to]
    BY DEF Work, Step, Locations, Pop, HandleOther, Close, GetAccess, GetMutex, PutMutex,
           LockFile, EndPut, GetNotExisted, GetRefused, GetServe, PutRefused, PutOpen,
           PutReceive, UnlockFile, ReleaseMutex
  <2>2. mutex' \in {mutex, t, Nobody}
    BY DEF Work, outVars, Pop, HandleOther, Close, GetAccess, GetMutex, PutMutex,
           LockFile, EndPut, GetNotExisted, GetRefused, GetServe, PutRefused, PutOpen,
           PutReceive, UnlockFile, ReleaseMutex
  <2>3. existed' = existed \/ \E b \in BOOLEAN : existed' = [existed EXCEPT ![t] = b]
    BY DEF Work, Exists, Pop, HandleOther, Close, GetAccess, GetMutex, PutMutex,
           LockFile, EndPut, GetNotExisted, GetRefused, GetServe, PutRefused, PutOpen,
           PutReceive, UnlockFile, ReleaseMutex
  <2> QED
    BY <1>1, <2>1, <2>2, <2>3 DEF OwnTypes
<1>6. /\ queue' \in Seq(Conns) /\ Len(queue') <= QueueSize
      /\ conn' \in [Workers -> Conns \cup {Nobody}]
      /\ closed' \subseteq Conns
  <2>1. CASE Pop(t)
    <3>1. queue \in Seq(Conns) /\ queue # <<>> /\ Len(queue) <= QueueSize
      BY <1>1, <2>1 DEF Pop, OwnTypes
    <3>2. Head(queue) \in Conns /\ Tail(queue) \in Seq(Conns) /\ Len(Tail(queue)) <= QueueSize
      BY <3>1, QueueAssumption
    <3> QED
      BY <1>1, <2>1, <3>2 DEF Pop, OwnTypes
  <2>2. CASE Close(t)
    BY <1>1, <1>3, <2>2 DEF Close, Step, OwnTypes
  <2>3. CASE pc[t] \notin {"pop", "close"}
    BY <1>1, <2>3, Frame DEF OwnTypes
  <2> QED
    BY <2>1, <2>2, <2>3 DEF Work, Step, HandleOther, GetAccess, GetMutex, PutMutex,
           LockFile, EndPut, GetNotExisted, GetRefused, GetServe, PutRefused, PutOpen,
           PutReceive, UnlockFile, ReleaseMutex
<1>7. file' \in [Uris -> Contents] /\ fds' \subseteq Conns /\ opened' \subseteq Conns
  <2>1. CASE PutOpen(t)
    <3>1. conn[t] \in Conns /\ UriOf(t) \in Uris
      BY <1>3, <1>4, <2>1 DEF PutOpen, Step, InRequest
    <3> QED
      BY <1>1, <2>1, <3>1, ContentsAre DEF PutOpen, OwnTypes
  <2>2. CASE PutReceive(t)
    <3>1. conn[t] \in Conns /\ UriOf(t) \in Uris
      BY <1>3, <1>4, <2>2 DEF PutReceive, Step, InRequest
    <3> QED
      BY <1>1, <2>2, <3>1, ContentsAre DEF PutReceive, OwnTypes
  <2>3. CASE GetNotExisted(t)
    <3>1. conn[t] \in Conns
      BY <1>3, <2>3 DEF GetNotExisted, Step
    <3> QED
      BY <1>1, <2>3, <3>1 DEF GetNotExisted, OwnTypes
  <2>4. CASE ~FileAction(t) /\ ~GetNotExisted(t)
    BY <1>1, <2>4, Frame DEF OwnTypes, FileAction
  <2> QED
    BY <2>1, <2>2, <2>3, <2>4 DEF FileAction
<1>8. reply' \in [Conns -> Replies] /\ log' \in Seq(Lines)
  <2>1. CASE Answer(t)
    <3>1. pc[t] \in {"open", "receive"}
      BY <2>1 DEF Answer, Step, GetNotExisted, GetRefused, GetServe, PutRefused, PutReceive
    <3> QED
      BY <1>1, <1>3, <1>4, <2>1, <3>1, AnswerStep DEF InRequest
  <2>2. CASE HandleOther(t)
    <3>1. conn[t] \in Conns /\ (Send(t, 400) \/ Send(t, 501)) /\ log' = log
      BY <1>3, <2>2 DEF HandleOther, Step
    <3> QED
      BY <1>1, <3>1, SendsReply, ContentsAre DEF OwnTypes
  <2>3. CASE ~Answer(t) /\ ~HandleOther(t)
    <3>1. UNCHANGED <<reply, log>>
      BY <2>3 DEF Work, Answer, outVars, Pop, Close, GetAccess, GetMutex, PutMutex,
           LockFile, EndPut, PutOpen, UnlockFile, ReleaseMutex
    <3> QED
      BY <1>1, <3>1 DEF OwnTypes
  <2> QED
    BY <2>1, <2>2, <2>3
<1> QED
  BY <1>1, <1>2, <1>5, <1>6, <1>7, <1>8 DEF OwnTypes

LEMMA TypesKept ==
  ASSUME IInv, [Next]_vars
  PROVE  TypeOK'
<1>1. OwnTypes'
  BY NextCases, MainTypes, WorkTypes
<1>2. FileLockTypeOK'
  BY LocksKept DEF FileLockInv
<1> QED
  BY <1>1, <1>2 DEF TypeOK, OwnTypes, Replies, Lines

-----------------------------------------------------------------------------
(* The log grows by lines of the connections being answered, and what it   *)
(* is about stays: requests, responses, when a GET came.                   *)
LEMMA LogStep ==
  ASSUME IInv, [Next]_vars
  PROVE  /\ LogGrows
         /\ \A c \in Conns : Logged(c) =>
              /\ request[c] # NoRequest /\ request'[c] = request[c]
              /\ arrived'[c] = arrived[c] /\ reply'[c] = reply[c]
<1>1. /\ Len(log) \in Nat /\ DOMAIN log = 1..Len(log)
      /\ \A i \in 1..Len(log) : log[i].conn \in Conns
  BY LogLines DEF IInv
<1>2. \A c \in Conns : Logged(c) => request[c] # NoRequest
  BY DEF IInv, ConnectionsApart
<1>3. \A i \in 1..Len(log) : Logged(log[i].conn)
  BY <1>1 DEF Logged
<1>4. CASE MainStep \/ UNCHANGED vars
  BY <1>1, <1>2, <1>3, <1>4, RequestsStay, MainFrame DEF LogGrows
<1>5. ASSUME NEW t \in Workers, Work(t)
      PROVE  /\ LogGrows
             /\ UNCHANGED <<request, arrived>>
             /\ \A c \in Conns : Logged(c) => reply'[c] = reply[c]
  <2>1. OwnTypes /\ TypeOK
    BY TypesAre DEF IInv
  <2>2. UNCHANGED <<request, initial, arrived>>
    BY <1>5, <2>1, Frame
  <2>3. \A i \in 1..Len(log) : log[i].conn \in opened' <=> log[i].conn \in opened
    <3>1. CASE PutOpen(t)
      <4>1. pc[t] = "open" /\ opened' = opened \cup {conn[t]}
        BY <2>1, <3>1, StepMoves DEF PutOpen
      <4>2. ~Logged(conn[t])
        BY <4>1 DEF IInv, ConnectionsApart
      <4> QED
        BY <1>3, <4>1, <4>2
    <3>2. CASE ~PutOpen(t)
      BY <1>5, <2>1, <3>2, Frame
    <3> QED
      BY <3>1, <3>2
  <2>5. CASE Answer(t)
    <3>1. pc[t] \in {"open", "receive"}
      BY <2>5 DEF Answer, Step, GetNotExisted, GetRefused, GetServe, PutRefused, PutReceive
    <3>2. conn[t] \in Conns /\ UriOf(t) \in Uris
      BY <3>1, Busy DEF IInv, InRequest
    <3>3. ~Logged(conn[t])
      BY <3>1 DEF IInv, ConnectionsApart
    <3> QED
      BY <1>5, <2>1, <2>2, <2>3, <2>5, <3>2, <3>3, AnswerStep, Frame DEF LogGrows
  <2>4. CASE ~Answer(t)
    <3>1. log' = log
      BY <1>5, <2>1, <2>4, Frame
    <3>2. CASE pc[t] = "handle"
      <4>1. ~Logged(conn[t])
        BY <3>2 DEF IInv, ConnectionsApart
      <4> QED
        BY <1>5, <2>1, <2>2, <2>3, <3>1, <4>1, Frame DEF LogGrows
    <3>3. CASE pc[t] # "handle"
      <4>1. reply' = reply
        BY <1>5, <2>4, <3>3 DEF Work, Answer, Step, outVars, HandleOther, Pop, Close, GetAccess,
             GetMutex, PutMutex, LockFile, EndPut, PutOpen, UnlockFile, ReleaseMutex
      <4> QED
        BY <2>2, <2>3, <3>1, <4>1 DEF LogGrows
    <3> QED
      BY <3>2, <3>3
  <2> QED
    BY <2>2, <2>4, <2>5
<1> QED
  BY <1>2, <1>4, <1>5, NextCases

(* Who is logged after a step of a worker.                                 *)
LEMMA LoggedAfter ==
  ASSUME IInv, NEW t \in Workers, Work(t), NEW c
  PROVE  /\ Logged(c) => Logged(c)'
         /\ Logged(c)' => Logged(c) \/ (Answer(t) /\ c = conn[t])
         /\ Answer(t) /\ c = conn[t] => Logged(c)'
<1>1. OwnTypes /\ TypeOK
  BY TypesAre DEF IInv
<1>2. CASE Answer(t)
  <2>1. pc[t] \in {"open", "receive"}
    BY <1>2 DEF Answer, Step, GetNotExisted, GetRefused, GetServe, PutRefused, PutReceive
  <2>2. conn[t] \in Conns /\ UriOf(t) \in Uris
    BY <2>1, Busy DEF IInv, InRequest
  <2>3. /\ log' \in Seq(Lines) /\ log \in Seq(Lines)
        /\ Len(log) \in Nat /\ Len(log') = Len(log) + 1
        /\ \A i \in 1..Len(log) : log'[i] = log[i]
        /\ log'[Len(log) + 1].conn = conn[t]
    BY <1>1, <1>2, <2>2, AnswerStep DEF OwnTypes
  <2>4. DOMAIN log = 1..Len(log) /\ DOMAIN log' = 1..(Len(log) + 1)
    BY <2>3
  <2>5. /\ \A i \in DOMAIN log : i \in DOMAIN log'
        /\ \A i \in DOMAIN log' : i \in DOMAIN log \/ i = Len(log) + 1
    BY <2>3, <2>4
  <2> QED
    BY <1>2, <2>3, <2>4, <2>5 DEF Logged
<1>3. CASE ~Answer(t)
  BY <1>1, <1>3, Frame DEF Logged
<1> QED
  BY <1>2, <1>3

-----------------------------------------------------------------------------
(* The queue without repetitions.                                          *)
Distinct(q) == \A i, j \in DOMAIN q : q[i] = q[j] => i = j
Within(q, c) == \E i \in DOMAIN q : q[i] = c

LEMMA Pushed ==
  ASSUME NEW q \in Seq(Conns), Distinct(q), NEW c \in Conns, ~Within(q, c)
  PROVE  /\ Distinct(Append(q, c))
         /\ \A d : Within(Append(q, c), d) <=> Within(q, d) \/ d = c
<1> DEFINE n == Len(q)
           r == Append(q, c)
<1>1. n \in Nat /\ DOMAIN q = 1..n /\ DOMAIN r = 1..(n + 1)
  OBVIOUS
<1>2. r[n + 1] = c /\ \A i \in 1..n : r[i] = q[i]
  OBVIOUS
<1> HIDE DEF n, r
<1>3. \A i \in DOMAIN r : i \in DOMAIN q \/ i = n + 1
  BY <1>1
<1>4. DOMAIN q \subseteq DOMAIN r /\ n + 1 \in DOMAIN r
  BY <1>1
<1>5. Distinct(r)
  BY <1>1, <1>2, <1>3 DEF Distinct, Within
<1>6. \A d : Within(r, d) <=> Within(q, d) \/ d = c
  BY <1>1, <1>2, <1>3, <1>4 DEF Within
<1> QED
  BY <1>5, <1>6 DEF r

LEMMA Popped ==
  ASSUME NEW q \in Seq(Conns), Distinct(q), q # <<>>
  PROVE  /\ Distinct(Tail(q)) /\ Head(q) \in Conns /\ Within(q, Head(q))
         /\ ~Within(Tail(q), Head(q))
         /\ \A d : Within(Tail(q), d) => Within(q, d)
<1> DEFINE n == Len(q)
           r == Tail(q)
<1>1. n \in Nat /\ n > 0 /\ DOMAIN q = 1..n /\ DOMAIN r = 1..(n - 1)
  OBVIOUS
<1>2. Head(q) = q[1] /\ \A i \in 1..(n - 1) : r[i] = q[i + 1]
  OBVIOUS
<1>3. 1 \in DOMAIN q /\ Head(q) \in Conns
  BY <1>1
<1> HIDE DEF n, r
<1>4. ASSUME NEW i \in DOMAIN r PROVE i + 1 \in DOMAIN q /\ r[i] = q[i + 1] /\ i + 1 # 1 /\ i \in Int
  BY <1>1, <1>2
<1>5. Distinct(r)
  <2> SUFFICES ASSUME NEW i \in DOMAIN r, NEW j \in DOMAIN r, r[i] = r[j] PROVE i = j
    BY DEF Distinct
  <2>1. i + 1 = j + 1
    BY <1>4 DEF Distinct
  <2> QED
    BY <1>4, <2>1
<1>6. ~Within(r, Head(q))
  BY <1>2, <1>3, <1>4 DEF Within, Distinct
<1>7. \A d : Within(r, d) => Within(q, d)
  BY <1>4 DEF Within
<1> QED
  BY <1>2, <1>3, <1>5, <1>6, <1>7 DEF r, Within

LEMMA ConnectionsAre ==
  /\ ConnectionsApart => Distinct(queue)
  /\ \A c : Queued(c) <=> Within(queue, c)
  /\ \A c : Queued(c)' <=> Within(queue', c)
BY DEF ConnectionsApart, Distinct, Queued, Within

LEMMA ConnectionsKeptByMain ==
  ASSUME IInv, MainStep \/ UNCHANGED vars
  PROVE  ConnectionsApart'
<1>1. OwnTypes
  BY TypesAre DEF IInv
<1>2. /\ UNCHANGED <<pc, conn, log, closed>>
      /\ \A c : (Served(c)' <=> Served(c)) /\ (Logged(c)' <=> Logged(c))
  BY MainFrame DEF Served, Logged
<1>3. \A t \in Workers : Logged(conn[t])' <=> Logged(conn[t])
  BY <1>2 DEF Logged
<1>4. ASSUME NEW c \in Conns, NEW r \in Requests, Accept(c, r) PROVE ConnectionsApart'
  <2>1. /\ accepted = Nobody /\ request[c] = NoRequest /\ accepted' = c /\ queue' = queue
        /\ \A d \in Conns \ {c} : request'[d] = request[d]
    BY <1>1, <1>4 DEF Accept, OwnTypes
  <2>2. \A d : Queued(d)' <=> Queued(d)
    BY <2>1 DEF Queued
  <2>3. request'[c] # NoRequest
    BY <1>1, <1>4 DEF Accept, OwnTypes, Requests, NoRequest
  <2>4. ~Queued(c) /\ ~Served(c) /\ ~Logged(c) /\ c \notin closed
    BY <2>1 DEF IInv, ConnectionsApart
  <2> QED
    BY <1>2, <1>3, <2>1, <2>2, <2>3, <2>4, NobodyAssumption DEF IInv, ConnectionsApart
<1>5. CASE Push
  <2>1. accepted \in Conns /\ accepted' = Nobody /\ queue' = Append(queue, accepted) /\ request' = request
    BY <1>1, <1>5 DEF Push, OwnTypes
  <2>2. /\ ~Within(queue, accepted)
        /\ ~Served(accepted) /\ ~Logged(accepted) /\ accepted \notin closed
        /\ request[accepted] # NoRequest
    BY <2>1, ConnectionsAre DEF IInv, ConnectionsApart
  <2>3. queue \in Seq(Conns) /\ Distinct(queue)
    BY <1>1, ConnectionsAre DEF OwnTypes, IInv
  <2>4. Distinct(queue') /\ \A d : Queued(d)' <=> Queued(d) \/ d = accepted
    BY <2>1, <2>2, <2>3, Pushed, ConnectionsAre
  <2> QED
    BY <1>2, <1>3, <2>1, <2>2, <2>4, NobodyAssumption DEF IInv, ConnectionsApart, Distinct
<1>6. CASE UNCHANGED vars
  <2>1. UNCHANGED <<queue, accepted, request>>
    BY <1>6 DEF vars, frontVars
  <2> QED
    BY <1>2, <1>3, <2>1 DEF IInv, ConnectionsApart, Queued
<1> QED
  BY <1>4, <1>5, <1>6 DEF MainStep

LEMMA ConnectionsKeptByWork ==
  ASSUME IInv, NEW t \in Workers, Work(t)
  PROVE  ConnectionsApart'
<1>1. OwnTypes /\ TypeOK /\ ConnectionsApart
  BY TypesAre DEF IInv
<1>2. UNCHANGED <<request, accepted>>
  BY <1>1, Frame
<1>3. CASE Pop(t)
  <2>1. queue \in Seq(Conns) /\ Distinct(queue) /\ queue # <<>> /\ queue' = Tail(queue)
    BY <1>1, <1>3, ConnectionsAre DEF OwnTypes, Pop
  <2>2. PICK d \in Conns : d = Head(queue)
    BY <2>1, Popped
  <2>3. /\ Queued(d) /\ ~Queued(d)' /\ Distinct(queue')
        /\ \A c : Queued(c)' => Queued(c)
    BY <2>1, <2>2, Popped, ConnectionsAre
  <2>4. /\ pc[t] = "pop" /\ pc' = [pc EXCEPT ![t] = "handle"]
        /\ conn' = [conn EXCEPT ![t] = d] /\ UNCHANGED <<closed, log>>
    BY <1>3, <2>2 DEF Pop, Step, outVars
  <2>5. /\ \A c : Logged(c)' <=> Logged(c)
        /\ \A c : Served(c)' => Served(c) \/ c = d
    BY <1>1, <2>4 DEF Logged, Served, OwnTypes
  <2>6. /\ ~Served(d) /\ ~Logged(d) /\ d \notin closed
        /\ request[d] # NoRequest /\ d # accepted /\ conn[t] = Nobody
    BY <1>1, <2>3, <2>4 DEF ConnectionsApart
  <2>7. \A s \in Workers : pc'[s] = "pop" <=> conn'[s] = Nobody
    BY <1>1, <2>4, NobodyAssumption DEF ConnectionsApart, OwnTypes
  <2>8. \A r, s \in Workers : conn'[r] = conn'[s] /\ conn'[r] # Nobody => r = s
    BY <1>1, <2>4, <2>6 DEF ConnectionsApart, Served, OwnTypes
  <2>9. ASSUME NEW c \in Conns
        PROVE  /\ c = accepted' => ~Queued(c)'
               /\ c = accepted' \/ Queued(c)' =>
                    ~Served(c)' /\ ~Logged(c)' /\ c \notin closed'
               /\ Served(c)' => c \notin closed'
               /\ request'[c] = NoRequest =>
                    c # accepted' /\ ~Queued(c)' /\ ~Served(c)' /\ ~Logged(c)' /\ c \notin closed'
    BY <1>1, <1>2, <2>3, <2>4, <2>5, <2>6 DEF ConnectionsApart
  <2>10. \A s \in Workers : Logged(conn[s])' => pc'[s] \in {"unlock", "release", "close"}
    <3>1. \A s \in Workers \ {t} : pc'[s] = pc[s] /\ conn'[s] = conn[s]
      BY <1>1, <2>4 DEF OwnTypes
    <3>2. conn'[t] = d
      BY <1>1, <2>4 DEF OwnTypes
    <3>3. \A c : Logged(c)' <=> \E i \in DOMAIN log' : log'[i].conn = c
      BY DEF Logged
    <3>4. \A s \in Workers : Logged(conn[s])' <=> \E i \in DOMAIN log' : log'[i].conn = conn'[s]
      BY DEF Logged
    <3>5. \A s \in Workers \ {t} : Logged(conn[s])' => Logged(conn[s])
      BY <2>5, <3>1, <3>3, <3>4
    <3>6. ~Logged(conn[t])'
      BY <2>5, <2>6, <3>2, <3>3, <3>4
    <3> QED
      BY <1>1, <3>1, <3>5, <3>6 DEF ConnectionsApart
  <2> QED
    BY <2>3, <2>7, <2>8, <2>9, <2>10 DEF ConnectionsApart, Distinct
<1>4. CASE Close(t)
  <2>1. /\ pc[t] = "close" /\ pc' = [pc EXCEPT ![t] = "pop"]
        /\ conn' = [conn EXCEPT ![t] = Nobody] /\ UNCHANGED <<queue, log>>
        /\ closed' = closed \cup {conn[t]}
    BY <1>4 DEF Close, Step, outVars
  <2>2. conn[t] \in Conns /\ request[conn[t]] # NoRequest
    BY <1>1, <2>1, Busy DEF IInv
  <2>3. /\ \A c : Logged(c)' <=> Logged(c)
        /\ \A c : Queued(c)' <=> Queued(c)
        /\ \A c \in Conns : Served(c)' => Served(c) /\ c # conn[t]
    BY <1>1, <2>1, NobodyAssumption DEF Logged, Queued, Served, OwnTypes, ConnectionsApart
  <2>4. Served(conn[t])
    BY DEF Served
  <2>5. \A s \in Workers : pc'[s] = "pop" <=> conn'[s] = Nobody
    BY <1>1, <2>1 DEF ConnectionsApart, OwnTypes
  <2>6. \A r, s \in Workers : conn'[r] = conn'[s] /\ conn'[r] # Nobody => r = s
    BY <1>1, <2>1 DEF ConnectionsApart, OwnTypes
  <2>7. ASSUME NEW c \in Conns
        PROVE  /\ c = accepted' => ~Queued(c)'
               /\ c = accepted' \/ Queued(c)' =>
                    ~Served(c)' /\ ~Logged(c)' /\ c \notin closed'
               /\ Served(c)' => c \notin closed'
               /\ request'[c] = NoRequest =>
                    c # accepted' /\ ~Queued(c)' /\ ~Served(c)' /\ ~Logged(c)' /\ c \notin closed'
    BY <1>1, <1>2, <2>1, <2>2, <2>3, <2>4 DEF ConnectionsApart
  <2>8. \A s \in Workers : Logged(conn[s])' => pc'[s] \in {"unlock", "release", "close"}
    <3>1. \A s \in Workers \ {t} : pc'[s] = pc[s] /\ conn'[s] = conn[s]
      BY <1>1, <2>1 DEF OwnTypes
    <3>2. conn'[t] = Nobody
      BY <1>1, <2>1 DEF OwnTypes
    <3>3. \A i \in DOMAIN log : log[i].conn \in Conns
      BY <1>1, LogLines
    <3>4. \A s \in Workers \ {t} : Logged(conn[s])' => Logged(conn[s])
      BY <2>1, <3>1 DEF Logged
    <3>5. ~Logged(conn[t])'
      BY <2>1, <3>2, <3>3, NobodyAssumption DEF Logged
    <3> QED
      BY <1>1, <3>1, <3>4, <3>5 DEF ConnectionsApart
  <2>9. Distinct(queue')
    BY <1>1, <2>1, ConnectionsAre
  <2> QED
    BY <2>5, <2>6, <2>7, <2>8, <2>9 DEF ConnectionsApart, Distinct
<1>5. CASE pc[t] \notin {"pop", "close"}
  <2>1. UNCHANGED <<queue, closed, conn>>
    BY <1>1, <1>5, Frame
  <2>2. /\ \A s \in Workers \ {t} : pc'[s] = pc[s]
        /\ pc[t] # "pop" /\ pc'[t] # "pop"
        /\ pc[t] \in {"unlock", "release"} => pc'[t] \in {"unlock", "release", "close"}
        /\ Answer(t) => pc'[t] = "unlock"
    BY <1>1, <1>5, Moves, Frame DEF Locations
  <2>3. /\ \A c : Queued(c)' <=> Queued(c)
        /\ \A c : Served(c)' <=> Served(c)
        /\ \A c : Logged(c)' => Logged(c) \/ (Answer(t) /\ c = conn[t])
    BY <2>1, LoggedAfter DEF Queued, Served
  <2>4. \A s \in Workers : pc'[s] = "pop" <=> conn'[s] = Nobody
    BY <1>1, <1>5, <2>1, <2>2 DEF ConnectionsApart, OwnTypes
  <2>5. Served(conn[t]) /\ conn[t] \in Conns /\ request[conn[t]] # NoRequest
    BY <1>1, <1>5, Busy DEF Served, IInv
  <2>6. ASSUME NEW c \in Conns
        PROVE  /\ c = accepted' => ~Queued(c)'
               /\ c = accepted' \/ Queued(c)' =>
                    ~Served(c)' /\ ~Logged(c)' /\ c \notin closed'
               /\ Served(c)' => c \notin closed'
               /\ request'[c] = NoRequest =>
                    c # accepted' /\ ~Queued(c)' /\ ~Served(c)' /\ ~Logged(c)' /\ c \notin closed'
    BY <1>1, <1>2, <2>1, <2>3, <2>5 DEF ConnectionsApart
  <2>7. \A s \in Workers : Logged(conn[s])' => pc'[s] \in {"unlock", "release", "close"}
    <3>1. \A s \in Workers : Logged(conn[s])' => Logged(conn[s]) \/ (Answer(t) /\ conn[s] = conn[t])
      <4> SUFFICES ASSUME NEW s \in Workers, Logged(conn[s])'
                   PROVE  Logged(conn[s]) \/ (Answer(t) /\ conn[s] = conn[t])
        OBVIOUS
      <4>1. PICK c : c = conn[s]
        OBVIOUS
      <4>2. Logged(c)'
        BY <2>1, <4>1 DEF Logged
      <4> QED
        BY <2>3, <4>1, <4>2
    <3>2. \A s \in Workers : Answer(t) /\ conn[s] = conn[t] => s = t
      BY <1>1, <2>5, NobodyAssumption DEF ConnectionsApart
    <3>3. Logged(conn[t]) => pc[t] \in {"unlock", "release"}
      BY <1>1, <1>5 DEF ConnectionsApart
    <3>4. Logged(conn[t])' => pc'[t] \in {"unlock", "release", "close"}
      BY <2>2, <3>1, <3>3
    <3>5. \A s \in Workers \ {t} : Logged(conn[s])' => pc'[s] \in {"unlock", "release", "close"}
      BY <1>1, <2>2, <3>1, <3>2 DEF ConnectionsApart
    <3> QED
      BY <3>4, <3>5
  <2>8. \A r, s \in Workers : conn'[r] = conn'[s] /\ conn'[r] # Nobody => r = s
    BY <1>1, <2>1 DEF ConnectionsApart
  <2>9. Distinct(queue')
    BY <1>1, <2>1, ConnectionsAre
  <2> QED
    BY <2>4, <2>6, <2>7, <2>8, <2>9 DEF ConnectionsApart, Distinct
<1> QED
  BY <1>1, <1>3, <1>4, <1>5, Moves

-----------------------------------------------------------------------------
(* Where workers are.  The mutex passes from nobody to one on its way in,  *)
(* and back.                                                               *)
LEMMA MutexMoves ==
  ASSUME TypeOK, PlacesFit, NEW t \in Workers, Work(t)
  PROVE  \/ /\ mutex = Nobody /\ mutex' = t /\ pc'[t] = "lock"
         \/ /\ mutex = t /\ mutex' = Nobody /\ pc'[t] \in {"receive", "close"}
         \/ /\ mutex' = mutex
            /\ pc'[t] \in InMutex => mutex = t
            /\ mutex = t => pc'[t] \in InMutex \cup {"unlock"}
<1> USE DEF InMutex
<1>1. pc[t] \in InMutex => mutex = t
  BY DEF PlacesFit
<1>2. mutex = t => pc[t] \in InMutex \cup {"unlock"}
  BY DEF PlacesFit
<1>3. CASE GetMutex(t) \/ PutMutex(t)
  BY <1>3, StepMoves DEF GetMutex, PutMutex
<1>4. CASE PutOpen(t) \/ ReleaseMutex(t)
  <2>1. mutex' = Nobody /\ pc[t] \in {"open", "release"} /\ pc'[t] \in {"receive", "close"}
    BY <1>4, StepMoves DEF PutOpen, ReleaseMutex
  <2> QED
    BY <1>1, <2>1
<1>5. CASE UnlockFile(t)
  <2>1. mutex' = mutex /\ pc'[t] = IF mutex = t THEN "release" ELSE "close"
    BY <1>5, StepMoves DEF UnlockFile
  <2> QED
    BY <2>1
<1>6. CASE Answer(t)
  <2>1. mutex' = mutex
    BY <1>6 DEF Answer, GetNotExisted, GetRefused, GetServe, PutRefused, PutReceive
  <2>2. pc[t] \in {"open", "receive"} /\ pc'[t] = "unlock"
    BY <1>6, StepMoves DEF Answer, GetNotExisted, GetRefused, GetServe, PutRefused, PutReceive
  <2> QED
    BY <1>1, <1>2, <2>1, <2>2
<1>7. CASE LockFile(t) \/ EndPut(t)
  <2>1. mutex' = mutex
    BY <1>7 DEF LockFile, EndPut
  <2>2. pc[t] \in {"lock", "put"} /\ pc'[t] \in {"put", "open"}
    BY <1>7, StepMoves DEF LockFile, EndPut
  <2> QED
    BY <1>1, <2>1, <2>2
<1>8. CASE Pop(t) \/ HandleOther(t) \/ GetAccess(t) \/ Close(t)
  <2>1. mutex' = mutex
    BY <1>8 DEF Pop, HandleOther, GetAccess, Close, outVars
  <2>2. pc[t] \in {"pop", "handle", "close"} /\ pc'[t] \in {"pop", "handle", "close", "mutex"}
    BY <1>8, StepMoves DEF Pop, HandleOther, GetAccess, Close
  <2> QED
    BY <1>2, <2>1, <2>2
<1> QED
  BY <1>3, <1>4, <1>5, <1>6, <1>7, <1>8 DEF Work, Answer

LEMMA PlacesKept ==
  ASSUME IInv, [Next]_vars
  PROVE  PlacesFit'
<1>1. CASE MainStep \/ UNCHANGED vars
  <2>1. UNCHANGED <<pc, mutex>>
    BY <1>1, MainFrame
  <2>2. \A t \in Workers : pc[t] # "pop" => (IsGet(t)' <=> IsGet(t)) /\ (IsPut(t)' <=> IsPut(t))
    BY <1>1, RequestsStay
  <2> QED
    BY <2>1, <2>2 DEF IInv, PlacesFit, InRequest, InMutex
<1>2. ASSUME NEW t \in Workers, Work(t) PROVE PlacesFit'
  <2>1. TypeOK /\ PlacesFit /\ t # Nobody
    BY NobodyAssumption DEF IInv
  <2>2. /\ pc'[t] \in InRequest => IsGet(t)' \/ IsPut(t)'
        /\ pc'[t] = "mutex" => IsGet(t)'
        /\ pc'[t] = "receive" => IsPut(t)'
    <3>1. CASE pc[t] \in InRequest
      <4>1. (IsGet(t)' <=> IsGet(t)) /\ (IsPut(t)' <=> IsPut(t))
        BY <1>2, <2>1, <3>1, SameRequest DEF InRequest
      <4>2. IsGet(t) \/ IsPut(t)
        BY <2>1, <3>1 DEF PlacesFit
      <4>3. pc'[t] = "mutex" => FALSE
        BY <1>2, <2>1, <3>1, Moves DEF InRequest
      <4>4. pc'[t] = "receive" => IsPut(t)
        BY <1>2, <2>1, <3>1, Moves DEF InRequest, PutOpen
      <4> QED
        BY <4>1, <4>2, <4>3, <4>4
    <3>2. CASE pc[t] = "handle"
      BY <1>2, <2>1, <3>2, Moves, SameRequest DEF InRequest, GetAccess, PutMutex
    <3>3. CASE pc[t] \in {"pop", "close"}
      BY <1>2, <2>1, <3>3, Moves DEF InRequest
    <3> QED
      BY <1>2, <2>1, <3>1, <3>2, <3>3, Moves DEF Locations, InRequest
  <2>3. /\ pc'[t] \in InMutex => mutex' = t
        /\ mutex' = t => pc'[t] \in InMutex \cup {"unlock"}
    BY <1>2, <2>1, MutexMoves DEF InMutex
  <2>4. ASSUME NEW s \in Workers, s # t
        PROVE  /\ pc'[s] \in InRequest => IsGet(s)' \/ IsPut(s)'
               /\ pc'[s] = "mutex" => IsGet(s)'
               /\ pc'[s] = "receive" => IsPut(s)'
               /\ pc'[s] \in InMutex => mutex' = s
               /\ mutex' = s => pc'[s] \in InMutex \cup {"unlock"}
    <3>1. pc'[s] = pc[s] /\ (IsGet(s)' <=> IsGet(s)) /\ (IsPut(s)' <=> IsPut(s))
      BY <1>2, <2>1, <2>4, Others
    <3>2. mutex' = s <=> mutex = s
      BY <1>2, <2>1, <2>4, MutexMoves, NobodyAssumption
    <3> QED
      BY <2>1, <3>1, <3>2 DEF PlacesFit
  <2> QED
    BY <2>2, <2>3, <2>4 DEF PlacesFit
<1> QED
  BY <1>1, <1>2, NextCases

-----------------------------------------------------------------------------
(* The files' locks.                                                       *)
LocksFile(t, u, m) == Mapped(u) /\ Holds(t, LockOf(u), m)
LocksNext(t, u, m) == resizing /\ ~Mapped(u) /\ Holds(t, counter, m)

(* The lock that worker t has for its request, if it is for u in mode m.   *)
LockFits(t, u, m) ==
  /\ pc[t] \in {"open", "receive", "unlock"} => LocksFile(t, u, m)
  /\ pc[t] = "put" => LocksNext(t, u, m)

LEMMA LocksFit ==
  /\ FilesLocked <=> \A t \in Workers : LockFits(t, UriOf(t), Mode(t))
  /\ FilesLocked' <=> \A t \in Workers : LockFits(t, UriOf(t), Mode(t))'
BY DEF FilesLocked, LockFits, LocksFile, LocksNext

LEMMA LockFitsAt ==
  ASSUME NEW t, NEW u, NEW m, UriOf(t)' = u, Mode(t)' = m, LockFits(t, u, m)'
  PROVE  LockFits(t, UriOf(t), Mode(t))'
BY DEF LockFits, LocksFile, LocksNext, Holds, Mapped, LockOf, NodeOf

LEMMA FilesLockedKept ==
  ASSUME IInv, [Next]_vars
  PROVE  FilesLocked'
<1>1. CASE MainStep \/ UNCHANGED vars
  <2> SUFFICES ASSUME NEW t \in Workers PROVE LockFits(t, UriOf(t), Mode(t))'
    BY LocksFit
  <2>1. UNCHANGED fileLockVars /\ UNCHANGED pc
    BY <1>1, MainFrame
  <2>2. pc[t] # "pop" => UriOf(t)' = UriOf(t) /\ Mode(t)' = Mode(t)
    BY <1>1, RequestsStay
  <2>3. LockFits(t, UriOf(t), Mode(t))
    BY LocksFit DEF IInv
  <2>4. LockFits(t, UriOf(t), Mode(t)) <=> LockFits(t, UriOf(t), Mode(t))
    OBVIOUS
  <2>5. PICK u, m : u = UriOf(t) /\ m = Mode(t)
    OBVIOUS
  <2>6. LockFits(t, u, m)'
    BY <2>1, <2>3, <2>5, LockInvUnchanged DEF LockFits, LocksFile, LocksNext
  <2>7. CASE pc[t] # "pop"
    BY <2>2, <2>5, <2>6, <2>7, LockFitsAt
  <2>8. CASE pc[t] = "pop"
    BY <2>1, <2>8 DEF LockFits
  <2> QED
    BY <2>7, <2>8
<1>2. ASSUME NEW t \in Workers, Work(t) PROVE FilesLocked'
  <2>1. TypeOK /\ ConnectionsApart /\ PlacesFit /\ FileLockInv
    BY DEF IInv
  <2>2. \A s \in Workers : LockFits(s, UriOf(s), Mode(s))
    BY LocksFit DEF IInv
  <2>3. ASSUME NEW s \in Workers, s # t PROVE LockFits(s, UriOf(s), Mode(s))'
    <3>1. PICK u, m : u = UriOf(s) /\ m = Mode(s)
      OBVIOUS
    <3>2. pc'[s] = pc[s] /\ UriOf(s)' = u /\ Mode(s)' = m
      BY <1>2, <2>1, <2>3, <3>1, Others
    <3>3. CASE pc[s] \notin InRequest
      BY <3>2, <3>3 DEF LockFits, InRequest
    <3>4. CASE pc[s] \in InRequest
      <4>1. u \in Uris /\ m \in Modes /\ (Mapped(u) => LockOf(u) \in Locks) /\ counter \in Locks
        BY <2>1, <3>1, <3>4, Busy, MappedNode DEF FileLockInv, FileLockTypeOK
      <4>2. LockFits(s, u, m)
        BY <2>2, <3>1
      <4>3. ASSUME UNCHANGED fileLockVars PROVE LockFits(s, u, m)'
        BY <3>2, <4>2, <4>3, LockInvUnchanged DEF LockFits, LocksFile, LocksNext
      <4>4. ASSUME LockFile(t) PROVE LockFits(s, u, m)'
        <5>1. pc[t] = "lock" /\ mutex = t /\ pc[s] # "put"
          BY <2>1, <2>3, <4>4 DEF LockFile, PlacesFit, InMutex
        <5>2. PICK v \in Uris, n \in Modes :
                TakeKnown(t, v, n) \/ TakeNew(t, v, n)
          BY <2>1, <4>4, <5>1, Busy DEF InRequest, LockFile
        <5>3. LocksFile(s, u, m) => LocksFile(s, u, m)'
          <6>1. (\E l \in Locks : Taken(t, l, n)) /\ (UNCHANGED map \/ Entered(v, counter))
            BY <2>1, <5>2, TakeKnownStep, TakeNewStep
          <6>2. Mapped(u) => Mapped(u)' /\ LockOf(u)' = LockOf(u)
            BY <4>1, <6>1 DEF Mapped, LockOf, NodeOf, Entered
          <6>3. \A k \in Locks : Holds(s, k, m) => Holds(s, k, m)'
            BY <4>1, <6>1 DEF Taken
          <6> QED
            BY <4>1, <6>2, <6>3 DEF LocksFile, Holds
        <5> QED
          BY <3>2, <4>2, <5>1, <5>3 DEF LockFits
      <4>5. ASSUME EndPut(t) PROVE LockFits(s, u, m)'
        <5>1. pc[t] = "put" /\ mutex = t /\ pc[s] # "put"
          BY <2>1, <2>3, <4>5 DEF EndPut, Step, PlacesFit, InMutex
        <5>2. PICK v \in Uris : ~Mapped(v) /\ FinishPut(v)
          BY <2>1, <2>2, <4>5, <5>1, Busy DEF InRequest, LockFits, LocksNext, EndPut
        <5>3. Entered(v, counter) /\ UNCHANGED <<readers, writers>>
          BY <2>1, <5>1, <5>2, FinishPutStep
        <5>4. LocksFile(s, u, m) => LocksFile(s, u, m)'
          BY <4>1, <5>3 DEF LocksFile, Entered, Holds
        <5> QED
          BY <3>2, <4>2, <5>1, <5>4 DEF LockFits
      <4>6. ASSUME UnlockFile(t) PROVE LockFits(s, u, m)'
        <5>1. pc[t] = "unlock" /\ Release(t, UriOf(t), Mode(t))
          BY <4>6 DEF UnlockFile, Step
        <5>2. UriOf(t) \in Uris /\ Mode(t) \in Modes
          BY <2>1, <5>1, Busy DEF InRequest
        <5>3. /\ UNCHANGED <<map, resizing, counter>>
              /\ \A k \in Locks : Holds(s, k, m) => Holds(s, k, m)'
          BY <2>1, <2>3, <4>1, <5>1, <5>2, ReleaseStep
        <5>4. (Mapped(u)' <=> Mapped(u)) /\ LockOf(u)' = LockOf(u)
          BY <5>3 DEF Mapped, LockOf, NodeOf
        <5>5. Holds(s, counter, m) => Holds(s, counter, m)'
          <6>1. PICK k \in Locks : k = counter
            BY <4>1
          <6> QED
            BY <5>3, <6>1 DEF Holds
        <5> QED
          BY <3>2, <4>1, <4>2, <5>3, <5>4, <5>5 DEF LockFits, LocksFile, LocksNext
      <4>7. LockFits(s, u, m)'
        BY <1>2, <2>1, <4>3, <4>4, <4>5, <4>6, Frame DEF LockAction
      <4> QED
        BY <3>2, <4>7, LockFitsAt
    <3> QED
      BY <3>3, <3>4
  <2>4. LockFits(t, UriOf(t), Mode(t))'
    <3>1. CASE pc'[t] \notin {"put", "open", "receive", "unlock"}
      BY <3>1 DEF LockFits
    <3>2. CASE pc'[t] \in {"put", "open", "receive", "unlock"}
      <4>1. pc[t] \in {"lock", "put", "open", "receive"}
        BY <1>2, <2>1, <3>2, Moves DEF Locations
      <4>2. PICK u, m : u = UriOf(t) /\ m = Mode(t)
        OBVIOUS
      <4>3. /\ u \in Uris /\ m \in Modes /\ (Mapped(u) => LockOf(u) \in Locks) /\ counter \in Locks
            /\ UriOf(t)' = u /\ Mode(t)' = m
        BY <1>2, <2>1, <4>1, <4>2, Busy, MappedNode, SameRequest DEF FileLockInv, FileLockTypeOK, InRequest
      <4>4. LockFits(t, u, m)
        BY <2>2, <4>2
      <4>5. CASE pc[t] = "lock"
        <5>1. /\ LockFile(t) /\ pc'[t] = IF resizing' # resizing THEN "put" ELSE "open"
              /\ TakeKnown(t, u, m) \/ TakeNew(t, u, m)
          <6>1. LockFile(t)
            BY <1>2, <2>1, <4>5, Moves
          <6> QED
            BY <2>1, <4>2, <6>1, StepMoves DEF LockFile
        <5>2. ASSUME TakeKnown(t, u, m) PROVE LockFits(t, u, m)'
          <6>1. PICK k \in Locks :
                  /\ k = LockOf(u) /\ Taken(t, k, m)
                  /\ Mapped(u) /\ UNCHANGED <<map, resizing>>
            BY <2>1, <4>3, <5>2, TakeKnownStep
          <6>2. Mapped(u)' /\ LockOf(u)' = LockOf(u) /\ pc'[t] = "open"
            BY <5>1, <6>1 DEF Mapped, LockOf, NodeOf
          <6>3. Holds(t, k, m)'
            BY <6>1 DEF Taken
          <6>4. Holds(t, LockOf(u), m)'
            BY <6>1, <6>2, <6>3 DEF Holds
          <6> QED
            BY <6>2, <6>4 DEF LockFits, LocksFile
        <5>3. ASSUME TakeNew(t, u, m) PROVE LockFits(t, u, m)'
          <6>1. /\ ~Mapped(u) /\ ~resizing
                /\ \/ resizing' /\ UNCHANGED <<map, counter>>
                   \/ ~resizing' /\ Entered(u, counter)
            BY <2>1, <4>3, <5>3, TakeNewStep
          <6>2. PICK k \in Locks : k = counter /\ Taken(t, k, m)
            BY <2>1, <4>3, <5>3, TakeNewStep
          <6>3. Holds(t, k, m)'
            BY <6>2 DEF Taken
          <6>4. CASE resizing' /\ UNCHANGED <<map, counter>>
            <7>1. ~Mapped(u)' /\ pc'[t] = "put"
              BY <5>1, <6>1, <6>4 DEF Mapped
            <7>2. Holds(t, counter, m)'
              BY <6>2, <6>3, <6>4 DEF Holds
            <7> QED
              BY <6>4, <7>1, <7>2 DEF LockFits, LocksNext
          <6>5. CASE ~resizing' /\ Entered(u, counter)
            <7>1. Mapped(u)' /\ LockOf(u)' = k /\ pc'[t] = "open"
              <8>1. resizing \in BOOLEAN /\ resizing' \in BOOLEAN
                BY LocksKept DEF IInv, FileLockInv, FileLockTypeOK
              <8> QED
                BY <5>1, <6>1, <6>2, <6>5, <8>1 DEF Entered
            <7>2. Holds(t, LockOf(u), m)'
              BY <6>3, <7>1 DEF Holds
            <7> QED
              BY <7>1, <7>2 DEF LockFits, LocksFile
          <6> QED
            BY <6>1, <6>4, <6>5
        <5>4. LockFits(t, u, m)'
          BY <5>1, <5>2, <5>3
        <5> QED
          BY <4>3, <5>4, LockFitsAt
      <4>6. CASE pc[t] = "put"
        <5>1. pc'[t] = "open" /\ FinishPut(u) /\ ~Mapped(u) /\ Holds(t, counter, m)
          BY <1>2, <2>1, <4>2, <4>4, <4>6, Moves DEF EndPut, LockFits, LocksNext
        <5>2. Entered(u, counter) /\ UNCHANGED <<readers, writers>>
          BY <2>1, <4>3, <5>1, FinishPutStep
        <5>3. PICK k : k = counter
          OBVIOUS
        <5>4. Mapped(u)' /\ LockOf(u)' = k /\ Holds(t, k, m)'
          BY <5>1, <5>2, <5>3 DEF Entered, Holds
        <5>5. Holds(t, LockOf(u), m)'
          BY <5>4 DEF Holds
        <5>6. LockFits(t, u, m)'
          BY <5>1, <5>4, <5>5 DEF LockFits, LocksFile
        <5> QED
          BY <4>3, <5>6, LockFitsAt
      <4>7. CASE pc[t] \in {"open", "receive"}
        <5>1. UNCHANGED fileLockVars /\ pc'[t] \in {"receive", "unlock"}
          BY <1>2, <2>1, <4>7, Frame, Moves
        <5>2. LockFits(t, u, m)'
          BY <4>4, <4>7, <5>1, LockInvUnchanged DEF LockFits, LocksFile
        <5> QED
          BY <4>3, <5>2, LockFitsAt
      <4> QED
        BY <4>1, <4>5, <4>6, <4>7
    <3> QED
      BY <3>1, <3>2
  <2> QED
    BY <2>3, <2>4, LocksFit
<1> QED
  BY <1>1, <1>2, NextCases

-----------------------------------------------------------------------------
(* What the whole log makes of a file, and how a step changes that: only   *)
(* the line of a PUT of the file does.                                     *)
Now(u) == FileAfter(Len(log), u)

LEMMA NowStays ==
  ASSUME IInv, [Next]_vars, UNCHANGED log, NEW u
  PROVE  Now(u)' = Now(u)
<1>1. PICK n \in Nat : n = Len(log)
  BY LogLines DEF IInv
<1>2. FileAfter(n, u)' = FileAfter(n, u)
  BY <1>1, LogStep, FileAfterStays DEF IInv
<1>3. Len(log)' = n
  BY <1>1
<1> QED
  BY <1>1, <1>2, <1>3 DEF Now

LEMMA NowAnswered ==
  ASSUME IInv, NEW t \in Workers, Work(t), Answer(t), NEW u
  PROVE  Now(u)' = IF conn[t] \in opened /\ IsPut(t) /\ UriOf(t) = u
                   THEN Written(conn[t], reply'[conn[t]].code # 500)
                   ELSE Now(u)
<1>1. OwnTypes /\ TypeOK /\ pc[t] \in {"open", "receive"}
  BY TypesAre, Moves DEF IInv
<1>2. conn[t] \in Conns /\ UriOf(t) \in Uris /\ request' = request
  BY <1>1, Busy, Frame DEF IInv, InRequest
<1>3. PICK n \in Nat : n = Len(log)
  BY <1>1, LogLines
<1>4. /\ Len(log') = n + 1 /\ log'[n + 1].conn = conn[t]
      /\ log'[n + 1].code = reply'[conn[t]].code
      /\ opened' = opened
  <2>1. Step(t, pc[t], "unlock")
    BY <1>1, <1>2, AnswerStep
  <2>2. ~PutOpen(t)
    BY <1>1, <2>1, StepMoves DEF PutOpen
  <2> QED
    BY <1>1, <1>2, <1>3, <2>2, AnswerStep, Frame
<1>5. request'[log'[n + 1].conn] = PutOf(u) <=> IsPut(t) /\ UriOf(t) = u
  BY <1>1, <1>2, <1>4, RequestKinds DEF IsPut, UriOf, RequestOf
<1>6. FileAfter(n + 1, u)' =
        IF log'[n + 1].conn \in opened' /\ request'[log'[n + 1].conn] = PutOf(u)
        THEN Left(log'[n + 1])
        ELSE FileAfter(n, u)
  <2>1. LogGrows
    BY LogStep DEF Next
  <2> QED
    BY <1>1, <1>3, <1>4, <2>1, FileAfterLine
<1>7. Now(u)' = FileAfter(n + 1, u)' /\ Now(u) = FileAfter(n, u)
  BY <1>3, <1>4 DEF Now
<1> QED
  BY <1>4, <1>5, <1>6, <1>7 DEF Left

(* Nobody else is in a file that a PUT is in.                              *)
LEMMA WriterAlone ==
  ASSUME IInv, NEW s \in Workers, NEW t \in Workers, s # t, IsPut(s),
         pc[s] \in {"open", "receive", "unlock"},
         pc[t] \in {"open", "receive", "unlock"}
  PROVE  UriOf(s) # UriOf(t)
<1> SUFFICES ASSUME UriOf(s) = UriOf(t) PROVE FALSE
  OBVIOUS
<1>1. PICK u \in Uris : u = UriOf(s) /\ u = UriOf(t)
  BY Busy DEF IInv, InRequest
<1>2. Mode(s) = "write"
  BY DEF Mode, IsGet, IsPut
<1>3. Holds(s, LockOf(u), "write") /\ Holds(t, LockOf(u), Mode(t)) /\ Mapped(u)
  BY <1>1, <1>2 DEF IInv, FilesLocked
<1>4. LockOf(u) \in Locks
  BY <1>3, MappedNode DEF IInv, FileLockInv
<1> QED
  BY <1>3, <1>4 DEF Holds, IInv, FileLockInv, LocksExclude

(* A file that a worker is about to use is what the log makes of it.       *)
LEMMA FileAtRest ==
  ASSUME IInv, NEW t \in Workers, pc[t] = "open"
  PROVE  ~Pending(UriOf(t)) /\ file[UriOf(t)] = Now(UriOf(t))
<1>1. ~Pending(UriOf(t))
  <2> SUFFICES ASSUME NEW s \in Workers, pc[s] = "receive", UriOf(s) = UriOf(t) PROVE FALSE
    BY DEF Pending
  <2>1. s # t
    OBVIOUS
  <2>2. IsPut(s)
    BY DEF IInv, PlacesFit
  <2> QED
    BY <2>1, <2>2, WriterAlone
<1>2. UriOf(t) \in Uris
  BY Busy DEF IInv, InRequest
<1> QED
  BY <1>1, <1>2 DEF IInv, FilesAsLogged, Now

LEMMA KindsAre ==
  /\ \A k : Unwritten(k).kind = k
  /\ \A c, b : Written(c, b).kind = "file"
BY DEF Unwritten, Written

(* What a PUT answers that received all of the body, or not.               *)
PutCode(t, all) == IF ~all THEN 500 ELSE IF existed[t] THEN 200 ELSE 201

LEMMA PutReceives ==
  ASSUME OwnTypes, NEW t \in Workers, conn[t] \in Conns, PutReceive(t)
  PROVE  \E all \in BOOLEAN :
           /\ file' = [file EXCEPT ![UriOf(t)] = Written(conn[t], all)]
           /\ reply'[conn[t]].code = PutCode(t, all)
           /\ all = (reply'[conn[t]].code # 500)
<1>1. \E all \in BOOLEAN :
        /\ file' = [file EXCEPT ![UriOf(t)] = Written(conn[t], all)]
        /\ Send(t, PutCode(t, all)) /\ Audit(t, PutCode(t, all))
  BY Zenon DEF PutReceive, PutCode
<1>2. PICK all \in BOOLEAN :
        /\ file' = [file EXCEPT ![UriOf(t)] = Written(conn[t], all)]
        /\ Send(t, PutCode(t, all))
  BY <1>1, Zenon
<1>3. PICK code : code = PutCode(t, all)
  OBVIOUS
<1>4. code \in {200, 201, 500} /\ (all <=> code # 500)
  BY <1>3 DEF PutCode
<1>5. reply'[conn[t]].code = code
  BY <1>2, <1>3, <1>4, SendsReply, ContentsAre
<1>6. all = (reply'[conn[t]].code # 500)
  BY <1>4, <1>5
<1> QED
  BY <1>2, <1>3, <1>5, <1>6, Zenon

(* How a file changes: by a PUT that opens it or receives it, and that     *)
(* only where it was regular from the start.                               *)
LEMMA FileStep ==
  ASSUME IInv, NEW t \in Workers, Work(t)
  PROVE  /\ FileAction(t) =>
              /\ IsPut(t) /\ pc[t] \in {"open", "receive"} /\ UriOf(t) \in Uris
              /\ initial[UriOf(t)] \in Regular
              /\ file'[UriOf(t)].kind = "file"
              /\ \A u \in Uris \ {UriOf(t)} : file'[u] = file[u]
         /\ ~FileAction(t) => file' = file
         /\ PutReceive(t) =>
              file'[UriOf(t)] = Written(conn[t], reply'[conn[t]].code # 500)
<1>1. OwnTypes /\ TypeOK
  BY TypesAre DEF IInv
<1>2. ASSUME FileAction(t)
      PROVE  /\ IsPut(t) /\ pc[t] \in {"open", "receive"} /\ UriOf(t) \in Uris
             /\ conn[t] \in Conns
  <2>1. pc[t] \in {"open", "receive"}
    BY <1>1, <1>2, Moves
  <2>2. UriOf(t) \in Uris /\ conn[t] \in Conns
    BY <2>1, Busy DEF IInv, InRequest
  <2>3. PutOpen(t) => IsPut(t)
    BY DEF PutOpen
  <2>4. PutReceive(t) => IsPut(t)
    BY <1>1, StepMoves DEF PutReceive, IInv, PlacesFit
  <2> QED
    BY <1>2, <2>1, <2>2, <2>3, <2>4 DEF FileAction
<1>3. ASSUME PutOpen(t)
      PROVE  /\ initial[UriOf(t)] \in Regular
             /\ file'[UriOf(t)].kind = "file"
             /\ \A u \in Uris \ {UriOf(t)} : file'[u] = file[u]
  <2>1. UriOf(t) \in Uris
    BY <1>2, <1>3 DEF FileAction
  <2>2. /\ file[UriOf(t)].kind \in Regular
        /\ file' = [file EXCEPT ![UriOf(t)] = Written(conn[t], FALSE)]
    BY <1>3 DEF PutOpen, Regular
  <2>3. initial[UriOf(t)] \in Regular
    BY <2>1, <2>2, KindsAre DEF IInv, FilesAsLogged
  <2> QED
    BY <1>1, <2>1, <2>2, <2>3, KindsAre DEF OwnTypes
<1>4. ASSUME PutReceive(t)
      PROVE  /\ initial[UriOf(t)] \in Regular
             /\ file'[UriOf(t)].kind = "file"
             /\ file'[UriOf(t)] = Written(conn[t], reply'[conn[t]].code # 500)
             /\ \A u \in Uris \ {UriOf(t)} : file'[u] = file[u]
  <2>1. UriOf(t) \in Uris /\ conn[t] \in Conns
    BY <1>2, <1>4 DEF FileAction
  <2>2. pc[t] = "receive"
    BY <1>1, <1>4, StepMoves DEF PutReceive
  <2>3. PICK all \in BOOLEAN :
          /\ file' = [file EXCEPT ![UriOf(t)] = Written(conn[t], all)]
          /\ all = (reply'[conn[t]].code # 500)
    BY <1>1, <1>4, <2>1, PutReceives
  <2>4. file'[UriOf(t)] = Written(conn[t], all) /\ \A u \in Uris \ {UriOf(t)} : file'[u] = file[u]
    BY <1>1, <2>1, <2>3 DEF OwnTypes
  <2> QED
    BY <2>2, <2>3, <2>4, KindsAre DEF IInv, PutsInformed
<1> QED
  BY <1>1, <1>2, <1>3, <1>4, Frame DEF FileAction

(* Who is receiving a file after a step.                                   *)
LEMMA PendingStep ==
  ASSUME IInv, NEW t \in Workers, Work(t), NEW u
  PROVE  /\ Pending(u) => Pending(u)' \/ (PutReceive(t) /\ u = UriOf(t))
         /\ PutOpen(t) /\ u = UriOf(t) => Pending(u)'
<1>1. TypeOK
  BY DEF IInv
<1>2. ASSUME NEW s \in Workers, pc[s] = "receive", UriOf(s) = u
      PROVE  Pending(u)' \/ (PutReceive(t) /\ u = UriOf(t))
  <2>1. CASE s = t
    BY <1>1, <1>2, <2>1, Moves
  <2>2. CASE s # t
    BY <1>1, <1>2, <2>2, Others DEF Pending
  <2> QED
    BY <2>1, <2>2
<1>3. ASSUME PutOpen(t), u = UriOf(t) PROVE Pending(u)'
  <2>1. pc[t] = "open" /\ pc'[t] = "receive"
    BY <1>1, <1>3, StepMoves DEF PutOpen
  <2>2. UriOf(t)' = UriOf(t)
    BY <1>1, <2>1, SameRequest
  <2> QED
    BY <1>3, <2>1, <2>2 DEF Pending
<1> QED
  BY <1>2, <1>3 DEF Pending

(* A worker that is about to open its file has not opened it before.       *)
LEMMA NotOpenedYet ==
  ASSUME IInv, NEW t \in Workers, pc[t] = "open"
  PROVE  conn[t] \notin opened
<1> SUFFICES ASSUME conn[t] \in opened PROVE FALSE
  OBVIOUS
<1>1. ~Logged(conn[t])
  BY DEF IInv, ConnectionsApart
<1>2. PICK s \in Workers : conn[s] = conn[t] /\ pc[s] = "receive"
  BY <1>1 DEF IInv, PutsOpened
<1>3. conn[t] # Nobody
  BY DEF IInv, ConnectionsApart
<1> QED
  BY <1>2, <1>3 DEF IInv, ConnectionsApart

(* The log's account of a file changes with the file only.                 *)
LEMMA NowStep ==
  ASSUME IInv, NEW t \in Workers, Work(t), NEW u, ~(PutReceive(t) /\ UriOf(t) = u)
  PROVE  Now(u)' = Now(u)
<1>1. CASE ~Answer(t)
  BY <1>1, Frame, NowStays DEF IInv, Next
<1>2. CASE Answer(t)
  <2> SUFFICES ASSUME conn[t] \in opened, IsPut(t), UriOf(t) = u PROVE FALSE
    BY <1>2, NowAnswered
  <2>1. ~IsGet(t)
    BY DEF IsPut, IsGet
  <2>2. PutRefused(t)
    BY <1>2, <2>1 DEF Answer, GetNotExisted, GetRefused, GetServe
  <2>3. pc[t] = "open"
    BY <2>2 DEF PutRefused, Step
  <2> QED
    BY <2>3, NotOpenedYet
<1> QED
  BY <1>1, <1>2

LEMMA FilesAsLoggedKept ==
  ASSUME IInv, [Next]_vars
  PROVE  FilesAsLogged'
<1> SUFFICES ASSUME NEW u \in Uris
             PROVE  /\ initial'[u] \notin Regular => file'[u] = Unwritten(initial'[u])
                    /\ initial'[u] \in Regular => file'[u].kind \in Regular
                    /\ ~Pending(u)' => file'[u] = Now(u)'
  BY DEF FilesAsLogged, Now
<1>1. /\ initial[u] \notin Regular => file[u] = Unwritten(initial[u])
      /\ initial[u] \in Regular => file[u].kind \in Regular
      /\ ~Pending(u) => file[u] = Now(u)
  BY DEF IInv, FilesAsLogged, Now
<1>2. CASE MainStep \/ UNCHANGED vars
  <2>1. UNCHANGED <<file, initial, pc, log>>
    BY <1>2, MainFrame
  <2>2. \A t \in Workers : pc[t] = "receive" => UriOf(t)' = UriOf(t)
    BY <1>2, RequestsStay
  <2>3. Pending(u) => Pending(u)'
    BY <2>1, <2>2 DEF Pending
  <2> QED
    BY <1>1, <2>1, <2>3, NowStays
<1>3. ASSUME NEW t \in Workers, Work(t)
      PROVE  /\ initial'[u] \notin Regular => file'[u] = Unwritten(initial'[u])
             /\ initial'[u] \in Regular => file'[u].kind \in Regular
             /\ ~Pending(u)' => file'[u] = Now(u)'
  <2>1. initial' = initial
    BY <1>3, Frame DEF IInv
  <2>2. CASE FileAction(t) /\ UriOf(t) = u
    <3>1. initial[u] \in Regular /\ file'[u].kind \in Regular /\ IsPut(t)
      BY <1>3, <2>2, FileStep DEF Regular
    <3>2. PutOpen(t) => Pending(u)'
      BY <1>3, <2>2, PendingStep
    <3>3. PutReceive(t) => file'[u] = Now(u)'
      <4>1. PutReceive(t) => conn[t] \in opened
        BY DEF PutReceive, Step, IInv, PutsOpened
      <4> QED
        BY <1>3, <2>2, <3>1, <4>1, FileStep, NowAnswered DEF Answer
    <3> QED
      BY <2>1, <2>2, <3>1, <3>2, <3>3 DEF FileAction
  <2>3. CASE ~(FileAction(t) /\ UriOf(t) = u)
    <3>1. file'[u] = file[u]
      BY <1>3, <2>3, FileStep
    <3>2. ~(PutReceive(t) /\ UriOf(t) = u)
      BY <2>3 DEF FileAction
    <3>3. Now(u)' = Now(u)
      BY <1>3, <3>2, NowStep
    <3>4. ~Pending(u)' => ~Pending(u)
      BY <1>3, <3>2, PendingStep
    <3> QED
      BY <1>1, <2>1, <3>1, <3>3, <3>4
  <2> QED
    BY <2>2, <2>3
<1> QED
  BY <1>2, <1>3, NextCases

(* A request of a worker, in the terms of PutsInformed and GetsInformed.   *)
PutKnows(t, u) ==
  /\ pc[t] \in {"lock", "put", "open"} /\ IsPut(t) => (existed[t] <=> Exists(u))
  /\ pc[t] = "receive" =>
       /\ initial[u] \in Regular
       /\ file[u].kind = "file"
       /\ Now(u).kind = IF existed[t] THEN "file" ELSE "absent"

LEMMA PutsKnow ==
  /\ PutsInformed <=> \A t \in Workers : PutKnows(t, UriOf(t))
  /\ PutsInformed' <=> \A t \in Workers : PutKnows(t, UriOf(t))'
BY DEF PutsInformed, PutKnows, Now

LEMMA PutKnowsAt ==
  ASSUME NEW t, NEW u, UriOf(t)' = u, PutKnows(t, u)'
  PROVE  PutKnows(t, UriOf(t))'
BY DEF PutKnows, Now, Exists, FileAfter

LEMMA PutsKept ==
  ASSUME IInv, [Next]_vars
  PROVE  PutsInformed'
<1> SUFFICES ASSUME NEW s \in Workers PROVE PutKnows(s, UriOf(s))'
  BY PutsKnow
<1>1. PICK u : u = UriOf(s)
  OBVIOUS
<1>2. PutKnows(s, u) /\ TypeOK
  BY <1>1, PutsKnow DEF IInv
<1>3. pc[s] \in InRequest => u \in Uris
  BY <1>1, Busy DEF IInv
<1>4. CASE MainStep \/ UNCHANGED vars
  <2>1. /\ UNCHANGED <<file, initial, pc, existed, log>>
        /\ pc[s] # "pop" => UriOf(s)' = u /\ (IsPut(s)' <=> IsPut(s))
    BY <1>1, <1>4, MainFrame, RequestsStay
  <2>2. CASE pc[s] = "pop"
    BY <2>1, <2>2 DEF PutKnows
  <2>3. CASE pc[s] # "pop"
    <3>1. PutKnows(s, u)'
      BY <1>2, <2>1, <2>3, NowStays DEF PutKnows, Exists
    <3> QED
      BY <2>1, <2>3, <3>1, PutKnowsAt
  <2> QED
    BY <2>2, <2>3
<1>5. ASSUME NEW t \in Workers, Work(t) PROVE PutKnows(s, UriOf(s))'
  <2>1. CASE s # t
    <3>1. /\ pc'[s] = pc[s] /\ existed'[s] = existed[s] /\ UriOf(s)' = u
          /\ (IsPut(s)' <=> IsPut(s)) /\ initial' = initial
      BY <1>1, <1>2, <1>5, <2>1, Others, Frame
    <3>2. CASE pc[s] \in {"lock", "put", "open"} /\ IsPut(s)
      <4>1. u \in Uris /\ mutex = s
        BY <1>3, <3>2 DEF InRequest, InMutex, IInv, PlacesFit
      <4>2. Exists(u)' <=> Exists(u)
        <5>1. CASE FileAction(t) /\ UriOf(t) = u
          <6>1. ~PutOpen(t)
            BY <1>2, <2>1, <4>1, StepMoves DEF PutOpen, IInv, PlacesFit, InMutex
          <6>2. PutReceive(t)
            BY <5>1, <6>1 DEF FileAction
          <6>3. file[u].kind = "file"
            BY <1>2, <5>1, <6>2, StepMoves DEF PutReceive, IInv, PutsInformed
          <6>4. file'[u].kind = "file"
            BY <1>5, <5>1, FileStep
          <6> QED
            BY <6>3, <6>4 DEF Exists
        <5>2. CASE ~(FileAction(t) /\ UriOf(t) = u)
          <6>1. file'[u] = file[u]
            BY <1>5, <4>1, <5>2, FileStep
          <6> QED
            BY <6>1 DEF Exists
        <5> QED
          BY <5>1, <5>2
      <4>3. PutKnows(s, u)'
        BY <1>2, <3>1, <3>2, <4>2 DEF PutKnows
      <4> QED
        BY <3>1, <4>3, PutKnowsAt
    <3>3. CASE pc[s] = "receive"
      <4>1. u \in Uris /\ IsPut(s)
        BY <1>3, <3>3 DEF InRequest, IInv, PlacesFit
      <4>2. ~(FileAction(t) /\ UriOf(t) = u)
        BY <1>1, <1>5, <2>1, <3>3, <4>1, FileStep, WriterAlone
      <4>3. file'[u] = file[u]
        BY <1>5, <4>1, <4>2, FileStep
      <4>4. Now(u)' = Now(u)
        BY <1>5, <4>2, NowStep DEF FileAction
      <4>5. PutKnows(s, u)'
        BY <1>2, <3>1, <3>3, <4>3, <4>4 DEF PutKnows
      <4> QED
        BY <3>1, <4>5, PutKnowsAt
    <3>4. CASE pc[s] # "receive" /\ ~(pc[s] \in {"lock", "put", "open"} /\ IsPut(s))
      BY <3>1, <3>4 DEF PutKnows
    <3> QED
      BY <3>2, <3>3, <3>4
  <2>2. CASE s = t
    <3>1. CASE pc[s] \in {"lock", "put"} /\ IsPut(s)
      <4>1. LockFile(s) \/ EndPut(s)
        BY <1>2, <1>5, <2>2, <3>1, Moves
      <4>2. existed' = existed /\ pc'[s] \in {"put", "open"}
        BY <1>2, <4>1, StepMoves DEF LockFile, EndPut
      <4>3. UriOf(s)' = u /\ file' = file
        BY <1>1, <1>2, <1>5, <2>2, <3>1, SameRequest, FileStep
      <4>4. PutKnows(s, u)'
        BY <1>2, <3>1, <4>2, <4>3 DEF PutKnows, Exists
      <4> QED
        BY <4>3, <4>4, PutKnowsAt
    <3>2. CASE pc[s] = "handle"
      <4>1. CASE PutMutex(s)
        <5>1. pc'[s] = "lock" /\ existed'[s] = Exists(u)
          BY <1>1, <1>2, <4>1, StepMoves DEF PutMutex, TypeOK
        <5>2. UriOf(s)' = u /\ file' = file
          BY <1>1, <1>2, <1>5, <2>2, <3>2, SameRequest, FileStep
        <5>3. PutKnows(s, u)'
          BY <5>1, <5>2 DEF PutKnows, Exists
        <5> QED
          BY <5>2, <5>3, PutKnowsAt
      <4>2. CASE ~PutMutex(s)
        BY <1>2, <1>5, <2>2, <3>2, <4>2, Moves DEF PutKnows
      <4> QED
        BY <4>1, <4>2
    <3>3. CASE PutOpen(s)
      <4>1. /\ pc[s] = "open" /\ pc'[s] = "receive" /\ IsPut(s) /\ existed' = existed
            /\ file[u].kind \in Regular
        BY <1>1, <1>2, <3>3, StepMoves DEF PutOpen, Regular
      <4>2. /\ UriOf(s)' = u /\ file[u] = Now(u) /\ initial[u] \in Regular
            /\ file'[u].kind = "file" /\ initial' = initial
        BY <1>1, <1>2, <1>5, <2>2, <3>3, <4>1, SameRequest, FileAtRest, FileStep, Frame DEF FileAction
      <4>3. ~PutReceive(s)
        BY <1>2, <4>1, StepMoves DEF PutReceive
      <4>4. Now(u)' = Now(u)
        BY <1>5, <2>2, <4>3, NowStep
      <4>5. existed[s] <=> Exists(u)
        BY <1>2, <4>1 DEF PutKnows
      <4>6. Now(u).kind = IF existed[s] THEN "file" ELSE "absent"
        BY <4>1, <4>2, <4>5 DEF Exists, Regular
      <4>7. PutKnows(s, u)'
        BY <4>1, <4>2, <4>4, <4>6 DEF PutKnows
      <4> QED
        BY <4>2, <4>7, PutKnowsAt
    <3>4. CASE /\ ~(pc[s] \in {"lock", "put"} /\ IsPut(s))
               /\ pc[s] # "handle" /\ ~PutOpen(s)
      <4>1. pc'[s] # "receive"
        BY <1>2, <1>5, <2>2, <3>4, Moves DEF Locations
      <4>2. pc'[s] \in {"lock", "put", "open"} => ~IsPut(s)'
        <5>1. pc'[s] \in {"lock", "put", "open"} => pc[s] \in {"mutex", "lock", "put"}
          BY <1>2, <1>5, <2>2, <3>4, Moves DEF Locations
        <5>2. pc[s] \in {"mutex", "lock", "put"} => (IsPut(s)' <=> IsPut(s))
          BY <1>2, <1>5, <2>2, SameRequest
        <5>3. pc[s] = "mutex" => ~IsPut(s)
          BY DEF IInv, PlacesFit, IsPut, IsGet
        <5> QED
          BY <3>4, <5>1, <5>2, <5>3
      <4> QED
        BY <4>1, <4>2 DEF PutKnows
    <3> QED
      BY <3>1, <3>2, <3>3, <3>4
  <2> QED
    BY <2>1, <2>2
<1> QED
  BY <1>4, <1>5, NextCases

-----------------------------------------------------------------------------
(* At some moment since connection c was accepted there was no file u.     *)
MissedSince(c, u) ==
  \E k \in arrived[c]..Len(log) : FileAfter(k, u).kind \in Missing

LEMMA MissedStays ==
  ASSUME IInv, [Next]_vars, NEW c \in Conns, arrived'[c] = arrived[c], NEW u,
         MissedSince(c, u)
  PROVE  MissedSince(c, u)'
<1>1. Len(log) \in Nat /\ arrived[c] \in Nat /\ Len(log') \in {Len(log), Len(log) + 1}
  BY LogLines, LogStep DEF IInv, TypeOK, LogGrows
<1>2. PICK k \in arrived[c]..Len(log) : FileAfter(k, u).kind \in Missing
  BY DEF MissedSince
<1>3. FileAfter(k, u)' = FileAfter(k, u)
  BY <1>1, LogStep, FileAfterStays DEF IInv
<1>4. k \in arrived'[c]..Len(log')
  BY <1>1
<1> QED
  BY <1>2, <1>3, <1>4 DEF MissedSince

(* A file that is there stays there.                                       *)
LEMMA ExistsStays ==
  ASSUME IInv, [Next]_vars, NEW u \in Uris, Exists(u)
  PROVE  Exists(u)'
<1>1. CASE MainStep \/ UNCHANGED vars
  BY <1>1, MainFrame DEF Exists
<1>2. ASSUME NEW t \in Workers, Work(t) PROVE Exists(u)'
  <2>1. file'[u] = file[u] \/ file'[u].kind = "file"
    BY <1>2, FileStep
  <2> QED
    BY <2>1 DEF Exists
<1> QED
  BY <1>1, <1>2, NextCases

(* A GET that looked for its file has reason to say what it found.         *)
GetKnows(t, c, u) ==
  pc[t] \in {"mutex", "lock", "put", "open"} /\ IsGet(t) =>
    IF existed[t] THEN Exists(u) ELSE MissedSince(c, u)

LEMMA GetsKnow ==
  /\ GetsInformed <=>
       /\ \A c \in Conns : arrived[c] <= Len(log)
       /\ \A t \in Workers : GetKnows(t, conn[t], UriOf(t))
  /\ GetsInformed' <=>
       /\ \A c \in Conns : arrived'[c] <= Len(log')
       /\ \A t \in Workers : GetKnows(t, conn[t], UriOf(t))'
BY DEF GetsInformed, GetKnows, MissedSince, Exists

LEMMA GetKnowsAt ==
  ASSUME NEW t, NEW c, NEW u, conn'[t] = c, UriOf(t)' = u, GetKnows(t, c, u)'
  PROVE  GetKnows(t, conn[t], UriOf(t))'
<1>1. Exists(u)' => Exists(UriOf(t))'
  BY DEF Exists
<1>2. ASSUME NEW k PROVE FileAfter(k, UriOf(t))' = FileAfter(k, u)'
  <2>1. {i \in 1..k : /\ log[i].conn \in opened
                      /\ request[log[i].conn] = [method |-> "PUT", uri |-> UriOf(t)]}'
        = {i \in 1..k : /\ log[i].conn \in opened
                        /\ request[log[i].conn] = [method |-> "PUT", uri |-> u]}'
    OBVIOUS
  <2> QED
    BY <2>1 DEF FileAfter
<1>3. MissedSince(c, u)' => MissedSince(conn[t], UriOf(t))'
  BY <1>2 DEF MissedSince
<1> QED
  BY <1>1, <1>3 DEF GetKnows

LEMMA GetsKept ==
  ASSUME IInv, [Next]_vars
  PROVE  GetsInformed'
<1>1. /\ TypeOK /\ Len(log) \in Nat /\ Len(log') \in {Len(log), Len(log) + 1}
      /\ \A c \in Conns : arrived[c] \in Nat /\ arrived[c] <= Len(log)
  BY LogLines, LogStep DEF IInv, TypeOK, LogGrows, GetsInformed
<1>2. \A c \in Conns : arrived'[c] <= Len(log')
  <2>1. ASSUME NEW d \in Conns, NEW r \in Requests, Accept(d, r), NEW c \in Conns
        PROVE  arrived'[c] <= Len(log')
    <3>1. log' = log
      BY <2>1, MainFrame DEF MainStep
    <3>2. arrived'[c] = arrived[c] \/ arrived'[c] = Len(log)
      BY <1>1, <2>1 DEF Accept, TypeOK
    <3> QED
      BY <1>1, <3>1, <3>2
  <2>2. Push \/ UNCHANGED vars => arrived' = arrived
    BY DEF Push, vars, frontVars
  <2>3. (\E t \in Workers : Work(t)) => arrived' = arrived
    BY <1>1, Frame
  <2>4. arrived' = arrived => \A c \in Conns : arrived'[c] <= Len(log')
    BY <1>1
  <2> QED
    BY <2>1, <2>2, <2>3, <2>4, NextCases DEF MainStep
<1>3. ASSUME NEW s \in Workers PROVE GetKnows(s, conn[s], UriOf(s))'
  <2>1. PICK c, u : c = conn[s] /\ u = UriOf(s)
    OBVIOUS
  <2>2. GetKnows(s, c, u)
    BY <2>1, GetsKnow DEF IInv
  <2>3. pc[s] # "pop" => c \in Conns /\ request[c] # NoRequest
    BY <2>1, Busy DEF IInv
  <2>6. pc[s] \in InRequest /\ Exists(u) => Exists(u)'
    BY <2>1, Busy, ExistsStays DEF IInv
  <2>4. CASE MainStep \/ UNCHANGED vars
    <3>1. /\ UNCHANGED <<pc, conn, existed>>
          /\ pc[s] # "pop" => /\ UriOf(s)' = u /\ (IsGet(s)' <=> IsGet(s))
                              /\ arrived'[c] = arrived[c]
      BY <2>1, <2>3, <2>4, MainFrame, RequestsStay
    <3>2. CASE pc[s] = "pop"
      BY <3>1, <3>2 DEF GetKnows
    <3>3. CASE pc[s] # "pop"
      <4>1. MissedSince(c, u) => MissedSince(c, u)'
        BY <2>3, <3>1, <3>3, MissedStays
      <4>2. GetKnows(s, c, u)'
        BY <2>2, <2>6, <3>1, <3>3, <4>1 DEF GetKnows, InRequest
      <4> QED
        BY <2>1, <3>1, <3>3, <4>2, GetKnowsAt
    <3> QED
      BY <3>2, <3>3
  <2>5. ASSUME NEW t \in Workers, Work(t) PROVE GetKnows(s, conn[s], UriOf(s))'
    <3>1. arrived' = arrived
      BY <1>1, <2>5, Frame
    <3>2. pc[s] # "pop" /\ MissedSince(c, u) => MissedSince(c, u)'
      BY <2>3, <3>1, MissedStays
    <3>3. CASE s # t
      <4>1. /\ pc'[s] = pc[s] /\ conn'[s] = c /\ existed'[s] = existed[s]
            /\ UriOf(s)' = u /\ (IsGet(s)' <=> IsGet(s))
        BY <1>1, <2>1, <2>5, <3>3, Others
      <4>2. GetKnows(s, c, u)'
        BY <2>2, <2>6, <3>2, <4>1 DEF GetKnows, InRequest
      <4> QED
        BY <4>1, <4>2, GetKnowsAt
    <3>4. CASE s = t /\ pc[s] \in {"mutex", "lock", "put"}
      <4>1. GetMutex(s) \/ LockFile(s) \/ EndPut(s)
        BY <1>1, <2>5, <3>4, Moves
      <4>2. existed' = existed
        BY <4>1 DEF GetMutex, LockFile, EndPut
      <4>3. conn'[s] = c /\ UriOf(s)' = u /\ (IsGet(s)' <=> IsGet(s))
        BY <1>1, <2>1, <2>5, <3>4, SameRequest
      <4>4. GetKnows(s, c, u)'
        BY <2>2, <2>6, <3>2, <3>4, <4>2, <4>3 DEF GetKnows, InRequest
      <4> QED
        BY <4>3, <4>4, GetKnowsAt
    <3>5. CASE s = t /\ GetAccess(s)
      <4>1. pc[s] = "handle" /\ existed'[s] = Exists(u) /\ log' = log
        BY <1>1, <2>1, <3>5, StepMoves DEF GetAccess, TypeOK, outVars
      <4>2. /\ conn'[s] = c /\ UriOf(s)' = u /\ (IsGet(s)' <=> IsGet(s)) /\ c \in Conns
            /\ u \in Uris
        <5>1. IsGet(s) /\ c \in Conns
          BY <2>3, <3>5, <4>1 DEF GetAccess
        <5>2. u \in Uris
          BY <1>1, <2>1, <5>1, RequestKinds DEF IsGet, UriOf, RequestOf
        <5> QED
          BY <1>1, <2>1, <2>5, <3>5, <4>1, <5>1, <5>2, SameRequest
      <4>3. ASSUME ~Exists(u) PROVE MissedSince(c, u)
        <5>1. file[u].kind \in Missing
          BY <4>3 DEF Exists, Missing
        <5>2. ~Pending(u)
          BY <5>1 DEF Pending, IInv, PutsInformed, Missing
        <5>3. file[u] = FileAfter(Len(log), u)
          BY <4>2, <5>2 DEF IInv, FilesAsLogged
        <5>4. Len(log) \in arrived[c]..Len(log)
          BY <1>1, <4>2
        <5> QED
          BY <5>1, <5>3, <5>4 DEF MissedSince
      <4>5. Exists(u) => Exists(u)'
        BY <4>2, ExistsStays
      <4>4. GetKnows(s, c, u)'
        BY <3>2, <4>1, <4>3, <4>5 DEF GetKnows
      <4> QED
        BY <4>2, <4>4, GetKnowsAt
    <3>6. CASE s = t /\ pc[s] \notin {"mutex", "lock", "put"} /\ ~GetAccess(s)
      <4>1. pc'[s] \in {"mutex", "lock", "put", "open"} => PutMutex(s) /\ pc[s] = "handle"
        BY <1>1, <2>5, <3>6, Moves DEF Locations
      <4>2. PutMutex(s) /\ pc[s] = "handle" => ~IsGet(s)'
        <5>1. PutMutex(s) => ~IsGet(s)
          BY DEF PutMutex, IsPut, IsGet
        <5>2. pc[s] = "handle" => (IsGet(s)' <=> IsGet(s))
          BY <1>1, <2>5, <3>6, SameRequest
        <5> QED
          BY <5>1, <5>2
      <4> QED
        BY <4>1, <4>2 DEF GetKnows
    <3> QED
      BY <3>3, <3>4, <3>5, <3>6
  <2> QED
    BY <2>4, <2>5, NextCases
<1> QED
  BY <1>2, <1>3, GetsKnow

-----------------------------------------------------------------------------
(* What was opened.                                                        *)
LEMMA PutsOpenedKept ==
  ASSUME IInv, [Next]_vars
  PROVE  PutsOpened'
<1>1. TypeOK
  BY DEF IInv
<1>2. CASE MainStep \/ UNCHANGED vars
  <2>1. UNCHANGED <<opened, log, pc, conn>>
    BY <1>2, MainFrame
  <2> QED
    BY <2>1 DEF IInv, PutsOpened, Logged
<1>3. ASSUME NEW t \in Workers, Work(t) PROVE PutsOpened'
  <2>1. opened \subseteq opened' /\ (opened' = opened \/ opened' = opened \cup {conn[t]})
    BY <1>1, <1>3, Frame DEF PutOpen
  <2>2. ASSUME NEW s \in Workers, pc'[s] = "receive" PROVE conn'[s] \in opened'
    <3>1. CASE s # t
      BY <1>1, <1>3, <2>1, <2>2, <3>1, Others DEF IInv, PutsOpened
    <3>2. CASE s = t
      <4>1. PutOpen(t)
        BY <1>1, <1>3, <2>2, <3>2, Moves DEF Locations
      <4> QED
        BY <3>2, <4>1 DEF PutOpen
    <3> QED
      BY <3>1, <3>2
  <2>3. ASSUME NEW c \in opened'
        PROVE  Logged(c)' \/ \E s \in Workers : conn'[s] = c /\ pc'[s] = "receive"
    <3>1. CASE c \in opened /\ Logged(c)
      BY <1>3, <3>1, LoggedAfter
    <3>2. ASSUME NEW s \in Workers, conn[s] = c, pc[s] = "receive"
          PROVE  Logged(c)' \/ (conn'[s] = c /\ pc'[s] = "receive")
      <4>1. CASE s = t
        <5>1. PutReceive(t)
          BY <1>1, <1>3, <3>2, <4>1, Moves
        <5> QED
          BY <1>3, <3>2, <4>1, <5>1, LoggedAfter DEF Answer
      <4>2. CASE s # t
        BY <1>1, <1>3, <3>2, <4>2, Others
      <4> QED
        BY <4>1, <4>2
    <3>3. CASE c \notin opened
      <4>1. PutOpen(t) /\ c = conn[t]
        BY <1>1, <1>3, <2>1, <2>3, <3>3, Frame
      <4>2. conn' = conn /\ pc'[t] = "receive"
        BY <1>1, <4>1, StepMoves DEF PutOpen
      <4> QED
        BY <4>1, <4>2
    <3> QED
      BY <3>1, <3>2, <3>3 DEF IInv, PutsOpened
  <2> QED
    BY <2>2, <2>3 DEF PutsOpened
<1> QED
  BY <1>2, <1>3, NextCases

-----------------------------------------------------------------------------
(* Descriptors.                                                            *)
LEMMA DescriptorsStay ==
  ASSUME IInv, [Next]_vars
  PROVE  DescriptorsKept'
<1>1. TypeOK /\ fds \subseteq Conns
  BY DEF IInv, TypeOK
<1>2. \A c \in Conns : Logged(c) => reply'[c] = reply[c]
  BY LogStep
<1>3. CASE MainStep \/ UNCHANGED vars
  <2>1. UNCHANGED <<fds, log, pc, conn, reply>>
    BY <1>3, MainFrame
  <2> QED
    BY <2>1 DEF IInv, DescriptorsKept, Logged
<1>4. ASSUME NEW t \in Workers, Work(t), NEW c \in fds'
      PROVE  \/ Logged(c)' /\ reply'[c].code = 404
             \/ \E s \in Workers : conn'[s] = c /\ pc'[s] = "receive"
  <2>1. CASE c \in fds /\ Logged(c) /\ reply[c].code = 404
    BY <1>1, <1>2, <1>4, <2>1, LoggedAfter
  <2>2. ASSUME c \in fds, NEW s \in Workers, conn[s] = c, pc[s] = "receive"
        PROVE  conn'[s] = c /\ pc'[s] = "receive"
    <3>1. CASE s = t
      <4>1. PutReceive(t)
        BY <1>1, <1>4, <2>2, <3>1, Moves
      <4> QED
        BY <1>4, <2>2, <3>1, <4>1 DEF PutReceive
    <3>2. CASE s # t
      BY <1>1, <1>4, <2>2, <3>2, Others
    <3> QED
      BY <3>1, <3>2
  <2>3. CASE c \notin fds
    <3>1. PutOpen(t) \/ GetNotExisted(t)
      BY <1>1, <1>4, <2>3, Frame DEF FileAction, PutReceive
    <3>2. CASE PutOpen(t)
      <4>1. c = conn[t] /\ conn' = conn /\ pc'[t] = "receive"
        BY <1>1, <1>4, <2>3, <3>2, StepMoves DEF PutOpen
      <4> QED
        BY <4>1
    <3>3. CASE GetNotExisted(t)
      <4>1. c = conn[t] /\ Send(t, 404) /\ pc[t] = "open"
        BY <1>1, <1>4, <2>3, <3>3, StepMoves DEF GetNotExisted
      <4>2. c \in Conns /\ OwnTypes
        BY <4>1, Busy, TypesAre DEF IInv
      <4>3. reply'[c].code = 404
        BY <4>1, <4>2, SendsReply, ContentsAre
      <4>4. Logged(c)'
        BY <1>4, <3>3, <4>1, LoggedAfter DEF Answer
      <4> QED
        BY <4>3, <4>4
    <3> QED
      BY <3>1, <3>2, <3>3
  <2> QED
    BY <2>1, <2>2, <2>3 DEF IInv, DescriptorsKept
<1>5. (\E t \in Workers : Work(t)) => DescriptorsKept'
  BY <1>4 DEF DescriptorsKept
<1> QED
  BY <1>3, <1>5, NextCases

-----------------------------------------------------------------------------
(* The log as a linearization.  Fits is Explained of line i, which comes   *)
(* after n lines and answers connection c about file u.                    *)
Fits(i, n, c, u) ==
  LET code == log[i].code
      found == FileAfter(n, u)
  IN  /\ reply[c].code = code
      /\ IF request[c].method = "GET"
         THEN /\ code = 200 => found.kind = "file" /\ reply[c].body = found
              /\ code = 403 => found.kind \in {"dir", "denied"}
              /\ code = 404 => \E k \in arrived[c]..n : FileAfter(k, u).kind \in Missing
              /\ code = 500 => found.kind \notin Missing
         ELSE /\ code = 200 => found.kind = "file"
              /\ code = 201 => found.kind = "absent"
              /\ code = 403 => found.kind \in {"dir", "denied", "orphan"}

LEMMA ExplainedIs ==
  ASSUME NEW i, NEW n, n = i - 1, NEW c, NEW u
  PROVE  /\ log[i].conn = c /\ request[c].uri = u => (Explained(i) <=> Fits(i, n, c, u))
         /\ log'[i].conn = c /\ request'[c].uri = u => (Explained(i)' <=> Fits(i, n, c, u)')
<1>1. ASSUME log[i].conn = c, request[c].uri = u
      PROVE  Explained(i) <=> Fits(i, n, c, u)
  BY <1>1 DEF Explained, Fits, Missing
<1>2. ASSUME log'[i].conn = c, request'[c].uri = u
      PROVE  Explained(i)' <=> Fits(i, n, c, u)'
  BY <1>2 DEF Explained, Fits, Missing
<1> QED
  BY <1>1, <1>2

(* A line stays explained.                                                 *)
LEMMA LineStays ==
  ASSUME IInv, [Next]_vars, NEW i \in 1..Len(log), Explained(i)
  PROVE  Explained(i)'
<1>1. /\ Len(log) \in Nat /\ DOMAIN log = 1..Len(log) /\ LogGrows
      /\ log[i].conn \in Conns
  BY LogLines, LogStep DEF IInv
<1>2. PICK n \in Nat : n = i - 1 /\ n <= Len(log)
  BY <1>1
<1>3. PICK c \in Conns : c = log[i].conn
  BY <1>1
<1>4. PICK u : u = request[c].uri
  OBVIOUS
<1>5. /\ log'[i] = log[i] /\ request'[c] = request[c]
      /\ arrived'[c] = arrived[c] /\ reply'[c] = reply[c]
  BY <1>1, <1>3, LogStep DEF LogGrows, Logged
<1>6. arrived[c] \in Nat
  BY DEF IInv, TypeOK
<1>7. \A k \in 0..Len(log) : FileAfter(k, u)' = FileAfter(k, u)
  BY <1>1, FileAfterStays DEF IInv
<1>8. Fits(i, n, c, u)
  BY <1>2, <1>3, <1>4, ExplainedIs
<1>9. FileAfter(n, u)' = FileAfter(n, u)
  BY <1>1, <1>2, <1>7
<1>10. \A k \in arrived[c]..n : FileAfter(k, u)' = FileAfter(k, u)
  BY <1>1, <1>2, <1>6, <1>7
<1>11. Fits(i, n, c, u)'
  BY <1>5, <1>8, <1>9, <1>10 DEF Fits
<1> QED
  BY <1>2, <1>3, <1>4, <1>5, <1>11, ExplainedIs

(* An answer is explained by the log before it.                            *)
LEMMA AnswerExplained ==
  ASSUME IInv, NEW t \in Workers, Work(t), Answer(t), NEW n \in Nat, n = Len(log)
  PROVE  Explained(n + 1)'
<1>1. OwnTypes /\ TypeOK /\ pc[t] \in {"open", "receive"}
  BY TypesAre, Moves DEF IInv
<1>2. PICK c \in Conns, u \in Uris : c = conn[t] /\ u = UriOf(t)
  BY <1>1, Busy DEF IInv, InRequest
<1>3. /\ log'[n + 1].conn = c /\ log'[n + 1].code = reply'[c].code
      /\ Len(log') = n + 1
  BY <1>1, <1>2, AnswerStep
<1>4. UNCHANGED <<request, arrived>> /\ request[c].uri = u /\ arrived[c] \in Nat
  BY <1>1, <1>2, Frame DEF UriOf, RequestOf, TypeOK
<1>5. FileAfter(n, u)' = FileAfter(n, u) /\ FileAfter(n, u) = Now(u)
  BY <1>1, LogStep, FileAfterStays DEF Next, Now
<1>6. /\ file[u] \in Contents /\ NoBody \in Contents
      /\ pc[t] = "open" => file[u] = Now(u)
  BY <1>1, <1>2, FileAtRest, ContentsAre DEF OwnTypes
<1>7. n \in arrived[c]..n
  BY <1>2, <1>4 DEF IInv, GetsInformed
<1>8. ASSUME MissedSince(c, u)
      PROVE  \E k \in arrived[c]..n : FileAfter(k, u)'.kind \in Missing
  <2>1. PICK k \in arrived[c]..n : FileAfter(k, u).kind \in Missing
    BY <1>8 DEF MissedSince
  <2>2. FileAfter(k, u)' = FileAfter(k, u)
    BY <1>1, <1>4, LogStep, FileAfterStays DEF Next
  <2> QED
    BY <2>1, <2>2
<1>9. Now(u).kind \in Missing => MissedSince(c, u)
  BY <1>5, <1>7 DEF MissedSince
<1>10. IsGet(t) <=> request[c].method = "GET"
  BY <1>2 DEF IsGet, RequestOf
<1>11. Fits(n + 1, n, c, u)'
  <2>1. CASE GetNotExisted(t)
    <3>1. IsGet(t) /\ ~existed[t] /\ pc[t] = "open" /\ Send(t, 404)
      BY <1>1, <2>1, StepMoves DEF GetNotExisted
    <3>2. reply'[c].code = 404
      BY <1>1, <1>2, <3>1, SendsReply, ContentsAre
    <3>3. MissedSince(c, u)
      BY <1>2, <3>1 DEF IInv, GetsInformed, MissedSince
    <3> QED
      BY <1>3, <1>4, <1>8, <1>10, <3>1, <3>2, <3>3 DEF Fits
  <2>2. CASE GetRefused(t)
    <3>1. /\ IsGet(t) /\ pc[t] = "open"
          /\ \/ Now(u).kind \in {"denied", "dir"} /\ Send(t, 403)
             \/ Now(u).kind \in Missing /\ Send(t, 404)
             \/ Now(u).kind \notin Missing /\ Send(t, 500)
      <4>1. pc[t] = "open" /\ IsGet(t) /\ existed[t] /\ file[u] = Now(u)
        BY <1>1, <1>2, <1>6, <2>2, StepMoves DEF GetRefused
      <4>2. Now(u).kind \notin Missing
        BY <1>2, <4>1 DEF IInv, GetsInformed, Exists, Missing
      <4> QED
        BY <1>2, <2>2, <4>1, <4>2 DEF GetRefused, Missing
    <3>2. \/ Now(u).kind \in {"denied", "dir"} /\ reply'[c].code = 403
          \/ Now(u).kind \in Missing /\ reply'[c].code = 404
          \/ Now(u).kind \notin Missing /\ reply'[c].code = 500
      BY <1>1, <1>2, <3>1, SendsReply, ContentsAre
    <3> QED
      BY <1>3, <1>4, <1>5, <1>8, <1>9, <1>10, <3>1, <3>2 DEF Fits
  <2>3. CASE GetServe(t)
    <3>1. /\ IsGet(t) /\ pc[t] = "open" /\ Now(u).kind = "file"
          /\ SendFile(t, 200, Now(u)) \/ Send(t, 500)
      BY <1>1, <1>2, <1>6, <2>3, StepMoves DEF GetServe
    <3>2. PICK body \in Contents : body = Now(u)
      BY <1>6, <3>1
    <3>3. \/ reply'[c].code = 200 /\ reply'[c].body = Now(u)
          \/ reply'[c].code = 500
      BY <1>1, <1>2, <3>1, <3>2, SendsReply, ContentsAre
    <3> QED
      BY <1>3, <1>4, <1>5, <1>10, <3>1, <3>3 DEF Fits, Missing
  <2>4. CASE PutRefused(t)
    <3>1. /\ IsPut(t) /\ pc[t] = "open"
          /\ \/ Now(u).kind \in {"denied", "dir", "orphan"} /\ Send(t, 403)
             \/ Send(t, 500)
      BY <1>1, <1>2, <1>6, <2>4, StepMoves DEF PutRefused
    <3>2. \/ Now(u).kind \in {"denied", "dir", "orphan"} /\ reply'[c].code = 403
          \/ reply'[c].code = 500
      BY <1>1, <1>2, <3>1, SendsReply, ContentsAre
    <3>3. ~IsGet(t)
      BY <3>1 DEF IsPut, IsGet
    <3> QED
      BY <1>3, <1>4, <1>5, <1>10, <3>2, <3>3 DEF Fits
  <2>5. CASE PutReceive(t)
    <3>1. pc[t] = "receive"
      BY <1>1, <2>5, StepMoves DEF PutReceive
    <3>2. /\ ~IsGet(t)
          /\ Now(u).kind = IF existed[t] THEN "file" ELSE "absent"
      BY <1>2, <3>1 DEF IInv, PlacesFit, IsPut, IsGet, PutsInformed, Now
    <3>3. PICK all \in BOOLEAN : reply'[c].code = PutCode(t, all)
      BY <1>1, <1>2, <2>5, PutReceives
    <3>4. \/ reply'[c].code = 500
          \/ reply'[c].code = 200 /\ Now(u).kind = "file"
          \/ reply'[c].code = 201 /\ Now(u).kind = "absent"
      BY <3>2, <3>3 DEF PutCode
    <3> QED
      BY <1>3, <1>4, <1>5, <1>10, <3>2, <3>4 DEF Fits
  <2> QED
    BY <2>1, <2>2, <2>3, <2>4, <2>5 DEF Answer
<1>12. n = (n + 1) - 1
  OBVIOUS
<1> QED
  BY <1>3, <1>4, <1>11, <1>12, ExplainedIs

LEMMA LinearizationKept ==
  ASSUME IInv, [Next]_vars
  PROVE  LogIsLinearization'
<1>1. PICK n \in Nat : n = Len(log) /\ DOMAIN log = 1..n
  BY LogLines DEF IInv
<1>2. \A i \in 1..n : Explained(i)'
  BY <1>1, LineStays DEF IInv, LogIsLinearization
<1>3. log' \in Seq(Lines)
  BY TypesKept, TypesAre DEF TypeOK, Lines
<1>4. CASE log' = log
  BY <1>1, <1>2, <1>4 DEF LogIsLinearization
<1>5. CASE log' # log
  <2>1. PICK t \in Workers : Work(t) /\ Answer(t)
    <3>1. ~(MainStep \/ UNCHANGED vars)
      BY <1>5, MainFrame
    <3> QED
      BY <1>5, <3>1, NextCases, Frame DEF IInv
  <2>2. Explained(n + 1)'
    BY <1>1, <2>1, AnswerExplained
  <2>3. Len(log') \in {n, n + 1}
    BY <1>1, LogStep DEF LogGrows
  <2>4. \A i \in DOMAIN log' : i \in 1..n \/ i = n + 1
    BY <1>3, <2>3
  <2> QED
    BY <1>2, <2>2, <2>4 DEF LogIsLinearization
<1> QED
  BY <1>4, <1>5

-----------------------------------------------------------------------------
(* The inductive invariant.                                                *)
LEMMA NothingLogged ==
  ASSUME log = <<>>, NEW u
  PROVE  FileAfter(0, u) = Unwritten(initial[u])
<1>1. Puts(0, u) = {}
  BY DEF Puts
<1> QED
  BY <1>1, FileAfterIs DEF FileFromPuts

LEMMA InitInv ==
  ASSUME Init
  PROVE  IInv
<1> USE DEF Init
<1>1. initial \in [Uris -> Kinds]
  BY InitialsAssumption
<1>2. FileLockInv
  <2>1. MapTypeOK
    BY DEF FileLockInit, MapTypeOK, KeysUnique
  <2>2. FileLockTypeOK
    <3>1. counter \in Locks /\ capacity \in Nat
      BY SizeAssumption DEF FileLockInit, Locks
    <3>2. map = <<>> /\ DOMAIN map = {}
      BY DEF FileLockInit
    <3> QED
      BY <3>1, <3>2 DEF FileLockInit, FileLockTypeOK
  <2>3. LocksExclude
    BY DEF FileLockInit, LocksExclude
  <2> QED
    BY <2>1, <2>2, <2>3 DEF FileLockInv
<1>3. OwnTypes
  <2>1. file \in [Uris -> Contents]
    BY <1>1, ContentsAre
  <2>2. queue \in Seq(Conns) /\ Len(queue) <= QueueSize /\ log \in Seq(Lines)
    BY QueueAssumption
  <2>3. reply \in [Conns -> Replies]
    <3>1. NoReply \in Replies
      BY ContentsAre DEF NoReply, Replies
    <3> QED
      BY <3>1
  <2> QED
    BY <1>1, <2>1, <2>2, <2>3 DEF OwnTypes, Locations
<1>4. TypeOK
  BY <1>2, <1>3, TypesAre DEF FileLockInv
<1>5. ConnectionsApart
  <2>1. \A c \in Conns : ~Queued(c) /\ ~Served(c) /\ ~Logged(c) /\ c # accepted
    BY NobodyAssumption DEF Queued, Served, Logged
  <2>2. \A t \in Workers : pc[t] = "pop" /\ conn[t] = Nobody /\ ~Logged(conn[t])
    BY DEF Logged
  <2> QED
    BY <2>1, <2>2 DEF ConnectionsApart
<1>6. PlacesFit
  BY NobodyAssumption DEF PlacesFit, InRequest, InMutex
<1>7. FilesLocked
  BY DEF FilesLocked
<1>13. PutsOpened
  BY DEF PutsOpened
<1>8. FilesAsLogged
  BY <1>1, NothingLogged, KindsAre DEF FilesAsLogged, Pending
<1>9. PutsInformed
  BY DEF PutsInformed
<1>10. GetsInformed
  BY DEF GetsInformed
<1>11. DescriptorsKept
  BY DEF DescriptorsKept
<1>12. LogIsLinearization
  BY DEF LogIsLinearization
<1> QED
  BY <1>2, <1>4, <1>5, <1>6, <1>7, <1>8, <1>9, <1>10, <1>11, <1>12, <1>13 DEF IInv

LEMMA InvKept ==
  ASSUME IInv, [Next]_vars
  PROVE  IInv'
BY TypesKept, LocksKept, ConnectionsKeptByMain, ConnectionsKeptByWork, NextCases,
   PlacesKept, FilesLockedKept, PutsOpenedKept, FilesAsLoggedKept, PutsKept, GetsKept, DescriptorsStay,
   LinearizationKept DEF IInv

LEMMA Invariance == Spec => []IInv
BY InitInv, InvKept, PTL DEF Spec

(* Everything the file server keeps has its type, and each URI one node    *)
(* and one lock (file_lock.c:42-83, httpserver.c:50-427).                  *)
THEOREM FileServerTypes == Spec => []TypeOK
<1>1. IInv => TypeOK
  BY DEF IInv
<1> QED
  BY <1>1, Invariance, PTL

(* The audit log is a linearization of what clients are answered, however  *)
(* workers interleave and whatever lock two files share                    *)
(* (httpserver.c:202-427).                                                 *)
THEOREM AuditLogLinearizes == Spec => []LogIsLinearization
<1>1. IInv => LogIsLinearization
  BY DEF IInv
<1> QED
  BY <1>1, Invariance, PTL

(* A closed connection leaves a descriptor open only after a 404 to a GET  *)
(* (httpserver.c:217-229).                                                 *)
THEOREM DescriptorsAreClosed == Spec => []DescriptorsClosed
<1>1. IInv => DescriptorsClosed
  <2> SUFFICES ASSUME IInv, NEW c \in closed \cap fds PROVE reply[c].code = 404
    BY DEF DescriptorsClosed
  <2>1. c \in Conns
    BY DEF IInv, TypeOK
  <2>2. ~Served(c)
    BY <2>1 DEF IInv, ConnectionsApart
  <2> QED
    BY <2>2 DEF IInv, DescriptorsKept, Served
<1> QED
  BY <1>1, Invariance, PTL

(* While a PUT has its file's lock nobody else is at the file, whatever    *)
(* lock the name shares and while the map of the locks grows               *)
(* (httpserver.c:360-422).                                                 *)
THEOREM PutsAreAlone == Spec => []PutsAlone
<1>1. IInv => PutsAlone
  <2> SUFFICES ASSUME IInv, NEW s \in Workers, NEW t \in Workers, s # t,
                      AtFile(s), AtFile(t), UriOf(s) = UriOf(t), IsPut(s)
               PROVE  FALSE
    BY DEF PutsAlone
  <2>1. CASE pc[s] = "put" /\ pc[t] = "put"
    BY <2>1 DEF IInv, PlacesFit, InMutex
  <2>2. CASE pc[s] # "put" /\ pc[t] # "put"
    BY <2>2, WriterAlone DEF AtFile
  <2>3. CASE (pc[s] = "put") # (pc[t] = "put")
    <3>1. Mapped(UriOf(s)) # Mapped(UriOf(t))
      BY <2>3 DEF IInv, FilesLocked, AtFile
    <3> QED
      BY <3>1
  <2> QED
    BY <2>1, <2>2, <2>3
<1> QED
  BY <1>1, Invariance, PTL

-----------------------------------------------------------------------------
(* The lock that a worker may hold, if its request is for u in mode w.     *)
HoldsOnly(t, u, w) ==
  \A l \in Locks, m \in Modes : Holds(t, l, m) =>
    /\ pc[t] \in {"put", "open", "receive", "unlock"}
    /\ m = w
    /\ l = IF pc[t] = "put" THEN counter ELSE LockOf(u)

LEMMA HeldIs ==
  /\ HeldAsNeeded <=> \A t \in Workers : HoldsOnly(t, UriOf(t), Mode(t))
  /\ HeldAsNeeded' <=> \A t \in Workers : HoldsOnly(t, UriOf(t), Mode(t))'
BY DEF HeldAsNeeded, HoldsOnly

LEMMA HoldsOnlyAt ==
  ASSUME NEW t, NEW u, NEW w, UriOf(t)' = u, Mode(t)' = w, HoldsOnly(t, u, w)'
  PROVE  HoldsOnly(t, UriOf(t), Mode(t))'
BY DEF HoldsOnly, Holds, LockOf, NodeOf

IInvFound == IInv /\ HeldAsNeeded /\ Unresized

(* A resize is not undone. *)
LEMMA ResizedStays ==
  ASSUME IInv, capacity >= Size, [Next]_vars
  PROVE  capacity' >= Size /\ (Unresized' => Unresized)
<1>1. TypeOK /\ ConnectionsApart /\ capacity \in Nat /\ Size \in Nat \ {0}
  BY SizeAssumption DEF IInv, FileLockInv, FileLockTypeOK
<1>2. ASSUME NEW t \in Workers, Work(t), LockAction(t)
      PROVE  capacity' >= Size /\ (Unresized' => Unresized)
  <2>1. CASE LockFile(t)
    BY <1>1, <2>1 DEF LockFile, TakeKnown, TakeNew, Unresized
  <2>2. CASE EndPut(t)
    <3>1. capacity' = 2 * capacity
      BY <2>2 DEF EndPut, FinishPut
    <3> QED
      BY <1>1, <3>1 DEF Unresized
  <2>3. CASE UnlockFile(t)
    BY <1>1, <2>3 DEF UnlockFile, Release, Unresized
  <2> QED
    BY <1>2, <2>1, <2>2, <2>3 DEF LockAction
<1>3. CASE UNCHANGED fileLockVars
  BY <1>3 DEF fileLockVars, Unresized
<1> QED
  BY <1>1, <1>2, <1>3, NextCases, MainFrame, Frame

(* Whoever looks for a URI that is in the map finds it.                    *)
LEMMA LookFinds ==
  ASSUME IInvFound, NEW u \in Uris, Mapped(u)
  PROVE  NotFound \notin MapGet(u)
<1>1. map[NodeOf(u)].lock # NotFound
  BY MappedNode, SizeAssumption DEF IInvFound, IInv, FileLockInv, LockOf, NotFound, Locks
<1> QED
  BY <1>1 DEF IInvFound, Unresized, MapGet

LEMMA HeldStays ==
  ASSUME IInvFound, [Next]_vars
  PROVE  HeldAsNeeded'
<1> SUFFICES ASSUME NEW s \in Workers PROVE HoldsOnly(s, UriOf(s), Mode(s))'
  BY HeldIs
<1>1. PICK u, w : u = UriOf(s) /\ w = Mode(s)
  OBVIOUS
<1>2. /\ TypeOK /\ FileLockInv /\ ConnectionsApart /\ PlacesFit
      /\ HoldsOnly(s, u, w) /\ LockFits(s, u, w)
  BY <1>1, HeldIs, LocksFit DEF IInvFound, IInv
<1>3. pc[s] \in InRequest => u \in Uris /\ w \in Modes
  BY <1>1, <1>2, Busy
<1>4. CASE MainStep \/ UNCHANGED vars
  <2>1. /\ UNCHANGED fileLockVars /\ UNCHANGED pc
        /\ pc[s] # "pop" => UriOf(s)' = u /\ Mode(s)' = w
    BY <1>1, <1>4, MainFrame, RequestsStay DEF IInvFound
  <2>2. HoldsOnly(s, u, w)'
    BY <1>2, <2>1, LockInvUnchanged DEF HoldsOnly
  <2>3. CASE pc[s] # "pop"
    BY <2>1, <2>2, <2>3, HoldsOnlyAt
  <2>4. CASE pc[s] = "pop"
    <3>1. \A l \in Locks, m \in Modes : ~Holds(s, l, m)'
      BY <2>1, <2>2, <2>4 DEF HoldsOnly
    <3> QED
      BY <3>1 DEF HoldsOnly
  <2> QED
    BY <2>3, <2>4
<1>5. ASSUME NEW t \in Workers, Work(t), s # t PROVE HoldsOnly(s, UriOf(s), Mode(s))'
  <2>1. pc'[s] = pc[s] /\ UriOf(s)' = u /\ Mode(s)' = w
    BY <1>1, <1>2, <1>5, Others
  <2>2. \A l \in Locks, m \in Modes : Holds(s, l, m)' => Holds(s, l, m)
    <3>1. CASE UNCHANGED fileLockVars
      BY <3>1, LockInvUnchanged
    <3>2. CASE LockAction(t)
      <4>1. pc[t] \in {"lock", "put", "unlock"}
        BY <1>2, <1>5, <3>2, Moves
      <4>2. PICK v \in Uris, n \in Modes : v = UriOf(t) /\ n = Mode(t)
        BY <1>2, <4>1, Busy DEF InRequest
      <4>3. CASE LockFile(t)
        <5>1. TakeKnown(t, v, n) \/ TakeNew(t, v, n)
          BY <4>2, <4>3 DEF LockFile
        <5>2. \E k \in Locks : Taken(t, k, n)
          BY <1>2, <4>2, <5>1, TakeKnownStep, TakeNewStep
        <5> QED
          BY <1>5, <5>2 DEF Taken
      <4>4. CASE EndPut(t)
        BY <4>4 DEF EndPut, FinishPut, Holds
      <4>5. CASE UnlockFile(t)
        <5>1. Release(t, v, n)
          BY <4>2, <4>5 DEF UnlockFile
        <5> QED
          BY <1>2, <4>2, <5>1, ReleaseStep
      <4> QED
        BY <3>2, <4>3, <4>4, <4>5 DEF LockAction
    <3> QED
      BY <1>2, <1>5, <3>1, <3>2, Frame
  <2>3. pc[s] \in {"put", "open", "receive", "unlock"} =>
          IF pc[s] = "put" THEN counter' = counter ELSE LockOf(u)' = LockOf(u)
    <3> SUFFICES ASSUME pc[s] \in {"put", "open", "receive", "unlock"}
                 PROVE  IF pc[s] = "put" THEN counter' = counter ELSE LockOf(u)' = LockOf(u)
      OBVIOUS
    <3>1. CASE UNCHANGED fileLockVars
      BY <3>1, LockInvUnchanged
    <3>2. CASE LockAction(t)
      <4>1. pc[t] \in {"lock", "put", "unlock"}
        BY <1>2, <1>5, <3>2, Moves
      <4>2. PICK v \in Uris, n \in Modes : v = UriOf(t) /\ n = Mode(t)
        BY <1>2, <4>1, Busy DEF InRequest
      <4>3. u \in Uris /\ (pc[s] # "put" => Mapped(u))
        BY <1>2, <1>3 DEF InRequest, LockFits, LocksFile
      <4>4. ASSUME Entered(v, counter), pc[t] # "unlock"
            PROVE  pc[s] # "put" /\ LockOf(u)' = LockOf(u)
        <5>1. pc[s] # "put"
          BY <1>2, <1>5, <4>1, <4>4 DEF PlacesFit, InMutex
        <5> QED
          BY <4>3, <4>4, <5>1 DEF Entered
      <4>5. CASE LockFile(t)
        <5>1. (TakeKnown(t, v, n) \/ TakeNew(t, v, n)) /\ pc[t] = "lock"
          BY <4>2, <4>5 DEF LockFile
        <5>2. UNCHANGED <<map, counter>> \/ Entered(v, counter)
          BY <1>2, <4>2, <5>1, TakeKnownStep, TakeNewStep
        <5> QED
          BY <4>4, <5>1, <5>2 DEF LockOf, NodeOf
      <4>6. CASE EndPut(t)
        <5>1. FinishPut(v) /\ pc[t] = "put" /\ LockFits(t, v, n)
          BY <1>2, <4>2, <4>6, StepMoves, LocksFit DEF EndPut, IInvFound, IInv
        <5>2. ~Mapped(v)
          BY <5>1 DEF LockFits, LocksNext
        <5>3. Entered(v, counter)
          BY <1>2, <4>2, <5>1, <5>2, FinishPutStep
        <5> QED
          BY <4>4, <5>1, <5>3
      <4>7. CASE UnlockFile(t)
        <5>1. UNCHANGED <<map, counter>>
          BY <4>7 DEF UnlockFile, Release
        <5> QED
          BY <5>1 DEF LockOf, NodeOf
      <4> QED
        BY <3>2, <4>5, <4>6, <4>7 DEF LockAction
    <3> QED
      BY <1>2, <1>5, <3>1, <3>2, Frame
  <2>4. HoldsOnly(s, u, w)'
    BY <1>2, <2>1, <2>2, <2>3 DEF HoldsOnly
  <2> QED
    BY <2>1, <2>4, HoldsOnlyAt
<1>6. ASSUME Work(s) PROVE HoldsOnly(s, UriOf(s), Mode(s))'
  <2>1. CASE pc[s] = "lock"
    <3>1. /\ LockFile(s) /\ UriOf(s)' = u /\ Mode(s)' = w /\ u \in Uris /\ w \in Modes
      BY <1>1, <1>2, <1>3, <1>6, <2>1, Moves, SameRequest DEF InRequest
    <3>2. /\ TakeKnown(s, u, w) \/ TakeNew(s, u, w)
          /\ pc'[s] = IF resizing' # resizing THEN "put" ELSE "open"
      BY <1>1, <1>2, <3>1, StepMoves DEF LockFile
    <3>3. \A l \in Locks, m \in Modes : ~Holds(s, l, m)
      BY <1>2, <2>1 DEF HoldsOnly
    <3>4. resizing \in BOOLEAN /\ resizing' \in BOOLEAN
      BY LocksKept DEF IInvFound, IInv, FileLockInv, FileLockTypeOK, Next
    <3>5. CASE TakeKnown(s, u, w)
      <4>1. PICK k \in Locks : k = LockOf(u) /\ Taken(s, k, w) /\ UNCHANGED <<map, resizing>>
        BY <1>2, <3>1, <3>5, TakeKnownStep
      <4>2. LockOf(u)' = k /\ pc'[s] = "open"
        BY <3>2, <4>1 DEF LockOf, NodeOf
      <4>3. \A l \in Locks, m \in Modes : Holds(s, l, m)' => l = k /\ m = w
        BY <3>3, <4>1 DEF Taken
      <4>4. HoldsOnly(s, u, w)'
        BY <4>2, <4>3 DEF HoldsOnly
      <4> QED
        BY <3>1, <4>4, HoldsOnlyAt
    <3>6. CASE TakeNew(s, u, w)
      <4>1. PICK k \in Locks : k = counter /\ Taken(s, k, w)
        BY <1>2, <3>1, <3>6, TakeNewStep
      <4>2. \/ counter' = k /\ pc'[s] = "put"
            \/ LockOf(u)' = k /\ pc'[s] = "open"
        <5>1. /\ ~resizing
              /\ \/ resizing' /\ UNCHANGED counter
                 \/ ~resizing' /\ Entered(u, counter)
          BY <1>2, <3>1, <3>6, TakeNewStep
        <5> QED
          BY <3>2, <3>4, <4>1, <5>1 DEF Entered
      <4>3. \A l \in Locks, m \in Modes : Holds(s, l, m)' => l = k /\ m = w
        BY <3>3, <4>1 DEF Taken
      <4>4. HoldsOnly(s, u, w)'
        BY <4>2, <4>3 DEF HoldsOnly
      <4> QED
        BY <3>1, <4>4, HoldsOnlyAt
    <3> QED
      BY <3>2, <3>5, <3>6
  <2>2. CASE pc[s] = "put"
    <3>1. /\ EndPut(s) /\ UriOf(s)' = u /\ Mode(s)' = w /\ u \in Uris /\ pc'[s] = "open"
      BY <1>1, <1>2, <1>3, <1>6, <2>2, Moves, SameRequest DEF InRequest
    <3>2. FinishPut(u) /\ ~Mapped(u)
      BY <1>1, <1>2, <2>2, <3>1 DEF EndPut, LockFits, LocksNext
    <3>3. Entered(u, counter) /\ UNCHANGED <<readers, writers>>
      BY <1>2, <3>1, <3>2, FinishPutStep
    <3>4. HoldsOnly(s, u, w)'
      BY <1>2, <2>2, <3>1, <3>3 DEF HoldsOnly, Holds, Entered
    <3> QED
      BY <3>1, <3>4, HoldsOnlyAt
  <2>3. CASE pc[s] = "unlock"
    <3>1. UnlockFile(s) /\ u \in Uris /\ w \in Modes /\ Mapped(u)
      BY <1>2, <1>3, <1>6, <2>3, Moves DEF InRequest, LockFits, LocksFile
    <3>2. Release(s, u, w)
      BY <1>1, <3>1 DEF UnlockFile
    <3>3. NotFound \notin MapGet(u)
      BY <3>1, LookFinds
    <3>4. PICK k : k = LockOf(u)
      OBVIOUS
    <3>5. ~Holds(s, k, w)'
      <4>1. ~Holds(s, LockOf(u), w)' /\ UNCHANGED map
        BY <1>2, <3>1, <3>2, <3>3, ReleaseStep
      <4>2. LockOf(u)' = k
        BY <3>4, <4>1 DEF LockOf, NodeOf
      <4> QED
        BY <4>1, <4>2 DEF Holds
    <3>6. \A l \in Locks, m \in Modes : Holds(s, l, m)' => Holds(s, l, m)
      BY <1>2, <3>1, <3>2, ReleaseStep
    <3>7. \A l \in Locks, m \in Modes : ~Holds(s, l, m)'
      BY <1>2, <2>3, <3>4, <3>5, <3>6 DEF HoldsOnly
    <3> QED
      BY <3>7 DEF HoldsOnly
  <2>4. CASE pc[s] \notin {"lock", "put", "unlock"}
    <3>1. UNCHANGED fileLockVars
      BY <1>2, <1>6, <2>4, Frame, Moves
    <3>2. \A l \in Locks, m \in Modes : Holds(s, l, m)' <=> Holds(s, l, m)
      BY <3>1, LockInvUnchanged
    <3>3. CASE pc[s] \in {"open", "receive"}
      <4>1. UriOf(s)' = u /\ Mode(s)' = w /\ pc'[s] \in {"receive", "unlock"}
        BY <1>1, <1>2, <1>6, <3>3, Moves, SameRequest
      <4>2. HoldsOnly(s, u, w)'
        BY <1>2, <3>1, <3>2, <3>3, <4>1, LockInvUnchanged DEF HoldsOnly
      <4> QED
        BY <4>1, <4>2, HoldsOnlyAt
    <3>4. CASE pc[s] \notin {"open", "receive"}
      <4>1. \A l \in Locks, m \in Modes : ~Holds(s, l, m)'
        BY <1>2, <2>4, <3>2, <3>4 DEF HoldsOnly
      <4> QED
        BY <4>1 DEF HoldsOnly
    <3> QED
      BY <3>3, <3>4
  <2> QED
    BY <2>1, <2>2, <2>3, <2>4
<1> QED
  BY <1>4, <1>5, <1>6, NextCases

(* A worker between two requests holds neither the mutex nor any file's    *)
(* lock until the hash map is resized, whatever chains and locks the names *)
(* share (httpserver.c:202-427, file_lock.c:57-93); the run server_resize  *)
(* shows that afterwards it may.                                           *)
THEOREM IdleWorkersHoldNothing == Spec => []IdleUntilResized
<1> DEFINE J == IInv /\ capacity >= Size /\ (Unresized => HeldAsNeeded)
<1>1. Init => J
  <2> SUFFICES ASSUME Init PROVE J
    OBVIOUS
  <2>1. capacity = Size
    BY DEF Init, FileLockInit
  <2>2. \A t \in Workers, l \in Locks, m \in Modes : ~Holds(t, l, m)
    BY DEF Init, FileLockInit, Holds
  <2> QED
    BY <2>1, <2>2, InitInv, SizeAssumption DEF HeldAsNeeded
<1>2. J /\ [Next]_vars => J'
  <2> SUFFICES ASSUME J, [Next]_vars PROVE J'
    OBVIOUS
  <2>1. IInv' /\ capacity' >= Size /\ (Unresized' => Unresized)
    BY InvKept, ResizedStays
  <2>2. Unresized => HeldAsNeeded'
    BY HeldStays DEF IInvFound
  <2> QED
    BY <2>1, <2>2
<1>3. J => IdleUntilResized
  <2> SUFFICES ASSUME IInv, HeldAsNeeded, NEW t \in Workers
               PROVE  /\ pc[t] \in {"close", "pop", "handle"} => mutex # t
                      /\ ~AtFile(t) => \A l \in Locks : t \notin readers[l] \cup writers[l]
    BY DEF IdleUntilResized, IdleHoldsNothing, LeftHeld, Unresized
  <2>1. pc[t] \in {"close", "pop", "handle"} => mutex # t
    BY DEF IInv, PlacesFit, InMutex
  <2>2. ~AtFile(t) => \A l \in Locks : ~Holds(t, l, "read") /\ ~Holds(t, l, "write")
    BY DEF HeldAsNeeded, Modes, AtFile
  <2> QED
    BY <2>1, <2>2 DEF Holds
<1> HIDE DEF J
<1> QED
  BY <1>1, <1>2, <1>3, PTL DEF Spec

=============================================================================
