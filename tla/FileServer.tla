----------------------------- MODULE FileServer -----------------------------
(***************************************************************************)
(* The multithreaded file server of asgn4/httpserver.c: main accepts       *)
(* connections and pushes them onto a queue, workers pop them and handle   *)
(* one request each, under the server's mutex (a->mutex) and the file's    *)
(* read/write lock (FileLock).                                             *)
(*                                                                         *)
(* A GET holds the mutex from before it takes the file's lock until after  *)
(* it has released it; a PUT releases the mutex once it has opened and     *)
(* truncated the file, before it receives the body.                        *)
(*                                                                         *)
(* External: the queue (asgn4/queue.h), the parser and the senders and     *)
(* receivers of connection.h, the file system.  Connections are finite in  *)
(* number: that bounds every run of the system.  They are numbered in the  *)
(* order in which main accepts them.                                       *)
(***************************************************************************)
EXTENDS FileLock, FiniteSetsExt

CONSTANTS
  Conns,     (* the connections that clients open                          *)
  Nobody,    (* not a worker and not a connection                          *)
  QueueSize, (* the argument of queue_new (4096 in the code)               *)
  Initials,  (* the file systems the server may start on                   *)
  Methods    (* what clients send: methods, and "BAD" that does not parse  *)

VARIABLES
  file,      (* the file system: per URI what open finds there             *)
  initial,   (* the file system the server was started on                  *)
  accepted,  (* the connection main is about to push                       *)
  queue,     (* the connections pushed and not popped                      *)
  request,   (* per connection, what the client sends                      *)
  closed,    (* the connections that were closed                           *)
  arrived,   (* history: per GET, the length of log when it was accepted   *)
  reply,     (* per connection, what the client is sent                    *)
  log,       (* the audit log on stderr                                    *)
  mutex,     (* the worker that holds a->mutex                             *)
  pc,        (* per worker, its next step                                  *)
  conn,      (* per worker, the connection it handles                      *)
  existed,   (* per worker, the variable of the same name                  *)
  fds,       (* the connections whose descriptor of a file is open         *)
  opened     (* history: the connections whose PUT opened its file         *)

frontVars == <<accepted, queue, request, closed, arrived>>
diskVars == <<file, initial, fds, opened>>
outVars == <<reply, log>>
vars == <<fileLockVars, frontVars, diskVars, outVars, mutex, pc, conn, existed>>

(* What is behind a URI.  "orphan" is a file in a directory that does not  *)
(* exist, "denied" one that may not be opened.  A regular file is known by *)
(* the PUT that wrote it (Nobody: it was there from the start) and whether *)
(* all of it is there.                                                     *)
Kinds == {"file", "absent", "orphan", "dir", "denied"}
ASSUME ConnsAssumption == Conns \subseteq Nat
ASSUME NobodyAssumption == Nobody \notin Workers \cup Conns
ASSUME QueueAssumption == QueueSize \in Nat
ASSUME InitialsAssumption == Initials \subseteq [Uris -> Kinds]

Unwritten(k) == [kind |-> k, by |-> Nobody, whole |-> TRUE]
Written(c, all) == [kind |-> "file", by |-> c, whole |-> all]
NoBody == Unwritten("absent")

Exists(u) == file[u].kind \notin {"absent", "orphan"}

(* A connection that is not open yet, what conn_parse may return for it    *)
(* (a response of its own, or a method and a URI), and no response yet.    *)
NoRequest == [method |-> "NONE"]
Requests ==
  [method : Methods \cap {"GET", "PUT"}, uri : Uris]
  \cup [method : Methods \cap {"OTHER", "BAD"}]
NoReply == [code |-> 0, body |-> NoBody]

Locations == {"pop", "handle", "mutex", "lock", "put", "open", "unlock",
              "release", "receive", "close"}

Step(t, from, to) == pc[t] = from /\ pc' = [pc EXCEPT ![t] = to]
RequestOf(t) == request[conn[t]]
UriOf(t) == RequestOf(t).uri
IsGet(t) == RequestOf(t).method = "GET"
IsPut(t) == RequestOf(t).method = "PUT"

(* A PUT that takes its file's lock for reading. *)
ModeVariant(t) == IF IsGet(t) \/ IsPut(t) THEN "read" ELSE "write"

Mode(t) == IF IsGet(t) THEN "read" ELSE "write"

(* A response is sent with a body of canonical text, or with a file's. *)
SendFile(t, code, body) ==
  reply' = [reply EXCEPT ![conn[t]] = [code |-> code, body |-> body]]
Send(t, code) == SendFile(t, code, NoBody)
Audit(t, code) == log' = Append(log, [conn |-> conn[t], code |-> code])

-----------------------------------------------------------------------------
(* main: accept a connection, push it once the queue has room. *)

Accept(c, r) ==
  /\ accepted = Nobody
  /\ request[c] = NoRequest
  /\ \A d \in Conns : d < c => request[d] # NoRequest
  /\ accepted' = c
  /\ request' = [request EXCEPT ![c] = r]
  /\ arrived' = IF r.method = "GET" THEN [arrived EXCEPT ![c] = Len(log)] ELSE arrived
  /\ UNCHANGED <<fileLockVars, queue, closed, diskVars, outVars, mutex, pc,
                 conn, existed>>

Push ==
  /\ accepted # Nobody
  /\ Len(queue) < QueueSize
  /\ queue' = Append(queue, accepted)
  /\ accepted' = Nobody
  /\ UNCHANGED <<fileLockVars, request, closed, arrived, diskVars, outVars, mutex,
                 pc, conn, existed>>

-----------------------------------------------------------------------------
(* workerThreads and handle_connection *)

Pop(t) ==
  /\ queue # <<>>
  /\ Step(t, "pop", "handle")
  /\ conn' = [conn EXCEPT ![t] = Head(queue)]
  /\ queue' = Tail(queue)
  /\ UNCHANGED <<fileLockVars, accepted, request, closed, arrived, diskVars,
                 outVars, mutex, existed>>

(* What conn_parse refuses, and handle_unsupported: neither is logged. *)
HandleOther(t) ==
  /\ Step(t, "handle", "close")
  /\ \/ RequestOf(t).method = "BAD" /\ Send(t, 400)
     \/ RequestOf(t).method = "OTHER" /\ Send(t, 501)
  /\ UNCHANGED <<fileLockVars, frontVars, diskVars, log, mutex, conn, existed>>

Close(t) ==
  /\ Step(t, "close", "pop")
  /\ closed' = closed \cup {conn[t]}
  /\ conn' = [conn EXCEPT ![t] = Nobody]
  /\ existed' = [existed EXCEPT ![t] = FALSE]
  /\ UNCHANGED <<fileLockVars, accepted, queue, request, arrived, diskVars,
                 outVars, mutex>>

-----------------------------------------------------------------------------
(* The way in.  GET looks whether the file exists before it takes the      *)
(* mutex, PUT after.                                                       *)

GetAccess(t) ==
  /\ Step(t, "handle", "mutex")
  /\ IsGet(t)
  /\ existed' = [existed EXCEPT ![t] = Exists(UriOf(t))]
  /\ UNCHANGED <<fileLockVars, frontVars, diskVars, outVars, mutex, conn>>

GetMutex(t) ==
  /\ Step(t, "mutex", "lock")
  /\ mutex = Nobody
  /\ mutex' = t
  /\ UNCHANGED <<fileLockVars, frontVars, diskVars, outVars, conn, existed>>

PutMutex(t) ==
  /\ Step(t, "handle", "lock")
  /\ IsPut(t)
  /\ mutex = Nobody
  /\ mutex' = t
  /\ existed' = [existed EXCEPT ![t] = Exists(UriOf(t))]
  /\ UNCHANGED <<fileLockVars, frontVars, diskVars, outVars, conn>>

(* The file's lock, waited for with the mutex held. *)
LockFile(t) ==
  /\ pc[t] = "lock"
  /\ \/ TakeKnown(t, UriOf(t), Mode(t))
     \/ TakeNew(t, UriOf(t), Mode(t))
  /\ Step(t, "lock", IF resizing' # resizing THEN "put" ELSE "open")
  /\ UNCHANGED <<frontVars, diskVars, outVars, mutex, conn, existed>>

EndPut(t) ==
  /\ Step(t, "put", "open")
  /\ FinishPut(UriOf(t))
  /\ UNCHANGED <<frontVars, diskVars, outVars, mutex, conn, existed>>

-----------------------------------------------------------------------------
(* handle_get, from open to the audit *)

(* open may fail for the moment whatever the name is: no descriptor or no  *)
(* memory is left.  A GET and a PUT then answer 500 and leave the file.    *)

(* The file was not there when access() looked: the answer is 404, and a   *)
(* descriptor that open gave is not closed.                                *)
GetNotExisted(t) ==
  /\ Step(t, "open", "unlock")
  /\ IsGet(t)
  /\ ~existed[t]
  /\ \/ file[UriOf(t)].kind \in {"file", "dir"} /\ fds' = fds \cup {conn[t]}
     \/ UNCHANGED fds
  /\ Send(t, 404)
  /\ Audit(t, 404)
  /\ UNCHANGED <<fileLockVars, frontVars, file, initial, opened, mutex, conn, existed>>

GetRefused(t) ==
  /\ Step(t, "open", "unlock")
  /\ IsGet(t)
  /\ existed[t]
  /\ \/ file[UriOf(t)].kind \in {"denied", "dir"} /\ Send(t, 403) /\ Audit(t, 403)
     \/ file[UriOf(t)].kind \in {"absent", "orphan"} /\ Send(t, 404) /\ Audit(t, 404)
     \/ Send(t, 500) /\ Audit(t, 500)
  /\ UNCHANGED <<fileLockVars, frontVars, diskVars, mutex, conn, existed>>

(* conn_send_file; what it returns is NULL, which audit logs as 200, or    *)
(* the response to an error, which audit sends after what was sent.        *)
GetServe(t) ==
  /\ Step(t, "open", "unlock")
  /\ IsGet(t)
  /\ existed[t]
  /\ file[UriOf(t)].kind = "file"
  /\ \/ SendFile(t, 200, file[UriOf(t)]) /\ Audit(t, 200)
     \/ Send(t, 500) /\ Audit(t, 500)
  /\ UNCHANGED <<fileLockVars, frontVars, diskVars, mutex, conn, existed>>

-----------------------------------------------------------------------------
(* handle_put, from open to the log line *)

PutRefused(t) ==
  /\ Step(t, "open", "unlock")
  /\ IsPut(t)
  /\ \/ file[UriOf(t)].kind \in {"denied", "dir", "orphan"} /\ Send(t, 403) /\ Audit(t, 403)
     \/ Send(t, 500) /\ Audit(t, 500)
  /\ UNCHANGED <<fileLockVars, frontVars, diskVars, mutex, conn, existed>>

(* Open with O_CREAT and O_TRUNC, then release the mutex. *)
PutOpen(t) ==
  /\ Step(t, "open", "receive")
  /\ IsPut(t)
  /\ file[UriOf(t)].kind \in {"file", "absent"}
  /\ file' = [file EXCEPT ![UriOf(t)] = Written(conn[t], FALSE)]
  /\ fds' = fds \cup {conn[t]}
  /\ opened' = opened \cup {conn[t]}
  /\ mutex' = Nobody
  /\ UNCHANGED <<fileLockVars, frontVars, initial, outVars, conn, existed>>

(* The descriptor stays open. *)
PutReceiveVariant(t) ==
  /\ Step(t, "receive", "unlock")
  /\ file' = [file EXCEPT ![UriOf(t)] = Written(conn[t], TRUE)]
  /\ Send(t, IF existed[t] THEN 200 ELSE 201)
  /\ Audit(t, IF existed[t] THEN 200 ELSE 201)
  /\ UNCHANGED <<fileLockVars, frontVars, initial, fds, opened, mutex, conn, existed>>

(* conn_recv_file receives the whole body, or fails (the client stops, or  *)
(* the socket times out) and leaves a part of it.                          *)
PutReceive(t) ==
  /\ Step(t, "receive", "unlock")
  /\ \E all \in BOOLEAN :
       LET code == IF ~all THEN 500 ELSE IF existed[t] THEN 200 ELSE 201
       IN  /\ file' = [file EXCEPT ![UriOf(t)] = Written(conn[t], all)]
           /\ Send(t, code)
           /\ Audit(t, code)
  /\ fds' = fds \ {conn[t]}
  /\ UNCHANGED <<fileLockVars, frontVars, initial, opened, mutex, conn, existed>>

-----------------------------------------------------------------------------
(* The way out: the file's lock first, then the mutex if it is still held. *)

(* A GET that goes without releasing the file's lock. *)
UnlockFileVariant(t) ==
  /\ Step(t, "unlock", IF mutex = t THEN "release" ELSE "close")
  /\ IF IsGet(t) /\ ~existed[t] THEN UNCHANGED fileLockVars
     ELSE Release(t, UriOf(t), Mode(t))
  /\ UNCHANGED <<frontVars, diskVars, outVars, mutex, conn, existed>>

UnlockFile(t) ==
  /\ Step(t, "unlock", IF mutex = t THEN "release" ELSE "close")
  /\ Release(t, UriOf(t), Mode(t))
  /\ UNCHANGED <<frontVars, diskVars, outVars, mutex, conn, existed>>

(* A refused request that returns with the mutex held. *)
ReleaseMutexVariant(t) ==
  /\ Step(t, "release", "close")
  /\ mutex' = IF reply[conn[t]].code = 403 THEN mutex ELSE Nobody
  /\ UNCHANGED <<fileLockVars, frontVars, diskVars, outVars, conn, existed>>

ReleaseMutex(t) ==
  /\ Step(t, "release", "close")
  /\ mutex' = Nobody
  /\ UNCHANGED <<fileLockVars, frontVars, diskVars, outVars, conn, existed>>

-----------------------------------------------------------------------------

Init ==
  /\ FileLockInit
  /\ initial \in Initials
  /\ file = [u \in Uris |-> Unwritten(initial[u])]
  /\ fds = {}
  /\ opened = {}
  /\ accepted = Nobody
  /\ queue = <<>>
  /\ request = [c \in Conns |-> NoRequest]
  /\ closed = {}
  /\ arrived = [c \in Conns |-> 0]
  /\ reply = [c \in Conns |-> NoReply]
  /\ log = <<>>
  /\ mutex = Nobody
  /\ pc = [t \in Workers |-> "pop"]
  /\ conn = [t \in Workers |-> Nobody]
  /\ existed = [t \in Workers |-> FALSE]

Work(t) ==
  \/ Pop(t) \/ HandleOther(t) \/ Close(t)
  \/ GetAccess(t) \/ GetMutex(t) \/ PutMutex(t) \/ LockFile(t) \/ EndPut(t)
  \/ GetNotExisted(t) \/ GetRefused(t) \/ GetServe(t)
  \/ PutRefused(t) \/ PutOpen(t) \/ PutReceive(t)
  \/ UnlockFile(t) \/ ReleaseMutex(t)

Next ==
  \/ \E c \in Conns, r \in Requests : Accept(c, r)
  \/ Push
  \/ \E t \in Workers : Work(t)

Spec == Init /\ [][Next]_vars

(* main and the workers do not all stand still as long as one of them can  *)
(* go on; a body arrives or the socket's timeout ends the wait for it.     *)
FairSpec == Spec /\ WF_vars(Push \/ \E t \in Workers : Work(t))

-----------------------------------------------------------------------------
(* Properties *)

Contents == [kind : Kinds, by : Conns \cup {Nobody}, whole : BOOLEAN]

(* What is queued, sent, logged and held is of the kinds the code produces *)
(* (httpserver.c:50-427).                                                  *)
TypeOK ==
  /\ FileLockTypeOK
  /\ file \in [Uris -> Contents]
  /\ initial \in [Uris -> Kinds]
  /\ fds \subseteq Conns
  /\ opened \subseteq Conns
  /\ accepted \in Conns \cup {Nobody}
  /\ queue \in Seq(Conns) /\ Len(queue) <= QueueSize
  /\ request \in [Conns -> Requests \cup {NoRequest}]
  /\ closed \subseteq Conns
  /\ arrived \in [Conns -> Nat]
  /\ reply \in [Conns -> [code : {0, 200, 201, 400, 403, 404, 500, 501}, body : Contents]]
  /\ log \in Seq([conn : Conns, code : {200, 201, 403, 404, 500}])
  /\ mutex \in Workers \cup {Nobody}
  /\ pc \in [Workers -> Locations]
  /\ conn \in [Workers -> Conns \cup {Nobody}]
  /\ existed \in [Workers -> BOOLEAN]

(* What the first k lines of the audit log make of a file: the last PUT    *)
(* that opened it left its body, whole unless it was logged with 500.      *)
FileAfter(k, u) ==
  LET puts == {i \in 1..k : /\ log[i].conn \in opened
                            /\ request[log[i].conn] = [method |-> "PUT", uri |-> u]}
      last == log[Max(puts)]
  IN  IF puts = {}
      THEN Unwritten(initial[u])
      ELSE Written(last.conn, last.code # 500)

(* Line i of the log is what a server that handles one request at a time,  *)
(* in the order of the log, answers.  A 404 is what it would have answered *)
(* at some moment since the connection was accepted.  A 500 may come at    *)
(* any time, to a GET if the name is there.                                *)
Explained(i) ==
  LET c == log[i].conn
      code == log[i].code
      found == FileAfter(i - 1, request[c].uri)
  IN  /\ reply[c].code = code
      /\ IF request[c].method = "GET"
         THEN /\ code = 200 => found.kind = "file" /\ reply[c].body = found
              /\ code = 403 => found.kind \in {"dir", "denied"}
              /\ code = 404 => \E k \in arrived[c]..(i - 1) :
                   FileAfter(k, request[c].uri).kind \in {"absent", "orphan"}
              /\ code = 500 => found.kind \notin {"absent", "orphan"}
         ELSE /\ code = 200 => found.kind = "file"
              /\ code = 201 => found.kind = "absent"
              /\ code = 403 => found.kind \in {"dir", "denied", "orphan"}

(* The audit log is a linearization: every response, and the body of every *)
(* 200 to a GET, is what the requests logged before it account for         *)
(* (httpserver.c:202-427).  Two PUTs never both create a file, and no GET  *)
(* is sent a file that a PUT is still writing; a file is reported missing  *)
(* only if no PUT of it was done before the GET came.                      *)
LogIsLinearization == \A i \in DOMAIN log : Explained(i)

(* A worker is at its file from the moment it has the file's lock until it *)
(* gives it back.                                                          *)
AtFile(t) == pc[t] \in {"put", "open", "receive", "unlock"}

(* A lock that was taken for a request is left held after it. *)
LeftHeld ==
  \E t \in Workers, l \in Locks : ~AtFile(t) /\ t \in readers[l] \cup writers[l]

(* A worker between two requests does not hold the mutex, and a worker     *)
(* that is at no file holds no file's lock                                 *)
(* (httpserver.c:202-427, file_lock.c:57-93).                              *)
IdleHoldsNothing ==
  /\ \A t \in Workers : pc[t] \in {"close", "pop", "handle"} => mutex # t
  /\ ~LeftHeld

(* That is so until the hash map is resized, whatever chains and locks the *)
(* names share; a resize may hide a lock from the unlock that is to give   *)
(* it back (linked_hash_map.c:46-59, file_lock.c:85-93).                   *)
IdleUntilResized == ~resizing /\ capacity = Size => IdleHoldsNothing

(* While a PUT is at its file, no other worker is at the same file, also   *)
(* after the PUT gave up the mutex, with locks shared by files and while   *)
(* the map of the locks grows (httpserver.c:360-422, file_lock.c:42-93).   *)
PutsAlone ==
  \A s, t \in Workers :
    AtFile(s) /\ AtFile(t) /\ UriOf(s) = UriOf(t) /\ IsPut(s) => s = t

(* A closed connection leaves no descriptor of a file open, but for the    *)
(* GET that found a file it then reported missing (httpserver.c:217-229).  *)
DescriptorsClosed == \A c \in closed \cap fds : reply[c].code = 404

(* Again and again every connection that was accepted has been answered    *)
(* and closed (httpserver.c:133-187); the one thing that stops the server  *)
(* is a lock that a resize left held.                                      *)
AllClosed ==
  \A c \in Conns : request[c] # NoRequest => c \in closed /\ reply[c] # NoReply
EveryConnectionClosed == []<>(AllClosed \/ LeftHeld)

=============================================================================
