---------------------------- MODULE SimpleServer ----------------------------
(***************************************************************************)
(* The single-threaded HTTP server of asgn2: main accepts a connection,    *)
(* reads a header, answers, closes, and accepts the next one.              *)
(*                                                                         *)
(* Descriptors are what it may run out of: one for the connection, one for *)
(* the file.  put_write leaves the file's open when the body ends, so they *)
(* are lost one by one.                                                    *)
(*                                                                         *)
(* A client is known by its connection, its body by its length and by how  *)
(* it ends: the client closes its side, or falls silent until the socket's *)
(* timeout.  It may go away before it is answered.                         *)
(***************************************************************************)
EXTENDS Integers, Sequences, FiniteSets

CONSTANTS
  Conns,     (* the connections clients open                               *)
  Nobody,    (* no connection                                              *)
  Uris,
  Initials,  (* what may be behind the URIs when the server starts         *)
  MaxBody,   (* bound: the longest body                                    *)
  MaxFds     (* the descriptors left once the server listens               *)

ASSUME ConnsAssumption == IsFiniteSet(Conns) /\ Nobody \notin Conns
ASSUME BodyAssumption == MaxBody \in Nat
ASSUME FdsAssumption == MaxFds \in Nat \ {0}

VARIABLES
  file,     (* what is behind each URI                                     *)
  request,  (* what each connection asks for, once it was accepted         *)
  conn,     (* the connection being served                                 *)
  pc,       (* main's next step                                            *)
  fds,      (* the connections whose descriptor of a file is open          *)
  pass,     (* the bytes of the body put_write has passed on               *)
  gone,     (* the client of conn has gone away                            *)
  replies,  (* the responses sent on conn                                  *)
  found,    (* history: what was behind the URI when conn was accepted     *)
  failed    (* history: creating or writing conn's file failed, as on a    *)
            (* full disk                                                   *)

vars == <<file, request, conn, pc, fds, pass, gone, replies, found, failed>>

(* "readonly" may be read and not written, "denied" neither; "barred" is   *)
(* absent and may not be created.                                          *)
Kinds == {"file", "readonly", "dir", "denied", "absent", "barred"}
Missing == {"absent", "barred"}
Unwritten(k) == [kind |-> k, by |-> Nobody, size |-> 0]
Written(c, n) == [kind |-> "file", by |-> c, size |-> n]
Nothing == Unwritten("absent")

ASSUME InitialsAssumption == Initials \subseteq [Uris -> Kinds]

(* "SLOW" is a header that is never finished, "BAD" one that does not      *)
(* match, "OLD" one of another version, "OTHER" one of another method.     *)
NoRequest == [method |-> "NONE"]
Refused == {"SLOW", "BAD", "OLD", "OTHER"}
Requests ==
  [method : Refused]
  \cup [method : {"GET"}, uri : Uris]
  \cup [method : {"PUT"}, uri : Uris, body : 0..MaxBody, ends : {"eof", "timeout"}]

(* build_request looks for "Content_Length:", which no header that its     *)
(* regular expression lets through can be called.                          *)
ContentLength == 0

Req == request[conn]
Here == file[Req.uri]
Step(from, to) == pc = from /\ pc' = to
Reply(code, body) == replies' = Append(replies, [code |-> code, body |-> body])
FdsLeft == MaxFds - Cardinality(fds) - (IF conn = Nobody THEN 0 ELSE 1)

-----------------------------------------------------------------------------
(* main, for every request *)

Accept(c, r) ==
  /\ Step("accept", "dispatch")
  /\ FdsLeft > 0
  /\ request[c] = NoRequest
  /\ request' = [request EXCEPT ![c] = r]
  /\ conn' = c
  /\ pass' = 0
  /\ gone' = FALSE
  /\ replies' = <<>>
  /\ found' = IF "uri" \in DOMAIN r THEN file[r.uri] ELSE Nothing
  /\ failed' = FALSE
  /\ UNCHANGED <<file, fds>>

(* my_read's failure is answered, and then the header taken for a bad one. *)
Codes(method) ==
  CASE method = "SLOW"  -> <<500, 400>>
    [] method = "BAD"   -> <<400>>
    [] method = "OLD"   -> <<505>>
    [] method = "OTHER" -> <<501>>

Refuse ==
  /\ Step("dispatch", "close")
  /\ Req.method \in Refused
  /\ replies' = [i \in DOMAIN Codes(Req.method) |->
                   [code |-> Codes(Req.method)[i], body |-> Nothing]]
  /\ UNCHANGED <<file, request, conn, fds, pass, gone, found, failed>>

Close ==
  /\ Step("close", "accept")
  /\ conn' = Nobody
  /\ UNCHANGED <<file, request, fds, pass, gone, replies, found, failed>>

-----------------------------------------------------------------------------
(* GET *)

Servable == Here.kind \in {"file", "readonly"}

(* A directory passes for a file. *)
CheckFileVariant ==
  /\ Step("dispatch", "open")
  /\ Req.method = "GET"
  /\ \/ Here.kind \in Missing /\ Reply(404, Nothing)
     \/ Here.kind = "denied" /\ Reply(403, Nothing)
     \/ Here.kind = "dir" /\ UNCHANGED replies
     \/ Servable /\ UNCHANGED replies
  /\ UNCHANGED <<file, request, conn, fds, pass, gone, found, failed>>

(* check_file answers what it refuses, and returns the code, which is true *)
(* like its 1: main opens the file in either case.                         *)
CheckFile ==
  /\ Step("dispatch", "open")
  /\ Req.method = "GET"
  /\ \/ Here.kind \in Missing /\ Reply(404, Nothing)
     \/ Here.kind \in {"denied", "dir"} /\ Reply(403, Nothing)
     \/ Servable /\ UNCHANGED replies
  /\ UNCHANGED <<file, request, conn, fds, pass, gone, found, failed>>

CanRead == Here.kind \in {"file", "readonly", "dir"} /\ FdsLeft > 0

GetMissing ==
  /\ Step("open", "close")
  /\ ~CanRead
  /\ Reply(404, Nothing)
  /\ UNCHANGED <<file, request, conn, fds, pass, gone, found, failed>>

GetOpen ==
  /\ Step("open", "send")
  /\ CanRead
  /\ fds' = fds \cup {conn}
  /\ UNCHANGED <<file, request, conn, pass, gone, replies, found, failed>>

(* The file is closed only where reading it failed. *)
GetSendVariant ==
  /\ Step("send", "close")
  /\ Reply(200, IF Here.kind = "dir" THEN Nothing ELSE Here)
  /\ fds' = IF Here.kind = "dir" THEN fds \ {conn} ELSE fds
  /\ UNCHANGED <<file, request, conn, pass, gone, found, failed>>

(* 200 and the contents; of a directory nothing can be read. *)
GetSend ==
  /\ Step("send", "close")
  /\ Reply(200, IF Here.kind = "dir" THEN Nothing ELSE Here)
  /\ fds' = fds \ {conn}
  /\ UNCHANGED <<file, request, conn, pass, gone, found, failed>>

-----------------------------------------------------------------------------
(* PUT *)

(* The second open, which creates the file, is left out. *)
PutOpenVariant ==
  /\ Step("dispatch", "receive")
  /\ Req.method = "PUT"
  /\ IF Here.kind = "file" /\ FdsLeft > 0
     THEN /\ file' = [file EXCEPT ![Req.uri] = Written(conn, 0)]
          /\ fds' = fds \cup {conn}
     ELSE UNCHANGED <<file, fds>>
  /\ UNCHANGED <<request, conn, pass, gone, replies, found, failed>>

CanWrite == Here.kind \in {"file", "absent"} /\ FdsLeft > 0

(* open truncates the file that is there, or else creates it; if it cannot *)
(* (no descriptor is left, the file may not be written, or the disk has no *)
(* room for another), put_write goes on with the descriptor -1.            *)
PutOpen ==
  /\ Step("dispatch", "receive")
  /\ Req.method = "PUT"
  /\ \/ /\ CanWrite
        /\ file' = [file EXCEPT ![Req.uri] = Written(conn, 0)]
        /\ fds' = fds \cup {conn}
        /\ UNCHANGED failed
     \/ /\ ~CanWrite \/ Here.kind = "absent"
        /\ failed' = CanWrite
        /\ UNCHANGED <<file, fds>>
  /\ UNCHANGED <<request, conn, pass, gone, replies, found>>

(* A byte more than the body has. *)
PutByteVariant ==
  /\ pc = "receive"
  /\ conn \in fds
  /\ pass <= Req.body
  /\ pass' = pass + 1
  /\ file' = [file EXCEPT ![Req.uri] = Written(conn, pass + 1)]
  /\ UNCHANGED <<request, conn, pc, fds, gone, replies, found, failed>>

(* put_write: a byte at a time. *)
PutByte ==
  /\ pc = "receive"
  /\ conn \in fds
  /\ pass < Req.body
  /\ pass' = pass + 1
  /\ file' = [file EXCEPT ![Req.uri] = Written(conn, pass + 1)]
  /\ UNCHANGED <<request, conn, pc, fds, gone, replies, found, failed>>

(* A silent client is waited for again. *)
PutFailsVariant ==
  /\ Step("receive", "answer")
  /\ conn \notin fds /\ pass < Req.body
  /\ UNCHANGED <<file, request, conn, fds, pass, gone, replies, found, failed>>

(* pass_n_bytes fails: the client is silent, there is no file to write, or *)
(* the byte that came cannot be written to it.                             *)
PutFails ==
  /\ Step("receive", "answer")
  /\ \/ conn \notin fds /\ pass < Req.body /\ UNCHANGED failed
     \/ pass = Req.body /\ Req.ends = "timeout" /\ UNCHANGED failed
     \/ conn \in fds /\ pass < Req.body /\ failed' = TRUE
  /\ fds' = fds \ {conn}
  /\ UNCHANGED <<file, request, conn, pass, gone, replies, found>>

(* The body has ended: the loop goes on while pass <= content_length, and  *)
(* the descriptor is not closed after it.                                  *)
PutEnds ==
  /\ Step("receive", "answer")
  /\ pass = Req.body /\ Req.ends = "eof"
  /\ pass > ContentLength
  /\ UNCHANGED <<file, request, conn, fds, pass, gone, replies, found, failed>>

(* Whatever came of it, the client is told that it went well. *)
PutAnswer ==
  /\ Step("answer", "close")
  /\ Reply(IF found.kind \in Missing THEN 201 ELSE 200, Nothing)
  /\ UNCHANGED <<file, request, conn, fds, pass, gone, found, failed>>

-----------------------------------------------------------------------------
(* A client may go away; writing to it then may kill the server, which     *)
(* leaves SIGPIPE as it is.                                                *)

Leave ==
  /\ conn # Nobody /\ ~gone
  /\ pc # "dead"
  /\ gone' = TRUE
  /\ UNCHANGED <<file, request, conn, pc, fds, pass, replies, found, failed>>

Killed ==
  /\ gone
  /\ pc = "dispatch" => Req.method \in Refused \/ (Req.method = "GET" /\ ~Servable)
  /\ pc = "open" => ~CanRead
  /\ pc \in {"dispatch", "open", "send", "answer"}
  /\ pc' = "dead"
  /\ UNCHANGED <<file, request, conn, fds, pass, gone, replies, found, failed>>

-----------------------------------------------------------------------------

Init ==
  /\ \E kind \in Initials : file = [u \in Uris |-> Unwritten(kind[u])]
  /\ request = [c \in Conns |-> NoRequest]
  /\ conn = Nobody
  /\ pc = "accept"
  /\ fds = {}
  /\ pass = 0
  /\ gone = FALSE
  /\ replies = <<>>
  /\ found = Nothing
  /\ failed = FALSE

Serve ==
  \/ Refuse \/ CheckFile \/ GetMissing \/ GetOpen \/ GetSend
  \/ PutOpen \/ PutByte \/ PutFails \/ PutEnds \/ PutAnswer
  \/ Close \/ Killed

Next == (\E c \in Conns, r \in Requests : Accept(c, r)) \/ Leave \/ Serve

Spec == Init /\ [][Next]_vars

(* main goes on; reads end by the client or by the timeout. *)
FairSpec == Spec /\ WF_vars(Serve)

-----------------------------------------------------------------------------
(* Properties *)

Contents == [kind : Kinds, by : Conns \cup {Nobody}, size : 0..MaxBody]
Responses == [code : {200, 201, 400, 403, 404, 500, 501, 505}, body : Contents]

(* What is stored, asked, sent and open is of the kinds the code produces, *)
(* and no more is passed on than a body may have (httpserver.c:33-96).     *)
TypeOK ==
  /\ file \in [Uris -> Contents]
  /\ request \in [Conns -> Requests \cup {NoRequest}]
  /\ conn \in Conns \cup {Nobody}
  /\ pc \in {"accept", "dispatch", "open", "send", "receive", "answer", "close", "dead"}
  /\ pc = "accept" <=> conn = Nobody
  /\ fds \subseteq Conns
  /\ pass \in 0..MaxBody
  /\ gone \in BOOLEAN
  /\ replies \in Seq(Responses)
  /\ found \in Contents
  /\ failed \in BOOLEAN

(* Between two connections no descriptor is open but those of PUTs whose   *)
(* body came and ended, and they never leave none for the next connection: *)
(* accept goes on for ever (io.c:78-108, httpserver.c:34).                 *)
DescriptorsAccounted ==
  conn = Nobody =>
    /\ FdsLeft > 0
    /\ \A c \in fds :
         /\ request[c].method = "PUT"
         /\ request[c].ends = "eof" /\ request[c].body > ContentLength

NoFdForFile == Cardinality(fds \ {conn}) >= MaxFds - 1

(* The first response to a GET says the truth about the file and carries   *)
(* its contents, but for the 404 of a server that has no descriptor left;  *)
(* a second one follows only a refusal (httpserver.c:47-73, io.c:12-38).   *)
GetAnsweredTruly ==
  pc = "close" /\ Req.method = "GET" =>
    LET first == replies[1]
    IN  /\ first.code = 200 => found.kind \in {"file", "readonly"} /\ first.body = found
        /\ first.code = 403 => found.kind \in {"dir", "denied"}
        /\ first.code = 404 => found.kind \in Missing \/ NoFdForFile
        /\ Len(replies) > 1 => found.kind \notin {"file", "readonly"}

Openable == found.kind \in {"file", "absent"} /\ ~NoFdForFile

(* When a PUT is answered, its file holds the bytes passed on, and these   *)
(* are all that came of its body unless writing failed; or it is as it     *)
(* was, if it could not be opened or created (httpserver.c:75-86,          *)
(* io.c:78-91).                                                            *)
PutStored ==
  pc = "close" /\ Req.method = "PUT" =>
    \/ /\ Openable
       /\ Here = Written(conn, pass)
       /\ pass = Req.body \/ failed
    \/ /\ ~Openable \/ (failed /\ found.kind = "absent")
       /\ Here = found


(* put_write never returns from a body that ends before it began. *)
Stuck ==
  /\ pc = "receive"
  /\ Req.body = 0 /\ Req.ends = "eof"

(* Every connection is answered and closed, unless the server is stuck in  *)
(* that loop or was killed by a client that went away (io.c:81-88,         *)
(* httpserver.c:33-96).                                                    *)
AnsweredOrStuck ==
  conn # Nobody ~> (conn = Nobody /\ replies # <<>>) \/ Stuck \/ (gone /\ pc = "dead")

=============================================================================
