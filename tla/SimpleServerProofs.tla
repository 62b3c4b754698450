------------------------- MODULE SimpleServerProofs -------------------------
(***************************************************************************)
(* Proofs about SimpleServer for any finite set of connections, any URIs   *)
(* and files behind them, bodies of any length and any number of           *)
(* descriptors.  IInv is the inductive invariant: next to the types it     *)
(* says which request each step of main is for, whose descriptors are      *)
(* open, and what a GET was told and a PUT has stored up to that step.     *)
(***************************************************************************)
EXTENDS SimpleServer, FiniteSetTheorems, TLAPS

(* Which request main's next step is for. *)
Control ==
  /\ conn # Nobody => Req # NoRequest
  /\ pc \in {"open", "send"} => Req.method = "GET"
  /\ pc \in {"receive", "answer"} => Req.method = "PUT"
  /\ pc = "dispatch" => pass = 0 /\ replies = <<>>
  /\ pc = "receive" => pass <= Req.body

(* A PUT whose body came and ended, and so left its descriptor open. *)
Kept(c) ==
  /\ request[c].method = "PUT"
  /\ request[c].ends = "eof"
  /\ request[c].body > ContentLength

(* Whose descriptors are open, and that there is one left to accept with. *)
Owners ==
  /\ Cardinality(fds) < MaxFds
  /\ \A c \in fds : request[c] # NoRequest
  /\ \A c \in fds : c # conn => Kept(c)
  /\ pc \in {"dispatch", "open"} => conn \notin fds
  /\ pc \in {"answer", "close"} /\ conn \in fds => Kept(conn)

(* What check_file has told a GET before the file is opened. *)
Checked ==
  \/ replies = <<>> /\ found.kind \in {"file", "readonly"}
  \/ /\ Len(replies) = 1
     /\ \/ replies[1].code = 404 /\ found.kind \in Missing
        \/ replies[1].code = 403 /\ found.kind \in {"denied", "dir"}

GetsInformed ==
  /\ pc = "dispatch" /\ Req.method = "GET" => found = Here
  /\ pc \in {"open", "send"} => found = Here /\ Checked
  /\ GetAnsweredTruly

(* The two things that become of the file of a PUT. *)
Stored == Openable /\ Here = Written(conn, pass)
Untouched == (~Openable \/ (failed /\ found.kind = "absent")) /\ Here = found

PutsStored ==
  /\ pc = "dispatch" /\ Req.method = "PUT" => found = Here /\ ~failed
  /\ pc = "receive" => IF conn \in fds THEN Stored ELSE Untouched
  /\ pc = "answer" => (Stored /\ (pass = Req.body \/ failed)) \/ Untouched
  /\ PutStored

IInv ==
  /\ TypeOK
  /\ Control
  /\ Owners
  /\ GetsInformed
  /\ PutsStored

-----------------------------------------------------------------------------
(* Requests, contents of files, responses and sets of descriptors. *)

LEMMA RequestKinds ==
  ASSUME NEW r \in Requests
  PROVE  /\ r # NoRequest
         /\ r.method \in Refused \cup {"GET", "PUT"}
         /\ r.method \in {"GET", "PUT"} => r.uri \in Uris /\ "uri" \in DOMAIN r
         /\ r.method = "PUT" => r.body \in 0 .. MaxBody /\ r.ends \in {"eof", "timeout"}
<1>1. CASE r \in [method : Refused]
  BY <1>1 DEF Refused, NoRequest
<1>2. CASE r \in [method : {"GET"}, uri : Uris]
  BY <1>2 DEF NoRequest
<1>3. CASE r \in [method : {"PUT"}, uri : Uris, body : 0 .. MaxBody, ends : {"eof", "timeout"}]
  BY <1>3 DEF NoRequest
<1> QED
  BY <1>1, <1>2, <1>3 DEF Requests

(* The request of the connection being served. *)
LEMMA Serving ==
  ASSUME TypeOK, Control, conn # Nobody
  PROVE  /\ conn \in Conns
         /\ Req \in Requests
         /\ Req.method \in {"GET", "PUT"} => Req.uri \in Uris /\ Here \in Contents
<1>1. conn \in Conns
  BY DEF TypeOK
<1>2. Req \in Requests
  BY <1>1 DEF TypeOK, Control, Req
<1>3. Req.method \in {"GET", "PUT"} => Req.uri \in Uris
  BY <1>2, RequestKinds
<1> QED
  BY <1>1, <1>2, <1>3 DEF TypeOK, Here

LEMMA ContentsMade ==
  /\ \A k \in Kinds : Unwritten(k) \in Contents /\ Unwritten(k).kind = k
  /\ Nothing \in Contents
  /\ \A c \in Conns, n \in 0 .. MaxBody : Written(c, n) \in Contents /\ Written(c, n).kind = "file"
<1>1. \A k \in Kinds : Unwritten(k) \in Contents /\ Unwritten(k).kind = k
  BY BodyAssumption DEF Unwritten, Contents
<1>2. "absent" \in Kinds /\ "file" \in Kinds
  BY DEF Kinds
<1>3. \A c \in Conns, n \in 0 .. MaxBody : Written(c, n) \in Contents /\ Written(c, n).kind = "file"
  BY <1>2 DEF Written, Contents
<1> QED
  BY <1>1, <1>2, <1>3 DEF Nothing

LEMMA Replying ==
  ASSUME TypeOK, NEW code \in {200, 201, 400, 403, 404, 500, 501, 505},
         NEW body \in Contents, Reply(code, body)
  PROVE  /\ replies' \in Seq(Responses)
         /\ Len(replies') = Len(replies) + 1 /\ Len(replies) \in Nat
         /\ \A i \in 1 .. Len(replies) : replies'[i] = replies[i]
         /\ replies'[Len(replies) + 1].code = code
         /\ replies'[Len(replies) + 1].body = body
<1>1. PICK r \in Responses : r.code = code /\ r.body = body /\ r = [code |-> code, body |-> body]
  <2> DEFINE w == [code |-> code, body |-> body]
  <2>1. w \in Responses
    BY DEF Responses
  <2>2. w.code = code /\ w.body = body
    OBVIOUS
  <2> QED
    BY <2>1, <2>2
<1>2. replies \in Seq(Responses) /\ replies' = Append(replies, r)
  BY <1>1 DEF TypeOK, Reply
<1> QED
  BY <1>1, <1>2

LEMMA Descriptors ==
  ASSUME TypeOK
  PROVE  /\ IsFiniteSet(fds) /\ Cardinality(fds) \in Nat
         /\ \A c : Cardinality(fds \cup {c}) = IF c \in fds THEN Cardinality(fds)
                                               ELSE Cardinality(fds) + 1
         /\ \A c : Cardinality(fds \ {c}) = IF c \in fds THEN Cardinality(fds) - 1
                                            ELSE Cardinality(fds)
<1>1. IsFiniteSet(fds)
  BY ConnsAssumption, FS_Subset DEF TypeOK
<1>2. Cardinality(fds) \in Nat
  BY <1>1, FS_CardinalityType
<1>3. \A c : Cardinality(fds \cup {c}) = IF c \in fds THEN Cardinality(fds) ELSE Cardinality(fds) + 1
  BY <1>1, FS_AddElement
<1>4. \A c : Cardinality(fds \ {c}) = IF c \in fds THEN Cardinality(fds) - 1 ELSE Cardinality(fds)
  BY <1>1, FS_RemoveElement
<1> QED
  BY <1>1, <1>2, <1>3, <1>4

(* The descriptors left, while a connection is being served. *)
LEMMA Left ==
  ASSUME TypeOK, conn # Nobody
  PROVE  /\ FdsLeft > 0 <=> Cardinality(fds) < MaxFds - 1
         /\ conn \notin fds => (NoFdForFile <=> ~(FdsLeft > 0))
<1>1. Cardinality(fds) \in Nat /\ (conn \notin fds => Cardinality(fds \ {conn}) = Cardinality(fds))
  BY Descriptors
<1>2. FdsLeft = MaxFds - Cardinality(fds) - 1
  BY DEF FdsLeft
<1> QED
  BY <1>1, <1>2, FdsAssumption DEF NoFdForFile

-----------------------------------------------------------------------------
(* What all of main's steps between an accept and a close leave alone. *)
Frame == (Serve /\ ~Close) \/ Leave

LEMMA FrameKeeps ==
  ASSUME Frame
  PROVE  UNCHANGED <<request, conn, found>> /\ Req' = Req
<1>1. UNCHANGED <<request, conn, found>>
  BY DEF Frame, Serve, Leave, Refuse, CheckFile, GetMissing, GetOpen, GetSend, PutOpen, PutByte,
         PutFails, PutEnds, PutAnswer, Killed
<1> QED
  BY <1>1 DEF Req

LEMMA TypesKept ==
  ASSUME IInv, [Next]_vars
  PROVE  TypeOK'
<1>0. TypeOK /\ Control
  BY DEF IInv
<1>1. ASSUME NEW c \in Conns, NEW r \in Requests, Accept(c, r)
      PROVE  TypeOK'
  <2>1. found' \in Contents
    <3>1. "uri" \in DOMAIN r => r.uri \in Uris
      <4>1. r.method \in Refused => "uri" \notin DOMAIN r
        BY DEF Requests, Refused
      <4> QED
        BY <4>1, RequestKinds
    <3> QED
      BY <1>0, <1>1, <3>1, ContentsMade DEF Accept, TypeOK
  <2>2. c # Nobody
    BY ConnsAssumption
  <2>3. request' \in [Conns -> Requests \cup {NoRequest}]
    BY <1>0, <1>1 DEF Accept, TypeOK
  <2>4. replies' \in Seq(Responses) /\ 0 \in 0 .. MaxBody
    BY <1>1, BodyAssumption DEF Accept
  <2> QED
    BY <1>0, <1>1, <2>1, <2>2, <2>3, <2>4 DEF Accept, TypeOK, Step
<1>2. CASE Refuse
  <2>1. replies' \in Seq(Responses)
    <3>1. conn # Nobody /\ Req.method \in Refused
      BY <1>0, <1>2 DEF Refuse, Step, TypeOK
    <3>2. PICK m \in Refused : m = Req.method
      BY <3>1
    <3>3. Codes(m) \in Seq({400, 500, 501, 505})
      <4>1. CASE m = "SLOW"
        BY <4>1 DEF Codes
      <4>2. CASE m = "BAD"
        BY <4>2 DEF Codes
      <4>3. CASE m = "OLD"
        BY <4>3 DEF Codes
      <4>4. CASE m = "OTHER"
        BY <4>4 DEF Codes
      <4> QED
        BY <4>1, <4>2, <4>3, <4>4 DEF Refused
    <3>4. replies' = [i \in DOMAIN Codes(m) |-> [code |-> Codes(m)[i], body |-> Nothing]]
      BY <1>2, <3>2 DEF Refuse
    <3>5. \A i \in DOMAIN Codes(m) : [code |-> Codes(m)[i], body |-> Nothing] \in Responses
      BY <3>3, ContentsMade DEF Responses
    <3> QED
      BY <3>3, <3>4, <3>5
  <2> QED
    BY <1>0, <1>2, <2>1 DEF Refuse, Step, TypeOK
<1>3. CASE CheckFile
  <2>1. replies' \in Seq(Responses)
    <3>1. Reply(404, Nothing) \/ Reply(403, Nothing) \/ replies' = replies
      BY <1>3 DEF CheckFile
    <3> QED
      BY <1>0, <3>1, ContentsMade, Replying DEF TypeOK
  <2> QED
    BY <1>0, <1>3, <2>1 DEF CheckFile, Step, TypeOK
<1>4. CASE GetMissing
  <2>1. replies' \in Seq(Responses)
    BY <1>0, <1>4, ContentsMade, Replying DEF GetMissing
  <2> QED
    BY <1>0, <1>4, <2>1 DEF GetMissing, Step, TypeOK
<1>5. CASE GetOpen
  BY <1>0, <1>5 DEF GetOpen, Step, TypeOK
<1>6. CASE GetSend
  <2>1. replies' \in Seq(Responses)
    <3>1. Here \in Contents
      BY <1>0, <1>6, Serving DEF GetSend, Step, TypeOK, Control
    <3> QED
      BY <1>0, <1>6, <3>1, ContentsMade, Replying DEF GetSend
  <2> QED
    BY <1>0, <1>6, <2>1 DEF GetSend, Step, TypeOK
<1>7. CASE PutOpen
  <2>1. conn \in Conns /\ Req.uri \in Uris
    BY <1>0, <1>7, Serving DEF PutOpen, Step, TypeOK
  <2>2. Written(conn, 0) \in Contents
    BY <2>1, ContentsMade, BodyAssumption
  <2>3. file' \in [Uris -> Contents] /\ fds' \subseteq Conns
    BY <1>0, <1>7, <2>1, <2>2 DEF PutOpen, TypeOK
  <2>4. failed' \in BOOLEAN
    BY <1>0, <1>7 DEF PutOpen, CanWrite, TypeOK
  <2> QED
    BY <1>0, <1>7, <2>3, <2>4 DEF PutOpen, Step, TypeOK
<1>8. CASE PutByte
  <2>1. conn \in Conns /\ Req.uri \in Uris /\ Req.body \in 0 .. MaxBody
    <3>1. conn # Nobody /\ Req.method = "PUT"
      BY <1>0, <1>8 DEF PutByte, TypeOK, Control
    <3> QED
      BY <1>0, <3>1, Serving, RequestKinds
  <2>2. pass + 1 \in 0 .. MaxBody
    BY <1>0, <1>8, <2>1, BodyAssumption DEF PutByte, TypeOK
  <2>3. Written(conn, pass + 1) \in Contents
    BY <2>1, <2>2, ContentsMade
  <2>4. file' \in [Uris -> Contents]
    BY <1>0, <1>8, <2>1, <2>3 DEF PutByte, TypeOK
  <2> QED
    BY <1>0, <1>8, <2>2, <2>4 DEF PutByte, TypeOK
<1>9. CASE PutFails
  BY <1>0, <1>9 DEF PutFails, Step, TypeOK
<1>10. CASE PutEnds
  BY <1>0, <1>10 DEF PutEnds, Step, TypeOK
<1>11. CASE PutAnswer
  <2>1. replies' \in Seq(Responses)
    <3>1. Reply(201, Nothing) \/ Reply(200, Nothing)
      BY <1>11 DEF PutAnswer
    <3> QED
      BY <1>0, <3>1, ContentsMade, Replying
  <2> QED
    BY <1>0, <1>11, <2>1 DEF PutAnswer, Step, TypeOK
<1>12. CASE Close
  BY <1>0, <1>12 DEF Close, Step, TypeOK
<1>13. CASE Killed
  BY <1>0, <1>13 DEF Killed, TypeOK
<1>14. CASE Leave
  BY <1>0, <1>14 DEF Leave, TypeOK
<1>15. CASE UNCHANGED vars
  BY <1>0, <1>15 DEF vars, TypeOK
<1> QED
  BY <1>1, <1>2, <1>3, <1>4, <1>5, <1>6, <1>7, <1>8, <1>9, <1>10, <1>11, <1>12, <1>13, <1>14, <1>15
  DEF Next, Serve

LEMMA ControlKept ==
  ASSUME IInv, [Next]_vars
  PROVE  Control'
<1>0. TypeOK /\ Control
  BY DEF IInv
<1>1. ASSUME NEW c \in Conns, NEW r \in Requests, Accept(c, r)
      PROVE  Control'
  <2>1. /\ conn' = c /\ pc' = "dispatch" /\ pass' = 0 /\ replies' = <<>>
        /\ request' = [request EXCEPT ![c] = r]
    BY <1>1 DEF Accept, Step
  <2>2. Req' = r
    BY <1>0, <2>1 DEF Req, TypeOK
  <2> QED
    BY <2>1, <2>2, RequestKinds DEF Control
<1>2. ASSUME Frame
      PROVE  Control'
  <2>1. UNCHANGED <<conn, request>> /\ Req' = Req
    BY <1>2, FrameKeeps
  <2>2. pc' \in {"open", "send"} => Req.method = "GET"
    BY <1>0, <1>2 DEF Frame, Serve, Leave, Refuse, CheckFile, GetMissing, GetOpen, GetSend,
         PutOpen, PutByte, PutFails, PutEnds, PutAnswer, Killed, Step, Control
  <2>3. pc' \in {"receive", "answer"} => Req.method = "PUT"
    BY <1>0, <1>2 DEF Frame, Serve, Leave, Refuse, CheckFile, GetMissing, GetOpen, GetSend,
         PutOpen, PutByte, PutFails, PutEnds, PutAnswer, Killed, Step, Control
  <2>4. pc' = "dispatch" => pc = "dispatch" /\ UNCHANGED <<pass, replies>>
    BY <1>2 DEF Frame, Serve, Leave, Refuse, CheckFile, GetMissing, GetOpen, GetSend,
         PutOpen, PutByte, PutFails, PutEnds, PutAnswer, Killed, Step
  <2>5. pc' = "receive" => PutOpen \/ PutByte \/ (pc = "receive" /\ pass' = pass)
    BY <1>2 DEF Frame, Serve, Leave, Refuse, CheckFile, GetMissing, GetOpen, GetSend,
         PutFails, PutEnds, PutAnswer, Killed, Step
  <2>6. ASSUME pc' = "receive"
        PROVE  pass' <= Req.body
    <3>1. Req.body \in 0 .. MaxBody /\ pass \in Nat
      <4>1. conn # Nobody
        BY <1>0, <2>6, <2>5 DEF TypeOK, PutOpen, PutByte, Step
      <4> QED
        BY <1>0, <2>3, <2>6, <4>1, Serving, RequestKinds, BodyAssumption DEF TypeOK
    <3>2. CASE PutOpen
      BY <1>0, <3>1, <3>2, BodyAssumption DEF PutOpen, Step, Control
    <3>3. CASE PutByte
      BY <3>1, <3>3, BodyAssumption DEF PutByte
    <3>4. CASE pc = "receive" /\ pass' = pass
      BY <1>0, <3>4 DEF Control
    <3> QED
      BY <2>5, <2>6, <3>2, <3>3, <3>4
  <2> QED
    BY <1>0, <2>1, <2>2, <2>3, <2>4, <2>6 DEF Control
<1>3. CASE Close
  BY <1>3 DEF Close, Step, Control
<1>4. CASE UNCHANGED vars
  BY <1>0, <1>4 DEF vars, Control, Req
<1> QED
  BY <1>1, <1>2, <1>3, <1>4 DEF Next, Frame, Serve

(* The descriptors: a step opens or closes that of conn at the most. *)
LEMMA OwnersKept ==
  ASSUME IInv, [Next]_vars
  PROVE  Owners'
<1>0. TypeOK /\ Control /\ Owners
  BY DEF IInv
<1>1. Cardinality(fds) \in Nat
  BY <1>0, Descriptors
<1>2. ASSUME NEW c \in Conns, NEW r \in Requests, Accept(c, r)
      PROVE  Owners'
  <2>1. /\ conn' = c /\ conn = Nobody /\ pc' = "dispatch" /\ fds' = fds
        /\ request[c] = NoRequest /\ request' = [request EXCEPT ![c] = r]
    BY <1>0, <1>2 DEF Accept, Step, TypeOK
  <2>2. c \notin fds
    BY <1>0, <2>1 DEF Owners
  <2>3. \A d \in fds : request'[d] = request[d] /\ d # conn
    BY <1>0, <2>1, <2>2, ConnsAssumption DEF TypeOK
  <2> QED
    BY <1>0, <2>1, <2>2, <2>3 DEF Owners, Kept
<1>3. ASSUME Frame, fds' = fds,
             pc' \in {"dispatch", "open"} => pc \in {"dispatch", "open"},
             pc' \in {"answer", "close"} /\ conn \in fds => Kept(conn)
      PROVE  Owners'
  <2>1. UNCHANGED <<conn, request>>
    BY <1>3, FrameKeeps
  <2> QED
    BY <1>0, <1>3, <2>1 DEF Owners, Kept
<1>4. ASSUME Frame, fds' = fds \cup {conn}, FdsLeft > 0, pc' \in {"send", "receive"}, conn # Nobody
      PROVE  Owners'
  <2>1. UNCHANGED <<conn, request>>
    BY <1>4, FrameKeeps
  <2>2. Cardinality(fds) < MaxFds - 1
    BY <1>0, <1>4, Left
  <2>3. Cardinality(fds') <= Cardinality(fds) + 1
    BY <1>0, <1>1, <1>4, Descriptors
  <2>4. Cardinality(fds') < MaxFds
    <3>1. Cardinality(fds') \in Nat
      BY <1>0, <1>1, <1>4, Descriptors
    <3> QED
      BY <1>1, <2>2, <2>3, <3>1, FdsAssumption
  <2>5. request[conn] # NoRequest
    BY <1>0, <1>4 DEF Control, Req
  <2> QED
    BY <1>0, <1>4, <2>1, <2>4, <2>5 DEF Owners, Kept
<1>5. ASSUME Frame, fds' = fds \ {conn}, pc' \in {"close", "answer"}
      PROVE  Owners'
  <2>1. UNCHANGED <<conn, request>>
    BY <1>5, FrameKeeps
  <2>2. Cardinality(fds') < MaxFds
    <3>1. Cardinality(fds') \in Nat /\ Cardinality(fds') <= Cardinality(fds)
      <4>1. Cardinality(fds') = IF conn \in fds THEN Cardinality(fds) - 1 ELSE Cardinality(fds)
        BY <1>0, <1>5, Descriptors
      <4>2. TypeOK'
        BY TypesKept
      <4>3. Cardinality(fds') \in Nat
        <5>1. IsFiniteSet(fds')
          BY <4>2, ConnsAssumption, FS_Subset DEF TypeOK
        <5> QED
          BY <5>1, FS_CardinalityType
      <4> QED
        BY <1>1, <4>1, <4>3
    <3> QED
      BY <1>0, <1>1, <3>1, FdsAssumption DEF Owners
  <2> QED
    BY <1>0, <1>5, <2>1, <2>2 DEF Owners, Kept
<1>6. CASE Refuse
  <2>1. pc = "dispatch" /\ pc' = "close" /\ fds' = fds /\ conn \notin fds
    BY <1>0, <1>6 DEF Refuse, Step, Owners
  <2> QED
    BY <1>3, <1>6, <2>1 DEF Frame, Serve, Close, Step
<1>7. CASE CheckFile
  <2>1. pc = "dispatch" /\ pc' = "open" /\ fds' = fds
    BY <1>7 DEF CheckFile, Step
  <2> QED
    BY <1>3, <1>7, <2>1 DEF Frame, Serve, Close, Step
<1>8. CASE GetMissing
  <2>1. pc = "open" /\ pc' = "close" /\ fds' = fds /\ conn \notin fds
    BY <1>0, <1>8 DEF GetMissing, Step, Owners
  <2> QED
    BY <1>3, <1>8, <2>1 DEF Frame, Serve, Close, Step
<1>9. CASE GetOpen
  <2>1. pc = "open" /\ pc' = "send" /\ fds' = fds \cup {conn} /\ FdsLeft > 0 /\ conn # Nobody
    BY <1>0, <1>9 DEF GetOpen, CanRead, Step, TypeOK
  <2> QED
    BY <1>4, <1>9, <2>1 DEF Frame, Serve, Close, Step
<1>10. CASE GetSend
  <2>1. pc = "send" /\ pc' = "close" /\ fds' = fds \ {conn}
    BY <1>10 DEF GetSend, Step
  <2> QED
    BY <1>5, <1>10, <2>1 DEF Frame, Serve, Close, Step
<1>11. CASE PutOpen
  <2>1. pc = "dispatch" /\ pc' = "receive" /\ conn # Nobody
        /\ (fds' = fds \/ (fds' = fds \cup {conn} /\ FdsLeft > 0))
    BY <1>0, <1>11 DEF PutOpen, CanWrite, Step, TypeOK
  <2>2. Frame
    BY <1>11, <2>1 DEF Frame, Serve, Close, Step
  <2> QED
    BY <1>3, <1>4, <2>1, <2>2
<1>12. CASE PutByte
  <2>1. pc = "receive" /\ pc' = "receive" /\ fds' = fds
    BY <1>12 DEF PutByte
  <2> QED
    BY <1>3, <1>12, <2>1 DEF Frame, Serve, Close, Step
<1>13. CASE PutFails
  <2>1. pc = "receive" /\ pc' = "answer" /\ fds' = fds \ {conn}
    BY <1>13 DEF PutFails, Step
  <2> QED
    BY <1>5, <1>13, <2>1 DEF Frame, Serve, Close, Step
<1>14. CASE PutEnds
  <2>1. pc = "receive" /\ pc' = "answer" /\ fds' = fds
        /\ pass = Req.body /\ Req.ends = "eof" /\ pass > ContentLength
    BY <1>14 DEF PutEnds, Step
  <2>2. Kept(conn)
    BY <1>0, <2>1 DEF Kept, Req, Control
  <2> QED
    BY <1>3, <1>14, <2>1, <2>2 DEF Frame, Serve, Close, Step
<1>15. CASE PutAnswer
  <2>1. pc = "answer" /\ pc' = "close" /\ fds' = fds
    BY <1>15 DEF PutAnswer, Step
  <2>2. conn \in fds => Kept(conn)
    BY <1>0, <2>1 DEF Owners
  <2> QED
    BY <1>3, <1>15, <2>1, <2>2 DEF Frame, Serve, Close, Step
<1>16. CASE Close
  <2>1. /\ pc = "close" /\ pc' = "accept" /\ conn' = Nobody /\ UNCHANGED <<fds, request>>
    BY <1>16 DEF Close, Step
  <2>2. \A c \in fds : Kept(c)
    BY <1>0, <2>1 DEF Owners
  <2> QED
    BY <1>0, <2>1, <2>2 DEF Owners, Kept
<1>17. CASE Killed
  <2>1. pc' = "dead" /\ fds' = fds /\ pc # "close"
    BY <1>17 DEF Killed
  <2> QED
    BY <1>3, <1>17, <2>1 DEF Frame, Serve, Close, Step
<1>18. CASE Leave
  <2>1. pc' = pc /\ fds' = fds
    BY <1>18 DEF Leave
  <2> QED
    BY <1>0, <1>3, <1>18, <2>1 DEF Frame, Owners
<1>19. CASE UNCHANGED vars
  BY <1>0, <1>19 DEF vars, Owners, Kept
<1> QED
  BY <1>2, <1>6, <1>7, <1>8, <1>9, <1>10, <1>11, <1>12, <1>13, <1>14, <1>15, <1>16, <1>17, <1>18, <1>19
  DEF Next, Serve

(* A step that leaves the files alone leaves what is behind the URI alone. *)
LEMMA SameFile ==
  ASSUME Frame, file' = file
  PROVE  Here' = Here
BY FrameKeeps DEF Here

(* The request accepted finds what is behind its URI. *)
LEMMA FoundIsHere ==
  ASSUME IInv, NEW c \in Conns, NEW r \in Requests, Accept(c, r)
  PROVE  /\ pc' = "dispatch" /\ Req' = r /\ ~failed'
         /\ r.method \in {"GET", "PUT"} => found' = Here'
<1>1. /\ pc' = "dispatch" /\ conn' = c /\ file' = file /\ ~failed'
      /\ request' = [request EXCEPT ![c] = r]
      /\ found' = IF "uri" \in DOMAIN r THEN file[r.uri] ELSE Nothing
  BY DEF Accept, Step
<1>2. Req' = r
  BY <1>1 DEF IInv, TypeOK, Req
<1>3. r.method \in {"GET", "PUT"} => "uri" \in DOMAIN r
  BY RequestKinds
<1>4. Here' = file[r.uri]
  BY <1>1, <1>2 DEF Here
<1> QED
  BY <1>1, <1>2, <1>3, <1>4

LEMMA GetsInformedKept ==
  ASSUME IInv, [Next]_vars
  PROVE  GetsInformed'
<1>0. TypeOK /\ Control /\ Owners /\ GetsInformed
  BY DEF IInv
<1>1. ASSUME NEW c \in Conns, NEW r \in Requests, Accept(c, r)
      PROVE  GetsInformed'
  <2>1. /\ pc' = "dispatch" /\ Req' = r
        /\ r.method \in {"GET", "PUT"} => found' = Here'
    BY <1>1, FoundIsHere
  <2> QED
    BY <2>1 DEF GetsInformed, GetAnsweredTruly
(* A step that is none of a GET's. *)
<1>2. ASSUME Frame, pc' \notin {"dispatch", "open", "send"},
             pc' = "close" => Req.method # "GET"
      PROVE  GetsInformed'
  <2>1. Req' = Req
    BY <1>2, FrameKeeps
  <2> QED
    BY <1>2, <2>1 DEF GetsInformed, GetAnsweredTruly
<1>3. CASE Refuse
  <2>1. pc' = "close" /\ Req.method # "GET" /\ Frame
    BY <1>3 DEF Refuse, Step, Refused, Frame, Serve, Close
  <2> QED
    BY <1>2, <2>1
<1>4. CASE CheckFile
  <2>1. /\ pc = "dispatch" /\ pc' = "open" /\ Req.method = "GET" /\ file' = file
        /\ Frame
    BY <1>4 DEF CheckFile, Step, Frame, Serve, Close
  <2>2. found' = found /\ Req' = Req /\ Here' = Here
    BY <2>1, FrameKeeps, SameFile
  <2>3. found = Here /\ replies = <<>>
    BY <1>0, <2>1 DEF GetsInformed, Control
  <2>4. CASE Servable /\ replies' = replies
    BY <2>1, <2>2, <2>3, <2>4 DEF Checked, Servable, GetsInformed, GetAnsweredTruly
  <2>5. CASE Here.kind \in Missing /\ Reply(404, Nothing)
    <3>1. Len(replies') = 1 /\ replies'[1].code = 404
      BY <1>0, <2>3, <2>5, ContentsMade, Replying
    <3> QED
      BY <2>1, <2>2, <2>3, <2>5, <3>1 DEF Checked, GetsInformed, GetAnsweredTruly
  <2>6. CASE Here.kind \in {"denied", "dir"} /\ Reply(403, Nothing)
    <3>1. Len(replies') = 1 /\ replies'[1].code = 403
      BY <1>0, <2>3, <2>6, ContentsMade, Replying
    <3> QED
      BY <2>1, <2>2, <2>3, <2>6, <3>1 DEF Checked, GetsInformed, GetAnsweredTruly
  <2> QED
    BY <1>4, <2>4, <2>5, <2>6 DEF CheckFile
<1>5. CASE GetMissing
  <2>1. /\ pc = "open" /\ pc' = "close" /\ file' = file /\ fds' = fds /\ ~CanRead
        /\ Reply(404, Nothing) /\ Frame /\ conn # Nobody
    BY <1>0, <1>5 DEF GetMissing, Step, Frame, Serve, Close, TypeOK
  <2>2. UNCHANGED <<found, conn>> /\ Req' = Req /\ NoFdForFile' = NoFdForFile
    BY <2>1, FrameKeeps DEF NoFdForFile
  <2>3. found = Here /\ Checked /\ conn \notin fds
    BY <1>0, <2>1 DEF GetsInformed, Owners
  <2>4. /\ Len(replies') = Len(replies) + 1 /\ Len(replies) \in Nat
        /\ \A i \in 1 .. Len(replies) : replies'[i] = replies[i]
        /\ replies'[Len(replies) + 1].code = 404
    BY <1>0, <2>1, ContentsMade, Replying
  <2>5. CASE replies = <<>> /\ found.kind \in {"file", "readonly"}
    <3>1. Len(replies') = 1 /\ replies'[1].code = 404
      BY <2>4, <2>5
    <3>2. NoFdForFile
      <4>1. ~(FdsLeft > 0)
        BY <2>1, <2>3, <2>5 DEF CanRead
      <4> QED
        BY <1>0, <2>1, <2>3, <4>1, Left
    <3> QED
      BY <2>1, <2>2, <3>1, <3>2 DEF GetsInformed, GetAnsweredTruly
  <2>6. CASE /\ Len(replies) = 1
             /\ \/ replies[1].code = 404 /\ found.kind \in Missing
                \/ replies[1].code = 403 /\ found.kind \in {"denied", "dir"}
    <3>1. replies'[1] = replies[1]
      BY <2>4, <2>6
    <3>2. found.kind \notin {"file", "readonly"}
      BY <2>6 DEF Missing
    <3> QED
      BY <2>1, <2>2, <2>6, <3>1, <3>2 DEF GetsInformed, GetAnsweredTruly
  <2> QED
    BY <2>3, <2>5, <2>6 DEF Checked
<1>6. CASE GetOpen
  <2>1. /\ pc = "open" /\ pc' = "send" /\ UNCHANGED <<file, replies>> /\ Frame
    BY <1>6 DEF GetOpen, Step, Frame, Serve, Close
  <2>2. found' = found /\ Here' = Here
    BY <2>1, FrameKeeps, SameFile
  <2> QED
    BY <1>0, <2>1, <2>2 DEF GetsInformed, Checked, GetAnsweredTruly
<1>7. CASE GetSend
  <2>1. /\ pc = "send" /\ pc' = "close" /\ Frame /\ conn # Nobody
        /\ Reply(200, IF Here.kind = "dir" THEN Nothing ELSE Here)
    BY <1>0, <1>7 DEF GetSend, Step, Frame, Serve, Close, TypeOK
  <2>2. found' = found /\ Req' = Req
    BY <2>1, FrameKeeps
  <2>3. found = Here /\ Checked /\ Req.method = "GET"
    BY <1>0, <2>1 DEF GetsInformed, Control
  <2>4. (IF Here.kind = "dir" THEN Nothing ELSE Here) \in Contents
    BY <1>0, <2>1, <2>3, Serving, ContentsMade
  <2>5. /\ Len(replies') = Len(replies) + 1 /\ Len(replies) \in Nat
        /\ \A i \in 1 .. Len(replies) : replies'[i] = replies[i]
        /\ replies'[Len(replies) + 1].code = 200
        /\ replies'[Len(replies) + 1].body = IF Here.kind = "dir" THEN Nothing ELSE Here
    BY <1>0, <2>1, <2>4, Replying
  <2>6. CASE replies = <<>> /\ found.kind \in {"file", "readonly"}
    <3>1. Len(replies') = 1 /\ replies'[1].code = 200 /\ replies'[1].body = found
      BY <2>3, <2>5, <2>6
    <3> QED
      BY <2>1, <2>2, <2>6, <3>1 DEF GetsInformed, GetAnsweredTruly
  <2>7. CASE /\ Len(replies) = 1
             /\ \/ replies[1].code = 404 /\ found.kind \in Missing
                \/ replies[1].code = 403 /\ found.kind \in {"denied", "dir"}
    <3>1. replies'[1] = replies[1]
      BY <2>5, <2>7
    <3>2. found.kind \notin {"file", "readonly"}
      BY <2>7 DEF Missing
    <3> QED
      BY <2>1, <2>2, <2>7, <3>1, <3>2 DEF GetsInformed, GetAnsweredTruly
  <2> QED
    BY <2>3, <2>6, <2>7 DEF Checked
<1>8. CASE PutOpen \/ PutByte \/ PutFails \/ PutEnds
  <2>1. pc' \in {"receive", "answer"} /\ Frame
    BY <1>8 DEF PutOpen, PutByte, PutFails, PutEnds, Step, Frame, Serve, Close
  <2> QED
    BY <1>2, <2>1
<1>9. CASE PutAnswer
  <2>1. pc = "answer" /\ pc' = "close" /\ Frame
    BY <1>9 DEF PutAnswer, Step, Frame, Serve, Close
  <2> QED
    BY <1>0, <1>2, <2>1 DEF Control
<1>10. CASE Close
  BY <1>10 DEF Close, Step, GetsInformed, GetAnsweredTruly
<1>11. CASE Killed
  BY <1>11 DEF Killed, GetsInformed, GetAnsweredTruly
<1>12. CASE Leave \/ UNCHANGED vars
  <2>1. UNCHANGED <<file, request, conn, pc, fds, replies, found>>
    BY <1>12 DEF Leave, vars
  <2> QED
    BY <1>0, <2>1 DEF GetsInformed, Checked, GetAnsweredTruly, NoFdForFile, Here, Req
<1> QED
  BY <1>1, <1>3, <1>4, <1>5, <1>6, <1>7, <1>8, <1>9, <1>10, <1>11, <1>12 DEF Next, Serve

LEMMA PutsStoredKept ==
  ASSUME IInv, [Next]_vars
  PROVE  PutsStored'
<1>0. TypeOK /\ Control /\ Owners /\ PutsStored
  BY DEF IInv
<1>1. ASSUME NEW c \in Conns, NEW r \in Requests, Accept(c, r)
      PROVE  PutsStored'
  <2>1. /\ pc' = "dispatch" /\ Req' = r /\ ~failed'
        /\ r.method \in {"GET", "PUT"} => found' = Here'
    BY <1>1, FoundIsHere
  <2> QED
    BY <2>1 DEF PutsStored, PutStored
(* A step that is none of a PUT's. *)
<1>2. ASSUME Frame, pc' \notin {"dispatch", "receive", "answer"},
             pc' = "close" => Req.method # "PUT"
      PROVE  PutsStored'
  <2>1. Req' = Req
    BY <1>2, FrameKeeps
  <2> QED
    BY <1>2, <2>1 DEF PutsStored, PutStored
<1>3. CASE Refuse
  <2>1. pc' = "close" /\ Req.method # "PUT" /\ Frame
    BY <1>3 DEF Refuse, Step, Refused, Frame, Serve, Close
  <2> QED
    BY <1>2, <2>1
<1>4. CASE CheckFile \/ GetOpen
  <2>1. pc' \in {"open", "send"} /\ Frame
    BY <1>4 DEF CheckFile, GetOpen, Step, Frame, Serve, Close
  <2> QED
    BY <1>2, <2>1
<1>5. CASE GetMissing \/ GetSend
  <2>1. pc \in {"open", "send"} /\ pc' = "close" /\ Frame
    BY <1>5 DEF GetMissing, GetSend, Step, Frame, Serve, Close
  <2> QED
    BY <1>0, <1>2, <2>1 DEF Control
<1>6. CASE PutOpen
  <2>1. /\ pc = "dispatch" /\ pc' = "receive" /\ Req.method = "PUT" /\ Frame
        /\ conn # Nobody /\ pass = 0 /\ pass' = pass
    BY <1>0, <1>6 DEF PutOpen, Step, Frame, Serve, Close, TypeOK, Control
  <2>2. UNCHANGED <<found, conn>> /\ Req' = Req
    BY <2>1, FrameKeeps
  <2>3. /\ found = Here /\ conn \notin fds
    BY <1>0, <2>1 DEF PutsStored, Owners
  <2>4. Openable <=> CanWrite
    BY <1>0, <2>1, <2>3, Left DEF Openable, CanWrite
  <2>5. CASE /\ CanWrite
             /\ file' = [file EXCEPT ![Req.uri] = Written(conn, 0)]
             /\ fds' = fds \cup {conn}
    <3>1. Openable /\ fds' = fds \cup {conn} /\ file' = [file EXCEPT ![Req.uri] = Written(conn, 0)]
      BY <2>4, <2>5
    <3>2. Here' = Written(conn, 0)
      BY <1>0, <2>1, <2>2, <3>1, Serving DEF Here, TypeOK
    <3>3. Openable'
      <4>1. fds' \ {conn} = fds \ {conn}
        BY <3>1
      <4> QED
        BY <2>2, <3>1, <4>1 DEF Openable, NoFdForFile
    <3> QED
      BY <2>1, <2>2, <3>1, <3>2, <3>3 DEF PutsStored, PutStored, Stored
  <2>6. CASE /\ ~CanWrite \/ Here.kind = "absent"
             /\ failed' = CanWrite
             /\ UNCHANGED <<file, fds>>
    <3>1. Here' = Here /\ Openable' = Openable
      BY <2>1, <2>2, <2>6, SameFile DEF Openable, NoFdForFile
    <3>2. Untouched'
      BY <2>2, <2>3, <2>4, <2>6, <3>1 DEF Untouched
    <3> QED
      BY <2>1, <2>2, <2>3, <2>6, <3>2 DEF PutsStored, PutStored
  <2> QED
    BY <1>6, <2>5, <2>6 DEF PutOpen
<1>7. CASE PutByte
  <2>1. /\ pc = "receive" /\ pc' = "receive" /\ Req.method = "PUT" /\ Frame
        /\ conn # Nobody /\ conn \in fds /\ pass' = pass + 1 /\ fds' = fds
        /\ file' = [file EXCEPT ![Req.uri] = Written(conn, pass + 1)]
        /\ failed' = failed
    BY <1>0, <1>7 DEF PutByte, Step, Frame, Serve, Close, TypeOK, Control
  <2>2. UNCHANGED <<found, conn>> /\ Req' = Req
    BY <2>1, FrameKeeps
  <2>3. Here' = Written(conn, pass + 1)
    BY <1>0, <2>1, <2>2, Serving DEF Here, TypeOK
  <2>4. Openable' = Openable
    BY <2>1, <2>2 DEF Openable, NoFdForFile
  <2> QED
    BY <1>0, <2>1, <2>2, <2>3, <2>4 DEF PutsStored, PutStored, Stored
<1>8. CASE PutFails \/ PutEnds
  <2>1. /\ pc = "receive" /\ pc' = "answer" /\ Frame /\ UNCHANGED <<file, pass>>
        /\ fds' \ {conn} = fds \ {conn}
        /\ \/ conn \notin fds /\ failed' = failed
           \/ pass = Req.body /\ failed' = failed
           \/ conn \in fds /\ failed'
    BY <1>8 DEF PutFails, PutEnds, Step, Frame, Serve, Close
  <2>2. UNCHANGED <<found, conn>> /\ Req' = Req /\ Here' = Here
    BY <2>1, FrameKeeps, SameFile
  <2>3. Openable' = Openable
    BY <2>1, <2>2 DEF Openable, NoFdForFile
  <2>4. IF conn \in fds THEN Stored ELSE Untouched
    BY <1>0, <2>1 DEF PutsStored
  <2>5. (Stored' /\ (pass = Req.body \/ failed)') \/ Untouched'
    <3>1. CASE conn \in fds
      BY <2>1, <2>2, <2>3, <2>4, <3>1 DEF Stored
    <3>2. CASE conn \notin fds
      BY <2>1, <2>2, <2>3, <2>4, <3>2 DEF Untouched
    <3> QED
      BY <3>1, <3>2
  <2> QED
    BY <2>1, <2>5 DEF PutsStored, PutStored
<1>9. CASE PutAnswer
  <2>1. /\ pc = "answer" /\ pc' = "close" /\ Frame /\ UNCHANGED <<file, fds, pass, failed>>
    BY <1>9 DEF PutAnswer, Step, Frame, Serve, Close
  <2>2. UNCHANGED <<found, conn>> /\ Req' = Req /\ Here' = Here
    BY <2>1, FrameKeeps, SameFile
  <2>3. Openable' = Openable
    BY <2>1, <2>2 DEF Openable, NoFdForFile
  <2>4. (Stored /\ (pass = Req.body \/ failed)) \/ Untouched
    BY <1>0, <2>1 DEF PutsStored
  <2> QED
    BY <2>1, <2>2, <2>3, <2>4 DEF PutsStored, PutStored, Stored, Untouched
<1>10. CASE Close
  BY <1>10 DEF Close, Step, PutsStored, PutStored
<1>11. CASE Killed
  BY <1>11 DEF Killed, PutsStored, PutStored
<1>12. CASE Leave \/ UNCHANGED vars
  <2>1. UNCHANGED <<file, request, conn, pc, fds, pass, found, failed>>
    BY <1>12 DEF Leave, vars
  <2>2. Req' = Req /\ Here' = Here /\ NoFdForFile' = NoFdForFile
    BY <2>1 DEF Req, Here, NoFdForFile
  <2> QED
    BY <1>0, <2>1, <2>2 DEF PutsStored, PutStored, Openable, Stored, Untouched
<1> QED
  BY <1>1, <1>3, <1>4, <1>5, <1>6, <1>7, <1>8, <1>9, <1>10, <1>11, <1>12 DEF Next, Serve

-----------------------------------------------------------------------------
(* The inductive invariant. *)

LEMMA InitIInv == Init => IInv
<1> SUFFICES ASSUME Init PROVE IInv
  OBVIOUS
<1>1. TypeOK
  <2>1. file \in [Uris -> Contents]
    <3>1. PICK kind \in Initials : file = [u \in Uris |-> Unwritten(kind[u])]
      BY DEF Init
    <3>2. \A u \in Uris : kind[u] \in Kinds
      BY <3>1, InitialsAssumption
    <3> QED
      BY <3>1, <3>2, ContentsMade
  <2>2. 0 \in 0 .. MaxBody
    BY BodyAssumption
  <2>3. found \in Contents /\ request \in [Conns -> Requests \cup {NoRequest}]
    BY ContentsMade DEF Init
  <2>4. replies \in Seq(Responses)
    BY DEF Init
  <2>5. /\ conn = Nobody /\ pc = "accept" /\ fds = {} /\ pass = 0 /\ gone = FALSE
        /\ failed = FALSE
    BY DEF Init
  <2> QED
    BY <2>1, <2>2, <2>3, <2>4, <2>5 DEF TypeOK
<1>2. Control
  BY DEF Init, Control
<1>3. Owners
  BY FS_EmptySet, FdsAssumption DEF Init, Owners
<1>4. GetsInformed /\ PutsStored
  BY DEF Init, GetsInformed, GetAnsweredTruly, PutsStored, PutStored
<1> QED
  BY <1>1, <1>2, <1>3, <1>4 DEF IInv

LEMMA NextIInv == IInv /\ [Next]_vars => IInv'
BY TypesKept, ControlKept, OwnersKept, GetsInformedKept, PutsStoredKept DEF IInv

LEMMA AlwaysIInv == Spec => []IInv
BY InitIInv, NextIInv, PTL DEF Spec

-----------------------------------------------------------------------------
(* The properties. *)

(* What is stored, asked, sent and open is of the kinds the code produces, *)
(* and no more is passed on than a body may have (httpserver.c:33-96).     *)
THEOREM SimpleServerTypes == Spec => []TypeOK
<1>1. IInv => TypeOK
  BY DEF IInv
<1> QED
  BY <1>1, AlwaysIInv, PTL

(* Between two connections no descriptor is open but those of PUTs whose   *)
(* body came and ended, and one is left to accept with, however many there *)
(* were (io.c:78-108, httpserver.c:34).                                    *)
THEOREM DescriptorsAreAccounted == Spec => []DescriptorsAccounted
<1>1. IInv => DescriptorsAccounted
  <2> SUFFICES ASSUME IInv, conn = Nobody
               PROVE  /\ FdsLeft > 0
                      /\ \A c \in fds : Kept(c)
    BY DEF DescriptorsAccounted, Kept
  <2>1. Nobody \notin fds
    BY ConnsAssumption DEF IInv, TypeOK
  <2>2. Cardinality(fds) \in Nat /\ Cardinality(fds) < MaxFds
    BY Descriptors DEF IInv, Owners
  <2>3. FdsLeft > 0
    BY <2>2, FdsAssumption DEF FdsLeft
  <2> QED
    BY <2>1, <2>3 DEF IInv, Owners
<1> QED
  BY <1>1, AlwaysIInv, PTL

(* The first response to a GET says the truth about the file and carries   *)
(* its contents, but for the 404 of a server that has no descriptor left   *)
(* (httpserver.c:47-73, io.c:12-38).                                       *)
THEOREM GetsAreAnsweredTruly == Spec => []GetAnsweredTruly
<1>1. IInv => GetAnsweredTruly
  BY DEF IInv, GetsInformed
<1> QED
  BY <1>1, AlwaysIInv, PTL

(* When a PUT is answered its file holds the bytes passed on, which are    *)
(* all that came of its body unless writing failed, or is as it was if it  *)
(* could not be opened or created (httpserver.c:75-86, io.c:78-91).        *)
THEOREM PutsAreStored == Spec => []PutStored
<1>1. IInv => PutStored
  BY DEF IInv, PutsStored
<1> QED
  BY <1>1, AlwaysIInv, PTL

=============================================================================
