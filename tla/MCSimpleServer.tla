--------------------------- MODULE MCSimpleServer ---------------------------
(* SimpleServer on pairs of files of every kind. *)
EXTENDS SimpleServer, TLC

CONSTANT u1   (* one of Uris *)

Pair(a, b) == [u \in Uris |-> IF u = u1 THEN a ELSE b]
MCInitials ==
  {Pair("file", "absent"), Pair("readonly", "barred"), Pair("dir", "denied")}

=============================================================================
