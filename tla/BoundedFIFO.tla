---------------------------- MODULE BoundedFIFO ----------------------------
(***************************************************************************)
(* What queue.h promises: a queue is created empty with a maximum size, a  *)
(* push adds an element at its end, a pop takes the element at its front.  *)
(* Each operation is one step; a push on a full queue and a pop on an      *)
(* empty one wait.  The queues do not affect each other.                   *)
(***************************************************************************)
EXTENDS Integers, Sequences

CONSTANTS
  Queues,   (* the handles queue_new returns *)
  Threads,  (* the callers                   *)
  Values,   (* the elements                  *)
  Nothing   (* not an element                *)

VARIABLES
  room,     (* the maximum size of each queue, 0 while it is not allocated *)
  content,  (* the elements of each queue, oldest first                    *)
  taken     (* what each caller was given and still uses                  *)

fifoVars == <<room, content, taken>>

Init ==
  /\ room = [q \in Queues |-> 0]
  /\ content = [q \in Queues |-> <<>>]
  /\ taken = [t \in Threads |-> Nothing]

New(q) ==
  /\ room[q] = 0
  /\ room' \in [Queues -> Nat]
  /\ room'[q] > 0
  /\ \A r \in Queues \ {q} : room'[r] = room[r]
  /\ content' = [content EXCEPT ![q] = <<>>]
  /\ UNCHANGED taken

Delete(q) ==
  /\ room[q] > 0
  /\ room' = [room EXCEPT ![q] = 0]
  /\ content' = [content EXCEPT ![q] = <<>>]
  /\ UNCHANGED taken

Push(q, v) ==
  /\ Len(content[q]) < room[q]
  /\ content' = [content EXCEPT ![q] = Append(@, v)]
  /\ UNCHANGED <<room, taken>>

Pop(q, t) ==
  /\ content[q] # <<>>
  /\ taken' = [taken EXCEPT ![t] = Head(content[q])]
  /\ content' = [content EXCEPT ![q] = Tail(@)]
  /\ UNCHANGED room

(* The caller is done with the element. *)
Forget(t) ==
  /\ taken' = [taken EXCEPT ![t] = Nothing]
  /\ UNCHANGED <<room, content>>

Next ==
  \/ \E t \in Threads : Forget(t)
  \/ \E q \in Queues :
       \/ New(q)
       \/ Delete(q)
       \/ \E v \in Values : Push(q, v)
       \/ \E t \in Threads : Pop(q, t)

Spec == Init /\ [][Next]_fifoVars

=============================================================================
