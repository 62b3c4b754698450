----------------------------- MODULE CursorList -----------------------------
(***************************************************************************)
(* What asgn5/list.h promises: a sequence of elements and a cursor, which  *)
(* is under one of them or undefined.  One action per procedure that may   *)
(* change the list, under the precondition its comment states; a procedure *)
(* that has nothing to do is no step.                                      *)
(***************************************************************************)
EXTENDS Integers, SequencesExt

CONSTANT Values

VARIABLES
  items,     (* the elements, front first                                  *)
  position   (* of the cursor, from 1; 0 while it is undefined             *)

vars == <<items, position>>

Defined == position > 0

Init == items = <<>> /\ position = 0

(* freeList and clear: a new or emptied list is empty, without a cursor. *)
Reset == items' = <<>> /\ position' = 0

Set(x) ==
  /\ Defined
  /\ items' = [items EXCEPT ![position] = x]
  /\ UNCHANGED position

MoveFront == items # <<>> /\ position' = 1 /\ UNCHANGED items
MoveBack == items # <<>> /\ position' = Len(items) /\ UNCHANGED items
MovePrev == Defined /\ position' = position - 1 /\ UNCHANGED items
MoveNext ==
  /\ Defined
  /\ position' = IF position < Len(items) THEN position + 1 ELSE 0
  /\ UNCHANGED items

Prepend(x) ==
  /\ items' = <<x>> \o items
  /\ position' = IF Defined THEN position + 1 ELSE 0

AppendItem(x) == items' = Append(items, x) /\ UNCHANGED position

InsertBefore(x) ==
  /\ Defined
  /\ items' = InsertAt(items, position, x)
  /\ position' = position + 1

InsertAfter(x) ==
  /\ Defined
  /\ items' = InsertAt(items, position + 1, x)
  /\ UNCHANGED position

DeleteFront ==
  /\ items # <<>>
  /\ items' = Tail(items)
  /\ position' = IF Defined THEN position - 1 ELSE 0

DeleteBack ==
  /\ items # <<>>
  /\ items' = SubSeq(items, 1, Len(items) - 1)
  /\ position' = IF position = Len(items) THEN 0 ELSE position

DeleteCursor ==
  /\ Defined
  /\ items' = RemoveAt(items, position)
  /\ position' = 0

Next ==
  \/ Reset
  \/ MoveFront \/ MoveBack \/ MovePrev \/ MoveNext
  \/ DeleteFront \/ DeleteBack \/ DeleteCursor
  \/ \E x \in Values :
       Set(x) \/ Prepend(x) \/ AppendItem(x) \/ InsertBefore(x) \/ InsertAfter(x)

Spec == Init /\ [][Next]_vars

=============================================================================
