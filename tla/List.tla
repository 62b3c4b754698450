-------------------------------- MODULE List --------------------------------
(***************************************************************************)
(* The doubly linked list with a cursor of asgn5/list.c, with its nodes on *)
(* a heap and the five fields of its header.  One procedure is one action. *)
(* Clients respect the preconditions that list.h states and nothing else;  *)
(* a call that has no effect is no step.                                   *)
(*                                                                         *)
(* A freed node's fields are cleared here.  The one pointer the code       *)
(* leaves to a freed node is front, after deleteBack of the only element;  *)
(* reading through it is undefined, and ends the model with a status.      *)
(***************************************************************************)
EXTENDS Integers, FiniteSets

CONSTANTS
  Nodes,     (* what malloc may return for a node                          *)
  Values,    (* the elements                                               *)
  NULL,
  MinIndex   (* bound: how far deletions lower index                       *)

ASSUME NULLAssumption == NULL \notin Nodes \cup Values
ASSUME MinIndexAssumption == MinIndex \in Int /\ MinIndex < -1
ASSUME NodesAssumption == IsFiniteSet(Nodes)

VARIABLES
  next, prev, data,     (* per node                                        *)
  live,                 (* the allocated nodes                             *)
  front, back, cursor,
  index, length,
  status,               (* "none" (no list), "running", or how it failed   *)
  risks                 (* history: the deletions not made up for since    *)

heap == <<next, prev, data, live>>
place == <<cursor, index>>
vars == <<heap, front, back, place, length, status, risks>>

Running == status = "running"
IsEmpty == length = 0

(* The nodes in order from front, as many as length says. *)
NodeAt ==
  LET node[i \in 1..length] ==
        IF i = 1 THEN front
        ELSE IF node[i - 1] = NULL THEN NULL ELSE next[node[i - 1]]
  IN  node

(* Clients owe a place for the cursor after a deletion in front, and an    *)
(* element after the deletion of the last one from behind.                 *)
Owe(risk) == risks' = risks \cup {risk}
Settle(risk) == risks' = risks \ {risk}

-----------------------------------------------------------------------------
(* newNode and freeNode *)

Allocate(n, x) ==
  /\ n \notin live
  /\ live' = live \cup {n}
  /\ data' = [data EXCEPT ![n] = x]

Release(n) ==
  /\ live' = live \ {n}
  /\ data' = [data EXCEPT ![n] = NULL]

-----------------------------------------------------------------------------
(* newList and freeList *)

NewList ==
  /\ status = "none"
  /\ status' = "running"
  /\ front' = NULL /\ back' = NULL /\ cursor' = NULL
  /\ length' = 0
  /\ index' = -1
  /\ risks' = {}
  /\ UNCHANGED heap

FreeList ==
  /\ Running
  /\ \/ /\ front \in live \cup {NULL}
        /\ live' = live \ {NodeAt[i] : i \in 1..length}
        /\ next' = [n \in Nodes |-> NULL]
        /\ prev' = [n \in Nodes |-> NULL]
        /\ data' = [n \in Nodes |-> NULL]
        /\ front' = NULL /\ back' = NULL /\ cursor' = NULL
        /\ status' = "none"
        /\ UNCHANGED <<index, length, risks>>
     \/ /\ front \notin live \cup {NULL}      (* walks a freed node *)
        /\ status' = "danglingFront"
        /\ UNCHANGED <<heap, front, back, place, length, risks>>

(* Reading the list through from front changes nothing, or meets a freed   *)
(* node.                                                                   *)
IsInList ==
  /\ Running
  /\ front \notin live \cup {NULL}
  /\ status' = "danglingFront"
  /\ UNCHANGED <<heap, front, back, place, length, risks>>

-----------------------------------------------------------------------------
(* The cursor *)

MoveFront ==
  /\ Running
  /\ ~IsEmpty
  /\ cursor' = front
  /\ index' = 0
  /\ Settle("index")
  /\ UNCHANGED <<heap, front, back, length, status>>

MoveBack ==
  /\ Running
  /\ ~IsEmpty
  /\ cursor' = back
  /\ index' = length - 1
  /\ Settle("index")
  /\ UNCHANGED <<heap, front, back, length, status>>

(* The index is lowered in any case. *)
MovePrevVariant ==
  /\ Running
  /\ ~IsEmpty
  /\ index > MinIndex
  /\ index' = index - 1
  /\ cursor' = IF index > 0 THEN prev[cursor] ELSE NULL
  /\ Settle("index")
  /\ UNCHANGED <<heap, front, back, length, status>>

(* An empty list ends the program. *)
MovePrev ==
  /\ Running
  /\ \/ /\ IsEmpty
        /\ status' = "exited"
        /\ UNCHANGED <<place, risks>>
     \/ /\ ~IsEmpty
        /\ index' = IF index > 0 THEN index - 1 ELSE -1
        /\ cursor' = IF index > 0 THEN prev[cursor] ELSE NULL
        /\ Settle("index")
        /\ UNCHANGED status
  /\ UNCHANGED <<heap, front, back, length>>

(* An index below -1 passes for defined: without a cursor, its next is     *)
(* read through NULL.                                                      *)
MoveNext ==
  /\ Running
  /\ index # -1
  /\ \/ /\ cursor # NULL
        /\ next[cursor] # NULL
        /\ cursor' = next[cursor]
        /\ index' = index + 1
        /\ UNCHANGED status
     \/ /\ cursor # NULL
        /\ next[cursor] = NULL
        /\ index' = -1
        /\ UNCHANGED <<cursor, status>>
     \/ /\ cursor = NULL
        /\ status' = "nullCursor"
        /\ UNCHANGED place
  /\ UNCHANGED <<heap, front, back, length, risks>>

-----------------------------------------------------------------------------
(* Elements in *)

Set(x) ==
  /\ Running
  /\ length > 0 /\ index >= 0
  /\ data' = [data EXCEPT ![cursor] = x]
  /\ UNCHANGED <<next, prev, live, front, back, place, length, status, risks>>

(* The cursor's index is left where it was. *)
PrependVariant(n, x) ==
  /\ Running
  /\ Allocate(n, x)
  /\ next' = [next EXCEPT ![n] = IF IsEmpty THEN NULL ELSE front]
  /\ prev' = IF IsEmpty THEN prev ELSE [prev EXCEPT ![front] = n]
  /\ front' = n
  /\ back' = IF IsEmpty THEN n ELSE back
  /\ length' = length + 1
  /\ Settle("front")
  /\ UNCHANGED <<place, status>>

Prepend(n, x) ==
  /\ Running
  /\ Allocate(n, x)
  /\ \/ /\ IsEmpty
        /\ back' = n
        /\ next' = [next EXCEPT ![n] = NULL]
        /\ prev' = [prev EXCEPT ![n] = NULL]
        /\ UNCHANGED index
     \/ /\ ~IsEmpty
        /\ next' = [next EXCEPT ![n] = front]
        /\ prev' = [prev EXCEPT ![n] = NULL, ![front] = n]
        /\ index' = IF index # -1 THEN index + 1 ELSE index
        /\ UNCHANGED back
  /\ front' = n
  /\ length' = length + 1
  /\ Settle("front")
  /\ UNCHANGED <<cursor, status>>

AppendNode(n, x) ==
  /\ Running
  /\ Allocate(n, x)
  /\ \/ /\ IsEmpty
        /\ front' = n
        /\ next' = [next EXCEPT ![n] = NULL]
        /\ prev' = [prev EXCEPT ![n] = NULL]
     \/ /\ ~IsEmpty
        /\ next' = [next EXCEPT ![n] = NULL, ![back] = n]
        /\ prev' = [prev EXCEPT ![n] = back]
        /\ UNCHANGED front
  /\ back' = n
  /\ length' = length + 1
  /\ Settle("front")
  /\ UNCHANGED <<place, status>>

(* The element goes in, and the index stays. *)
InsertBeforeVariant(n, x) ==
  /\ length > 0 /\ index >= 0
  /\ \/ cursor = front /\ Prepend(n, x)
     \/ /\ cursor # front
        /\ Running
        /\ Allocate(n, x)
        /\ next' = [next EXCEPT ![n] = cursor, ![prev[cursor]] = n]
        /\ prev' = [prev EXCEPT ![n] = prev[cursor], ![cursor] = n]
        /\ length' = length + 1
        /\ UNCHANGED <<front, back, place, status, risks>>

InsertBefore(n, x) ==
  /\ length > 0 /\ index >= 0
  /\ \/ cursor = front /\ Prepend(n, x)
     \/ /\ cursor # front
        /\ Running
        /\ Allocate(n, x)
        /\ next' = [next EXCEPT ![n] = cursor, ![prev[cursor]] = n]
        /\ prev' = [prev EXCEPT ![n] = prev[cursor], ![cursor] = n]
        /\ length' = length + 1
        /\ index' = index + 1
        /\ UNCHANGED <<front, back, cursor, status, risks>>

InsertAfter(n, x) ==
  /\ length > 0 /\ index >= 0
  /\ \/ cursor = back /\ AppendNode(n, x)
     \/ /\ cursor # back
        /\ Running
        /\ Allocate(n, x)
        /\ next' = [next EXCEPT ![n] = next[cursor], ![cursor] = n]
        /\ prev' = [prev EXCEPT ![n] = cursor, ![next[cursor]] = n]
        /\ length' = length + 1
        /\ UNCHANGED <<front, back, place, status, risks>>

-----------------------------------------------------------------------------
(* Elements out *)

(* The new front keeps its prev. *)
DeleteFrontVariant ==
  /\ Running
  /\ ~IsEmpty
  /\ index > MinIndex
  /\ cursor' = IF cursor = front THEN NULL ELSE cursor
  /\ index' = (IF cursor = front THEN -1 ELSE index) - 1
  /\ front' = next[front]
  /\ back' = IF next[front] = NULL THEN NULL ELSE back
  /\ next' = [next EXCEPT ![front] = NULL]
  /\ Release(front)
  /\ length' = length - 1
  /\ Owe("index")
  /\ UNCHANGED <<prev, status>>

(* The index is lowered whether or not the cursor is defined. *)
DeleteFront ==
  /\ Running
  /\ ~IsEmpty
  /\ index > MinIndex
  /\ cursor' = IF cursor = front THEN NULL ELSE cursor
  /\ index' = (IF cursor = front THEN -1 ELSE index) - 1
  /\ front' = next[front]
  /\ back' = IF next[front] = NULL THEN NULL ELSE back
  /\ next' = [next EXCEPT ![front] = NULL]
  /\ prev' = [n \in Nodes |-> IF n \in {front, next[front]} THEN NULL ELSE prev[n]]
  /\ Release(front)
  /\ length' = length - 1
  /\ Owe("index")
  /\ UNCHANGED status

(* The cursor is not looked at. *)
DeleteBackVariant ==
  /\ Running
  /\ ~IsEmpty
  /\ back' = prev[back]
  /\ next' = [n \in Nodes |-> IF n \in {back, prev[back]} THEN NULL ELSE next[n]]
  /\ prev' = [prev EXCEPT ![back] = NULL]
  /\ Release(back)
  /\ length' = length - 1
  /\ Owe("front")
  /\ UNCHANGED <<front, place, status>>

(* front is left alone, also when its node was the only one. *)
DeleteBack ==
  /\ Running
  /\ ~IsEmpty
  /\ cursor' = IF cursor = back THEN NULL ELSE cursor
  /\ index' = IF cursor = back THEN -1 ELSE index
  /\ back' = prev[back]
  /\ next' = [n \in Nodes |-> IF n \in {back, prev[back]} THEN NULL ELSE next[n]]
  /\ prev' = [prev EXCEPT ![back] = NULL]
  /\ Release(back)
  /\ length' = length - 1
  /\ Owe("front")
  /\ UNCHANGED <<front, status>>

DeleteCursor ==
  /\ length > 0 /\ index >= 0
  /\ \/ cursor = back /\ DeleteBack
     \/ cursor # back /\ cursor = front /\ DeleteFront
     \/ /\ cursor \notin {front, back}
        /\ Running
        /\ next' = [next EXCEPT ![prev[cursor]] = next[cursor], ![cursor] = NULL]
        /\ prev' = [prev EXCEPT ![next[cursor]] = prev[cursor], ![cursor] = NULL]
        /\ Release(cursor)
        /\ cursor' = NULL
        /\ index' = -1
        /\ length' = length - 1
        /\ UNCHANGED <<front, back, status, risks>>

(* deleteFront until nothing is left: each lowers the index, and the one   *)
(* of the cursor's node sets it back first.                                *)
Clear ==
  /\ Running
  /\ ~IsEmpty
  /\ index' = IF cursor = NULL THEN index - length
              ELSE -2 - Cardinality({i \in 1..length : \E j \in 1..(i - 1) : NodeAt[j] = cursor})
  /\ index' >= MinIndex
  /\ cursor' = NULL /\ front' = NULL /\ back' = NULL
  /\ next' = [n \in Nodes |-> NULL]
  /\ prev' = [n \in Nodes |-> NULL]
  /\ data' = [n \in Nodes |-> NULL]
  /\ live' = live \ {NodeAt[i] : i \in 1..length}
  /\ length' = 0
  /\ Owe("index")
  /\ UNCHANGED status

-----------------------------------------------------------------------------

Init ==
  /\ next = [n \in Nodes |-> NULL]
  /\ prev = [n \in Nodes |-> NULL]
  /\ data = [n \in Nodes |-> NULL]
  /\ live = {}
  /\ front = NULL /\ back = NULL /\ cursor = NULL
  /\ index = -1
  /\ length = 0
  /\ status = "none"
  /\ risks = {}

Next ==
  \/ NewList \/ FreeList \/ IsInList \/ Clear
  \/ MoveFront \/ MoveBack \/ MovePrev \/ MoveNext
  \/ DeleteFront \/ DeleteBack \/ DeleteCursor
  \/ \E x \in Values : Set(x)
  \/ \E n \in Nodes, x \in Values :
       Prepend(n, x) \/ AppendNode(n, x) \/ InsertBefore(n, x) \/ InsertAfter(n, x)

Spec == Init /\ [][Next]_vars

-----------------------------------------------------------------------------
(* Properties *)

(* Fields hold nodes or NULL, and the cursor and back never a freed one    *)
(* (list.c:10-26).                                                         *)
TypeOK ==
  /\ next \in [Nodes -> Nodes \cup {NULL}]
  /\ prev \in [Nodes -> Nodes \cup {NULL}]
  /\ data \in [Nodes -> Values \cup {NULL}]
  /\ live \subseteq Nodes
  /\ front \in Nodes \cup {NULL}
  /\ back \in live \cup {NULL}
  /\ cursor \in live \cup {NULL}
  /\ index \in Int /\ index >= MinIndex
  /\ length \in Nat
  /\ status \in {"none", "running", "exited", "nullCursor", "danglingFront"}
  /\ risks \subseteq {"index", "front"}

(* The nodes from front are length different ones, back is the last, prev  *)
(* is the reverse of next, and no other node is allocated: nothing is      *)
(* lost, shared or leaked by any sequence of calls (list.c:264-510).       *)
Linked ==
  Running =>
    /\ live = {NodeAt[i] : i \in 1..length}
    /\ Cardinality(live) = length
    /\ back = IF IsEmpty THEN NULL ELSE NodeAt[length]
    /\ \A i \in 1..length :
         /\ prev[NodeAt[i]] = IF i = 1 THEN NULL ELSE NodeAt[i - 1]
         /\ next[NodeAt[i]] = IF i = length THEN NULL ELSE NodeAt[i + 1]

(* A defined index is the place of the cursor's node, through insertions   *)
(* and deletions on either side of it (list.c:189-262, 288, 356, 420).     *)
CursorAtIndex ==
  Running /\ index >= 0 => index < length /\ cursor = NodeAt[index + 1]

(* A call fails in three ways only.  movePrev ends the program when the    *)
(* list is empty.  moveNext reads through NULL only when an element was    *)
(* deleted in front and the cursor has not been placed since; freeList and *)
(* isInList meet a freed node only when the last element went from behind  *)
(* and none came since (list.c:216-219; 251, 420; 62, 152, 438-449).  A    *)
(* client that never moves back in an empty list and avoids the two        *)
(* deletions is safe.  (list.h:43-51 lets a client go without either rule: *)
(* a move with an undefined cursor is said to do nothing.)                 *)
FailuresExplained ==
  /\ status = "exited" => IsEmpty
  /\ status = "nullCursor" => "index" \in risks
  /\ status = "danglingFront" => "front" \in risks /\ IsEmpty

(* The list is the sequence with a cursor of list.h, whatever index is     *)
(* below zero and wherever a freed front points, until a call fails        *)
(* (list.c:165-510).                                                       *)
Items == IF status = "none" THEN <<>> ELSE [i \in 1..length |-> data[NodeAt[i]]]
Position == IF status = "none" \/ index < 0 THEN 0 ELSE index + 1

Abstract == INSTANCE CursorList WITH items <- Items, position <- Position
Refinement == Abstract!Spec

=============================================================================
