------------------------------- MODULE Cache -------------------------------
(***************************************************************************)
(* The cache simulator of asgn5/cache.c and cacher.c: a singly linked list *)
(* of nodes from head to tail, and three replacement policies, F (FIFO),   *)
(* L (LRU) and C (clock).  The program is sequential; one line of input,   *)
(* handled by handleCacheAccess, is one action.                            *)
(*                                                                         *)
(* list is the nodes reached from head.  Whenever it is not empty its last *)
(* node is the one tail points to; evictClock closes the list to a ring    *)
(* for a moment, which the assignment to tail->next in addToCache opens    *)
(* again.  currentSize is a counter of its own, and differs from the       *)
(* length of the list under C: popNode and evictClock both lower it.       *)
(***************************************************************************)
EXTENDS Integers, Sequences, FiniteSets

CONSTANTS
  Items,     (* the lines of the input                                     *)
  Sizes,     (* the arguments of -N; main refuses 0 and nothing else       *)
  Policies,  (* the policies the program is started with                   *)
  MaxMisses  (* bound: how many misses a run may have                      *)

ASSUME ItemsAssumption == IsFiniteSet(Items)
ASSUME SizesAssumption == Sizes \subseteq Int \ {0}
ASSUME PoliciesAssumption == Policies \subseteq {"F", "L", "C"}

VARIABLES
  policy, size,
  list,         (* of nodes [data, age], head first                        *)
  currentSize,
  removed,      (* the items evicted so far (a List searched by isInList)  *)
  CO, CA,       (* compulsory and capacity misses                          *)
  status,       (* "running", "done", or how the program ended             *)
  missed,       (* history: the items of the misses, oldest first          *)
  last          (* history: the item accessed last, if any                 *)

vars == <<policy, size, list, currentSize, removed, CO, CA, status, missed, last>>

Nodes == [data : Items, age : {0, 1}]
Node(item) == [data |-> item, age |-> 0]
Data(l) == {l[i].data : i \in DOMAIN l}
InCache(item) == item \in Data(list)

-----------------------------------------------------------------------------
(* A hit.  swapLRU exchanges the data of head and tail if the item is at   *)
(* the head of at least two, and does nothing otherwise.                   *)

(* A hit leaves the order alone, as under F. *)
SwapLRUVariant(item) == list

SwapLRU(item) ==
  LET k == Len(list)
  IN  IF k > 1 /\ list[1].data = item
      THEN [list EXCEPT ![1].data = list[k].data, ![k].data = item]
      ELSE list

(* The age counts the hits, and is no flag. *)
UpdateNodeAgeVariant(item) ==
  [i \in DOMAIN list |-> IF list[i].data = item THEN [list[i] EXCEPT !.age = @ + 1] ELSE list[i]]

UpdateNodeAge(item) ==
  [i \in DOMAIN list |-> IF list[i].data = item THEN [list[i] EXCEPT !.age = 1] ELSE list[i]]

Hit(item) ==
  /\ status = "running"
  /\ InCache(item)
  /\ list' = CASE policy = "F" -> list
               [] policy = "L" -> SwapLRU(item)
               [] policy = "C" -> UpdateNodeAge(item)
  /\ last' = {item}
  /\ UNCHANGED <<policy, size, currentSize, removed, CO, CA, status, missed>>

-----------------------------------------------------------------------------
(* A miss is compulsory unless the item was evicted before. *)

(* What was evicted is forgotten. *)
CountMissVariant(item) ==
  /\ status = "running"
  /\ ~InCache(item)
  /\ Len(missed) < MaxMisses
  /\ CO' = CO + 1
  /\ CA' = CA
  /\ missed' = Append(missed, item)
  /\ last' = {item}
  /\ UNCHANGED <<policy, size>>

CountMiss(item) ==
  /\ status = "running"
  /\ ~InCache(item)
  /\ Len(missed) < MaxMisses
  /\ CO' = IF item \in removed THEN CO ELSE CO + 1
  /\ CA' = IF item \in removed THEN CA + 1 ELSE CA
  /\ missed' = Append(missed, item)
  /\ last' = {item}
  /\ UNCHANGED <<policy, size>>

(* addToCache for F and L: append, then evict the head if there are too    *)
(* many (evictFIFO and evictLRU are the same).                             *)

(* Full when the size is reached, not when it is exceeded. *)
AddThenEvictVariant(item) ==
  LET nodes == Append(list, Node(item))
      full == currentSize + 1 >= size
  IN  /\ list' = IF full THEN Tail(nodes) ELSE nodes
      /\ currentSize' = IF full THEN currentSize ELSE currentSize + 1
      /\ removed' = IF full THEN removed \cup {nodes[1].data} ELSE removed

(* Looked at before the insertion, and so exceeded by one. *)
EvictLateVariant(item) ==
  LET nodes == Append(list, Node(item))
      full == currentSize > size
  IN  /\ list' = IF full THEN Tail(nodes) ELSE nodes
      /\ currentSize' = IF full THEN currentSize ELSE currentSize + 1
      /\ removed' = IF full THEN removed \cup {nodes[1].data} ELSE removed

AddThenEvict(item) ==
  LET nodes == IF currentSize = 0 THEN <<Node(item)>> ELSE Append(list, Node(item))
      full == currentSize + 1 > size
  IN  /\ list' = IF full THEN Tail(nodes) ELSE nodes
      /\ currentSize' = IF full THEN currentSize ELSE currentSize + 1
      /\ removed' = IF full THEN removed \cup {nodes[1].data} ELSE removed

MissFL(item) ==
  /\ policy \in {"F", "L"}
  /\ CountMiss(item)
  /\ AddThenEvict(item)
  /\ UNCHANGED status

(* addToCache for C, after nodes and a counter of k are left.  A counter   *)
(* of 0 starts the list afresh, whatever is in it; with an empty list and  *)
(* another counter, the node is linked to the freed tail and lost.         *)
AddNode(nodes, k, item) ==
  /\ list' = CASE k = 0                   -> <<Node(item)>>
               [] k # 0 /\ nodes = <<>>   -> <<>>
               [] k # 0 /\ nodes # <<>>   -> Append(nodes, Node(item))
  /\ currentSize' = k + 1

(* No eviction: there is room, or evictClock finds no head. *)
MissClockRoom(item) ==
  /\ policy = "C"
  /\ CountMiss(item)
  /\ currentSize < size \/ list = <<>>
  /\ AddNode(list, currentSize, item)
  /\ UNCHANGED <<removed, status>>

(* The counter after an eviction, lowered once. *)
CountEvictionVariant(k) == k - 1

(* The counter after an eviction: popNode lowers it, then evictClock. *)
CountEviction(k) == k - 2

(* The hand passes one node at the most: the loop tests the same node      *)
(* again, whose age it has just cleared.                                   *)
Passed == Tail(list) \o <<[list[1] EXCEPT !.age = 0]>>
AtHand == IF list[1].age > 0 THEN Passed ELSE list

MissClockFull(item) ==
  /\ policy = "C"
  /\ CountMiss(item)
  /\ currentSize >= size
  /\ list # <<>>
  /\ \/ /\ Len(list) > 1 \/ list[1].age = 0
        /\ AtHand[1].age = 0
        /\ removed' = removed \cup {AtHand[1].data}
        /\ AddNode(Tail(AtHand), CountEviction(currentSize), item)
        /\ UNCHANGED status
     \/ /\ Len(list) > 1              (* assert(current->age == 0) *)
        /\ AtHand[1].age > 0
        /\ status' = "aborted"
        /\ UNCHANGED <<list, currentSize, removed>>
     \/ /\ Len(list) = 1              (* popNode of a NULL head *)
        /\ list[1].age > 0
        /\ status' = "crashed"
        /\ UNCHANGED <<list, currentSize, removed>>

Miss(item) == MissFL(item) \/ MissClockRoom(item) \/ MissClockFull(item)

-----------------------------------------------------------------------------
(* initializeCache; and the end of the input, which prints CO and CA and   *)
(* frees the nodes.                                                        *)

Init ==
  /\ policy \in Policies
  /\ size \in Sizes
  /\ list = <<>>
  /\ currentSize = 0
  /\ removed = {}
  /\ CO = 0
  /\ CA = 0
  /\ status = "running"
  /\ missed = <<>>
  /\ last = {}

EndOfInput ==
  /\ status = "running"
  /\ status' = "done"
  /\ list' = <<>>
  /\ UNCHANGED <<policy, size, currentSize, removed, CO, CA, missed, last>>

Next ==
  \/ \E item \in Items : Hit(item) \/ Miss(item)
  \/ EndOfInput

Spec == Init /\ [][Next]_vars

-----------------------------------------------------------------------------
(* Properties *)

(* Nodes, counters and statuses are those the code can produce; the age is *)
(* a flag (cache.h:11-27).                                                 *)
TypeOK ==
  /\ policy \in Policies
  /\ size \in Sizes
  /\ list \in Seq(Nodes)
  /\ currentSize \in Int
  /\ removed \subseteq Items
  /\ CO \in Nat /\ CA \in Nat
  /\ status \in {"running", "done", "aborted", "crashed"}
  /\ missed \in Seq(Items)
  /\ last \subseteq Items

Capacity == IF size > 0 THEN size ELSE 0

(* Under F and L the list holds currentSize different items, never more    *)
(* than fit (cache.c:170-205).                                             *)
SizeRespected ==
  policy # "C" /\ status = "running" =>
    /\ Len(list) = currentSize
    /\ Cardinality(Data(list)) = currentSize
    /\ currentSize <= Capacity

(* Under F and L, and under C from a size of 3 as long as it runs, the     *)
(* first miss of every item is compulsory and every other one a capacity   *)
(* miss (cache.c:229-237): an item that left the cache is always among the *)
(* removed ones.                                                           *)
MissesClassified ==
  policy # "C" \/ (size >= 3 /\ status = "running") =>
    LET seen == {missed[i] : i \in DOMAIN missed}
    IN  CO = Cardinality(seen) /\ CO + CA = Len(missed)

(* Under C from a size of 3 the list grows past the size, by a node at     *)
(* every other miss once it was full: an eviction takes one node and       *)
(* counts for two.  It still has a second node when it is full, and only a *)
(* clock of at most one reads through NULL (cache.c:17-23, 135-163).       *)
ClockDrift ==
  policy = "C" =>
    /\ size >= 3 /\ status = "running" =>
         /\ currentSize <= size
         /\ Len(list) - currentSize = Len(missed) - Len(list)
    /\ status = "crashed" => size <= 1

(* Under F the cache holds the items of the last misses, as many as fit,   *)
(* in their order (cache.c:73-83).                                         *)
KeepsNewest ==
  policy = "F" /\ status = "running" =>
    LET k == Len(missed)
        kept == IF k < Capacity THEN k ELSE Capacity
    IN  [i \in DOMAIN list |-> list[i].data] = SubSeq(missed, k - kept + 1, k)

(* Under L with room for two, the item used last is still cached after the *)
(* next access (cache.c:95-133).                                           *)
LastUsedStays ==
  [][policy = "L" /\ size > 1 /\ status' = "running" => last \subseteq Data(list')]_vars

=============================================================================
