---------------------------- MODULE CacheProofs ----------------------------
(***************************************************************************)
(* Proofs about Cache for any finite set of items, any sizes other than 0  *)
(* and any number of misses.  IInv is the inductive invariant: next to the *)
(* types it relates the list to the counter under each policy, to the      *)
(* items evicted, and to the history of the misses.                        *)
(***************************************************************************)
EXTENDS Cache, FiniteSetTheorems, TLAPS

Seen == {missed[i] : i \in DOMAIN missed}

(* Under F and L: as many nodes as counted, all different, none too many. *)
ListCounted ==
  policy # "C" /\ status = "running" =>
    /\ Len(list) = currentSize
    /\ \A i, j \in DOMAIN list : list[i].data = list[j].data => i = j
    /\ currentSize <= Capacity

(* The counters against the misses, and what became of the missed items. *)
CountsSeen ==
  policy # "C" \/ (size >= 3 /\ status = "running") =>
    /\ CO = Cardinality(Seen)
    /\ CO + CA = Len(missed)
    /\ status = "running" => Seen = Data(list) \cup removed

(* Under C: the counter against the list. *)
ClockBounds ==
  policy = "C" /\ status = "running" =>
    /\ size >= 2 => currentSize \in 0 .. size /\ Len(list) >= currentSize
    /\ size >= 3 => /\ 2 * Len(list) = currentSize + Len(missed)
                    /\ currentSize = 0 => list = <<>>

(* Only a clock of at most one reads through NULL. *)
CrashedSmall == policy = "C" /\ status = "crashed" => size <= 1

(* Under F: which misses the nodes are from. *)
HoldsNewest ==
  policy = "F" /\ status = "running" =>
    /\ Len(list) = IF Len(missed) < Capacity THEN Len(missed) ELSE Capacity
    /\ \A i \in DOMAIN list : list[i].data = missed[Len(missed) - Len(list) + i]

(* Under L: the item used last is cached, and not where the next is evicted. *)
LastKept ==
  policy = "L" /\ size > 1 /\ status = "running" =>
    /\ last \subseteq Data(list)
    /\ Len(list) > 1 => list[1].data \notin last

IInv ==
  /\ TypeOK
  /\ ListCounted
  /\ CountsSeen
  /\ ClockBounds
  /\ CrashedSmall
  /\ HoldsNewest
  /\ LastKept

-----------------------------------------------------------------------------
(* Lists of nodes: what the operators of the model do to them. *)

LEMMA NodeIsANode ==
  ASSUME NEW item \in Items
  PROVE  Node(item) \in Nodes /\ Node(item).data = item /\ Node(item).age = 0
BY DEF Node, Nodes

(* A node is appended to a list. *)
LEMMA Appending ==
  ASSUME NEW l \in Seq(Nodes), NEW n \in Nodes
  PROVE  /\ Append(l, n) \in Seq(Nodes)
         /\ Append(l, n) # <<>>
         /\ Len(Append(l, n)) = Len(l) + 1
         /\ \A i \in DOMAIN l : Append(l, n)[i] = l[i]
         /\ Append(l, n)[Len(l) + 1] = n
         /\ Data(Append(l, n)) = Data(l) \cup {n.data}
<1> DEFINE a == Append(l, n)
<1>1. /\ a \in Seq(Nodes)
      /\ a # <<>>
      /\ Len(a) = Len(l) + 1
      /\ \A i \in DOMAIN l : a[i] = l[i]
      /\ a[Len(l) + 1] = n
  OBVIOUS
<1>2. DOMAIN a = 1 .. Len(l) + 1 /\ DOMAIN l = 1 .. Len(l) /\ Len(l) \in Nat
  BY <1>1
<1> HIDE DEF a
<1>3. ASSUME NEW d \in Data(a)
      PROVE  d \in Data(l) \cup {n.data}
  <2>1. PICK i \in DOMAIN a : d = a[i].data
    BY DEF Data
  <2>2. CASE i = Len(l) + 1
    BY <1>1, <2>1, <2>2
  <2>3. CASE i \in DOMAIN l
    BY <1>1, <2>1, <2>3 DEF Data
  <2> QED
    BY <1>2, <2>2, <2>3
<1>4. ASSUME NEW d \in Data(l)
      PROVE  d \in Data(a)
  <2>1. PICK i \in DOMAIN l : d = l[i].data
    BY DEF Data
  <2>2. i \in DOMAIN a /\ a[i].data = d
    BY <1>1, <1>2, <2>1
  <2> QED
    BY <2>2 DEF Data
<1>5. n.data \in Data(a)
  BY <1>1, <1>2 DEF Data
<1>6. Data(a) = Data(l) \cup {n.data}
  BY <1>3, <1>4, <1>5
<1> QED
  BY <1>1, <1>6 DEF a

(* The first node is taken off a list. *)
LEMMA TakingHead ==
  ASSUME NEW l \in Seq(Nodes), l # <<>>
  PROVE  /\ Len(l) >= 1 /\ l[1] \in Nodes
         /\ Tail(l) \in Seq(Nodes)
         /\ Len(Tail(l)) = Len(l) - 1
         /\ \A i \in 1 .. Len(l) - 1 : Tail(l)[i] = l[i + 1]
         /\ Data(l) = Data(Tail(l)) \cup {l[1].data}
<1> DEFINE t == Tail(l)
<1>1. /\ Len(l) >= 1 /\ l[1] \in Nodes
      /\ t \in Seq(Nodes)
      /\ Len(t) = Len(l) - 1
      /\ \A i \in 1 .. Len(l) - 1 : t[i] = l[i + 1]
  OBVIOUS
<1>2. DOMAIN t = 1 .. Len(l) - 1 /\ DOMAIN l = 1 .. Len(l) /\ Len(l) \in Nat
  BY <1>1
<1> HIDE DEF t
<1>3. ASSUME NEW d \in Data(l)
      PROVE  d \in Data(t) \cup {l[1].data}
  <2>1. PICK i \in DOMAIN l : d = l[i].data
    BY DEF Data
  <2>2. CASE i = 1
    BY <2>1, <2>2
  <2>3. CASE i # 1
    <3>1. i - 1 \in DOMAIN t /\ t[i - 1] = l[i]
      BY <1>1, <1>2, <2>3
    <3> QED
      BY <2>1, <3>1 DEF Data
  <2> QED
    BY <2>2, <2>3
<1>4. ASSUME NEW d \in Data(t)
      PROVE  d \in Data(l)
  <2>1. PICK i \in DOMAIN t : d = t[i].data
    BY DEF Data
  <2>2. i + 1 \in DOMAIN l /\ l[i + 1].data = d
    BY <1>1, <1>2, <2>1
  <2> QED
    BY <2>2 DEF Data
<1>5. l[1].data \in Data(l)
  BY <1>1, <1>2 DEF Data
<1>6. Data(l) = Data(t) \cup {l[1].data}
  BY <1>3, <1>4, <1>5
<1> QED
  BY <1>1, <1>6 DEF t

LEMMA EmptyList ==
  \A l : l = <<>> => Len(l) = 0
OBVIOUS

LEMMA DataOfEmpty ==
  ASSUME NEW l \in Seq(Nodes)
  PROVE  /\ Len(l) = 0 <=> l = <<>>
         /\ Data(<<>>) = {}
         /\ <<>> \in Seq(Nodes)
<1>1. Data(<<>>) = {}
  BY DEF Data
<1> QED
  BY <1>1

(* A list of different items has as many of them as nodes. *)
LEMMA DifferentItems ==
  ASSUME NEW l \in Seq(Nodes),
         \A i, j \in DOMAIN l : l[i].data = l[j].data => i = j
  PROVE  Cardinality(Data(l)) = Len(l)
<1> DEFINE f == [i \in 1 .. Len(l) |-> l[i].data]
<1>1. Len(l) \in Nat /\ DOMAIN l = 1 .. Len(l)
  OBVIOUS
<1>2. f \in Bijection(1 .. Len(l), Data(l))
  BY <1>1 DEF Data, Bijection, Injection, Surjection, IsInjective
<1>3. ExistsBijection(1 .. Len(l), Data(l))
  BY <1>2 DEF ExistsBijection
<1> QED
  BY <1>1, <1>3, FS_CountingElements

-----------------------------------------------------------------------------
(* The data of the first and the last node exchanged, the first one item. *)
Swapped(l, item) == [l EXCEPT ![1].data = l[Len(l)].data, ![Len(l)].data = item]

LEMMA Swapping ==
  ASSUME NEW l \in Seq(Nodes), NEW item \in Items, Len(l) > 1, l[1].data = item
  PROVE  /\ Swapped(l, item) \in Seq(Nodes)
         /\ Len(Swapped(l, item)) = Len(l)
         /\ Swapped(l, item)[1].data = l[Len(l)].data
         /\ Swapped(l, item)[Len(l)].data = item
         /\ \A i \in 2 .. Len(l) - 1 : Swapped(l, item)[i].data = l[i].data
         /\ Data(Swapped(l, item)) = Data(l)
<1>1. PICK k \in Nat : k = Len(l) /\ k > 1
  OBVIOUS
<1>2. /\ DOMAIN l = 1 .. k
      /\ \A i \in 1 .. k : l[i] \in Nodes
  BY <1>1
<1> DEFINE m == [l EXCEPT ![1] = [l[1] EXCEPT !.data = l[k].data]]
           s == [m EXCEPT ![k] = [m[k] EXCEPT !.data = item]]
<1>3. Swapped(l, item) = s
  BY <1>1 DEF Swapped
<1>4. /\ DOMAIN m = 1 .. k
      /\ m[1] = [l[1] EXCEPT !.data = l[k].data]
      /\ \A i \in 2 .. k : m[i] = l[i]
  BY <1>1, <1>2
<1> HIDE DEF m
<1>5. /\ DOMAIN s = 1 .. k
      /\ s[k] = [l[k] EXCEPT !.data = item]
      /\ s[1] = [l[1] EXCEPT !.data = l[k].data]
      /\ \A i \in 2 .. k - 1 : s[i] = l[i]
      /\ s = [i \in 1 .. k |-> s[i]]
  <2>1. 1 \in 1 .. k /\ k \in 1 .. k /\ k \in 2 .. k /\ k # 1
    BY <1>1
  <2>2. \A i \in 2 .. k - 1 : i \in 2 .. k /\ i # k /\ i \in 1 .. k
    BY <1>1
  <2>3. DOMAIN s = 1 .. k /\ s = [i \in 1 .. k |-> s[i]]
    BY <1>4
  <2>4. s[k] = [m[k] EXCEPT !.data = item] /\ m[k] = l[k]
    BY <1>4, <2>1
  <2>5. \A i \in 1 .. k : i # k => s[i] = m[i]
    BY <1>4
  <2> HIDE DEF s
  <2> QED
    BY <1>4, <2>1, <2>2, <2>3, <2>4, <2>5
<1> HIDE DEF s
<1>6. /\ s[1] \in Nodes /\ s[1].data = l[k].data
      /\ s[k] \in Nodes /\ s[k].data = item
  <2>1. l[1] \in Nodes /\ l[k] \in Nodes
    BY <1>1, <1>2
  <2>2. l[k].data \in Items
    BY <2>1 DEF Nodes
  <2> QED
    BY <1>5, <2>1, <2>2 DEF Nodes
<1>7. s \in Seq(Nodes) /\ Len(s) = k
  <2>1. \A i \in 1 .. k : i = 1 \/ i = k \/ (i \in 2 .. k - 1 /\ i \in 1 .. k)
    BY <1>1
  <2>2. \A i \in 1 .. k : s[i] \in Nodes
    BY <1>2, <1>5, <1>6, <2>1
  <2> QED
    BY <1>1, <1>5, <2>2
<1>8. \A i \in 1 .. k : i = 1 \/ i = k \/ i \in 2 .. k - 1
  BY <1>1
<1>9. \A i \in 1 .. k : \E j \in 1 .. k : l[i].data = s[j].data
  <2> SUFFICES ASSUME NEW i \in 1 .. k
               PROVE  \E j \in 1 .. k : l[i].data = s[j].data
    OBVIOUS
  <2>1. CASE i = 1
    BY <1>1, <1>6, <2>1
  <2>2. CASE i = k
    BY <1>1, <1>6, <2>2
  <2>3. CASE i \in 2 .. k - 1
    BY <1>5, <2>3
  <2> QED
    BY <1>8, <2>1, <2>2, <2>3
<1>10. \A i \in 1 .. k : \E j \in 1 .. k : s[i].data = l[j].data
  <2> SUFFICES ASSUME NEW i \in 1 .. k
               PROVE  \E j \in 1 .. k : s[i].data = l[j].data
    OBVIOUS
  <2>1. CASE i = 1
    BY <1>1, <1>6, <2>1
  <2>2. CASE i = k
    BY <1>1, <1>6, <2>2
  <2>3. CASE i \in 2 .. k - 1
    BY <1>5, <2>3
  <2> QED
    BY <1>8, <2>1, <2>2, <2>3
<1>11. Data(s) = Data(l)
  <2>1. Data(s) = {s[i].data : i \in 1 .. k} /\ Data(l) = {l[i].data : i \in 1 .. k}
    BY <1>2, <1>5 DEF Data
  <2> QED
    BY <1>9, <1>10, <2>1
<1> QED
  BY <1>1, <1>3, <1>5, <1>6, <1>7, <1>11

(* What a hit does to the list. *)
LEMMA HitList ==
  ASSUME TypeOK, NEW item \in Items, Hit(item)
  PROVE  /\ list' \in Seq(Nodes)
         /\ Len(list') = Len(list)
         /\ Data(list') = Data(list)
         /\ \/ \A i \in DOMAIN list : list'[i].data = list[i].data
            \/ /\ policy = "L" /\ Len(list) > 1 /\ list[1].data = item
               /\ list'[1].data = list[Len(list)].data
               /\ list'[Len(list)].data = item
               /\ \A i \in 2 .. Len(list) - 1 : list'[i].data = list[i].data
         /\ policy = "L" /\ Len(list) > 1 => list[1].data # item \/ list'[1].data = list[Len(list)].data
<1>0. list \in Seq(Nodes) /\ Len(list) \in Nat /\ DOMAIN list = 1 .. Len(list)
  BY DEF TypeOK
<1>1. CASE policy = "F"
  BY <1>0, <1>1 DEF Hit
<1>2. CASE policy = "C"
  <2>1. list' = UpdateNodeAge(item)
    BY <1>2 DEF Hit
  <2>2. ASSUME NEW i \in 1 .. Len(list)
        PROVE  /\ list'[i] \in Nodes
               /\ list'[i].data = list[i].data
    <3>1. list'[i] = IF list[i].data = item THEN [list[i] EXCEPT !.age = 1] ELSE list[i]
      BY <1>0, <2>1 DEF UpdateNodeAge
    <3>2. list[i] \in Nodes
      BY <1>0
    <3> QED
      BY <3>1, <3>2 DEF Nodes
  <2>3. list' = [i \in 1 .. Len(list) |-> list'[i]]
    BY <1>0, <2>1 DEF UpdateNodeAge
  <2>4. list' \in Seq(Nodes) /\ Len(list') = Len(list) /\ DOMAIN list' = DOMAIN list
    BY <1>0, <2>2, <2>3
  <2>5. Data(list') = Data(list)
    BY <1>0, <2>2, <2>4 DEF Data
  <2> QED
    BY <1>0, <1>2, <2>2, <2>4, <2>5
<1>3. CASE policy = "L"
  <2>1. list' = SwapLRU(item)
    BY <1>3 DEF Hit
  <2>2. CASE ~(Len(list) > 1 /\ list[1].data = item)
    BY <1>0, <1>3, <2>1, <2>2 DEF SwapLRU
  <2>3. CASE Len(list) > 1 /\ list[1].data = item
    <3>1. list' = Swapped(list, item)
      BY <2>1, <2>3 DEF SwapLRU, Swapped
    <3> QED
      BY <1>3, <2>3, <3>1, <1>0, Swapping
  <2> QED
    BY <2>2, <2>3
<1> QED
  BY <1>1, <1>2, <1>3, PoliciesAssumption DEF TypeOK

(* What a miss adds to the history. *)
LEMMA MissGrows ==
  ASSUME TypeOK, NEW item \in Items, CountMiss(item)
  PROVE  /\ missed' \in Seq(Items)
         /\ Len(missed) \in Nat /\ Len(missed') = Len(missed) + 1
         /\ \A i \in 1 .. Len(missed) : missed'[i] = missed[i]
         /\ missed'[Len(missed) + 1] = item
         /\ Seen' = Seen \cup {item}
         /\ IsFiniteSet(Seen)
<1>1. missed \in Seq(Items) /\ missed' = Append(missed, item)
  BY DEF TypeOK, CountMiss
<1>2. /\ missed' \in Seq(Items)
      /\ Len(missed) \in Nat /\ Len(missed') = Len(missed) + 1
      /\ \A i \in 1 .. Len(missed) : missed'[i] = missed[i]
      /\ missed'[Len(missed) + 1] = item
  BY <1>1
<1>3. DOMAIN missed = 1 .. Len(missed) /\ DOMAIN missed' = 1 .. Len(missed) + 1
  BY <1>1, <1>2
<1>4. \A i \in 1 .. Len(missed) + 1 : i \in 1 .. Len(missed) \/ i = Len(missed) + 1
  BY <1>2
<1>5. \A i \in 1 .. Len(missed) : i \in 1 .. Len(missed) + 1
  BY <1>2
<1>6. Len(missed) + 1 \in 1 .. Len(missed) + 1
  BY <1>2
<1>7. Seen' = {missed'[i] : i \in DOMAIN missed'}
  BY DEF Seen
<1>8. Seen' = Seen \cup {item}
  BY <1>2, <1>3, <1>4, <1>5, <1>6, <1>7 DEF Seen
<1>9. Seen \subseteq Items
  BY <1>1 DEF Seen
<1>10. IsFiniteSet(Seen)
  BY <1>9, ItemsAssumption, FS_Subset
<1> QED
  BY <1>2, <1>8, <1>10

(* A miss under F or L: the list with the item, or that without its head. *)
LEMMA AddList ==
  ASSUME TypeOK, NEW item \in Items, AddThenEvict(item), Len(list) = currentSize
  PROVE  /\ currentSize + 1 <= size =>
              /\ list' = Append(list, Node(item))
              /\ currentSize' = currentSize + 1
              /\ removed' = removed
         /\ currentSize + 1 > size =>
              /\ list' = Tail(Append(list, Node(item)))
              /\ currentSize' = currentSize
              /\ removed' = removed \cup {Append(list, Node(item))[1].data}
<1>1. list \in Seq(Nodes) /\ size \in Int /\ currentSize \in Int
  BY SizesAssumption DEF TypeOK
<1>2. currentSize = 0 => <<Node(item)>> = Append(list, Node(item))
  BY <1>1, DataOfEmpty
<1> QED
  BY <1>1, <1>2 DEF AddThenEvict

(* The hand of the clock passes no item by. *)
LEMMA HandTurns ==
  ASSUME TypeOK, list # <<>>
  PROVE  /\ AtHand \in Seq(Nodes)
         /\ AtHand # <<>>
         /\ Len(AtHand) = Len(list)
         /\ Data(AtHand) = Data(list)
<1>1. list \in Seq(Nodes)
  BY DEF TypeOK
<1> DEFINE n == [list[1] EXCEPT !.age = 0]
<1>2. n \in Nodes /\ n.data = list[1].data
  BY <1>1, TakingHead DEF Nodes
<1> HIDE DEF n
<1>3. Tail(list) \o <<n>> = Append(Tail(list), n)
  BY <1>1, <1>2
<1>4. /\ Passed \in Seq(Nodes) /\ Passed # <<>>
      /\ Len(Passed) = Len(Tail(list)) + 1
      /\ Data(Passed) = Data(Tail(list)) \cup {n.data}
  <2>1. Tail(list) \in Seq(Nodes)
    BY <1>1, TakingHead
  <2>2. Passed = Append(Tail(list), n)
    BY <1>3 DEF Passed, n
  <2> QED
    BY <1>2, <2>1, <2>2, Appending
<1>5. Len(Passed) = Len(list) /\ Data(Passed) = Data(list)
  <2>1. Len(list) \in Nat /\ Len(Tail(list)) = Len(list) - 1
    BY <1>1, TakingHead
  <2>2. Data(list) = Data(Tail(list)) \cup {list[1].data}
    BY <1>1, TakingHead
  <2> QED
    BY <1>2, <1>4, <2>1, <2>2
<1> QED
  BY <1>1, <1>4, <1>5 DEF AtHand

(* What AddNode leaves, without and with nodes to begin with. *)
LEMMA AddNodeList ==
  ASSUME NEW nodes \in Seq(Nodes), NEW k \in Int, NEW item \in Items,
         AddNode(nodes, k, item)
  PROVE  /\ list' \in Seq(Nodes)
         /\ currentSize' = k + 1
         /\ k = 0 => Len(list') = 1
         /\ k # 0 /\ nodes = <<>> => Len(list') = 0
         /\ (k = 0 <=> nodes = <<>>) =>
              /\ Len(list') = Len(nodes) + 1
              /\ Data(list') = Data(nodes) \cup {item}
         /\ nodes # <<>> /\ k # 0 =>
              /\ Len(list') = Len(nodes) + 1
              /\ Data(list') = Data(nodes) \cup {item}
<1>1. Node(item) \in Nodes /\ Node(item).data = item
  BY NodeIsANode
<1>2. CASE k = 0
  <2>1. list' = <<Node(item)>> /\ currentSize' = k + 1
    BY <1>2 DEF AddNode
  <2>2. list' = Append(<<>>, Node(item)) /\ <<>> \in Seq(Nodes) /\ Len(<<>>) = 0
    BY <2>1, <1>1
  <2>3. list' \in Seq(Nodes) /\ Len(list') = 1 /\ Data(list') = Data(<<>>) \cup {item}
    <3>1. PICK e : e = <<>> /\ e \in Seq(Nodes) /\ Len(e) = 0
      BY <2>2
    <3>2. PICK n \in Nodes : n = Node(item) /\ n.data = item
      BY <1>1
    <3>3. /\ Append(e, n) \in Seq(Nodes) /\ Len(Append(e, n)) = Len(e) + 1
          /\ Data(Append(e, n)) = Data(e) \cup {n.data}
      BY <3>1, Appending
    <3> QED
      BY <2>2, <3>1, <3>2, <3>3
  <2>4. nodes = <<>> => Len(list') = Len(nodes) + 1 /\ Data(list') = Data(nodes) \cup {item}
    BY <2>2, <2>3
  <2> QED
    BY <1>2, <2>1, <2>3, <2>4
<1>3. CASE k # 0 /\ nodes = <<>>
  BY <1>3 DEF AddNode
<1>4. CASE k # 0 /\ nodes # <<>>
  <2>1. list' = Append(nodes, Node(item)) /\ currentSize' = k + 1
    BY <1>4 DEF AddNode
  <2> QED
    BY <1>1, <1>4, <2>1, Appending
<1> QED
  BY <1>2, <1>3, <1>4

-----------------------------------------------------------------------------
(* One lemma for each part of the inductive invariant. *)

LEMMA TypesKept ==
  ASSUME IInv, [Next]_vars
  PROVE  TypeOK'
<1>0. TypeOK
  BY DEF IInv
<1>1. ASSUME NEW item \in Items, Hit(item)
      PROVE  TypeOK'
  <2>1. list' \in Seq(Nodes)
    BY <1>0, <1>1, HitList
  <2>2. last' \subseteq Items
    BY <1>1 DEF Hit
  <2> QED
    BY <1>0, <1>1, <2>1, <2>2 DEF TypeOK, Hit
<1>2. ASSUME NEW item \in Items, CountMiss(item)
      PROVE  /\ policy' \in Policies /\ size' \in Sizes
             /\ CO' \in Nat /\ CA' \in Nat
             /\ missed' \in Seq(Items)
             /\ last' \subseteq Items
  <2>1. missed' \in Seq(Items)
    BY <1>0, <1>2, MissGrows
  <2>2. CO' \in Nat /\ CA' \in Nat
    BY <1>0, <1>2 DEF CountMiss, TypeOK
  <2> QED
    BY <1>0, <1>2, <2>1, <2>2 DEF CountMiss, TypeOK
<1>3. ASSUME NEW item \in Items, MissFL(item)
      PROVE  TypeOK'
  <2>1. Len(list) = currentSize
    BY <1>3 DEF IInv, ListCounted, MissFL, CountMiss
  <2>2. CountMiss(item) /\ AddThenEvict(item) /\ status' = status
    BY <1>3 DEF MissFL
  <2> DEFINE a == Append(list, Node(item))
  <2>3. a \in Seq(Nodes) /\ Tail(a) \in Seq(Nodes) /\ a[1].data \in Items
    <3>1. list \in Seq(Nodes)
      BY <1>0 DEF TypeOK
    <3>2. a \in Seq(Nodes) /\ a # <<>>
      BY <3>1, NodeIsANode, Appending
    <3> HIDE DEF a
    <3>3. a[1] \in Nodes /\ Tail(a) \in Seq(Nodes)
      BY <3>2, TakingHead
    <3> QED
      BY <3>2, <3>3 DEF Nodes
  <2> HIDE DEF a
  <2>4. /\ currentSize + 1 <= size =>
             list' = a /\ currentSize' = currentSize + 1 /\ removed' = removed
        /\ currentSize + 1 > size =>
             list' = Tail(a) /\ currentSize' = currentSize /\ removed' = removed \cup {a[1].data}
    BY <1>0, <2>1, <2>2, AddList DEF a
  <2>5. currentSize \in Int /\ size \in Int
    BY <1>0, SizesAssumption DEF TypeOK
  <2>6. list' \in Seq(Nodes) /\ currentSize' \in Int /\ removed' \subseteq Items
    <3>1. removed \subseteq Items
      BY <1>0 DEF TypeOK
    <3>2. CASE currentSize + 1 <= size
      BY <2>3, <2>4, <2>5, <3>1, <3>2
    <3>3. CASE currentSize + 1 > size
      BY <2>3, <2>4, <2>5, <3>1, <3>3
    <3> QED
      BY <2>5, <3>2, <3>3
  <2> QED
    BY <1>0, <1>2, <2>2, <2>6 DEF TypeOK
<1>4. ASSUME NEW item \in Items, MissClockRoom(item)
      PROVE  TypeOK'
  <2>1. CountMiss(item) /\ AddNode(list, currentSize, item) /\ status' = status /\ removed' = removed
    BY <1>4 DEF MissClockRoom
  <2>2. list' \in Seq(Nodes) /\ currentSize' = currentSize + 1
    BY <1>0, <2>1, AddNodeList DEF TypeOK
  <2> QED
    BY <1>0, <1>2, <2>1, <2>2 DEF TypeOK
<1>5. ASSUME NEW item \in Items, MissClockFull(item)
      PROVE  TypeOK'
  <2>1. CountMiss(item) /\ list # <<>>
    BY <1>5 DEF MissClockFull
  <2>2. CASE status' = status
    <3>1. \/ /\ removed' = removed \cup {AtHand[1].data}
             /\ AddNode(Tail(AtHand), CountEviction(currentSize), item)
          \/ UNCHANGED <<list, currentSize, removed>>
      BY <1>5, <2>2 DEF MissClockFull
    <3>2. AtHand[1] \in Nodes /\ Tail(AtHand) \in Seq(Nodes)
      BY <1>0, <2>1, HandTurns, TakingHead
    <3>3. CountEviction(currentSize) \in Int
      BY <1>0 DEF TypeOK, CountEviction
    <3>4. ASSUME AddNode(Tail(AtHand), CountEviction(currentSize), item)
          PROVE  list' \in Seq(Nodes) /\ currentSize' = CountEviction(currentSize) + 1
      BY <3>2, <3>3, <3>4, AddNodeList
    <3>5. AtHand[1].data \in Items
      BY <3>2 DEF Nodes
    <3>6. list' \in Seq(Nodes) /\ currentSize' \in Int /\ removed' \subseteq Items
      BY <1>0, <3>1, <3>3, <3>4, <3>5 DEF TypeOK
    <3> QED
      BY <1>0, <1>2, <2>1, <2>2, <3>6 DEF TypeOK
  <2>3. CASE status' # status
    <3>1. status' \in {"aborted", "crashed"} /\ UNCHANGED <<list, currentSize, removed>>
      BY <1>5, <2>3 DEF MissClockFull
    <3> QED
      BY <1>0, <1>2, <2>1, <3>1 DEF TypeOK
  <2> QED
    BY <2>2, <2>3
<1>6. CASE EndOfInput
  <2>1. <<>> \in Seq(Nodes)
    OBVIOUS
  <2> QED
    BY <1>0, <1>6, <2>1 DEF EndOfInput, TypeOK
<1>7. CASE UNCHANGED vars
  BY <1>0, <1>7 DEF TypeOK, vars
<1> QED
  BY <1>1, <1>3, <1>4, <1>5, <1>6, <1>7 DEF Next, Miss

LEMMA ListCountedKept ==
  ASSUME IInv, [Next]_vars
  PROVE  ListCounted'
<1> SUFFICES ASSUME policy # "C", status' = "running", UNCHANGED <<policy, size>>
             PROVE  /\ Len(list') = currentSize'
                    /\ \A i, j \in DOMAIN list' : list'[i].data = list'[j].data => i = j
                    /\ currentSize' <= Capacity
  <2>1. UNCHANGED <<policy, size>>
    BY DEF Next, Miss, MissFL, MissClockRoom, MissClockFull, CountMiss, Hit, EndOfInput, vars
  <2> QED
    BY <2>1 DEF ListCounted, Capacity
<1>0. TypeOK /\ list \in Seq(Nodes) /\ Len(list) \in Nat /\ DOMAIN list = 1 .. Len(list)
  BY DEF IInv, TypeOK
<1>1. ASSUME status = "running"
      PROVE  /\ Len(list) = currentSize
             /\ \A i, j \in 1 .. Len(list) : list[i].data = list[j].data => i = j
             /\ currentSize <= Capacity
  BY <1>0, <1>1 DEF IInv, ListCounted
<1>2. ASSUME NEW item \in Items, Hit(item)
      PROVE  /\ Len(list') = currentSize'
             /\ \A i, j \in DOMAIN list' : list'[i].data = list'[j].data => i = j
             /\ currentSize' <= Capacity
  <2>1. status = "running" /\ currentSize' = currentSize
    BY <1>2 DEF Hit
  <2>2. PICK k \in Nat : k = Len(list)
    BY <1>0
  <2>3. list' \in Seq(Nodes) /\ Len(list') = k /\ DOMAIN list' = 1 .. k
    BY <1>0, <1>2, <2>2, HitList
  <2>4. \/ \A i \in 1 .. k : list'[i].data = list[i].data
        \/ /\ k > 1
           /\ list[1].data = item
           /\ list'[1].data = list[k].data
           /\ list'[k].data = item
           /\ \A i \in 2 .. k - 1 : list'[i].data = list[i].data
    BY <1>0, <1>2, <2>2, HitList
  <2>5. \A i, j \in 1 .. k : list[i].data = list[j].data => i = j
    BY <1>1, <2>1, <2>2
  <2>6. ASSUME NEW i \in 1 .. k, NEW j \in 1 .. k, list'[i].data = list'[j].data
        PROVE  i = j
    <3>1. CASE \A h \in 1 .. k : list'[h].data = list[h].data
      BY <2>5, <2>6, <3>1
    <3>2. CASE ~\A h \in 1 .. k : list'[h].data = list[h].data
      <4> DEFINE other(h) == IF h = 1 THEN k ELSE IF h = k THEN 1 ELSE h
      <4>1. k > 1
        BY <2>4, <3>2
      <4>2. \A h \in 1 .. k : h = 1 \/ h = k \/ h \in 2 .. k - 1
        OBVIOUS
      <4>3. \A h \in 1 .. k : list'[h].data = list[other(h)].data
        BY <2>4, <3>2, <4>1, <4>2
      <4>4. other(i) \in 1 .. k /\ other(j) \in 1 .. k
        BY <4>1
      <4>5. other(i) = other(j)
        BY <2>5, <2>6, <4>3, <4>4
      <4> QED
        BY <4>1, <4>5
    <3> QED
      BY <3>1, <3>2
  <2> QED
    BY <1>1, <2>1, <2>2, <2>3, <2>6
<1>3. ASSUME NEW item \in Items, MissFL(item)
      PROVE  /\ Len(list') = currentSize'
             /\ \A i, j \in DOMAIN list' : list'[i].data = list'[j].data => i = j
             /\ currentSize' <= Capacity
  <2>1. /\ CountMiss(item) /\ AddThenEvict(item)
        /\ status = "running" /\ item \notin Data(list)
    BY <1>3 DEF MissFL, CountMiss, InCache
  <2>2. PICK k \in Nat : k = Len(list) /\ k = currentSize
    BY <1>0, <1>1, <2>1
  <2> DEFINE a == Append(list, Node(item))
  <2>3. /\ a \in Seq(Nodes) /\ a # <<>> /\ Len(a) = k + 1 /\ DOMAIN a = 1 .. k + 1
        /\ \A i \in 1 .. k : a[i] = list[i]
        /\ a[k + 1].data = item
    BY <1>0, <2>2, NodeIsANode, Appending
  <2>4. /\ k + 1 <= size => list' = a /\ currentSize' = k + 1
        /\ k + 1 > size => list' = Tail(a) /\ currentSize' = k
    BY <1>0, <2>1, <2>2, AddList
  <2> HIDE DEF a
  <2>5. \A i, j \in 1 .. k : list[i].data = list[j].data => i = j
    BY <1>1, <2>1, <2>2
  <2>6. \A i \in 1 .. k : list[i].data # item
    BY <1>0, <2>1, <2>2 DEF Data
  <2>7. \A i, j \in 1 .. k + 1 : a[i].data = a[j].data => i = j
    <3>1. \A i \in 1 .. k + 1 : i \in 1 .. k \/ i = k + 1
      OBVIOUS
    <3> QED
      BY <2>3, <2>5, <2>6, <3>1
  <2>8. size \in Int /\ k <= Capacity
    BY <1>0, <1>1, <2>1, <2>2, SizesAssumption DEF TypeOK
  <2>9. CASE k + 1 <= size
    BY <2>3, <2>4, <2>7, <2>8, <2>9 DEF Capacity
  <2>10. CASE k + 1 > size
    <3>1. /\ Tail(a) \in Seq(Nodes) /\ Len(Tail(a)) = k
          /\ \A i \in 1 .. k : Tail(a)[i] = a[i + 1]
      BY <2>3, TakingHead
    <3>2. DOMAIN Tail(a) = 1 .. k
      BY <3>1
    <3>3. ASSUME NEW i \in 1 .. k, NEW j \in 1 .. k, Tail(a)[i].data = Tail(a)[j].data
          PROVE  i = j
      <4>1. a[i + 1].data = a[j + 1].data
        BY <3>1, <3>3
      <4>2. i + 1 \in 1 .. k + 1 /\ j + 1 \in 1 .. k + 1
        OBVIOUS
      <4> QED
        BY <2>7, <4>1, <4>2
    <3> QED
      BY <2>4, <2>8, <2>10, <3>1, <3>2, <3>3
  <2> QED
    BY <2>8, <2>9, <2>10
<1>4. ASSUME NEW item \in Items, MissClockRoom(item) \/ MissClockFull(item)
      PROVE  FALSE
  BY <1>4 DEF MissClockRoom, MissClockFull
<1>5. CASE EndOfInput
  BY <1>5 DEF EndOfInput
<1>6. CASE UNCHANGED vars
  BY <1>0, <1>1, <1>6 DEF vars
<1> QED
  BY <1>2, <1>3, <1>4, <1>5, <1>6 DEF Next, Miss

(* The first miss of an item is compulsory, the others are not: what was   *)
(* missed is in the list or was removed.                                   *)
LEMMA CountsSeenKept ==
  ASSUME IInv, [Next]_vars
  PROVE  CountsSeen'
<1>0. TypeOK
  BY DEF IInv
<1>1. ASSUME UNCHANGED <<missed, CO, CA, removed, policy, size>>,
             status' # "running" \/ (status' = status /\ Data(list') = Data(list))
      PROVE  CountsSeen'
  <2>1. Seen' = Seen
    BY <1>1 DEF Seen
  <2> QED
    BY <1>1, <2>1 DEF IInv, CountsSeen
<1>2. ASSUME NEW item \in Items, CountMiss(item),
             status' = "running" =>
               \/ policy = "C" /\ size < 3
               \/ Data(list') \cup removed' = Data(list) \cup removed \cup {item},
             policy # "C" => status' = "running"
      PROVE  CountsSeen'
  <2>1. /\ Seen' = Seen \cup {item} /\ IsFiniteSet(Seen)
        /\ Len(missed') = Len(missed) + 1 /\ Len(missed) \in Nat
    BY <1>0, <1>2, MissGrows
  <2>2. UNCHANGED <<policy, size>> /\ status = "running" /\ item \notin Data(list)
    BY <1>2 DEF CountMiss, InCache
  <2> SUFFICES ASSUME policy # "C" \/ (size >= 3 /\ status' = "running")
               PROVE  /\ CO' = Cardinality(Seen')
                      /\ CO' + CA' = Len(missed')
                      /\ status' = "running" => Seen' = Data(list') \cup removed'
    BY <2>2 DEF CountsSeen
  <2>3. /\ CO = Cardinality(Seen) /\ CO + CA = Len(missed)
        /\ Seen = Data(list) \cup removed
    BY <2>2 DEF IInv, CountsSeen
  <2>4. item \in Seen <=> item \in removed
    BY <2>2, <2>3
  <2>5. Cardinality(Seen') = IF item \in removed THEN Cardinality(Seen) ELSE Cardinality(Seen) + 1
    BY <2>1, <2>4, FS_AddElement
  <2>6. /\ CO' = IF item \in removed THEN CO ELSE CO + 1
        /\ CA' = IF item \in removed THEN CA + 1 ELSE CA
    BY <1>2 DEF CountMiss
  <2>7. CO \in Nat /\ CA \in Nat /\ size \in Int
    BY <1>0, SizesAssumption DEF TypeOK
  <2>8. Data(list') \cup removed' = Data(list) \cup removed \cup {item} \/ status' # "running"
    BY <1>2, <2>7
  <2>9. CO' = Cardinality(Seen') /\ CO' + CA' = Len(missed')
    <3>1. CO' = Cardinality(Seen')
      BY <2>3, <2>5, <2>6
    <3>2. CO' + CA' = CO + CA + 1
      <4>1. CASE item \in removed
        BY <2>6, <2>7, <4>1
      <4>2. CASE item \notin removed
        BY <2>6, <2>7, <4>2
      <4> QED
        BY <4>1, <4>2
    <3> QED
      BY <2>1, <2>3, <3>1, <3>2
  <2> QED
    BY <2>1, <2>3, <2>8, <2>9
<1>3. ASSUME NEW item \in Items, Hit(item)
      PROVE  CountsSeen'
  <2>1. Data(list') = Data(list)
    BY <1>0, <1>3, HitList
  <2> QED
    BY <1>1, <1>3, <2>1 DEF Hit
<1>4. ASSUME NEW item \in Items, MissFL(item)
      PROVE  CountsSeen'
  <2>1. CountMiss(item) /\ AddThenEvict(item) /\ policy # "C" /\ status' = "running"
    BY <1>4 DEF MissFL, CountMiss
  <2>2. Len(list) = currentSize /\ size \in Int /\ currentSize \in Int /\ list \in Seq(Nodes)
    BY <1>0, <1>4, SizesAssumption DEF IInv, ListCounted, MissFL, CountMiss, TypeOK
  <2> DEFINE a == Append(list, Node(item))
  <2>3. a \in Seq(Nodes) /\ a # <<>> /\ Data(a) = Data(list) \cup {item}
    BY <2>2, NodeIsANode, Appending
  <2>4. /\ currentSize + 1 <= size => list' = a /\ removed' = removed
        /\ currentSize + 1 > size => list' = Tail(a) /\ removed' = removed \cup {a[1].data}
    BY <1>0, <2>1, <2>2, AddList
  <2> HIDE DEF a
  <2>5. Data(a) = Data(Tail(a)) \cup {a[1].data}
    BY <2>3, TakingHead
  <2>6. Data(list') \cup removed' = Data(list) \cup removed \cup {item}
    <3>1. CASE currentSize + 1 <= size
      BY <2>3, <2>4, <3>1
    <3>2. CASE currentSize + 1 > size
      BY <2>3, <2>4, <2>5, <3>2
    <3> QED
      BY <2>2, <3>1, <3>2
  <2> QED
    BY <1>2, <2>1, <2>6
<1>5. ASSUME NEW item \in Items, MissClockRoom(item)
      PROVE  CountsSeen'
  <2>1. /\ CountMiss(item) /\ policy = "C" /\ status' = status /\ status = "running"
        /\ AddNode(list, currentSize, item) /\ removed' = removed
    BY <1>5 DEF MissClockRoom, CountMiss
  <2>2. CASE size < 3
    BY <1>2, <2>1, <2>2
  <2>3. CASE size >= 3
    <3>1. /\ list \in Seq(Nodes) /\ currentSize \in Int /\ size \in Int /\ Len(list) \in Nat
          /\ Len(list) = 0 <=> list = <<>>
      BY <1>0, SizesAssumption, DataOfEmpty DEF TypeOK
    <3>2. currentSize = 0 <=> list = <<>>
      <4>1. currentSize >= 0 /\ Len(list) >= currentSize /\ (currentSize = 0 => list = <<>>)
        BY <2>1, <2>3, <3>1 DEF IInv, ClockBounds
      <4> QED
        BY <3>1, <4>1
    <3>3. Data(list') = Data(list) \cup {item}
      BY <2>1, <3>1, <3>2, AddNodeList
    <3> QED
      BY <1>2, <2>1, <3>3
  <2> QED
    BY <1>0, <2>2, <2>3, SizesAssumption DEF TypeOK
<1>6. ASSUME NEW item \in Items, MissClockFull(item)
      PROVE  CountsSeen'
  <2>1. /\ CountMiss(item) /\ policy = "C" /\ status = "running"
        /\ list # <<>> /\ currentSize >= size
    BY <1>6 DEF MissClockFull, CountMiss
  <2>2. CASE size < 3 \/ status' # "running"
    BY <1>2, <2>1, <2>2
  <2>3. CASE size >= 3 /\ status' = "running"
    <3>1. /\ list \in Seq(Nodes) /\ currentSize \in Int /\ size \in Int /\ Len(list) \in Nat
      BY <1>0, SizesAssumption DEF TypeOK
    <3>2. Len(list) >= 3 /\ currentSize >= 3
      BY <2>1, <2>3, <3>1 DEF IInv, ClockBounds
    <3>3. /\ removed' = removed \cup {AtHand[1].data}
          /\ AddNode(Tail(AtHand), CountEviction(currentSize), item)
      BY <1>6, <2>1, <2>3 DEF MissClockFull
    <3>4. /\ AtHand \in Seq(Nodes) /\ AtHand # <<>> /\ Len(AtHand) = Len(list)
          /\ Data(AtHand) = Data(list)
      BY <1>0, <2>1, HandTurns
    <3>5. /\ Tail(AtHand) \in Seq(Nodes) /\ Len(Tail(AtHand)) = Len(list) - 1
          /\ Data(list) = Data(Tail(AtHand)) \cup {AtHand[1].data}
      BY <3>4, TakingHead
    <3>6. Tail(AtHand) # <<>>
      <4> DEFINE t == Tail(AtHand)
                 n == Len(list)
      <4>1. n \in Nat /\ n >= 3 /\ Len(t) = n - 1
        BY <3>1, <3>2, <3>5
      <4> HIDE DEF t, n
      <4>2. Len(t) # 0
        BY <4>1
      <4>3. t # <<>>
        BY <4>2, EmptyList
      <4> QED
        BY <4>3 DEF t
    <3>7. CountEviction(currentSize) \in Int /\ CountEviction(currentSize) # 0
      BY <3>1, <3>2 DEF CountEviction
    <3>8. Data(list') = Data(Tail(AtHand)) \cup {item}
      BY <3>3, <3>5, <3>6, <3>7, AddNodeList
    <3> QED
      BY <1>2, <2>1, <3>3, <3>5, <3>8
  <2> QED
    BY <1>0, <2>2, <2>3, SizesAssumption DEF TypeOK
<1>7. CASE EndOfInput
  BY <1>1, <1>7 DEF EndOfInput
<1>8. CASE UNCHANGED vars
  BY <1>1, <1>8 DEF vars
<1> QED
  BY <1>3, <1>4, <1>5, <1>6, <1>7, <1>8 DEF Next, Miss

(* The clock's counter against its list, and who may crash. *)
LEMMA ClockKept ==
  ASSUME IInv, [Next]_vars
  PROVE  ClockBounds' /\ CrashedSmall'
<1>0. TypeOK /\ list \in Seq(Nodes) /\ Len(list) \in Nat
      /\ currentSize \in Int /\ size \in Int /\ Len(missed) \in Nat
  BY SizesAssumption DEF IInv, TypeOK
<1>1. ASSUME policy = "C", status = "running"
      PROVE  /\ size >= 2 => currentSize >= 0 /\ currentSize <= size /\ Len(list) >= currentSize
             /\ size >= 3 => /\ 2 * Len(list) = currentSize + Len(missed)
                             /\ currentSize = 0 => list = <<>>
  BY <1>0, <1>1 DEF IInv, ClockBounds
<1>2. ASSUME NEW item \in Items, Hit(item)
      PROVE  ClockBounds' /\ CrashedSmall'
  <2>1. UNCHANGED <<policy, size, currentSize, missed, status>> /\ status = "running"
    BY <1>2 DEF Hit
  <2>2. list' \in Seq(Nodes) /\ Len(list') = Len(list)
    BY <1>0, <1>2, HitList
  <2>3. list = <<>> => list' = <<>>
    <3>1. Len(list) = 0 <=> list = <<>>
      BY <1>0, DataOfEmpty
    <3>2. Len(list') = 0 <=> list' = <<>>
      BY <2>2, DataOfEmpty
    <3> QED
      BY <2>2, <3>1, <3>2
  <2> QED
    BY <1>0, <1>1, <2>1, <2>2, <2>3 DEF ClockBounds, CrashedSmall
<1>3. ASSUME NEW item \in Items, MissClockRoom(item)
      PROVE  ClockBounds' /\ CrashedSmall'
  <2>1. /\ UNCHANGED <<policy, size, status>> /\ policy = "C" /\ status = "running"
        /\ CountMiss(item) /\ AddNode(list, currentSize, item)
        /\ currentSize < size \/ list = <<>>
    BY <1>3 DEF MissClockRoom, CountMiss
  <2>2. Len(missed') = Len(missed) + 1
    BY <1>0, <2>1, MissGrows
  <2>3. /\ currentSize' = currentSize + 1
        /\ currentSize = 0 => Len(list') = 1
        /\ currentSize # 0 /\ list # <<>> => Len(list') = Len(list) + 1
        /\ currentSize = 0 /\ list = <<>> => Len(list') = Len(list) + 1
    BY <1>0, <2>1, AddNodeList
  <2>4. Len(list) = 0 <=> list = <<>>
    BY <1>0, DataOfEmpty
  <2>5. ASSUME size >= 2
        PROVE  currentSize' \in 0 .. size /\ Len(list') >= currentSize'
    <3>1. currentSize < size
      BY <1>0, <1>1, <2>1, <2>4, <2>5
    <3>2. currentSize = 0 \/ list # <<>>
      BY <1>0, <1>1, <2>1, <2>4, <2>5
    <3>3. currentSize >= 0 /\ Len(list) >= currentSize
      BY <1>1, <2>1, <2>5
    <3>4. Len(list') >= currentSize'
      <4>1. CASE currentSize = 0
        BY <2>3, <4>1
      <4>2. CASE currentSize # 0
        BY <1>0, <2>3, <3>2, <3>3, <4>2
      <4> QED
        BY <4>1, <4>2
    <3> QED
      BY <1>0, <2>3, <3>1, <3>3, <3>4
  <2>6. ASSUME size >= 3
        PROVE  2 * Len(list') = currentSize' + Len(missed') /\ currentSize' # 0
    <3>1. currentSize >= 0 /\ (currentSize = 0 <=> list = <<>>)
      BY <1>0, <1>1, <2>1, <2>4, <2>6
    <3>2. Len(list') = Len(list) + 1
      BY <2>3, <3>1
    <3> QED
      BY <1>0, <1>1, <2>1, <2>2, <2>3, <2>6, <3>1, <3>2
  <2> QED
    BY <2>1, <2>5, <2>6 DEF ClockBounds, CrashedSmall
<1>4. ASSUME NEW item \in Items, MissClockFull(item)
      PROVE  ClockBounds' /\ CrashedSmall'
  <2>1. /\ UNCHANGED <<policy, size>> /\ policy = "C" /\ status = "running"
        /\ CountMiss(item) /\ currentSize >= size /\ list # <<>>
    BY <1>4 DEF MissClockFull, CountMiss
  <2>2. CASE status' # "running"
    <3>1. status' = "crashed" => Len(list) = 1
      BY <1>4, <2>1 DEF MissClockFull
    <3>2. size >= 2 => Len(list) >= 2
      <4> DEFINE n == Len(list)
      <4>1. size >= 2 => n >= currentSize
        BY <1>1, <2>1
      <4>2. n \in Nat /\ currentSize \in Int /\ size \in Int /\ currentSize >= size
        BY <1>0, <2>1
      <4> HIDE DEF n
      <4>3. size >= 2 => n >= 2
        BY <4>1, <4>2
      <4> QED
        BY <4>3 DEF n
    <3>3. status' = "crashed" => size <= 1
      <4>1. status' = "crashed" => ~(size >= 2)
        BY <3>1, <3>2
      <4>2. size \in Int
        BY <1>0
      <4> QED
        BY <4>1, <4>2
    <3> QED
      BY <2>1, <2>2, <3>3 DEF ClockBounds, CrashedSmall
  <2>3. CASE status' = "running"
    <3>1. AddNode(Tail(AtHand), CountEviction(currentSize), item)
      BY <1>4, <2>3 DEF MissClockFull
    <3>2. /\ AtHand \in Seq(Nodes) /\ AtHand # <<>> /\ Len(AtHand) = Len(list)
      BY <1>0, <2>1, HandTurns
    <3>3. Tail(AtHand) \in Seq(Nodes) /\ Len(Tail(AtHand)) = Len(list) - 1
      BY <3>2, TakingHead
    <3> DEFINE t == Tail(AtHand)
               k == CountEviction(currentSize)
    <3>4. k = currentSize - 2 /\ k \in Int
      BY <1>0 DEF CountEviction
    <3>5. t \in Seq(Nodes) /\ AddNode(t, k, item) /\ Len(t) = Len(list) - 1
      BY <3>1, <3>3
    <3> HIDE DEF t, k
    <3>6. /\ currentSize' = k + 1
          /\ k = 0 => Len(list') = 1
          /\ k # 0 /\ t # <<>> => Len(list') = Len(t) + 1
      BY <3>4, <3>5, AddNodeList
    <3>7. t = <<>> => Len(t) = 0
      BY EmptyList
    <3>8. Len(missed') = Len(missed) + 1
      BY <1>0, <2>1, MissGrows
    <3>9. ASSUME size >= 2
          PROVE  currentSize' \in 0 .. size /\ Len(list') >= currentSize'
      <4>0. currentSize <= size /\ Len(list) >= currentSize
        BY <1>1, <2>1, <3>9
      <4>1. currentSize = size /\ Len(list) >= size
        BY <1>0, <2>1, <4>0
      <4>2. k # 0 => Len(list') = Len(list)
        <5>1. Len(t) # 0 /\ Len(t) + 1 = Len(list)
          BY <1>0, <3>5, <3>9, <4>1
        <5>2. t # <<>>
          BY <3>7, <5>1
        <5> QED
          BY <3>6, <5>1, <5>2
      <4>3. currentSize' = size - 1 /\ currentSize' \in 0 .. size
        BY <1>0, <3>4, <3>6, <3>9, <4>1
      <4>4. CASE k = 0
        <5>1. size = 2 /\ currentSize' = 1 /\ Len(list') = 1
          BY <1>0, <3>4, <3>6, <4>1, <4>3, <4>4
        <5> QED
          BY <4>3, <5>1
      <4>5. CASE k # 0
        <5>1. Len(list') = Len(list)
          BY <4>2, <4>5
        <5> QED
          BY <1>0, <4>1, <4>3, <5>1
      <4> QED
        BY <4>4, <4>5
    <3>10. ASSUME size >= 3
           PROVE  2 * Len(list') = currentSize' + Len(missed') /\ currentSize' # 0
      <4>1. currentSize = size /\ Len(list) >= size /\ 2 * Len(list) = currentSize + Len(missed)
        BY <1>0, <1>1, <2>1, <3>10
      <4>2. k # 0 /\ Len(list') = Len(list)
        BY <1>0, <3>4, <3>5, <3>6, <3>7, <3>10, <4>1
      <4> QED
        BY <1>0, <3>4, <3>6, <3>8, <3>10, <4>1, <4>2
    <3> QED
      BY <2>1, <2>3, <3>9, <3>10 DEF ClockBounds, CrashedSmall
  <2> QED
    BY <2>2, <2>3
<1>5. ASSUME NEW item \in Items, MissFL(item)
      PROVE  ClockBounds' /\ CrashedSmall'
  BY <1>5 DEF MissFL, CountMiss, ClockBounds, CrashedSmall
<1>6. CASE EndOfInput
  BY <1>6 DEF EndOfInput, ClockBounds, CrashedSmall
<1>7. CASE UNCHANGED vars
  BY <1>7 DEF vars, IInv, ClockBounds, CrashedSmall
<1> QED
  BY <1>2, <1>3, <1>4, <1>5, <1>6, <1>7 DEF Next, Miss

LEMMA HoldsNewestKept ==
  ASSUME IInv, [Next]_vars
  PROVE  HoldsNewest'
<1> SUFFICES ASSUME policy = "F", status' = "running", UNCHANGED <<policy, size>>
             PROVE  /\ Len(list') = IF Len(missed') < Capacity THEN Len(missed') ELSE Capacity
                    /\ \A i \in DOMAIN list' : list'[i].data = missed'[Len(missed') - Len(list') + i]
  <2>1. UNCHANGED <<policy, size>>
    BY DEF Next, Miss, MissFL, MissClockRoom, MissClockFull, CountMiss, Hit, EndOfInput, vars
  <2> QED
    BY <2>1 DEF HoldsNewest, Capacity
<1>0. /\ TypeOK /\ list \in Seq(Nodes) /\ Len(list) \in Nat /\ DOMAIN list = 1 .. Len(list)
      /\ size \in Int /\ Len(missed) \in Nat
  BY SizesAssumption DEF IInv, TypeOK
<1>1. ASSUME status = "running"
      PROVE  /\ Len(list) = IF Len(missed) < Capacity THEN Len(missed) ELSE Capacity
             /\ \A i \in 1 .. Len(list) : list[i].data = missed[Len(missed) - Len(list) + i]
             /\ Len(list) = currentSize
  BY <1>0, <1>1 DEF IInv, HoldsNewest, ListCounted
<1>2. ASSUME NEW item \in Items, Hit(item)
      PROVE  /\ Len(list') = IF Len(missed') < Capacity THEN Len(missed') ELSE Capacity
             /\ \A i \in DOMAIN list' : list'[i].data = missed'[Len(missed') - Len(list') + i]
  <2>1. status = "running" /\ list' = list /\ missed' = missed
    BY <1>2 DEF Hit
  <2> QED
    BY <1>0, <1>1, <2>1
<1>3. ASSUME NEW item \in Items, MissFL(item)
      PROVE  /\ Len(list') = IF Len(missed') < Capacity THEN Len(missed') ELSE Capacity
             /\ \A i \in DOMAIN list' : list'[i].data = missed'[Len(missed') - Len(list') + i]
  <2>1. /\ CountMiss(item) /\ AddThenEvict(item)
        /\ status = "running"
    BY <1>3 DEF MissFL, CountMiss
  <2>2. PICK k \in Nat : k = Len(list) /\ k = currentSize
    BY <1>0, <1>1, <2>1
  <2>3. PICK m \in Nat : m = Len(missed)
    BY <1>0
  <2>4. PICK c \in Nat : c = Capacity /\ c = IF size > 0 THEN size ELSE 0
    BY <1>0 DEF Capacity
  <2> DEFINE a == Append(list, Node(item))
  <2>5. /\ a \in Seq(Nodes) /\ a # <<>> /\ Len(a) = k + 1 /\ DOMAIN a = 1 .. k + 1
        /\ \A i \in 1 .. k : a[i] = list[i]
        /\ a[k + 1].data = item
    BY <1>0, <2>2, NodeIsANode, Appending
  <2>6. /\ k + 1 <= size => list' = a
        /\ k + 1 > size => list' = Tail(a)
    BY <1>0, <2>1, <2>2, AddList
  <2> HIDE DEF a
  <2>7. k = IF m < c THEN m ELSE c
    BY <1>1, <2>1, <2>2, <2>3, <2>4
  <2>8. /\ Len(missed') = m + 1
        /\ \A i \in 1 .. m : missed'[i] = missed[i]
        /\ missed'[m + 1] = item
    BY <1>0, <2>1, <2>3, MissGrows
  <2>9. \A i \in 1 .. k : list[i].data = missed[m - k + i]
    BY <1>1, <2>1, <2>2, <2>3
  <2>10. \A i \in 1 .. k + 1 : a[i].data = missed'[m - k + i]
    <3> SUFFICES ASSUME NEW i \in 1 .. k + 1
                 PROVE  a[i].data = missed'[m - k + i]
      OBVIOUS
    <3>1. CASE i = k + 1
      <4>1. m - k + i = m + 1
        BY <3>1
      <4> QED
        BY <2>5, <2>8, <3>1, <4>1
    <3>2. CASE i # k + 1
      <4>1. i \in 1 .. k /\ m - k + i \in 1 .. m
        BY <2>7, <3>2
      <4> QED
        BY <2>5, <2>8, <2>9, <4>1
    <3> QED
      BY <3>1, <3>2
  <2>11. CASE k + 1 <= size
    <3>1. k = m /\ m + 1 <= c
      BY <1>0, <2>4, <2>7, <2>11
    <3>2. Len(list') = k + 1 /\ DOMAIN list' = 1 .. k + 1 /\ list' = a
      BY <2>5, <2>6, <2>11
    <3>3. Len(list') = IF Len(missed') < Capacity THEN Len(missed') ELSE Capacity
      BY <2>4, <2>8, <3>1, <3>2
    <3>4. \A i \in 1 .. k + 1 : list'[i].data = missed'[Len(missed') - Len(list') + i]
      <4>1. Len(missed') - Len(list') = m - k
        BY <2>8, <3>2
      <4> QED
        BY <2>10, <3>2, <4>1
    <3> QED
      BY <3>2, <3>3, <3>4
  <2>12. CASE k + 1 > size
    <3>1. k = c /\ c <= m
      BY <1>0, <2>4, <2>7, <2>12
    <3>2. /\ Tail(a) \in Seq(Nodes) /\ Len(Tail(a)) = k
          /\ \A i \in 1 .. k : Tail(a)[i] = a[i + 1]
      BY <2>5, TakingHead
    <3>3. /\ Len(list') = k /\ DOMAIN list' = 1 .. k
          /\ \A i \in 1 .. k : list'[i] = a[i + 1]
      BY <2>6, <2>12, <3>2
    <3>4. Len(list') = IF Len(missed') < Capacity THEN Len(missed') ELSE Capacity
      BY <2>4, <2>8, <3>1, <3>3
    <3>5. ASSUME NEW i \in 1 .. k
          PROVE  list'[i].data = missed'[Len(missed') - Len(list') + i]
      <4>1. Len(missed') - Len(list') + i = m - k + (i + 1) /\ i + 1 \in 1 .. k + 1
        BY <2>8, <3>3
      <4>2. list'[i] = a[i + 1]
        BY <3>3
      <4> QED
        BY <2>10, <4>1, <4>2
    <3> QED
      BY <3>3, <3>4, <3>5
  <2> QED
    BY <1>0, <2>11, <2>12
<1>4. ASSUME NEW item \in Items, MissClockRoom(item) \/ MissClockFull(item)
      PROVE  FALSE
  BY <1>4 DEF MissClockRoom, MissClockFull
<1>5. CASE EndOfInput
  BY <1>5 DEF EndOfInput
<1>6. CASE UNCHANGED vars
  BY <1>0, <1>1, <1>6 DEF vars
<1> QED
  BY <1>2, <1>3, <1>4, <1>5, <1>6 DEF Next, Miss

(* What a step of L leaves: the item used last is still there, and the next *)
(* one is not where it would be evicted.                                   *)
LEMMA LastUsed ==
  ASSUME IInv, [Next]_vars, policy = "L", size > 1, status' = "running"
  PROVE  /\ last \subseteq Data(list')
         /\ last' \subseteq Data(list')
         /\ Len(list') > 1 => list'[1].data \notin last'
<1>0. /\ TypeOK /\ list \in Seq(Nodes) /\ Len(list) \in Nat /\ DOMAIN list = 1 .. Len(list)
      /\ size \in Int
  BY SizesAssumption DEF IInv, TypeOK
<1>1. ASSUME status = "running"
      PROVE  /\ last \subseteq Data(list)
             /\ Len(list) > 1 => list[1].data \notin last
             /\ Len(list) = currentSize
             /\ \A i, j \in 1 .. Len(list) : list[i].data = list[j].data => i = j
  BY <1>0, <1>1 DEF IInv, LastKept, ListCounted
<1>2. ASSUME NEW item \in Items, Hit(item)
      PROVE  /\ last \subseteq Data(list')
             /\ last' \subseteq Data(list')
             /\ Len(list') > 1 => list'[1].data \notin last'
  <2>1. status = "running" /\ last' = {item} /\ item \in Data(list)
    BY <1>2 DEF Hit, InCache
  <2>2. Len(list') = Len(list) /\ Data(list') = Data(list)
    BY <1>0, <1>2, HitList
  <2>3. ASSUME Len(list) > 1
        PROVE  list'[1].data # item
    <3>1. CASE \A i \in DOMAIN list : list'[i].data = list[i].data
      <4>1. list[1].data # item \/ list'[1].data = list[Len(list)].data
        BY <1>0, <1>2, <2>3, HitList
      <4>2. list'[1].data = list[1].data
        BY <1>0, <2>3, <3>1
      <4>3. list[1].data # list[Len(list)].data
        BY <1>0, <1>1, <2>1, <2>3
      <4> QED
        BY <4>1, <4>2, <4>3
    <3>2. CASE ~\A i \in DOMAIN list : list'[i].data = list[i].data
      <4>1. list[1].data = item /\ list'[1].data = list[Len(list)].data
        BY <1>0, <1>2, <3>2, HitList
      <4>2. list[1].data # list[Len(list)].data
        BY <1>0, <1>1, <2>1, <2>3
      <4> QED
        BY <4>1, <4>2
    <3> QED
      BY <3>1, <3>2
  <2> QED
    BY <1>1, <2>1, <2>2, <2>3
<1>3. ASSUME NEW item \in Items, MissFL(item)
      PROVE  /\ last \subseteq Data(list')
             /\ last' \subseteq Data(list')
             /\ Len(list') > 1 => list'[1].data \notin last'
  <2>1. /\ CountMiss(item) /\ AddThenEvict(item) /\ last' = {item}
        /\ status = "running" /\ item \notin Data(list)
    BY <1>3 DEF MissFL, CountMiss, InCache
  <2>2. PICK k \in Nat : k = Len(list) /\ k = currentSize
    BY <1>0, <1>1, <2>1
  <2> DEFINE a == Append(list, Node(item))
  <2>3. /\ a \in Seq(Nodes) /\ a # <<>> /\ Len(a) = k + 1 /\ DOMAIN a = 1 .. k + 1
        /\ \A i \in 1 .. k : a[i] = list[i]
        /\ Data(a) = Data(list) \cup {item}
    BY <1>0, <2>2, NodeIsANode, Appending
  <2>4. /\ k + 1 <= size => list' = a
        /\ k + 1 > size => list' = Tail(a)
    BY <1>0, <2>1, <2>2, AddList
  <2> HIDE DEF a
  <2>5. \A i \in 1 .. k : list[i].data # item
    BY <1>0, <2>1, <2>2 DEF Data
  <2>6. CASE k + 1 <= size
    <3>1. Len(list') > 1 => list'[1].data # item
      <4>1. ASSUME k >= 1
            PROVE  a[1].data # item
        BY <2>3, <2>5, <4>1
      <4> QED
        BY <2>3, <2>4, <2>6, <4>1
    <3> QED
      BY <1>1, <2>1, <2>3, <2>4, <2>6, <3>1
  <2>7. CASE k + 1 > size
    <3>1. /\ Data(a) = Data(Tail(a)) \cup {a[1].data}
          /\ Len(Tail(a)) = k
          /\ \A i \in 1 .. k : Tail(a)[i] = a[i + 1]
      BY <2>3, TakingHead
    <3>2. k >= 2
      BY <1>0, <2>7
    <3>3. a[1].data \notin last /\ a[1].data # item /\ Tail(a)[1].data # item
      <4>1. a[1] = list[1] /\ Tail(a)[1] = list[2]
        BY <2>3, <3>1, <3>2
      <4>2. 1 \in 1 .. k /\ 2 \in 1 .. k /\ Len(list) > 1
        BY <2>2, <3>2
      <4>3. list[1].data # item /\ list[2].data # item
        BY <2>5, <4>2
      <4>4. list[1].data \notin last
        BY <1>1, <2>1, <4>2
      <4> QED
        BY <4>1, <4>3, <4>4
    <3>4. last \subseteq Data(Tail(a)) /\ item \in Data(Tail(a))
      BY <1>1, <2>1, <2>3, <3>1, <3>3
    <3> QED
      BY <2>1, <2>4, <2>7, <3>3, <3>4
  <2> QED
    BY <1>0, <2>6, <2>7
<1>4. ASSUME NEW item \in Items, MissClockRoom(item) \/ MissClockFull(item)
      PROVE  FALSE
  BY <1>4 DEF MissClockRoom, MissClockFull
<1>5. CASE EndOfInput
  BY <1>5 DEF EndOfInput
<1>6. CASE UNCHANGED vars
  BY <1>0, <1>1, <1>6 DEF vars
<1> QED
  BY <1>2, <1>3, <1>4, <1>5, <1>6 DEF Next, Miss

-----------------------------------------------------------------------------
(* The inductive invariant. *)

LEMMA InitIInv == Init => IInv
<1> SUFFICES ASSUME Init PROVE IInv
  OBVIOUS
<1>1. list = <<>> /\ missed = <<>> /\ Len(list) = 0 /\ Len(missed) = 0
      /\ DOMAIN list = {} /\ DOMAIN missed = {}
  BY DEF Init
<1>2. list \in Seq(Nodes) /\ missed \in Seq(Items)
  BY DEF Init
<1>3. TypeOK
  BY <1>2 DEF Init, TypeOK
<1>4. size \in Int
  BY SizesAssumption DEF Init
<1>5. Data(list) = {} /\ Seen = {} /\ Cardinality({}) = 0
  BY <1>1, FS_EmptySet DEF Data, Seen
<1>6. ListCounted
  BY <1>1, <1>4 DEF Init, ListCounted, Capacity
<1>7. CountsSeen
  BY <1>1, <1>5 DEF Init, CountsSeen
<1>8. ClockBounds /\ CrashedSmall
  BY <1>1, <1>4 DEF Init, ClockBounds, CrashedSmall
<1>9. HoldsNewest
  BY <1>1, <1>4 DEF Init, HoldsNewest, Capacity
<1>10. LastKept
  BY <1>1 DEF Init, LastKept
<1> QED
  BY <1>3, <1>6, <1>7, <1>8, <1>9, <1>10 DEF IInv

LEMMA NextIInv == IInv /\ [Next]_vars => IInv'
<1> SUFFICES ASSUME IInv, [Next]_vars PROVE IInv'
  OBVIOUS
<1>1. UNCHANGED <<policy, size>>
  BY DEF Next, Miss, MissFL, MissClockRoom, MissClockFull, CountMiss, Hit, EndOfInput, vars
<1>2. LastKept'
  BY <1>1, LastUsed DEF LastKept
<1> QED
  BY <1>2, TypesKept, ListCountedKept, CountsSeenKept, ClockKept, HoldsNewestKept DEF IInv

LEMMA AlwaysIInv == Spec => []IInv
BY InitIInv, NextIInv, PTL DEF Spec

-----------------------------------------------------------------------------
(* The properties. *)

(* Nodes, counters and statuses are those the code can produce, and the    *)
(* age of a node is a flag, for any items and sizes (cache.h:11-27).       *)
THEOREM CacheTypes == Spec => []TypeOK
<1>1. IInv => TypeOK
  BY DEF IInv
<1> QED
  BY <1>1, AlwaysIInv, PTL

(* Under F and L the list holds currentSize different items, never more    *)
(* than fit, whatever the size (cache.c:170-205).                          *)
THEOREM ListsStayWithinSize == Spec => []SizeRespected
<1>1. IInv => SizeRespected
  <2> SUFFICES ASSUME IInv, policy # "C", status = "running"
               PROVE  /\ Len(list) = currentSize
                      /\ Cardinality(Data(list)) = currentSize
                      /\ currentSize <= Capacity
    BY DEF SizeRespected
  <2>1. list \in Seq(Nodes) /\ Len(list) = currentSize /\ currentSize <= Capacity
        /\ \A i, j \in DOMAIN list : list[i].data = list[j].data => i = j
    BY DEF IInv, TypeOK, ListCounted
  <2>2. Cardinality(Data(list)) = Len(list)
    BY <2>1, DifferentItems
  <2> QED
    BY <2>1, <2>2
<1> QED
  BY <1>1, AlwaysIInv, PTL

(* The first miss of every item is compulsory and every other one is a     *)
(* capacity miss (cache.c:229-237).                                        *)
THEOREM MissesAreClassified == Spec => []MissesClassified
<1>1. IInv => MissesClassified
  BY DEF IInv, CountsSeen, MissesClassified, Seen
<1> QED
  BY <1>1, AlwaysIInv, PTL

(* How far the clock's list grows past its size, and that only a clock of  *)
(* at most one reads through NULL (cache.c:17-23, 135-163).                *)
THEOREM ClockDrifts == Spec => []ClockDrift
<1>1. IInv => ClockDrift
  <2> SUFFICES ASSUME IInv, policy = "C"
               PROVE  /\ size >= 3 /\ status = "running" =>
                           /\ currentSize <= size
                           /\ Len(list) - currentSize = Len(missed) - Len(list)
                      /\ status = "crashed" => size <= 1
    BY DEF ClockDrift
  <2>1. Len(list) \in Nat /\ Len(missed) \in Nat /\ currentSize \in Int /\ size \in Int
    BY SizesAssumption DEF IInv, TypeOK
  <2>2. ASSUME size >= 3, status = "running"
        PROVE  currentSize <= size /\ 2 * Len(list) = currentSize + Len(missed)
    BY <2>1, <2>2 DEF IInv, ClockBounds
  <2> QED
    BY <2>1, <2>2 DEF IInv, CrashedSmall
<1> QED
  BY <1>1, AlwaysIInv, PTL

(* Under F the cache holds the items of the last misses, as many as fit,   *)
(* in their order (cache.c:73-83).                                         *)
THEOREM FIFOKeepsNewest == Spec => []KeepsNewest
<1>1. IInv => KeepsNewest
  <2> SUFFICES ASSUME IInv, policy = "F", status = "running"
               PROVE  LET k == Len(missed)
                          kept == IF k < Capacity THEN k ELSE Capacity
                      IN  [i \in DOMAIN list |-> list[i].data] = SubSeq(missed, k - kept + 1, k)
    BY DEF KeepsNewest
  <2>1. /\ list \in Seq(Nodes) /\ missed \in Seq(Items)
        /\ Len(list) \in Nat /\ Len(missed) \in Nat /\ size \in Int
        /\ DOMAIN list = 1 .. Len(list)
    BY SizesAssumption DEF IInv, TypeOK
  <2> DEFINE k == Len(missed)
             n == Len(list)
             s == SubSeq(missed, k - n + 1, k)
  <2>2. /\ n = IF k < Capacity THEN k ELSE Capacity
        /\ n \in Nat /\ k \in Nat /\ n <= k
        /\ \A i \in 1 .. n : list[i].data = missed[k - n + i]
    <3>1. /\ n = IF k < Capacity THEN k ELSE Capacity
          /\ \A i \in 1 .. n : list[i].data = missed[k - n + i]
      BY <2>1 DEF IInv, HoldsNewest
    <3>2. Capacity \in Nat
      BY <2>1 DEF Capacity
    <3>3. n \in Nat /\ k \in Nat
      BY <2>1
    <3>4. n <= k
      <4>1. n = IF k < Capacity THEN k ELSE Capacity
        BY <3>1
      <4> HIDE DEF n, k
      <4> QED
        BY <3>2, <3>3, <4>1
    <3> QED
      BY <3>1, <3>3, <3>4
  <2>3. s \in Seq(Items) /\ Len(s) = n /\ \A i \in 1 .. n : s[i] = missed[k - n + i]
    BY <2>1, <2>2
  <2>4. s = [i \in 1 .. n |-> s[i]]
    BY <2>3
  <2> HIDE DEF s
  <2>5. [i \in DOMAIN list |-> list[i].data] = s
    BY <2>1, <2>2, <2>3, <2>4
  <2> QED
    BY <2>2, <2>5 DEF s
<1> QED
  BY <1>1, AlwaysIInv, PTL

(* Under L with room for two, the item used last is still cached after the *)
(* next access, for any items and size (cache.c:95-133).                   *)
THEOREM LRUKeepsLastUsed == Spec => LastUsedStays
<1>1. IInv /\ [Next]_vars => [policy = "L" /\ size > 1 /\ status' = "running" => last \subseteq Data(list')]_vars
  BY LastUsed
<1> QED
  BY <1>1, AlwaysIInv, PTL DEF Spec, LastUsedStays

=============================================================================
