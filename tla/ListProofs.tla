----------------------------- MODULE ListProofs -----------------------------
(***************************************************************************)
(* Proofs about List for any heap, any elements and any bound of index:    *)
(* the links, the cursor, the calls that fail, and that the list is the    *)
(* sequence with a cursor of CursorList.                                   *)
(*                                                                         *)
(* Every insertion puts a node in a place of the chain, and every deletion *)
(* takes one out, so there is one lemma for each about chains, and one     *)
(* lemma for each procedure that says which place.                         *)
(***************************************************************************)
EXTENDS List, Sequences, TLAPS, FiniteSetTheorems, WellFoundedInduction

(* s is the nodes in order, of a list of n: linked by nx and pv between fr *)
(* and bk, the allocated ones and no other.                                *)
IsChain(s, n, nx, pv, fr, bk, lv) ==
  /\ s \in [1..n -> lv]
  /\ \A i, j \in 1..n : s[i] = s[j] => i = j
  /\ \A m \in lv : \E i \in 1..n : s[i] = m
  /\ n > 0 => fr = s[1]
  /\ bk = IF n = 0 THEN NULL ELSE s[n]
  /\ \A i \in 1..n : pv[s[i]] = IF i = 1 THEN NULL ELSE s[i - 1]
  /\ \A i \in 1..n : nx[s[i]] = IF i = n THEN NULL ELSE s[i + 1]

Chained == Running => IsChain(NodeAt, length, next, prev, front, back, live)

(* Without a list nothing is allocated; front is known unless the last     *)
(* element went from behind; and only a deletion in front leaves an index  *)
(* below -1.                                                               *)
Owed ==
  /\ status = "none" => live = {}
  /\ Running /\ IsEmpty => front = NULL \/ "front" \in risks
  /\ Running /\ index < -1 => "index" \in risks

IInv ==
  /\ TypeOK
  /\ Chained
  /\ CursorAtIndex
  /\ Owed
  /\ FailuresExplained

-----------------------------------------------------------------------------
(* NodeAt, which is recursive, is the chain. *)

(* A set of positive integers has a smallest member. *)
LEMMA SmallestExists ==
  ASSUME NEW S, S \subseteq Nat, S # {}
  PROVE  \E k \in S : \A i \in S : i >= k
<1> DEFINE R == OpToRel(<, Nat)
<1>1. PICK k \in S : \A i \in S : ~(<<i, k>> \in R)
  <2>1. IsWellFoundedOn(R, Nat)
    BY NatLessThanWellFounded
  <2> HIDE DEF R
  <2> QED
    BY <2>1, WFMin
<1>2. ASSUME NEW i \in S
      PROVE  i >= k
  <2>1. i \in Nat /\ k \in Nat
    BY <1>1
  <2>2. i < k => <<i, k>> \in R
    BY <2>1 DEF OpToRel
  <2> HIDE DEF R
  <2> QED
    BY <1>1, <2>1, <2>2
<1> QED
  BY <1>1, <1>2

(* One step further along next from the nodes found so far. *)
Step(f, n, fr, nx) ==
  [i \in 1..n |-> IF i = 1 THEN fr ELSE IF f[i - 1] = NULL THEN NULL ELSE nx[f[i - 1]]]
Walk(n, fr, nx) == CHOOSE f : f = Step(f, n, fr, nx)

LEMMA NodeAtWalks == NodeAt = Walk(length, front, next)
BY DEF NodeAt, Walk, Step

LEMMA WalkIsChain ==
  ASSUME NEW n \in Nat, NEW nx, NEW pv, NEW fr, NEW bk, NEW lv, NEW s,
         IsChain(s, n, nx, pv, fr, bk, lv), NULL \notin lv
  PROVE  Walk(n, fr, nx) = s
<1> DEFINE w == Walk(n, fr, nx)
<1>1. s \in [1..n -> lv]
  BY DEF IsChain
<1>2. ASSUME NEW i \in 1..n
      PROVE  s[i] = IF i = 1 THEN fr ELSE IF s[i - 1] = NULL THEN NULL ELSE nx[s[i - 1]]
  <2>1. CASE i = 1
    BY <2>1 DEF IsChain
  <2>2. CASE i # 1
    <3>1. i - 1 \in 1..n /\ i - 1 # n /\ (i - 1) + 1 = i
      BY <2>2
    <3>2. nx[s[i - 1]] = s[(i - 1) + 1]
      BY <3>1 DEF IsChain
    <3>3. s[i - 1] # NULL
      BY <1>1, <3>1
    <3> QED
      BY <2>2, <3>1, <3>2, <3>3
  <2> QED
    BY <2>1, <2>2
<1>3. s = Step(s, n, fr, nx)
  BY <1>1, <1>2 DEF Step
<1>4. w = Step(w, n, fr, nx)
  BY <1>3 DEF Walk
<1> HIDE DEF w
<1>5. \A i \in 1..n : w[i] = IF i = 1 THEN fr ELSE IF w[i - 1] = NULL THEN NULL ELSE nx[w[i - 1]]
  BY <1>4 DEF Step
<1>6. DOMAIN w = 1..n /\ w = [i \in 1..n |-> w[i]]
  BY <1>4 DEF Step
<1> DEFINE Wrong == {i \in 1..n : w[i] # s[i]}
<1>7. Wrong = {}
  <2> SUFFICES ASSUME Wrong # {}
               PROVE  FALSE
    OBVIOUS
  <2>1. Wrong \subseteq Nat
    OBVIOUS
  <2>2. PICK k \in Wrong : \A i \in Wrong : i >= k
    <3> HIDE DEF Wrong
    <3> QED
      BY <2>1, SmallestExists
  <2>3. k \in 1..n /\ w[k] # s[k]
    OBVIOUS
  <2>4. CASE k = 1
    BY <1>2, <1>5, <2>3, <2>4
  <2>5. CASE k # 1
    <3>1. k - 1 \in 1..n /\ ~(k - 1 >= k)
      BY <2>3, <2>5
    <3>2. w[k - 1] = s[k - 1]
      BY <2>2, <3>1
    <3> QED
      BY <1>2, <1>5, <2>3, <2>5, <3>2
  <2> QED
    BY <2>4, <2>5
<1>8. \A i \in 1..n : w[i] = s[i]
  BY <1>7
<1> QED
  BY <1>1, <1>6, <1>8 DEF w

(* The nodes of a chain are as many as it is long. *)
LEMMA ChainCounts ==
  ASSUME NEW n \in Nat, NEW nx, NEW pv, NEW fr, NEW bk, NEW lv, NEW s,
         IsChain(s, n, nx, pv, fr, bk, lv)
  PROVE  IsFiniteSet(lv) /\ Cardinality(lv) = n /\ lv = {s[i] : i \in 1..n}
<1>1. s \in Bijection(1..n, lv)
  BY DEF IsChain, Bijection, Injection, Surjection, IsInjective
<1>2. ExistsBijection(1..n, lv)
  BY <1>1 DEF ExistsBijection
<1>3. IsFiniteSet(1..n) /\ Cardinality(1..n) = n
  BY FS_Interval
<1>4. lv = {s[i] : i \in 1..n}
  BY DEF IsChain
<1> QED
  BY <1>2, <1>3, <1>4, FS_Bijection

-----------------------------------------------------------------------------
(* A node in its place of a chain, and out of it. *)

Inserted(s, n, p, m) ==
  [i \in 1..(n + 1) |-> IF i < p THEN s[i] ELSE IF i = p THEN m ELSE s[i - 1]]
Removed(s, n, p) == [i \in 1..(n - 1) |-> IF i < p THEN s[i] ELSE s[i + 1]]

(* The neighbours of a node that is put in place p, or taken out of it. *)
LeftOf(s, p) == IF p = 1 THEN NULL ELSE s[p - 1]
RightOf(s, n, p) == IF p > n THEN NULL ELSE s[p]

(* The links and the ends before and after. *)
PutIn(p, m, s, n, nx, pv, fr, bk, lv, nx1, pv1, fr1, bk1) ==
  /\ \A k \in lv \cup {m} :
       /\ nx1[k] = IF k = m THEN RightOf(s, n, p) ELSE IF k = LeftOf(s, p) THEN m ELSE nx[k]
       /\ pv1[k] = IF k = m THEN LeftOf(s, p) ELSE IF k = RightOf(s, n, p) THEN m ELSE pv[k]
  /\ fr1 = IF p = 1 THEN m ELSE fr
  /\ bk1 = IF p = n + 1 THEN m ELSE bk

TakenOut(p, s, n, nx, pv, fr, bk, lv, nx1, pv1, fr1, bk1) ==
  /\ \A k \in lv \ {s[p]} :
       /\ nx1[k] = IF k = LeftOf(s, p) THEN RightOf(s, n, p + 1) ELSE nx[k]
       /\ pv1[k] = IF k = RightOf(s, n, p + 1) THEN LeftOf(s, p) ELSE pv[k]
  /\ n > 1 => fr1 = IF p = 1 THEN s[2] ELSE fr
  /\ bk1 = IF p = n THEN LeftOf(s, p) ELSE bk

LEMMA ChainWithNode ==
  ASSUME NEW n \in Nat, NEW nx, NEW pv, NEW fr, NEW bk, NEW lv, NEW s,
         IsChain(s, n, nx, pv, fr, bk, lv),
         NEW m, m \notin lv, NULL \notin lv, m # NULL,
         NEW p \in 1..(n + 1), NEW nx1, NEW pv1, NEW fr1, NEW bk1,
         PutIn(p, m, s, n, nx, pv, fr, bk, lv, nx1, pv1, fr1, bk1)
  PROVE  IsChain(Inserted(s, n, p, m), n + 1, nx1, pv1, fr1, bk1, lv \cup {m})
<1> DEFINE t == Inserted(s, n, p, m)
<1>0. /\ \A k \in lv \cup {m} :
           /\ nx1[k] = IF k = m THEN RightOf(s, n, p) ELSE IF k = LeftOf(s, p) THEN m ELSE nx[k]
           /\ pv1[k] = IF k = m THEN LeftOf(s, p) ELSE IF k = RightOf(s, n, p) THEN m ELSE pv[k]
      /\ fr1 = IF p = 1 THEN m ELSE fr
      /\ bk1 = IF p = n + 1 THEN m ELSE bk
  BY DEF PutIn
<1>1. /\ s \in [1..n -> lv]
      /\ \A i, j \in 1..n : s[i] = s[j] => i = j
      /\ \A k \in lv : \E i \in 1..n : s[i] = k
      /\ \A i \in 1..n : s[i] \in lv /\ s[i] # m /\ s[i] # NULL
  BY DEF IsChain
<1>2. /\ DOMAIN t = 1..(n + 1) /\ t[p] = m
      /\ \A i \in 1..(n + 1) : i < p => i \in 1..n /\ t[i] = s[i]
      /\ \A i \in 1..(n + 1) : i > p => i - 1 \in 1..n /\ t[i] = s[i - 1]
  BY DEF Inserted
<1>3. t \in [1..(n + 1) -> lv \cup {m}]
  <2>1. ASSUME NEW i \in 1..(n + 1)
        PROVE  t[i] \in lv \cup {m}
    BY <1>1, <1>2
  <2>2. t = [i \in 1..(n + 1) |-> t[i]]
    BY DEF Inserted
  <2> HIDE DEF t
  <2> QED
    BY <2>1, <2>2
<1> HIDE DEF t
<1>4. ASSUME NEW i \in 1..(n + 1), NEW j \in 1..(n + 1), t[i] = t[j]
      PROVE  i = j
  <2>1. CASE i = p
    BY <1>1, <1>2, <1>4, <2>1
  <2>2. CASE j = p
    BY <1>1, <1>2, <1>4, <2>2
  <2>3. CASE i < p /\ j < p
    BY <1>1, <1>2, <1>4, <2>3
  <2>4. CASE i > p /\ j > p
    <3>1. i - 1 = j - 1
      <4>1. i - 1 \in 1..n /\ t[i] = s[i - 1] /\ j - 1 \in 1..n /\ t[j] = s[j - 1]
        BY <1>2, <2>4
      <4>2. s[i - 1] = s[j - 1]
        BY <1>4, <4>1
      <4> QED
        BY <1>1, <4>1, <4>2
    <3> QED
      BY <3>1
  <2>5. CASE i < p /\ j > p
    <3>1. i = j - 1
      BY <1>1, <1>2, <1>4, <2>5
    <3> QED
      BY <2>5, <3>1
  <2>6. CASE i > p /\ j < p
    <3>1. i - 1 = j
      BY <1>1, <1>2, <1>4, <2>6
    <3> QED
      BY <2>6, <3>1
  <2> QED
    BY <2>1, <2>2, <2>3, <2>4, <2>5, <2>6
<1>5. ASSUME NEW k \in lv \cup {m}
      PROVE  \E i \in 1..(n + 1) : t[i] = k
  <2>1. CASE k = m
    BY <1>2, <2>1
  <2>2. CASE k \in lv
    <3>1. PICK i \in 1..n : s[i] = k
      BY <1>1, <2>2
    <3>2. CASE i < p
      BY <1>2, <3>1, <3>2
    <3>3. CASE i >= p
      <4>1. i + 1 \in 1..(n + 1) /\ i + 1 > p /\ (i + 1) - 1 = i
        BY <3>3
      <4>2. t[i + 1] = s[(i + 1) - 1]
        BY <1>2, <4>1
      <4> QED
        BY <3>1, <4>1, <4>2
    <3> QED
      BY <3>2, <3>3
  <2> QED
    BY <2>1, <2>2
<1>6. fr1 = t[1]
  <2>1. CASE p = 1
    BY <1>0, <1>2, <2>1
  <2>2. CASE p # 1
    <3>1. n > 0 /\ 1 \in 1..(n + 1) /\ 1 < p
      BY <2>2
    <3> QED
      BY <1>0, <1>2, <2>2, <3>1 DEF IsChain
  <2> QED
    BY <2>1, <2>2
<1>7. bk1 = t[n + 1]
  <2>1. CASE p = n + 1
    BY <1>0, <1>2, <2>1
  <2>2. CASE p # n + 1
    <3>1. n > 0 /\ n + 1 \in 1..(n + 1) /\ n + 1 > p /\ (n + 1) - 1 = n
      BY <2>2
    <3>2. t[n + 1] = s[(n + 1) - 1]
      BY <1>2, <3>1
    <3> QED
      BY <1>0, <2>2, <3>1, <3>2 DEF IsChain
  <2> QED
    BY <2>1, <2>2
<1>8. ASSUME NEW i \in 1..(n + 1)
      PROVE  /\ pv1[t[i]] = IF i = 1 THEN NULL ELSE t[i - 1]
             /\ nx1[t[i]] = IF i = n + 1 THEN NULL ELSE t[i + 1]
  <2>1. CASE i = p
    <3>1. pv1[m] = LeftOf(s, p) /\ nx1[m] = RightOf(s, n, p)
      BY <1>0
    <3>2. LeftOf(s, p) = IF i = 1 THEN NULL ELSE t[i - 1]
      <4>1. i # 1 => i - 1 \in 1..(n + 1) /\ i - 1 < p
        BY <2>1
      <4> QED
        BY <1>2, <2>1, <4>1 DEF LeftOf
    <3>3. RightOf(s, n, p) = IF i = n + 1 THEN NULL ELSE t[i + 1]
      <4>1. i # n + 1 => i + 1 \in 1..(n + 1) /\ i + 1 > p /\ (i + 1) - 1 = p /\ ~(p > n)
        BY <2>1
      <4>2. i # n + 1 => t[i + 1] = s[p]
        BY <1>2, <4>1
      <4>3. i = n + 1 => p > n
        BY <2>1
      <4> QED
        BY <4>1, <4>2, <4>3 DEF RightOf
    <3> QED
      BY <1>2, <2>1, <3>1, <3>2, <3>3
  <2>2. CASE i < p
    <3>1. i \in 1..n /\ t[i] = s[i] /\ s[i] \in lv /\ s[i] # m
      BY <1>1, <1>2, <2>2
    <3>2. s[i] = LeftOf(s, p) <=> i = p - 1
      <4>1. p # 1 /\ p - 1 \in 1..n
        BY <2>2
      <4> QED
        BY <1>1, <3>1, <4>1 DEF LeftOf
    <3>3. s[i] # RightOf(s, n, p)
      <4>1. ~(p > n) => p \in 1..n /\ p # i
        BY <2>2
      <4> QED
        BY <1>1, <3>1, <4>1 DEF RightOf
    <3>4. pv1[s[i]] = pv[s[i]] /\ nx1[s[i]] = IF i = p - 1 THEN m ELSE nx[s[i]]
      BY <1>0, <3>1, <3>2, <3>3
    <3>5. pv[s[i]] = IF i = 1 THEN NULL ELSE t[i - 1]
      <4>1. i # 1 => i - 1 \in 1..(n + 1) /\ i - 1 < p
        BY <2>2
      <4> QED
        BY <1>2, <3>1, <4>1 DEF IsChain
    <3>6. (IF i = p - 1 THEN m ELSE nx[s[i]]) = t[i + 1]
      <4>1. CASE i = p - 1
        BY <1>2, <4>1
      <4>2. CASE i # p - 1
        <5>1. i + 1 \in 1..(n + 1) /\ i + 1 < p /\ i # n
          BY <2>2, <4>2
        <5> QED
          BY <1>2, <3>1, <4>2, <5>1 DEF IsChain
      <4> QED
        BY <4>1, <4>2
    <3>7. i # n + 1
      BY <3>1
    <3> QED
      BY <3>1, <3>4, <3>5, <3>6, <3>7
  <2>3. CASE i > p
    <3> DEFINE j == i - 1
    <3>1. j \in 1..n /\ j + 1 = i /\ j >= p /\ ~(p > n) /\ i # 1
      BY <2>3
    <3>2. t[i] = s[j] /\ s[j] \in lv /\ s[j] # m
      BY <1>1, <1>2, <2>3
    <3> HIDE DEF j
    <3>3. s[j] = RightOf(s, n, p) <=> j = p
      BY <1>1, <3>1 DEF RightOf
    <3>4. s[j] # LeftOf(s, p)
      <4>1. p # 1 => p - 1 \in 1..n /\ p - 1 # j
        BY <3>1
      <4> QED
        BY <1>1, <3>1, <4>1 DEF LeftOf
    <3>5. nx1[s[j]] = nx[s[j]] /\ pv1[s[j]] = IF j = p THEN m ELSE pv[s[j]]
      BY <1>0, <3>2, <3>3, <3>4
    <3>6. nx[s[j]] = IF i = n + 1 THEN NULL ELSE t[i + 1]
      <4>1. nx[s[j]] = IF j = n THEN NULL ELSE s[j + 1]
        BY <3>1 DEF IsChain
      <4>2. i # n + 1 => i + 1 \in 1..(n + 1) /\ i + 1 > p /\ (i + 1) - 1 = i
        BY <3>1
      <4>3. i # n + 1 => t[i + 1] = s[j + 1]
        BY <1>2, <3>1, <4>2
      <4>4. i = n + 1 <=> j = n
        BY <3>1
      <4> QED
        BY <4>1, <4>3, <4>4
    <3>7. (IF j = p THEN m ELSE pv[s[j]]) = t[i - 1]
      <4>1. CASE j = p
        BY <1>2, <3>1, <4>1
      <4>2. CASE j # p
        <5>1. i - 1 = j /\ j \in 1..(n + 1) /\ j > p /\ j # 1
          BY <3>1, <4>2
        <5>2. t[j] = s[j - 1]
          BY <1>2, <5>1
        <5>3. pv[s[j]] = s[j - 1]
          BY <3>1, <5>1 DEF IsChain
        <5> QED
          BY <4>2, <5>1, <5>2, <5>3
      <4> QED
        BY <4>1, <4>2
    <3> QED
      BY <3>1, <3>2, <3>5, <3>6, <3>7
  <2> QED
    BY <2>1, <2>2, <2>3
<1>9. n + 1 > 0 /\ n + 1 # 0
  OBVIOUS
<1>10. IsChain(t, n + 1, nx1, pv1, fr1, bk1, lv \cup {m})
  BY <1>3, <1>4, <1>5, <1>6, <1>7, <1>8, <1>9 DEF IsChain
<1> QED
  BY <1>10 DEF t

LEMMA ChainWithoutNode ==
  ASSUME NEW n \in Nat, NEW nx, NEW pv, NEW fr, NEW bk, NEW lv, NEW s,
         IsChain(s, n, nx, pv, fr, bk, lv), NULL \notin lv,
         NEW p \in 1..n, NEW nx1, NEW pv1, NEW fr1, NEW bk1,
         TakenOut(p, s, n, nx, pv, fr, bk, lv, nx1, pv1, fr1, bk1)
  PROVE  IsChain(Removed(s, n, p), n - 1, nx1, pv1, fr1, bk1, lv \ {s[p]})
<1> DEFINE t == Removed(s, n, p)
           d == s[p]
<1>0. /\ \A k \in lv \ {d} :
           /\ nx1[k] = IF k = LeftOf(s, p) THEN RightOf(s, n, p + 1) ELSE nx[k]
           /\ pv1[k] = IF k = RightOf(s, n, p + 1) THEN LeftOf(s, p) ELSE pv[k]
      /\ n > 1 => fr1 = IF p = 1 THEN s[2] ELSE fr
      /\ bk1 = IF p = n THEN LeftOf(s, p) ELSE bk
  BY DEF TakenOut
<1>1. /\ s \in [1..n -> lv]
      /\ \A i, j \in 1..n : s[i] = s[j] => i = j
      /\ \A k \in lv : \E i \in 1..n : s[i] = k
      /\ \A i \in 1..n : s[i] \in lv /\ s[i] # NULL /\ (i # p => s[i] # d)
  BY DEF IsChain
<1>2. /\ DOMAIN t = 1..(n - 1) /\ n - 1 \in Nat
      /\ \A i \in 1..(n - 1) : i < p => i \in 1..n /\ t[i] = s[i]
      /\ \A i \in 1..(n - 1) : i >= p => i + 1 \in 1..n /\ t[i] = s[i + 1]
  BY DEF Removed
<1>3. t \in [1..(n - 1) -> lv \ {d}]
  <2>1. ASSUME NEW i \in 1..(n - 1)
        PROVE  t[i] \in lv \ {d}
    <3>1. CASE i < p
      BY <1>1, <1>2, <3>1
    <3>2. CASE i >= p
      <4>1. i + 1 \in 1..n /\ i + 1 # p
        BY <3>2
      <4> QED
        BY <1>1, <1>2, <3>2, <4>1
    <3> QED
      BY <3>1, <3>2
  <2>2. t = [i \in 1..(n - 1) |-> t[i]]
    BY DEF Removed
  <2> HIDE DEF t
  <2> QED
    BY <2>1, <2>2
<1> HIDE DEF t
(* The place in s of a node of t. *)
<1> DEFINE from(i) == IF i < p THEN i ELSE i + 1
<1>4. ASSUME NEW i \in 1..(n - 1)
      PROVE  from(i) \in 1..n /\ from(i) # p /\ t[i] = s[from(i)]
  <2>1. CASE i < p
    BY <1>2, <2>1
  <2>2. CASE i >= p
    BY <1>2, <2>2
  <2> QED
    BY <2>1, <2>2
<1>5. ASSUME NEW i \in 1..(n - 1), NEW j \in 1..(n - 1), t[i] = t[j]
      PROVE  i = j
  <2>1. from(i) = from(j)
    <3> HIDE DEF from
    <3> QED
      BY <1>1, <1>4, <1>5
  <2> QED
    BY <2>1
<1>6. ASSUME NEW k \in lv \ {d}
      PROVE  \E i \in 1..(n - 1) : t[i] = k
  <2>1. PICK j \in 1..n : s[j] = k
    BY <1>1
  <2>2. j # p
    BY <2>1
  <2>3. CASE j < p
    <3>1. j \in 1..(n - 1)
      BY <2>3
    <3> QED
      BY <1>2, <2>1, <2>3, <3>1
  <2>4. CASE j > p
    <3>1. j - 1 \in 1..(n - 1) /\ j - 1 >= p /\ (j - 1) + 1 = j
      BY <2>4
    <3>2. t[j - 1] = s[(j - 1) + 1]
      BY <1>2, <3>1
    <3> QED
      BY <2>1, <3>1, <3>2
  <2> QED
    BY <2>2, <2>3, <2>4
<1>7. n - 1 > 0 => fr1 = t[1]
  <2> SUFFICES ASSUME n - 1 > 0
               PROVE  fr1 = t[1]
    OBVIOUS
  <2>1. n > 1 /\ 1 \in 1..(n - 1)
    OBVIOUS
  <2>2. CASE p = 1
    <3>1. t[1] = s[1 + 1]
      BY <1>2, <2>1, <2>2
    <3> QED
      BY <1>0, <2>1, <2>2, <3>1
  <2>3. CASE p # 1
    <3>1. 1 < p
      BY <2>3
    <3> QED
      BY <1>0, <1>2, <2>1, <2>3, <3>1 DEF IsChain
  <2> QED
    BY <2>2, <2>3
<1>8. bk1 = IF n - 1 = 0 THEN NULL ELSE t[n - 1]
  <2>1. CASE n - 1 = 0
    <3>1. p = n /\ p = 1
      BY <2>1
    <3> QED
      BY <1>0, <2>1, <3>1 DEF LeftOf
  <2>2. CASE n - 1 # 0 /\ p = n
    <3>1. n - 1 \in 1..(n - 1) /\ n - 1 < p /\ p # 1
      BY <2>2
    <3> QED
      BY <1>0, <1>2, <2>2, <3>1 DEF LeftOf
  <2>3. CASE n - 1 # 0 /\ p # n
    <3>1. n - 1 \in 1..(n - 1) /\ n - 1 >= p /\ (n - 1) + 1 = n
      BY <2>3
    <3>2. t[n - 1] = s[(n - 1) + 1]
      BY <1>2, <3>1
    <3> QED
      BY <1>0, <2>3, <3>1, <3>2 DEF IsChain
  <2> QED
    BY <2>1, <2>2, <2>3
<1>9. ASSUME NEW i \in 1..(n - 1)
      PROVE  /\ pv1[t[i]] = IF i = 1 THEN NULL ELSE t[i - 1]
             /\ nx1[t[i]] = IF i = n - 1 THEN NULL ELSE t[i + 1]
  <2> DEFINE j == from(i)
  <2>1. j \in 1..n /\ j # p /\ t[i] = s[j] /\ s[j] \in lv \ {d}
    <3>1. j \in 1..n /\ j # p /\ t[i] = s[j]
      BY <1>4
    <3> HIDE DEF j
    <3> QED
      BY <1>1, <3>1
  <2>2. j = IF i < p THEN i ELSE i + 1
    OBVIOUS
  <2> HIDE DEF j
  <2>3. s[j] = LeftOf(s, p) <=> j = p - 1
    <3>1. CASE p = 1
      BY <1>1, <2>1, <3>1 DEF LeftOf
    <3>2. CASE p # 1
      <4>1. p - 1 \in 1..n
        BY <3>2
      <4> QED
        BY <1>1, <2>1, <3>2, <4>1 DEF LeftOf
    <3> QED
      BY <3>1, <3>2
  <2>4. s[j] = RightOf(s, n, p + 1) <=> j = p + 1
    <3>1. CASE p = n
      <4>1. p + 1 > n /\ j # p + 1
        BY <2>1, <3>1
      <4> QED
        BY <1>1, <2>1, <4>1 DEF RightOf
    <3>2. CASE p # n
      <4>1. ~(p + 1 > n) /\ p + 1 \in 1..n
        BY <3>2
      <4> QED
        BY <1>1, <2>1, <4>1 DEF RightOf
    <3> QED
      BY <3>1, <3>2
  <2>5. /\ nx1[s[j]] = IF j = p - 1 THEN RightOf(s, n, p + 1) ELSE nx[s[j]]
        /\ pv1[s[j]] = IF j = p + 1 THEN LeftOf(s, p) ELSE pv[s[j]]
    BY <1>0, <2>1, <2>3, <2>4
  <2>6. nx[s[j]] = (IF j = n THEN NULL ELSE s[j + 1]) /\ pv[s[j]] = IF j = 1 THEN NULL ELSE s[j - 1]
    BY <2>1 DEF IsChain
  <2>7. pv1[s[j]] = IF i = 1 THEN NULL ELSE t[i - 1]
    <3>1. CASE j = p + 1
      <4>1. i = p
        BY <2>1, <2>2, <3>1
      <4>2. p # 1 => i - 1 \in 1..(n - 1) /\ i - 1 < p
        BY <4>1
      <4>3. p # 1 => t[i - 1] = s[p - 1]
        BY <1>2, <4>1, <4>2
      <4> QED
        BY <2>5, <3>1, <4>1, <4>3 DEF LeftOf
    <3>2. CASE j # p + 1 /\ i < p
      <4>1. j = i /\ (i # 1 => i - 1 \in 1..(n - 1) /\ i - 1 < p)
        BY <2>2, <3>2
      <4> QED
        BY <1>2, <2>5, <2>6, <3>2, <4>1
    <3>3. CASE j # p + 1 /\ i >= p
      <4>1. j = i + 1 /\ i # p /\ i # 1 /\ i - 1 \in 1..(n - 1) /\ i - 1 >= p /\ (i - 1) + 1 = i /\ j - 1 = i /\ j # 1
        BY <2>2, <3>3
      <4>2. t[i - 1] = s[(i - 1) + 1]
        BY <1>2, <4>1
      <4> QED
        BY <2>5, <2>6, <3>3, <4>1, <4>2
    <3> QED
      BY <3>1, <3>2, <3>3
  <2>8. nx1[s[j]] = IF i = n - 1 THEN NULL ELSE t[i + 1]
    <3>1. CASE j = p - 1
      <4>1. i = p - 1 /\ i + 1 = p
        BY <2>1, <2>2, <3>1
      <4>2. i # n - 1 => i + 1 \in 1..(n - 1) /\ i + 1 >= p /\ ~(p + 1 > n)
        BY <4>1
      <4>3. i # n - 1 => t[i + 1] = s[p + 1]
        BY <1>2, <4>1, <4>2
      <4>4. i = n - 1 => p + 1 > n
        BY <4>1
      <4> QED
        BY <2>5, <3>1, <4>2, <4>3, <4>4 DEF RightOf
    <3>2. CASE j # p - 1 /\ i < p
      <4>1. j = i /\ i # n - 1 /\ i # n /\ i + 1 \in 1..(n - 1) /\ i + 1 < p
        BY <2>2, <3>2
      <4> QED
        BY <1>2, <2>5, <2>6, <3>2, <4>1
    <3>3. CASE j # p - 1 /\ i >= p
      <4>1. j = i + 1 /\ (i # n - 1 => i + 1 \in 1..(n - 1) /\ i + 1 >= p) /\ (i = n - 1 <=> j = n)
        BY <2>2, <3>3
      <4>2. i # n - 1 => t[i + 1] = s[(i + 1) + 1]
        BY <1>2, <4>1
      <4> QED
        BY <2>5, <2>6, <3>3, <4>1, <4>2
    <3> QED
      BY <3>1, <3>2, <3>3
  <2> QED
    BY <2>1, <2>7, <2>8
<1>10. IsChain(t, n - 1, nx1, pv1, fr1, bk1, lv \ {d})
  <2> HIDE DEF d
  <2> QED
    BY <1>3, <1>5, <1>6, <1>7, <1>8, <1>9 DEF IsChain
<1> QED
  BY <1>10 DEF t

LEMMA EmptyChain ==
  ASSUME NEW nx, NEW pv, NEW fr
  PROVE  IsChain(Walk(0, fr, nx), 0, nx, pv, fr, NULL, {})
<1> DEFINE s == [i \in 1..0 |-> NULL]
<1>1. IsChain(s, 0, nx, pv, fr, NULL, {})
  BY DEF IsChain
<1> HIDE DEF s
<1>2. Walk(0, fr, nx) = s
  BY <1>1, WalkIsChain
<1> QED
  BY <1>1, <1>2

-----------------------------------------------------------------------------
(* What an insertion and a deletion do to the header and the nodes. *)

(* Node m with x comes in place p. *)
Inserts(p, m, x) ==
  /\ Running /\ UNCHANGED <<status, cursor>>
  /\ m \in Nodes \ live /\ live' = live \cup {m}
  /\ data' = [data EXCEPT ![m] = x]
  /\ length' = length + 1
  /\ next' \in [Nodes -> Nodes \cup {NULL}] /\ prev' \in [Nodes -> Nodes \cup {NULL}]
  /\ PutIn(p, m, NodeAt, length, next, prev, front, back, live, next', prev', front', back')
  /\ index' \in Int /\ index' >= index
  /\ index >= 0 => index' = IF p <= index + 1 THEN index + 1 ELSE index
  /\ index < 0 => index' < 0
  /\ risks' \in {risks, risks \ {"front"}}

(* The node in place p goes. *)
Removes(p) ==
  /\ Running /\ UNCHANGED status
  /\ live' = live \ {NodeAt[p]}
  /\ data' = [data EXCEPT ![NodeAt[p]] = NULL]
  /\ length' = length - 1
  /\ next' \in [Nodes -> Nodes \cup {NULL}] /\ prev' \in [Nodes -> Nodes \cup {NULL}]
  /\ TakenOut(p, NodeAt, length, next, prev, front, back, live, next', prev', front', back')
  /\ front' \in Nodes \cup {NULL}
  /\ length = 1 => front' = NULL \/ "front" \in risks'
  /\ cursor' = IF cursor = NodeAt[p] THEN NULL ELSE cursor
  /\ index' \in Int /\ index' >= MinIndex
  /\ index >= 0 /\ p = index + 1 => index' < 0
  /\ index >= 0 /\ p # index + 1 => index' = IF p <= index THEN index - 1 ELSE index
  /\ index < 0 => index' < 0
  /\ index' < -1 => "index" \in risks'
  /\ risks' \subseteq {"index", "front"}

(* The nodes of a running list. *)
LEMMA InOrder ==
  ASSUME IInv, Running
  PROVE  /\ length \in Nat /\ index \in Int /\ live \subseteq Nodes
         /\ NULL \notin Nodes /\ NULL \notin live
         /\ IsChain(NodeAt, length, next, prev, front, back, live)
         /\ NodeAt \in [1..length -> live]
         /\ \A i, j \in 1..length : NodeAt[i] = NodeAt[j] => i = j
         /\ \A k \in live : \E i \in 1..length : NodeAt[i] = k
         /\ \A i \in 1..length : /\ NodeAt[i] \in live /\ NodeAt[i] \in Nodes /\ NodeAt[i] # NULL
                                 /\ prev[NodeAt[i]] = IF i = 1 THEN NULL ELSE NodeAt[i - 1]
                                 /\ next[NodeAt[i]] = IF i = length THEN NULL ELSE NodeAt[i + 1]
         /\ length > 0 => /\ 1 \in 1..length /\ length \in 1..length
                          /\ front = NodeAt[1] /\ back = NodeAt[length]
         /\ index >= 0 => index + 1 \in 1..length /\ cursor = NodeAt[index + 1]
<1>1. length \in Nat /\ index \in Int /\ live \subseteq Nodes /\ NULL \notin Nodes
  BY NULLAssumption DEF IInv, TypeOK
<1>2. IsChain(NodeAt, length, next, prev, front, back, live)
  BY DEF IInv, Chained
<1>3. /\ NodeAt \in [1..length -> live]
      /\ \A i, j \in 1..length : NodeAt[i] = NodeAt[j] => i = j
      /\ \A k \in live : \E i \in 1..length : NodeAt[i] = k
      /\ \A i \in 1..length : prev[NodeAt[i]] = IF i = 1 THEN NULL ELSE NodeAt[i - 1]
      /\ \A i \in 1..length : next[NodeAt[i]] = IF i = length THEN NULL ELSE NodeAt[i + 1]
      /\ length > 0 => front = NodeAt[1]
      /\ back = IF length = 0 THEN NULL ELSE NodeAt[length]
  BY <1>2 DEF IsChain
<1>4. length > 0 => length # 0 /\ 1 \in 1..length /\ length \in 1..length
  BY <1>1
<1>5. index >= 0 => index + 1 \in 1..length /\ cursor = NodeAt[index + 1]
  BY <1>1 DEF IInv, CursorAtIndex
<1>6. \A i \in 1..length : NodeAt[i] \in live /\ NodeAt[i] \in Nodes /\ NodeAt[i] # NULL
  BY <1>1, <1>3
<1> QED
  BY <1>1, <1>2, <1>3, <1>4, <1>5, <1>6

LEMMA NodeAtNext == NodeAt' = Walk(length', front', next')
BY DEF NodeAt, Walk, Step

LEMMA InsertsKeep ==
  ASSUME IInv, NEW p \in 1..(length + 1), NEW m, NEW x \in Values, Inserts(p, m, x)
  PROVE  IInv' /\ NodeAt' = Inserted(NodeAt, length, p, m)
<1>0. TypeOK /\ Running /\ Running' /\ m \in Nodes /\ m \notin live /\ m # NULL
  BY NULLAssumption DEF Inserts, Running, IInv
<1> DEFINE t == Inserted(NodeAt, length, p, m)
<1>1. IsChain(t, length + 1, next', prev', front', back', live \cup {m})
  <2>1. /\ length \in Nat /\ NULL \notin live
        /\ IsChain(NodeAt, length, next, prev, front, back, live)
    BY <1>0, InOrder
  <2>2. PutIn(p, m, NodeAt, length, next, prev, front, back, live, next', prev', front', back')
    BY DEF Inserts
  <2> QED
    BY <1>0, <2>1, <2>2, ChainWithNode
<1>2. NodeAt' = t
  <2> HIDE DEF t
  <2>1. length' = length + 1 /\ length + 1 \in Nat /\ NULL \notin live \cup {m}
    BY <1>0, InOrder DEF Inserts
  <2>2. Walk(length + 1, front', next') = t
    BY <1>1, <2>1, WalkIsChain
  <2> QED
    BY <2>1, <2>2, NodeAtNext
<1>3. Chained'
  BY <1>1, <1>2 DEF Inserts, Chained
<1>4. TypeOK'
  <2>1. /\ next' \in [Nodes -> Nodes \cup {NULL}] /\ prev' \in [Nodes -> Nodes \cup {NULL}]
        /\ data' \in [Nodes -> Values \cup {NULL}]
        /\ live' \subseteq Nodes /\ status' = "running" /\ risks' \subseteq {"index", "front"}
        /\ front' \in Nodes \cup {NULL} /\ back' \in live' \cup {NULL} /\ cursor' \in live' \cup {NULL}
    BY <1>0 DEF Inserts, PutIn, TypeOK, Running
  <2>2. index' \in Int /\ index' >= MinIndex
    BY <1>0, MinIndexAssumption DEF Inserts, TypeOK
  <2>3. length' \in Nat
    BY <1>0 DEF Inserts, TypeOK
  <2> QED
    BY <2>1, <2>2, <2>3 DEF TypeOK
<1>5. CursorAtIndex'
  <2> HIDE DEF t
  <2> SUFFICES ASSUME index' >= 0
               PROVE  index' < length' /\ cursor' = t[index' + 1]
    BY <1>2 DEF CursorAtIndex
  <2>1. /\ index >= 0 /\ index \in Int /\ length' = length + 1 /\ cursor' = cursor
        /\ index' = IF p <= index + 1 THEN index + 1 ELSE index
    BY <1>0 DEF Inserts, TypeOK
  <2>2. length \in Nat /\ index + 1 \in 1..length /\ cursor = NodeAt[index + 1]
    BY <1>0, <2>1, InOrder
  <2>3. CASE p <= index + 1
    <3>1. /\ index' + 1 \in 1..(length + 1) /\ ~(index' + 1 < p) /\ index' + 1 # p
          /\ (index' + 1) - 1 = index + 1
      BY <2>1, <2>2, <2>3
    <3>2. t[index' + 1] = NodeAt[(index' + 1) - 1]
      BY <3>1 DEF t, Inserted
    <3> QED
      BY <2>1, <2>2, <2>3, <3>1, <3>2
  <2>4. CASE ~(p <= index + 1)
    <3>1. index' + 1 \in 1..(length + 1) /\ index' + 1 < p /\ index' = index
      BY <2>1, <2>2, <2>4
    <3>2. t[index' + 1] = NodeAt[index' + 1]
      BY <3>1 DEF t, Inserted
    <3> QED
      BY <2>1, <2>2, <3>1, <3>2
  <2> QED
    BY <2>3, <2>4
<1>6. Owed' /\ FailuresExplained'
  <2>1. length' # 0 /\ status' = "running"
    BY <1>0 DEF Inserts, TypeOK, Running
  <2>2. index' < -1 => index < -1
    BY <1>0 DEF Inserts, TypeOK
  <2>3. "index" \in risks => "index" \in risks'
    BY DEF Inserts
  <2>4. index' < -1 => "index" \in risks'
    BY <1>0, <2>2, <2>3 DEF IInv, Owed
  <2> QED
    BY <2>1, <2>4 DEF Owed, FailuresExplained, IsEmpty
<1> QED
  BY <1>2, <1>3, <1>4, <1>5, <1>6 DEF IInv

LEMMA RemovesKeep ==
  ASSUME IInv, NEW p \in 1..length, Removes(p)
  PROVE  IInv' /\ NodeAt' = Removed(NodeAt, length, p)
<1>0. TypeOK /\ Running /\ Running' /\ length \in Nat /\ length - 1 \in Nat
      /\ NULL \notin live /\ NodeAt[p] \in live
  BY InOrder DEF Removes, Running, IInv
<1> DEFINE t == Removed(NodeAt, length, p)
<1>1. IsChain(t, length - 1, next', prev', front', back', live \ {NodeAt[p]})
  <2>1. IsChain(NodeAt, length, next, prev, front, back, live)
    BY <1>0, InOrder
  <2>2. TakenOut(p, NodeAt, length, next, prev, front, back, live, next', prev', front', back')
    BY DEF Removes
  <2> QED
    BY <1>0, <2>1, <2>2, ChainWithoutNode
<1>2. NodeAt' = t
  <2> HIDE DEF t
  <2>1. length' = length - 1 /\ NULL \notin live \ {NodeAt[p]}
    BY <1>0 DEF Removes
  <2>2. Walk(length - 1, front', next') = t
    BY <1>0, <1>1, <2>1, WalkIsChain
  <2> QED
    BY <2>1, <2>2, NodeAtNext
<1>3. Chained'
  BY <1>1, <1>2 DEF Removes, Chained
<1>4. TypeOK'
  <2>1. /\ next' \in [Nodes -> Nodes \cup {NULL}] /\ prev' \in [Nodes -> Nodes \cup {NULL}]
        /\ data' \in [Nodes -> Values \cup {NULL}]
        /\ live' \subseteq Nodes /\ status' = "running" /\ risks' \subseteq {"index", "front"}
        /\ front' \in Nodes \cup {NULL} /\ cursor' \in live' \cup {NULL}
        /\ index' \in Int /\ index' >= MinIndex
    BY <1>0 DEF Removes, TypeOK, Running
  <2>2. back' \in live' \cup {NULL}
    <3> HIDE DEF t
    <3>1. live' = live \ {NodeAt[p]} /\ back' = IF length - 1 = 0 THEN NULL ELSE t[length - 1]
      BY <1>1 DEF IsChain, Removes
    <3>2. t \in [1..(length - 1) -> live \ {NodeAt[p]}]
      BY <1>1 DEF IsChain
    <3> QED
      BY <1>0, <3>1, <3>2
  <2>3. length' \in Nat
    BY <1>0 DEF Removes
  <2> QED
    BY <2>1, <2>2, <2>3 DEF TypeOK
<1>5. CursorAtIndex'
  <2> HIDE DEF t
  <2> SUFFICES ASSUME index' >= 0
               PROVE  index' < length' /\ cursor' = t[index' + 1]
    BY <1>2 DEF CursorAtIndex
  <2>1. index \in Int /\ index >= 0 /\ p # index + 1
        /\ index' = IF p <= index THEN index - 1 ELSE index
    BY <1>0 DEF Removes, TypeOK
  <2>2. index + 1 \in 1..length /\ cursor = NodeAt[index + 1] /\ length' = length - 1
    BY <1>0, <2>1, InOrder DEF Removes
  <2>3. cursor' = cursor
    <3>1. NodeAt[index + 1] # NodeAt[p]
      BY <1>0, <2>1, <2>2, InOrder
    <3> QED
      BY <2>2, <3>1 DEF Removes
  <2>4. CASE p <= index
    <3>1. index' = index - 1 /\ index' + 1 \in 1..(length - 1) /\ ~(index' + 1 < p)
          /\ (index' + 1) + 1 = index + 1 /\ index' < length - 1
      BY <1>0, <2>1, <2>2, <2>4
    <3>2. t[index' + 1] = NodeAt[(index' + 1) + 1]
      BY <3>1 DEF t, Removed
    <3> QED
      BY <2>2, <2>3, <3>1, <3>2
  <2>5. CASE p > index + 1
    <3>1. index' = index /\ index' + 1 \in 1..(length - 1) /\ index' + 1 < p /\ index' < length - 1
      BY <1>0, <2>1, <2>2, <2>5
    <3>2. t[index' + 1] = NodeAt[index' + 1]
      BY <3>1 DEF t, Removed
    <3> QED
      BY <2>2, <2>3, <3>1, <3>2
  <2> QED
    BY <1>0, <2>1, <2>4, <2>5
<1>6. Owed' /\ FailuresExplained'
  <2>1. length' = 0 => length = 1
    BY <1>0 DEF Removes
  <2>2. IsEmpty' => front' = NULL \/ "front" \in risks'
    BY <2>1 DEF Removes, IsEmpty
  <2>3. index' < -1 => "index" \in risks'
    BY DEF Removes
  <2> QED
    BY <1>0, <2>2, <2>3 DEF Owed, FailuresExplained, Running
<1> QED
  BY <1>2, <1>3, <1>4, <1>5, <1>6 DEF IInv

-----------------------------------------------------------------------------
(* The procedures that change the chain: which place each of them changes. *)

LEMMA PrependInserts ==
  ASSUME IInv, NEW n \in Nodes, NEW x \in Values, Prepend(n, x)
  PROVE  Inserts(1, n, x)
<1>0. TypeOK /\ Running /\ n \notin live /\ live' = live \cup {n} /\ data' = [data EXCEPT ![n] = x]
      /\ front' = n /\ length' = length + 1 /\ risks' = risks \ {"front"} /\ UNCHANGED <<cursor, status>>
  BY DEF Prepend, Allocate, Settle, IInv
<1>1. length \in Nat /\ index \in Int /\ NULL \notin Nodes /\ live \subseteq Nodes
  BY <1>0, InOrder
<1>2. LeftOf(NodeAt, 1) = NULL
  BY DEF LeftOf
<1>3. CASE IsEmpty
  <2>1. /\ back' = n /\ next' = [next EXCEPT ![n] = NULL] /\ prev' = [prev EXCEPT ![n] = NULL]
        /\ index' = index
    BY <1>3 DEF Prepend
  <2>2. RightOf(NodeAt, length, 1) = NULL /\ 1 = length + 1
    BY <1>3 DEF RightOf, IsEmpty
  <2>3. ~(index >= 0)
    BY <1>0, <1>1, <1>3, InOrder DEF IsEmpty
  <2>4. PutIn(1, n, NodeAt, length, next, prev, front, back, live, next', prev', front', back')
    BY <1>0, <1>1, <1>2, <2>1, <2>2 DEF PutIn, TypeOK
  <2>5. next' \in [Nodes -> Nodes \cup {NULL}] /\ prev' \in [Nodes -> Nodes \cup {NULL}]
    BY <1>0, <2>1 DEF TypeOK
  <2> QED
    BY <1>0, <1>1, <2>1, <2>3, <2>4, <2>5 DEF Inserts
<1>4. CASE ~IsEmpty
  <2>1. /\ next' = [next EXCEPT ![n] = front] /\ prev' = [prev EXCEPT ![n] = NULL, ![front] = n]
        /\ index' = (IF index # -1 THEN index + 1 ELSE index) /\ back' = back
    BY <1>4 DEF Prepend
  <2>2. length > 0 /\ 1 # length + 1 /\ ~(1 > length)
    BY <1>1, <1>4 DEF IsEmpty
  <2>3. RightOf(NodeAt, length, 1) = front /\ front \in live
    BY <1>0, <2>2, InOrder DEF RightOf
  <2>4. PutIn(1, n, NodeAt, length, next, prev, front, back, live, next', prev', front', back')
    BY <1>0, <1>1, <1>2, <2>1, <2>2, <2>3 DEF PutIn, TypeOK
  <2>5. next' \in [Nodes -> Nodes \cup {NULL}] /\ prev' \in [Nodes -> Nodes \cup {NULL}]
    BY <1>0, <1>1, <2>1, <2>3 DEF TypeOK
  <2>6. /\ index' \in Int /\ index' >= index
        /\ index >= 0 => index' = IF 1 <= index + 1 THEN index + 1 ELSE index
        /\ index < 0 => index' < 0
    BY <1>1, <2>1
  <2> QED
    BY <1>0, <2>4, <2>5, <2>6 DEF Inserts
<1> QED
  BY <1>3, <1>4

LEMMA AppendInserts ==
  ASSUME IInv, NEW n \in Nodes, NEW x \in Values, AppendNode(n, x)
  PROVE  Inserts(length + 1, n, x)
<1>0. TypeOK /\ Running /\ n \notin live /\ live' = live \cup {n} /\ data' = [data EXCEPT ![n] = x]
      /\ back' = n /\ length' = length + 1 /\ risks' = risks \ {"front"}
      /\ UNCHANGED <<cursor, index, status>>
  BY DEF AppendNode, Allocate, Settle, place, IInv
<1>1. length \in Nat /\ index \in Int /\ NULL \notin Nodes /\ live \subseteq Nodes
  BY <1>0, InOrder
<1>2. RightOf(NodeAt, length, length + 1) = NULL
  BY <1>1 DEF RightOf
<1>3. PutIn(length + 1, n, NodeAt, length, next, prev, front, back, live, next', prev', front', back')
      /\ next' \in [Nodes -> Nodes \cup {NULL}] /\ prev' \in [Nodes -> Nodes \cup {NULL}]
  <2>1. CASE IsEmpty
    <3>1. /\ front' = n /\ next' = [next EXCEPT ![n] = NULL] /\ prev' = [prev EXCEPT ![n] = NULL]
      BY <2>1 DEF AppendNode
    <3>2. LeftOf(NodeAt, length + 1) = NULL /\ 1 = length + 1
      BY <2>1 DEF LeftOf, IsEmpty
    <3> QED
      BY <1>0, <1>1, <1>2, <3>1, <3>2 DEF PutIn, TypeOK
  <2>2. CASE ~IsEmpty
    <3>1. /\ next' = [next EXCEPT ![n] = NULL, ![back] = n] /\ prev' = [prev EXCEPT ![n] = back]
          /\ front' = front
      BY <2>2 DEF AppendNode
    <3>2. length > 0 /\ length + 1 # 1 /\ (length + 1) - 1 = length
      BY <1>1, <2>2 DEF IsEmpty
    <3>3. LeftOf(NodeAt, length + 1) = back /\ back \in live
      BY <1>0, <3>2, InOrder DEF LeftOf
    <3> QED
      BY <1>0, <1>1, <1>2, <3>1, <3>2, <3>3 DEF PutIn, TypeOK
  <2> QED
    BY <2>1, <2>2
<1>4. index >= 0 => index' = IF length + 1 <= index + 1 THEN index + 1 ELSE index
  <2>1. index >= 0 => index + 1 <= length
    BY <1>0, InOrder
  <2> QED
    BY <1>0, <1>1, <2>1
<1> QED
  BY <1>0, <1>1, <1>3, <1>4 DEF Inserts

(* The node under the cursor and its neighbours. *)
LEMMA AtCursor ==
  ASSUME IInv, Running, index >= 0
  PROVE  /\ index + 1 \in 1..length /\ cursor = NodeAt[index + 1] /\ cursor \in live /\ cursor \in Nodes
         /\ cursor # NULL /\ prev[cursor] = LeftOf(NodeAt, index + 1)
         /\ next[cursor] = RightOf(NodeAt, length, index + 2)
         /\ cursor = RightOf(NodeAt, length, index + 1) /\ cursor = LeftOf(NodeAt, index + 2)
         /\ cursor = front <=> index = 0
         /\ cursor = back <=> index = length - 1
<1>1. /\ length \in Nat /\ index \in Nat /\ index + 1 \in 1..length /\ cursor = NodeAt[index + 1]
      /\ cursor \in live /\ cursor \in Nodes /\ cursor # NULL
  BY InOrder
<1>2. /\ prev[cursor] = IF index + 1 = 1 THEN NULL ELSE NodeAt[(index + 1) - 1]
      /\ next[cursor] = IF index + 1 = length THEN NULL ELSE NodeAt[(index + 1) + 1]
  BY <1>1, InOrder
<1>3. /\ (index + 1) + 1 = index + 2 /\ (index + 2) - 1 = index + 1 /\ index + 2 # 1
      /\ index + 1 = length <=> index + 2 > length
      /\ ~(index + 1 > length)
  BY <1>1
<1>4. /\ prev[cursor] = LeftOf(NodeAt, index + 1)
      /\ next[cursor] = RightOf(NodeAt, length, index + 2)
      /\ cursor = RightOf(NodeAt, length, index + 1) /\ cursor = LeftOf(NodeAt, index + 2)
  BY <1>1, <1>2, <1>3 DEF LeftOf, RightOf
<1>5. /\ front = NodeAt[1] /\ back = NodeAt[length] /\ 1 \in 1..length /\ length \in 1..length
      /\ \A i, j \in 1..length : NodeAt[i] = NodeAt[j] => i = j
  BY <1>1, InOrder
<1>6. cursor = front <=> index = 0
  <2>1. index + 1 = 1 <=> index = 0
    BY <1>1
  <2> QED
    BY <1>1, <1>5, <2>1
<1>7. cursor = back <=> index = length - 1
  <2>1. index + 1 = length <=> index = length - 1
    BY <1>1
  <2> QED
    BY <1>1, <1>5, <2>1
<1> QED
  BY <1>1, <1>4, <1>6, <1>7

LEMMA InsertBeforeInserts ==
  ASSUME IInv, NEW n \in Nodes, NEW x \in Values, InsertBefore(n, x)
  PROVE  /\ Running /\ index >= 0
         /\ Prepend(n, x) \/ Inserts(index + 1, n, x)
<1>1. index >= 0 /\ Running
  BY DEF InsertBefore, Prepend
<1>2. CASE cursor = front /\ Prepend(n, x)
  BY <1>1, <1>2
<1>3. CASE cursor # front
  <2>1. /\ n \notin live /\ live' = live \cup {n} /\ data' = [data EXCEPT ![n] = x]
        /\ next' = [next EXCEPT ![n] = cursor, ![prev[cursor]] = n]
        /\ prev' = [prev EXCEPT ![n] = prev[cursor], ![cursor] = n]
        /\ length' = length + 1 /\ index' = index + 1
        /\ UNCHANGED <<front, back, cursor, status, risks>>
    BY <1>3 DEF InsertBefore, Allocate
  <2>2. TypeOK /\ length \in Nat /\ index \in Nat /\ NULL \notin Nodes /\ live \subseteq Nodes
    BY <1>1, InOrder DEF IInv
  <2>3. /\ cursor = RightOf(NodeAt, length, index + 1) /\ prev[cursor] = LeftOf(NodeAt, index + 1)
        /\ cursor \in live /\ index # 0 /\ index + 1 \in 1..length
    BY <1>1, <1>3, AtCursor
  <2>4. index + 1 # 1 /\ index + 1 # length + 1 /\ (index + 1) - 1 \in 1..length
    BY <2>2, <2>3
  <2>5. prev[cursor] \in live /\ prev[cursor] # cursor
    <3>1. prev[cursor] = NodeAt[(index + 1) - 1] /\ (index + 1) - 1 # index + 1
      BY <2>2, <2>3, <2>4 DEF LeftOf
    <3> QED
      BY <1>1, <2>3, <2>4, <3>1, AtCursor, InOrder
  <2>6. PutIn(index + 1, n, NodeAt, length, next, prev, front, back, live, next', prev', front', back')
    BY <2>1, <2>2, <2>3, <2>4, <2>5 DEF PutIn, TypeOK
  <2>7. next' \in [Nodes -> Nodes \cup {NULL}] /\ prev' \in [Nodes -> Nodes \cup {NULL}]
    BY <2>1, <2>2, <2>3, <2>5 DEF TypeOK
  <2>8. Inserts(index + 1, n, x)
    BY <1>1, <2>1, <2>2, <2>6, <2>7 DEF Inserts
  <2> QED
    BY <1>1, <2>8
<1> QED
  BY <1>2, <1>3 DEF InsertBefore

LEMMA InsertAfterInserts ==
  ASSUME IInv, NEW n \in Nodes, NEW x \in Values, InsertAfter(n, x)
  PROVE  /\ Running /\ index >= 0
         /\ AppendNode(n, x) \/ Inserts(index + 2, n, x)
<1>1. index >= 0 /\ Running
  BY DEF InsertAfter, AppendNode
<1>2. CASE cursor = back /\ AppendNode(n, x)
  BY <1>1, <1>2
<1>3. CASE cursor # back
  <2>1. /\ n \notin live /\ live' = live \cup {n} /\ data' = [data EXCEPT ![n] = x]
        /\ next' = [next EXCEPT ![n] = next[cursor], ![cursor] = n]
        /\ prev' = [prev EXCEPT ![n] = cursor, ![next[cursor]] = n]
        /\ length' = length + 1
        /\ UNCHANGED <<front, back, cursor, index, status, risks>>
    BY <1>3 DEF InsertAfter, Allocate, place
  <2>2. TypeOK /\ length \in Nat /\ index \in Nat /\ NULL \notin Nodes /\ live \subseteq Nodes
    BY <1>1, InOrder DEF IInv
  <2>3. /\ cursor = LeftOf(NodeAt, index + 2) /\ next[cursor] = RightOf(NodeAt, length, index + 2)
        /\ cursor \in live /\ index # length - 1 /\ index + 1 \in 1..length
    BY <1>1, <1>3, AtCursor
  <2>4. index + 2 # 1 /\ index + 2 # length + 1 /\ index + 2 \in 1..length /\ ~(index + 2 > length)
    BY <2>2, <2>3
  <2>5. next[cursor] \in live /\ next[cursor] # cursor
    <3>1. next[cursor] = NodeAt[index + 2] /\ index + 2 # index + 1
      BY <2>2, <2>3, <2>4 DEF RightOf
    <3> QED
      BY <1>1, <2>3, <2>4, <3>1, AtCursor, InOrder
  <2>6. PutIn(index + 2, n, NodeAt, length, next, prev, front, back, live, next', prev', front', back')
    BY <2>1, <2>2, <2>3, <2>4, <2>5 DEF PutIn, TypeOK
  <2>7. next' \in [Nodes -> Nodes \cup {NULL}] /\ prev' \in [Nodes -> Nodes \cup {NULL}]
    BY <2>1, <2>2, <2>3, <2>5 DEF TypeOK
  <2>8. Inserts(index + 2, n, x)
    BY <1>1, <2>1, <2>2, <2>6, <2>7 DEF Inserts
  <2> QED
    BY <1>1, <2>8
<1> QED
  BY <1>2, <1>3 DEF InsertAfter

LEMMA DeleteFrontRemoves ==
  ASSUME IInv, DeleteFront
  PROVE  length > 0 /\ Removes(1)
<1>0. /\ TypeOK /\ Running /\ length # 0 /\ index > MinIndex /\ UNCHANGED status
      /\ cursor' = IF cursor = front THEN NULL ELSE cursor
      /\ index' = (IF cursor = front THEN -1 ELSE index) - 1
      /\ front' = next[front]
      /\ back' = IF next[front] = NULL THEN NULL ELSE back
      /\ next' = [next EXCEPT ![front] = NULL]
      /\ prev' = [n \in Nodes |-> IF n \in {front, next[front]} THEN NULL ELSE prev[n]]
      /\ live' = live \ {front} /\ data' = [data EXCEPT ![front] = NULL]
      /\ length' = length - 1
      /\ risks' = risks \cup {"index"}
  BY DEF DeleteFront, IsEmpty, Release, Owe, IInv
<1>1. /\ length \in Nat /\ length > 0 /\ index \in Int /\ MinIndex \in Int /\ MinIndex < -1
      /\ NULL \notin Nodes /\ live \subseteq Nodes /\ NULL \notin live
  BY <1>0, InOrder, MinIndexAssumption
<1>2. /\ 1 \in 1..length /\ front = NodeAt[1] /\ front \in live /\ back = NodeAt[length]
      /\ next[front] = RightOf(NodeAt, length, 2)
      /\ NULL = LeftOf(NodeAt, 1)
      /\ next[front] = NULL <=> length = 1
      /\ length > 1 => next[front] = NodeAt[2] /\ next[front] \in live
  <2>1. /\ 1 \in 1..length /\ front = NodeAt[1] /\ front \in live /\ back = NodeAt[length]
        /\ next[front] = IF 1 = length THEN NULL ELSE NodeAt[1 + 1]
    BY <1>0, <1>1, InOrder
  <2>2. /\ 1 = length <=> 2 > length
        /\ length > 1 => 2 \in 1..length /\ 1 # length
    BY <1>1
  <2>3. length > 1 => NodeAt[2] \in live /\ NodeAt[2] # NULL
    BY <1>0, <2>2, InOrder
  <2>4. 1 # length => length > 1
    BY <1>1
  <2> QED
    BY <2>1, <2>2, <2>3, <2>4 DEF RightOf, LeftOf
<1>3. TakenOut(1, NodeAt, length, next, prev, front, back, live, next', prev', front', back')
  <2>1. back' = IF 1 = length THEN LeftOf(NodeAt, 1) ELSE back
    BY <1>0, <1>2
  <2>2. \A k \in live \ {front} :
          /\ next'[k] = IF k = NULL THEN RightOf(NodeAt, length, 2) ELSE next[k]
          /\ prev'[k] = IF k = RightOf(NodeAt, length, 2) THEN NULL ELSE prev[k]
    BY <1>0, <1>1, <1>2 DEF TypeOK
  <2>3. 1 + 1 = 2
    OBVIOUS
  <2> QED
    BY <1>0, <1>2, <2>1, <2>2, <2>3 DEF TakenOut
<1>4. next' \in [Nodes -> Nodes \cup {NULL}] /\ prev' \in [Nodes -> Nodes \cup {NULL}]
  BY <1>0 DEF TypeOK
<1>5. front' \in Nodes \cup {NULL} /\ (length = 1 => front' = NULL)
  BY <1>0, <1>1, <1>2 DEF TypeOK
<1>6. /\ index' \in Int /\ index' >= MinIndex
      /\ index >= 0 /\ 1 = index + 1 => index' < 0
      /\ index >= 0 /\ 1 # index + 1 => index' = IF 1 <= index THEN index - 1 ELSE index
      /\ index < 0 => index' < 0
  <2>1. index >= 0 => (cursor = front <=> index = 0)
    BY <1>0, AtCursor
  <2>2. CASE cursor = front
    <3>1. index' = -2
      BY <1>0, <2>2
    <3> QED
      BY <1>1, <2>1, <2>2, <3>1
  <2>3. CASE cursor # front
    <3>1. index' = index - 1
      BY <1>0, <2>3
    <3> QED
      BY <1>0, <1>1, <2>1, <2>3, <3>1
  <2> QED
    BY <2>2, <2>3
<1>7. cursor' = IF cursor = NodeAt[1] THEN NULL ELSE cursor
  BY <1>0, <1>2
<1>8. "index" \in risks' /\ risks' \subseteq {"index", "front"}
  BY <1>0 DEF TypeOK
<1> QED
  BY <1>0, <1>1, <1>2, <1>3, <1>4, <1>5, <1>6, <1>7, <1>8 DEF Removes

LEMMA DeleteBackRemoves ==
  ASSUME IInv, DeleteBack
  PROVE  length > 0 /\ Removes(length)
<1>0. /\ TypeOK /\ Running /\ length # 0 /\ UNCHANGED <<front, status>>
      /\ cursor' = IF cursor = back THEN NULL ELSE cursor
      /\ index' = IF cursor = back THEN -1 ELSE index
      /\ back' = prev[back]
      /\ next' = [n \in Nodes |-> IF n \in {back, prev[back]} THEN NULL ELSE next[n]]
      /\ prev' = [prev EXCEPT ![back] = NULL]
      /\ live' = live \ {back} /\ data' = [data EXCEPT ![back] = NULL]
      /\ length' = length - 1
      /\ risks' = risks \cup {"front"}
  BY DEF DeleteBack, IsEmpty, Release, Owe, IInv
<1>1. /\ length \in Nat /\ length > 0 /\ index \in Int /\ MinIndex \in Int /\ MinIndex < -1
      /\ NULL \notin Nodes /\ live \subseteq Nodes /\ NULL \notin live
  BY <1>0, InOrder, MinIndexAssumption
<1>2. /\ length \in 1..length /\ back = NodeAt[length] /\ back \in live /\ front = NodeAt[1]
      /\ prev[back] = LeftOf(NodeAt, length)
      /\ NULL = RightOf(NodeAt, length, length + 1)
  <2>1. /\ length \in 1..length /\ front = NodeAt[1] /\ back \in live /\ back = NodeAt[length]
        /\ prev[back] = IF length = 1 THEN NULL ELSE NodeAt[length - 1]
    BY <1>0, <1>1, InOrder
  <2>2. length + 1 > length
    BY <1>1
  <2> QED
    BY <2>1, <2>2 DEF RightOf, LeftOf
<1>3. TakenOut(length, NodeAt, length, next, prev, front, back, live, next', prev', front', back')
  <2>1. \A k \in live \ {back} :
          /\ next'[k] = IF k = LeftOf(NodeAt, length) THEN NULL ELSE next[k]
          /\ prev'[k] = IF k = NULL THEN LeftOf(NodeAt, length) ELSE prev[k]
    BY <1>0, <1>1, <1>2 DEF TypeOK
  <2>2. length > 1 => length # 1
    BY <1>1
  <2> QED
    BY <1>0, <1>2, <2>1, <2>2 DEF TakenOut
<1>4. next' \in [Nodes -> Nodes \cup {NULL}] /\ prev' \in [Nodes -> Nodes \cup {NULL}]
  BY <1>0 DEF TypeOK
<1>5. front' \in Nodes \cup {NULL} /\ "front" \in risks'
  BY <1>0 DEF TypeOK
<1>6. /\ index' \in Int /\ index' >= MinIndex
      /\ index >= 0 /\ length = index + 1 => index' < 0
      /\ index >= 0 /\ length # index + 1 => index' = IF length <= index THEN index - 1 ELSE index
      /\ index < 0 => index' < 0
      /\ index' < -1 => index < -1
  <2>1. index >= 0 => (cursor = back <=> index = length - 1) /\ index + 1 \in 1..length
    BY <1>0, AtCursor
  <2>2. index >= MinIndex
    BY <1>0 DEF TypeOK
  <2>3. CASE cursor = back
    BY <1>0, <1>1, <2>1, <2>3
  <2>4. CASE cursor # back
    BY <1>0, <1>1, <2>1, <2>2, <2>4
  <2> QED
    BY <2>3, <2>4
<1>7. cursor' = IF cursor = NodeAt[length] THEN NULL ELSE cursor
  BY <1>0, <1>2
<1>8. (index < -1 => "index" \in risks) /\ risks' \subseteq {"index", "front"}
  BY <1>0 DEF TypeOK, IInv, Owed
<1>9. index' < -1 => "index" \in risks'
  BY <1>0, <1>6, <1>8
<1> QED
  BY <1>0, <1>1, <1>2, <1>3, <1>4, <1>5, <1>6, <1>7, <1>8, <1>9 DEF Removes

LEMMA DeleteCursorRemoves ==
  ASSUME IInv, DeleteCursor
  PROVE  /\ Running /\ index >= 0
         /\ DeleteBack \/ DeleteFront \/ Removes(index + 1)
<1>1. index >= 0 /\ Running
  BY DEF DeleteCursor, DeleteFront, DeleteBack
<1>2. CASE cursor \in {front, back}
  BY <1>1, <1>2 DEF DeleteCursor
<1>3. CASE cursor \notin {front, back}
  <2>1. /\ next' = [next EXCEPT ![prev[cursor]] = next[cursor], ![cursor] = NULL]
        /\ prev' = [prev EXCEPT ![next[cursor]] = prev[cursor], ![cursor] = NULL]
        /\ live' = live \ {cursor} /\ data' = [data EXCEPT ![cursor] = NULL]
        /\ cursor' = NULL /\ index' = -1 /\ length' = length - 1
        /\ UNCHANGED <<front, back, status, risks>>
    BY <1>3 DEF DeleteCursor, Release
  <2>2. /\ TypeOK /\ length \in Nat /\ index \in Nat /\ NULL \notin Nodes /\ live \subseteq Nodes
        /\ NULL \notin live /\ MinIndex \in Int /\ MinIndex < -1
    BY <1>1, InOrder, MinIndexAssumption DEF IInv
  <2>3. /\ prev[cursor] = LeftOf(NodeAt, index + 1) /\ next[cursor] = RightOf(NodeAt, length, index + 2)
        /\ cursor = NodeAt[index + 1] /\ cursor \in live
        /\ index # 0 /\ index # length - 1 /\ index + 1 \in 1..length
    BY <1>1, <1>3, AtCursor
  <2>4. index + 1 # 1 /\ index + 1 # length /\ length > 1 /\ length # 1 /\ (index + 1) + 1 = index + 2
    BY <2>2, <2>3
  <2>5. prev[cursor] \in live
    <3>1. (index + 1) - 1 \in 1..length
      BY <2>2, <2>3
    <3>2. prev[cursor] = NodeAt[(index + 1) - 1]
      BY <2>3, <2>4 DEF LeftOf
    <3> QED
      BY <1>1, <3>1, <3>2, InOrder
  <2>6. next[cursor] \in live
    <3>1. index + 2 \in 1..length /\ ~(index + 2 > length)
      BY <2>2, <2>3
    <3>2. next[cursor] = NodeAt[index + 2]
      BY <2>3, <3>1 DEF RightOf
    <3> QED
      BY <1>1, <3>1, <3>2, InOrder
  <2>7. TakenOut(index + 1, NodeAt, length, next, prev, front, back, live, next', prev', front', back')
    <3>1. \A k \in live \ {cursor} :
            /\ next'[k] = IF k = prev[cursor] THEN next[cursor] ELSE next[k]
            /\ prev'[k] = IF k = next[cursor] THEN prev[cursor] ELSE prev[k]
      BY <2>1, <2>2, <2>5, <2>6 DEF TypeOK
    <3>2. RightOf(NodeAt, length, (index + 1) + 1) = next[cursor]
      BY <2>3, <2>4
    <3>3. \A k \in live \ {NodeAt[index + 1]} :
            /\ next'[k] = IF k = LeftOf(NodeAt, index + 1)
                          THEN RightOf(NodeAt, length, (index + 1) + 1) ELSE next[k]
            /\ prev'[k] = IF k = RightOf(NodeAt, length, (index + 1) + 1)
                          THEN LeftOf(NodeAt, index + 1) ELSE prev[k]
      BY <2>3, <3>1, <3>2
    <3>4. length > 1 => front' = IF index + 1 = 1 THEN NodeAt[2] ELSE front
      BY <2>1, <2>4
    <3>5. back' = IF index + 1 = length THEN LeftOf(NodeAt, index + 1) ELSE back
      BY <2>1, <2>4
    <3> QED
      BY <3>3, <3>4, <3>5 DEF TakenOut
  <2>8. next' \in [Nodes -> Nodes \cup {NULL}] /\ prev' \in [Nodes -> Nodes \cup {NULL}]
        /\ front' \in Nodes \cup {NULL} /\ risks' \subseteq {"index", "front"}
    BY <2>1, <2>2, <2>5, <2>6 DEF TypeOK
  <2>9. Removes(index + 1)
    BY <1>1, <2>1, <2>2, <2>3, <2>4, <2>7, <2>8 DEF Removes
  <2> QED
    BY <1>1, <2>9
<1> QED
  BY <1>2, <1>3

-----------------------------------------------------------------------------
(* The procedures that leave the chain alone, and those that end it. *)

LEMMA SameNodes ==
  ASSUME UNCHANGED <<next, front, length>>
  PROVE  NodeAt' = NodeAt
BY NodeAtWalks, NodeAtNext

(* The cursor moves, or the program ends on the way. *)
CursorMoves ==
  /\ Running /\ UNCHANGED <<heap, front, back, length>>
  /\ cursor' \in live \cup {NULL}
  /\ index' \in Int /\ index' >= MinIndex
  /\ index' < -1 => "index" \in risks'
  /\ index' >= 0 => index' < length /\ cursor' = NodeAt[index' + 1]
  /\ risks' \in {risks, risks \ {"index"}}
  /\ status' \in {"running", "exited", "nullCursor"}
  /\ status' = "nullCursor" => "index" \in risks'
  /\ status' = "exited" => IsEmpty

LEMMA CursorMovesKeeps ==
  ASSUME IInv, CursorMoves
  PROVE  IInv'
<1>1. UNCHANGED <<next, prev, data, live, front, back, length>> /\ Running /\ TypeOK
  BY DEF CursorMoves, heap, IInv
<1>2. NodeAt' = NodeAt
  BY <1>1, SameNodes
<1>3. TypeOK'
  BY <1>1 DEF CursorMoves, TypeOK
<1>4. Chained' /\ CursorAtIndex'
  BY <1>1, <1>2 DEF CursorMoves, IInv, Chained, CursorAtIndex
<1>5. Owed' /\ FailuresExplained'
  <2>1. "front" \in risks => "front" \in risks'
    BY DEF CursorMoves
  <2>2. status' # "none" /\ status' # "danglingFront" /\ IsEmpty' = IsEmpty
    BY <1>1 DEF CursorMoves, IsEmpty
  <2> QED
    BY <1>1, <2>1, <2>2 DEF CursorMoves, IInv, Owed, FailuresExplained
<1> QED
  BY <1>3, <1>4, <1>5 DEF IInv

LEMMA MovesMoveTheCursor ==
  ASSUME IInv, MoveFront \/ MoveBack \/ MovePrev \/ MoveNext
  PROVE  CursorMoves
<1>0. Running /\ TypeOK /\ UNCHANGED <<heap, front, back, length>>
  BY DEF MoveFront, MoveBack, MovePrev, MoveNext, IInv
<1>1. /\ length \in Nat /\ index \in Int /\ index >= MinIndex /\ MinIndex \in Int /\ MinIndex < -1
      /\ NULL \notin live /\ cursor \in live \cup {NULL}
      /\ index < -1 => "index" \in risks
      /\ status = "running"
  BY <1>0, InOrder, MinIndexAssumption DEF TypeOK, IInv, Owed, Running
<1>2. length > 0 => /\ 1 \in 1..length /\ length \in 1..length
                    /\ front = NodeAt[1] /\ back = NodeAt[length] /\ front \in live /\ back \in live
  BY <1>0, InOrder
<1>3. CASE MoveFront
  <2>1. cursor' = front /\ index' = 0 /\ risks' = risks \ {"index"} /\ length # 0 /\ status' = status
    BY <1>3 DEF MoveFront, Settle, IsEmpty
  <2>2. length > 0 /\ index' + 1 = 1
    BY <1>1, <2>1
  <2> QED
    BY <1>0, <1>1, <1>2, <2>1, <2>2 DEF CursorMoves
<1>4. CASE MoveBack
  <2>1. cursor' = back /\ index' = length - 1 /\ risks' = risks \ {"index"} /\ length # 0 /\ status' = status
    BY <1>4 DEF MoveBack, Settle, IsEmpty
  <2>2. length > 0 /\ index' + 1 = length /\ index' \in Nat /\ index' < length
    BY <1>1, <2>1
  <2> QED
    BY <1>0, <1>1, <1>2, <2>1, <2>2 DEF CursorMoves
<1>5. CASE MovePrev /\ IsEmpty
  <2>1. status' = "exited" /\ UNCHANGED <<cursor, index, risks>>
    BY <1>5 DEF MovePrev, place
  <2>2. index >= 0 => index < length /\ cursor = NodeAt[index + 1]
    BY <1>0 DEF IInv, CursorAtIndex
  <2> QED
    BY <1>0, <1>1, <1>5, <2>1, <2>2 DEF CursorMoves
<1>6. CASE MovePrev /\ ~IsEmpty
  <2>1. /\ index' = IF index > 0 THEN index - 1 ELSE -1
        /\ cursor' = IF index > 0 THEN prev[cursor] ELSE NULL
        /\ risks' = risks \ {"index"} /\ status' = status
    BY <1>6 DEF MovePrev, Settle
  <2>2. CASE index > 0
    <3>1. index + 1 \in 1..length /\ cursor = NodeAt[index + 1]
      BY <1>0, <1>1, <2>2, InOrder
    <3>2. index \in 1..length /\ index + 1 # 1 /\ (index + 1) - 1 = index /\ index' + 1 = index
      BY <1>1, <2>1, <2>2, <3>1
    <3>3. cursor' = NodeAt[index] /\ NodeAt[index] \in live
      BY <1>0, <2>1, <2>2, <3>1, <3>2, InOrder
    <3>4. index' \in Nat /\ index' < length
      BY <1>1, <2>1, <2>2, <3>1
    <3> QED
      BY <1>0, <1>1, <2>1, <3>2, <3>3, <3>4 DEF CursorMoves
  <2>3. CASE ~(index > 0)
    BY <1>0, <1>1, <2>1, <2>3 DEF CursorMoves
  <2> QED
    BY <2>2, <2>3
<1>7. CASE MoveNext /\ cursor = NULL
  <2>1. status' = "nullCursor" /\ UNCHANGED <<cursor, index, risks>> /\ index # -1
    BY <1>7 DEF MoveNext, place
  <2>2. ~(index >= 0)
    BY <1>0, <1>7, AtCursor
  <2> QED
    BY <1>0, <1>1, <2>1, <2>2 DEF CursorMoves
<1>8. CASE MoveNext /\ cursor # NULL /\ next[cursor] = NULL
  <2>1. index' = -1 /\ UNCHANGED <<cursor, status, risks>>
    BY <1>8 DEF MoveNext
  <2> QED
    BY <1>0, <1>1, <2>1 DEF CursorMoves
<1>9. CASE MoveNext /\ cursor # NULL /\ next[cursor] # NULL
  <2>1. index # -1 /\ index' = index + 1 /\ cursor' = next[cursor] /\ UNCHANGED <<status, risks>>
    BY <1>9 DEF MoveNext
  <2>2. PICK i \in 1..length : cursor = NodeAt[i]
    BY <1>0, <1>1, <1>9, InOrder
  <2>3. i # length /\ cursor' = NodeAt[i + 1]
    BY <1>0, <1>9, <2>1, <2>2, InOrder
  <2>4. i + 1 \in 1..length
    BY <1>1, <2>2, <2>3
  <2>5. cursor' \in live
    BY <1>0, <2>3, <2>4, InOrder
  <2>6. index' >= 0 => index' < length /\ cursor' = NodeAt[index' + 1]
    <3> SUFFICES ASSUME index' >= 0
                 PROVE  index' < length /\ cursor' = NodeAt[index' + 1]
      OBVIOUS
    <3>1. index >= 0
      BY <1>1, <2>1
    <3>2. index + 1 \in 1..length /\ cursor = NodeAt[index + 1]
      BY <1>0, <3>1, InOrder
    <3>3. i = index + 1
      BY <1>0, <2>2, <3>2, InOrder
    <3> QED
      BY <1>1, <2>1, <2>3, <2>4, <3>3
  <2>7. index' \in Int /\ index' >= MinIndex /\ (index' < -1 => index < -1)
    BY <1>1, <2>1
  <2> QED
    BY <1>0, <1>1, <2>1, <2>5, <2>6, <2>7 DEF CursorMoves
<1> QED
  BY <1>3, <1>4, <1>5, <1>6, <1>7, <1>8, <1>9

LEMMA SetKeeps ==
  ASSUME IInv, NEW x \in Values, Set(x)
  PROVE  /\ IInv' /\ NodeAt' = NodeAt /\ Running /\ index >= 0
         /\ data' = [data EXCEPT ![cursor] = x]
<1>1. /\ UNCHANGED <<next, prev, live, front, back, cursor, index, length, status, risks>>
      /\ Running /\ TypeOK /\ index >= 0
      /\ data' = [data EXCEPT ![cursor] = x]
  BY DEF Set, place, IInv
<1>2. NodeAt' = NodeAt
  BY <1>1, SameNodes
<1>3. TypeOK'
  BY <1>1 DEF TypeOK
<1> QED
  BY <1>1, <1>2, <1>3 DEF IInv, Chained, CursorAtIndex, Owed, FailuresExplained, Running, IsEmpty

(* A list begins, ends, or fails on a freed node. *)
LEMMA EndsKeep ==
  ASSUME IInv, NewList \/ FreeList \/ IsInList
  PROVE  IInv'
<1>0. TypeOK /\ NULL \notin Nodes
  BY NULLAssumption DEF IInv
<1>1. CASE NewList
  <2>1. /\ status = "none" /\ status' = "running"
        /\ front' = NULL /\ back' = NULL /\ cursor' = NULL
        /\ length' = 0 /\ index' = -1 /\ risks' = {}
        /\ UNCHANGED <<next, prev, data, live>>
    BY <1>1 DEF NewList, heap
  <2>2. live = {}
    BY <2>1 DEF IInv, Owed
  <2>3. IsChain(NodeAt', 0, next', prev', NULL, NULL, {})
    BY <2>1, NodeAtNext, EmptyChain
  <2>4. Chained'
    BY <2>1, <2>2, <2>3 DEF Chained
  <2>5. TypeOK'
    BY <1>0, <2>1, MinIndexAssumption DEF TypeOK
  <2> QED
    BY <2>1, <2>2, <2>4, <2>5 DEF IInv, CursorAtIndex, Owed, FailuresExplained
<1>2. CASE FreeList /\ status' = "none"
  <2>1. /\ Running /\ status' = "none"
        /\ live' = live \ {NodeAt[i] : i \in 1..length}
        /\ next' = [n \in Nodes |-> NULL]
        /\ prev' = [n \in Nodes |-> NULL]
        /\ data' = [n \in Nodes |-> NULL]
        /\ front' = NULL /\ back' = NULL /\ cursor' = NULL
        /\ UNCHANGED <<index, length, risks>>
    BY <1>2 DEF FreeList
  <2>2. live' = {}
    BY <2>1, InOrder
  <2>3. TypeOK'
    BY <1>0, <2>1 DEF TypeOK
  <2> QED
    BY <2>1, <2>2, <2>3 DEF IInv, Chained, CursorAtIndex, Owed, FailuresExplained, Running
<1>3. CASE (FreeList /\ status' # "none") \/ IsInList
  <2>1. /\ Running /\ status' = "danglingFront" /\ front \notin live \cup {NULL}
        /\ UNCHANGED <<next, prev, data, live, front, back, cursor, index, length, risks>>
    BY <1>3 DEF FreeList, IsInList, heap, place
  <2>2. length = 0
    <3>1. length \in Nat /\ (length > 0 => front \in live)
      BY <2>1, InOrder
    <3> QED
      BY <2>1, <3>1
  <2>3. IsEmpty /\ "front" \in risks /\ IsEmpty'
    BY <2>1, <2>2 DEF IInv, Owed, IsEmpty
  <2>4. TypeOK'
    BY <1>0, <2>1 DEF TypeOK
  <2> QED
    BY <2>1, <2>3, <2>4 DEF IInv, Chained, CursorAtIndex, Owed, FailuresExplained, Running
<1> QED
  BY <1>1, <1>2, <1>3

LEMMA ClearKeeps ==
  ASSUME IInv, Clear
  PROVE  IInv' /\ Running /\ status' = status /\ length' = 0 /\ index' < 0
<1>0. TypeOK /\ NULL \notin Nodes
  BY NULLAssumption DEF IInv
<1>1. /\ Running /\ length # 0 /\ UNCHANGED status
      /\ index' = (IF cursor = NULL THEN index - length
                   ELSE -2 - Cardinality({i \in 1..length : \E j \in 1..(i - 1) : NodeAt[j] = cursor}))
      /\ index' >= MinIndex
      /\ cursor' = NULL /\ front' = NULL /\ back' = NULL
      /\ next' = [n \in Nodes |-> NULL]
      /\ prev' = [n \in Nodes |-> NULL]
      /\ data' = [n \in Nodes |-> NULL]
      /\ live' = live \ {NodeAt[i] : i \in 1..length}
      /\ length' = 0
      /\ risks' = risks \cup {"index"}
  BY DEF Clear, IsEmpty, Owe
<1>2. live' = {} /\ length \in Nat /\ index \in Int
  BY <1>1, InOrder
<1>3. index' \in Int /\ index' < 0
  <2>1. CASE cursor = NULL
    <3>1. ~(index >= 0)
      BY <1>1, <2>1, AtCursor
    <3>2. index' = index - length
      BY <1>1, <2>1
    <3> QED
      BY <1>2, <3>1, <3>2
  <2>2. CASE cursor # NULL
    <3> DEFINE after == {i \in 1..length : \E j \in 1..(i - 1) : NodeAt[j] = cursor}
    <3>1. IsFiniteSet(1..length) /\ after \subseteq 1..length
      BY <1>2, FS_Interval
    <3>2. index' = -2 - Cardinality(after)
      BY <1>1, <2>2
    <3> HIDE DEF after
    <3>3. Cardinality(after) \in Nat
      BY <3>1, FS_Subset, FS_CardinalityType
    <3> QED
      BY <3>2, <3>3
  <2> QED
    BY <2>1, <2>2
<1>4. IsChain(NodeAt', 0, next', prev', NULL, NULL, {})
  BY <1>1, NodeAtNext, EmptyChain
<1>5. Chained'
  BY <1>1, <1>2, <1>4 DEF Chained
<1>6. TypeOK'
  BY <1>0, <1>1, <1>2, <1>3 DEF TypeOK
<1>7. CursorAtIndex' /\ Owed' /\ FailuresExplained'
  BY <1>1, <1>3 DEF CursorAtIndex, Owed, FailuresExplained, Running
<1> QED
  BY <1>1, <1>3, <1>5, <1>6, <1>7 DEF IInv

-----------------------------------------------------------------------------

LEMMA InitIInv ==
  ASSUME Init
  PROVE  IInv
<1>1. TypeOK
  BY MinIndexAssumption DEF Init, TypeOK
<1> QED
  BY <1>1 DEF Init, IInv, Chained, CursorAtIndex, Owed, FailuresExplained, Running

LEMMA NextIInv ==
  ASSUME IInv, [Next]_vars
  PROVE  IInv'
<1>1. CASE NewList \/ FreeList \/ IsInList
  BY <1>1, EndsKeep
<1>2. CASE Clear
  BY <1>2, ClearKeeps
<1>3. CASE MoveFront \/ MoveBack \/ MovePrev \/ MoveNext
  BY <1>3, MovesMoveTheCursor, CursorMovesKeeps
<1>4. CASE \E x \in Values : Set(x)
  BY <1>4, SetKeeps
<1>5. ASSUME NEW n \in Nodes, NEW x \in Values,
             Prepend(n, x) \/ AppendNode(n, x) \/ InsertBefore(n, x) \/ InsertAfter(n, x)
      PROVE  IInv'
  <2>1. length \in Nat /\ index \in Int /\ (Running /\ index >= 0 => index + 1 \in 1..length)
    BY InOrder DEF IInv, TypeOK
  <2>2. CASE Prepend(n, x)
    <3>1. 1 \in 1..(length + 1)
      BY <2>1
    <3> QED
      BY <2>2, <3>1, PrependInserts, InsertsKeep
  <2>3. CASE AppendNode(n, x)
    <3>1. length + 1 \in 1..(length + 1)
      BY <2>1
    <3> QED
      BY <2>3, <3>1, AppendInserts, InsertsKeep
  <2>4. CASE InsertBefore(n, x)
    <3>1. Prepend(n, x) \/ Inserts(index + 1, n, x)
      BY <2>4, InsertBeforeInserts
    <3>2. index + 1 \in 1..(length + 1)
      BY <2>1, <2>4, InsertBeforeInserts
    <3> QED
      BY <2>2, <3>1, <3>2, InsertsKeep
  <2>5. CASE InsertAfter(n, x)
    <3>1. AppendNode(n, x) \/ Inserts(index + 2, n, x)
      BY <2>5, InsertAfterInserts
    <3>2. index + 2 \in 1..(length + 1)
      BY <2>1, <2>5, InsertAfterInserts
    <3> QED
      BY <2>3, <3>1, <3>2, InsertsKeep
  <2> QED
    BY <1>5, <2>2, <2>3, <2>4, <2>5
<1>6. CASE DeleteFront \/ DeleteBack \/ DeleteCursor
  <2>1. length \in Nat
    BY DEF IInv, TypeOK
  <2>2. CASE DeleteFront
    <3>1. 1 \in 1..length
      BY <2>1, <2>2, DeleteFrontRemoves
    <3> QED
      BY <2>2, <3>1, DeleteFrontRemoves, RemovesKeep
  <2>3. CASE DeleteBack
    <3>1. length \in 1..length
      BY <2>1, <2>3, DeleteBackRemoves
    <3> QED
      BY <2>3, <3>1, DeleteBackRemoves, RemovesKeep
  <2>4. CASE DeleteCursor
    <3>1. DeleteBack \/ DeleteFront \/ Removes(index + 1)
      BY <2>4, DeleteCursorRemoves
    <3>2. index + 1 \in 1..length
      BY <2>4, DeleteCursorRemoves, InOrder
    <3> QED
      BY <2>2, <2>3, <3>1, <3>2, RemovesKeep
  <2> QED
    BY <1>6, <2>2, <2>3, <2>4
<1>7. CASE UNCHANGED vars
  <2>1. NodeAt' = NodeAt
    BY <1>7, SameNodes DEF vars, heap
  <2> QED
    BY <1>7, <2>1 DEF vars, heap, place, IInv, TypeOK, Chained, CursorAtIndex, Owed,
                      FailuresExplained, Running, IsEmpty
<1> QED
  BY <1>1, <1>2, <1>3, <1>4, <1>5, <1>6, <1>7 DEF Next

LEMMA AlwaysIInv == Spec => []IInv
<1>1. Init => IInv
  BY InitIInv
<1>2. IInv /\ [Next]_vars => IInv'
  BY NextIInv
<1> QED
  BY <1>1, <1>2, PTL DEF Spec

(* After any sequence of calls every field holds a node or NULL, and the   *)
(* cursor and back an allocated one if any (list.c:10-26).                 *)
THEOREM ListTypes == Spec => []TypeOK
<1>1. IInv => TypeOK
  BY DEF IInv
<1> QED
  BY <1>1, AlwaysIInv, PTL

(* No sequence of calls loses, shares or leaks a node: from front, next    *)
(* gives length different ones that end at back, prev goes back the same   *)
(* way, and nothing else is allocated (list.c:264-510).                    *)
THEOREM ListStaysLinked == Spec => []Linked
<1>1. ASSUME IInv
      PROVE  Linked
  <2> SUFFICES ASSUME Running
               PROVE  /\ live = {NodeAt[i] : i \in 1..length}
                      /\ Cardinality(live) = length
                      /\ back = IF IsEmpty THEN NULL ELSE NodeAt[length]
                      /\ \A i \in 1..length :
                           /\ prev[NodeAt[i]] = IF i = 1 THEN NULL ELSE NodeAt[i - 1]
                           /\ next[NodeAt[i]] = IF i = length THEN NULL ELSE NodeAt[i + 1]
    BY DEF Linked
  <2>1. length \in Nat /\ IsChain(NodeAt, length, next, prev, front, back, live)
    BY <1>1, InOrder
  <2>2. live = {NodeAt[i] : i \in 1..length} /\ Cardinality(live) = length
    BY <2>1, ChainCounts
  <2>3. back = IF length = 0 THEN NULL ELSE NodeAt[length]
    BY <2>1 DEF IsChain
  <2>4. \A i \in 1..length :
          /\ prev[NodeAt[i]] = IF i = 1 THEN NULL ELSE NodeAt[i - 1]
          /\ next[NodeAt[i]] = IF i = length THEN NULL ELSE NodeAt[i + 1]
    BY <2>1 DEF IsChain
  <2> QED
    BY <2>2, <2>3, <2>4 DEF IsEmpty
<1>2. IInv => Linked
  BY <1>1
<1> QED
  BY <1>2, AlwaysIInv, PTL

(* A defined index is the place of the cursor's node after any insertions  *)
(* and deletions on either side of it (list.c:189-262, 288, 356, 420).     *)
THEOREM CursorKeepsItsPlace == Spec => []CursorAtIndex
<1>1. IInv => CursorAtIndex
  BY DEF IInv
<1> QED
  BY <1>1, AlwaysIInv, PTL

(* A call fails only as movePrev in an empty list, or after one of the two *)
(* deletions that leave something behind and before the client has made up *)
(* for them (list.c:216-219; 251, 420; 62, 152, 438-449).                  *)
THEOREM FailuresAreExplained == Spec => []FailuresExplained
<1>1. IInv => FailuresExplained
  BY DEF IInv
<1> QED
  BY <1>1, AlwaysIInv, PTL

-----------------------------------------------------------------------------
(* The sequence with a cursor. *)

LEMMA SameSequence ==
  ASSUME NEW S, NEW q \in Seq(S), NEW r \in Seq(S), Len(q) = Len(r),
         \A i \in 1..Len(q) : q[i] = r[i]
  PROVE  q = r
OBVIOUS

LEMMA Joined ==
  ASSUME NEW S, NEW l \in Seq(S), NEW m \in Seq(S),
         NEW a \in Nat, a = Len(l), NEW b \in Nat, b = Len(m), NEW s, s = l \o m
  PROVE  /\ s \in Seq(S) /\ Len(s) = a + b
         /\ \A k \in 1..a : s[k] = l[k]
         /\ \A k \in 1..b : s[a + k] = m[k]
<1>1. s \in Seq(S) /\ Len(s) = a + b
  OBVIOUS
<1>2. ASSUME NEW k \in 1..a
      PROVE  s[k] = l[k]
  OBVIOUS
<1>3. ASSUME NEW k \in 1..b
      PROVE  s[a + k] = m[k]
  OBVIOUS
<1> QED
  BY <1>1, <1>2, <1>3

(* One element between two sequences. *)
LEMMA Spliced ==
  ASSUME NEW S, NEW l \in Seq(S), NEW m \in Seq(S), NEW x \in S,
         NEW a \in Nat, a = Len(l), NEW b \in Nat, b = Len(m), NEW s, s = l \o <<x>> \o m
  PROVE  /\ s \in Seq(S) /\ Len(s) = a + 1 + b
         /\ \A k \in 1..a : s[k] = l[k]
         /\ s[a + 1] = x
         /\ \A k \in 1..b : s[a + 1 + k] = m[k]
<1>1. PICK o : o = l \o <<x>>
  OBVIOUS
<1>2. o \in Seq(S) /\ Len(o) = a + 1
  BY <1>1
<1>3. \A k \in 1..a : o[k] = l[k]
  BY <1>1
<1>4. o[a + 1] = x
  BY <1>1
<1>5. PICK c \in Nat : c = a + 1
  OBVIOUS
<1>6. s = o \o m /\ c = Len(o)
  BY <1>1, <1>2, <1>5
<1>7. /\ s \in Seq(S) /\ Len(s) = c + b
      /\ \A k \in 1..c : s[k] = o[k]
      /\ \A k \in 1..b : s[c + k] = m[k]
  BY <1>2, <1>5, <1>6, Joined
<1>8. s[a + 1] = x
  <2>1. a + 1 \in 1..c
    BY <1>5
  <2> QED
    BY <1>4, <1>7, <2>1
<1>9. \A k \in 1..a : s[k] = l[k]
  <2>1. \A k \in 1..a : k \in 1..c
    BY <1>5
  <2> QED
    BY <1>3, <1>7, <2>1
<1> QED
  BY <1>5, <1>7, <1>8, <1>9

(* The first c elements, and those from c on. *)
LEMMA CutInTwo ==
  ASSUME NEW S, NEW q \in Seq(S), NEW n \in Nat, n = Len(q), NEW c \in 1..(n + 1)
  PROVE  /\ SubSeq(q, 1, c - 1) \in Seq(S) /\ Len(SubSeq(q, 1, c - 1)) = c - 1
         /\ \A i \in 1..(c - 1) : SubSeq(q, 1, c - 1)[i] = q[i]
         /\ SubSeq(q, c, n) \in Seq(S) /\ Len(SubSeq(q, c, n)) = n - c + 1
         /\ \A i \in 1..(n - c + 1) : SubSeq(q, c, n)[i] = q[c + i - 1]
OBVIOUS

(* A sequence with one element more in place p, and with one less. *)
LEMMA WithOne ==
  ASSUME NEW S, NEW q \in Seq(S), NEW n \in Nat, n = Len(q), NEW x \in S, NEW p \in 1..(n + 1),
         NEW r \in Seq(S), Len(r) = n + 1, r = Inserted(q, n, p, x)
  PROVE  r = SubSeq(q, 1, p - 1) \o <<x>> \o SubSeq(q, p, Len(q))
<1>0. \A i \in 1..(n + 1) : r[i] = IF i < p THEN q[i] ELSE IF i = p THEN x ELSE q[i - 1]
  BY DEF Inserted
<1>1. PICK u : u = SubSeq(q, 1, p - 1)
  OBVIOUS
<1>2. PICK v : v = SubSeq(q, p, n)
  OBVIOUS
<1>3. PICK a \in Nat, b \in Nat : a = p - 1 /\ b = n - p + 1
  <2>1. p - 1 \in Nat /\ n - p + 1 \in Nat
    OBVIOUS
  <2> QED
    BY <2>1
<1>4. a \in Nat /\ b \in Nat
  BY <1>3
<1>5. u \in Seq(S) /\ a = Len(u)
  BY <1>1, <1>3, CutInTwo
<1>6. \A i \in 1..a : u[i] = q[i]
  BY <1>1, <1>3, CutInTwo
<1>7. v \in Seq(S) /\ b = Len(v)
  BY <1>2, <1>3, CutInTwo
<1>8. \A i \in 1..b : v[i] = q[p + i - 1]
  BY <1>2, <1>3, CutInTwo
<1>9. PICK w : w = u \o <<x>> \o v
  OBVIOUS
<1>10. /\ w \in Seq(S) /\ Len(w) = a + 1 + b
       /\ \A k \in 1..a : w[k] = u[k]
       /\ w[a + 1] = x
       /\ \A k \in 1..b : w[a + 1 + k] = v[k]
  BY <1>4, <1>5, <1>7, <1>9, Spliced
<1>11. Len(w) = n + 1
  BY <1>3, <1>10
<1>12. ASSUME NEW i \in 1..(n + 1)
      PROVE  w[i] = r[i]
  <2>1. CASE i < p
    <3>1. i \in 1..a
      BY <1>3, <2>1
    <3>2. w[i] = q[i]
      BY <1>6, <1>10, <3>1
    <3> QED
      BY <1>0, <2>1, <3>2
  <2>2. CASE i = p
    <3>1. i = a + 1 /\ ~(i < p)
      BY <1>3, <2>2
    <3>2. w[a + 1] = x
      BY <1>10
    <3> QED
      BY <1>0, <2>2, <3>1, <3>2
  <2>3. CASE i > p
    <3>1. i - p \in 1..b /\ a + 1 + (i - p) = i /\ p + (i - p) - 1 = i - 1 /\ ~(i < p) /\ i # p
      BY <1>3, <2>3
    <3>2. w[a + 1 + (i - p)] = v[i - p]
      BY <1>10, <3>1
    <3>3. v[i - p] = q[p + (i - p) - 1]
      BY <1>8, <3>1
    <3> QED
      BY <1>0, <3>1, <3>2, <3>3
  <2> QED
    BY <2>1, <2>2, <2>3
<1>13. w = r
  BY <1>10, <1>11, <1>12, SameSequence
<1> QED
  BY <1>1, <1>2, <1>9, <1>13

LEMMA WithoutOne ==
  ASSUME NEW S, NEW q \in Seq(S), NEW n \in Nat, n = Len(q), NEW p \in 1..n,
         NEW r \in Seq(S), Len(r) = n - 1,
         \A i \in 1..(n - 1) : r[i] = IF i < p THEN q[i] ELSE q[i + 1]
  PROVE  r = SubSeq(q, 1, p - 1) \o SubSeq(q, p + 1, Len(q))
<1>1. PICK u : u = SubSeq(q, 1, p - 1)
  OBVIOUS
<1>2. PICK v : v = SubSeq(q, p + 1, n)
  OBVIOUS
<1>3. PICK a \in Nat, b \in Nat : a = p - 1 /\ b = n - p
  <2>1. p - 1 \in Nat /\ n - p \in Nat
    OBVIOUS
  <2> QED
    BY <2>1
<1>4. a \in Nat /\ b \in Nat
  BY <1>3
<1>5. u \in Seq(S) /\ a = Len(u)
  BY <1>1, <1>3, CutInTwo
<1>6. \A i \in 1..a : u[i] = q[i]
  BY <1>1, <1>3, CutInTwo
<1>7. v \in Seq(S) /\ b = Len(v) /\ \A i \in 1..b : v[i] = q[p + i]
  <2>1. PICK c \in 1..(n + 1) : c = p + 1
    OBVIOUS
  <2>2. v \in Seq(S) /\ Len(v) = n - c + 1 /\ \A i \in 1..(n - c + 1) : v[i] = q[c + i - 1]
    BY <1>2, <2>1, CutInTwo
  <2>3. n - c + 1 = b /\ \A i \in 1..b : c + i - 1 = p + i
    BY <1>3, <2>1
  <2> QED
    BY <2>2, <2>3
<1>8. v \in Seq(S) /\ b = Len(v)
  BY <1>7
<1>9. \A i \in 1..b : v[i] = q[p + i]
  BY <1>7
<1>10. PICK w : w = u \o v
  OBVIOUS
<1>11. /\ w \in Seq(S) /\ Len(w) = a + b
       /\ \A k \in 1..a : w[k] = u[k]
       /\ \A k \in 1..b : w[a + k] = v[k]
  BY <1>4, <1>5, <1>8, <1>10, Joined
<1>12. Len(w) = n - 1
  BY <1>3, <1>11
<1>13. ASSUME NEW i \in 1..(n - 1)
      PROVE  w[i] = r[i]
  <2>1. CASE i < p
    <3>1. i \in 1..a
      BY <1>3, <2>1
    <3>2. w[i] = q[i]
      BY <1>6, <1>11, <3>1
    <3> QED
      BY <2>1, <3>2
  <2>2. CASE i >= p
    <3>1. PICK k \in 1..b : k = i - a
      BY <1>3, <2>2
    <3>2. a + k = i /\ p + k = i + 1 /\ ~(i < p)
      BY <1>3, <2>2, <3>1
    <3>3. w[a + k] = v[k]
      BY <1>11, <3>1
    <3>4. v[k] = q[p + k]
      BY <1>9, <3>1
    <3> QED
      BY <3>2, <3>3, <3>4
  <2> QED
    BY <2>1, <2>2
<1>14. w = r
  BY <1>11, <1>12, <1>13, SameSequence
<1> QED
  BY <1>1, <1>2, <1>10, <1>14
(* The elements of a chain. *)
Elements(s, n, dt) == [i \in 1..n |-> dt[s[i]]]

(* r is the n elements of q and x in place p; and those but the one there. *)
WithItem(r, q, n, p, x) ==
  /\ r = SubSeq(q, 1, p - 1) \o <<x>> \o SubSeq(q, p, Len(q))
  /\ p = 1 => r = <<x>> \o q
  /\ p = n + 1 => r = Append(q, x)
WithoutItem(r, q, n, p) ==
  /\ r = SubSeq(q, 1, p - 1) \o SubSeq(q, p + 1, Len(q))
  /\ p = 1 => r = Tail(q)
  /\ p = n => r = SubSeq(q, 1, Len(q) - 1)

LEMMA ElementsWithOne ==
  ASSUME NEW S, NEW n \in Nat, NEW q \in Seq(S), Len(q) = n, NEW x \in S, NEW p \in 1..(n + 1),
         NEW r, r = Inserted(q, n, p, x)
  PROVE  WithItem(r, q, n, p, x)
<1>1. r \in Seq(S) /\ Len(r) = n + 1 /\ \A i \in 1..n : q[i] \in S
  BY DEF Inserted
<1>2. \A i \in 1..(n + 1) : r[i] = IF i < p THEN q[i] ELSE IF i = p THEN x ELSE q[i - 1]
  BY DEF Inserted
<1>3. r = SubSeq(q, 1, p - 1) \o <<x>> \o SubSeq(q, p, Len(q))
  BY <1>1, <1>2, WithOne
<1>4. p = 1 => r = <<x>> \o q
  <2> SUFFICES ASSUME p = 1
               PROVE  r = <<x>> \o q
    OBVIOUS
  <2> DEFINE w == <<x>> \o q
  <2>1. w \in Seq(S) /\ Len(w) = n + 1 /\ \A i \in 1..(n + 1) : w[i] = IF i = 1 THEN x ELSE q[i - 1]
    OBVIOUS
  <2> HIDE DEF w
  <2>2. \A i \in 1..(n + 1) : w[i] = r[i]
    BY <1>2, <2>1
  <2>3. w = r
    BY <1>1, <2>1, <2>2, SameSequence
  <2> QED
    BY <2>3 DEF w
<1>5. p = n + 1 => r = Append(q, x)
  <2> SUFFICES ASSUME p = n + 1
               PROVE  r = Append(q, x)
    OBVIOUS
  <2> DEFINE w == Append(q, x)
  <2>1. w \in Seq(S) /\ Len(w) = n + 1 /\ \A i \in 1..(n + 1) : w[i] = IF i < n + 1 THEN q[i] ELSE x
    OBVIOUS
  <2> HIDE DEF w
  <2>2. \A i \in 1..(n + 1) : w[i] = r[i]
    BY <1>2, <2>1
  <2>3. w = r
    BY <1>1, <2>1, <2>2, SameSequence
  <2> QED
    BY <2>3 DEF w
<1> QED
  BY <1>3, <1>4, <1>5 DEF WithItem

LEMMA ElementsWithoutOne ==
  ASSUME NEW S, NEW n \in Nat, NEW q \in Seq(S), Len(q) = n, NEW p \in 1..n,
         NEW r, r = Removed(q, n, p)
  PROVE  WithoutItem(r, q, n, p)
<1>1. r \in Seq(S) /\ Len(r) = n - 1 /\ n - 1 \in Nat
  <2>1. n - 1 \in Nat
    OBVIOUS
  <2>2. \A i \in 1..(n - 1) : (IF i < p THEN q[i] ELSE q[i + 1]) \in S
    OBVIOUS
  <2> QED
    BY <2>1, <2>2 DEF Removed
<1>2. \A i \in 1..(n - 1) : r[i] = IF i < p THEN q[i] ELSE q[i + 1]
  BY DEF Removed
<1>3. r = SubSeq(q, 1, p - 1) \o SubSeq(q, p + 1, Len(q))
  BY <1>1, <1>2, WithoutOne
<1>4. p = 1 => r = Tail(q)
  <2> SUFFICES ASSUME p = 1
               PROVE  r = Tail(q)
    OBVIOUS
  <2> DEFINE w == Tail(q)
  <2>1. w \in Seq(S) /\ Len(w) = n - 1 /\ \A i \in 1..(n - 1) : w[i] = q[i + 1]
    <3>1. q # <<>>
      OBVIOUS
    <3> QED
      BY <3>1
  <2> HIDE DEF w
  <2>2. \A i \in 1..(n - 1) : w[i] = r[i]
    BY <1>2, <2>1
  <2>3. w = r
    BY <1>1, <2>1, <2>2, SameSequence
  <2> QED
    BY <2>3 DEF w
<1>5. p = n => r = SubSeq(q, 1, Len(q) - 1)
  <2> SUFFICES ASSUME p = n
               PROVE  r = SubSeq(q, 1, Len(q) - 1)
    OBVIOUS
  <2> DEFINE w == SubSeq(q, 1, n - 1)
  <2>1. w \in Seq(S) /\ Len(w) = n - 1 /\ \A i \in 1..(n - 1) : w[i] = q[i]
    OBVIOUS
  <2> HIDE DEF w
  <2>2. \A i \in 1..(n - 1) : w[i] = r[i]
    BY <1>2, <2>1
  <2>3. w = r
    BY <1>1, <2>1, <2>2, SameSequence
  <2> QED
    BY <2>3 DEF w
<1> QED
  BY <1>3, <1>4, <1>5 DEF WithoutItem

(* The cursor's place for an index i, and what becomes of both when an     *)
(* element comes in place p, and when it goes.                             *)
PlaceOf(i) == IF i < 0 THEN 0 ELSE i + 1

IndexWith(i, j, p) ==
  /\ i >= 0 => j = IF p <= i + 1 THEN i + 1 ELSE i
  /\ i < 0 => j < 0
PlaceWith(c, p) == IF c > 0 /\ p <= c THEN c + 1 ELSE c

IndexWithout(i, j, p) ==
  /\ i >= 0 /\ p = i + 1 => j < 0
  /\ i >= 0 /\ p # i + 1 => j = IF p <= i THEN i - 1 ELSE i
  /\ i < 0 => j < 0
PlaceWithout(c, p) == IF p = c THEN 0 ELSE IF p < c THEN c - 1 ELSE c

LEMMA PlaceWithOne ==
  ASSUME NEW i \in Int, NEW j \in Int, NEW p \in Nat, p >= 1, IndexWith(i, j, p)
  PROVE  PlaceOf(j) = PlaceWith(PlaceOf(i), p)
BY DEF PlaceOf, IndexWith, PlaceWith

LEMMA PlaceWithoutOne ==
  ASSUME NEW i \in Int, NEW j \in Int, NEW p \in Nat, p >= 1, IndexWithout(i, j, p)
  PROVE  PlaceOf(j) = PlaceWithout(PlaceOf(i), p)
BY DEF PlaceOf, IndexWithout, PlaceWithout

(* The elements of a running list, and the cursor's place among them. *)
LEMMA ItemsOf ==
  ASSUME IInv, Running
  PROVE  /\ Items = Elements(NodeAt, length, data)
         /\ Items \in Seq(Values \cup {NULL}) /\ Len(Items) = length
         /\ \A i \in 1..length : Items[i] = data[NodeAt[i]]
         /\ Position = PlaceOf(index)
<1>1. length \in Nat /\ \A i \in 1..length : NodeAt[i] \in Nodes
  BY InOrder
<1>2. Items = [i \in 1..length |-> data[NodeAt[i]]] /\ Position = PlaceOf(index)
  BY DEF Items, Position, Running, PlaceOf
<1>3. \A i \in 1..length : data[NodeAt[i]] \in Values \cup {NULL}
  BY <1>1 DEF IInv, TypeOK
<1>4. Items \in [1..length -> Values \cup {NULL}]
  BY <1>2, <1>3
<1>5. Items \in Seq(Values \cup {NULL}) /\ Len(Items) = length
  BY <1>1, <1>4
<1> QED
  BY <1>2, <1>5 DEF Elements

LEMMA ItemsNext ==
  ASSUME Running'
  PROVE  /\ Items' = Elements(NodeAt', length', data')
         /\ Position' = PlaceOf(index')
BY DEF Items, Position, Running, Elements, PlaceOf

(* The sequence with a cursor after an insertion. *)
LEMMA InsertsItem ==
  ASSUME IInv, NEW p \in 1..(length + 1), NEW m, NEW x \in Values, Inserts(p, m, x)
  PROVE  /\ WithItem(Items', Items, length, p, x)
         /\ Position' = PlaceWith(Position, p)
<1>1. /\ Running /\ Running' /\ m \in Nodes \ live
      /\ data' = [data EXCEPT ![m] = x] /\ length' = length + 1
      /\ index' \in Int
      /\ index >= 0 => index' = IF p <= index + 1 THEN index + 1 ELSE index
      /\ index < 0 => index' < 0
  BY DEF Inserts, Running
<1>2. /\ length \in Nat /\ index \in Int /\ m \in Nodes /\ m \notin live
      /\ \A i \in 1..length : NodeAt[i] \in live /\ NodeAt[i] \in Nodes
  BY <1>1, InOrder
<1>3. NodeAt' = Inserted(NodeAt, length, p, m)
  BY InsertsKeep
<1>4. PICK q : q = Items
  OBVIOUS
<1>5. /\ q \in Seq(Values \cup {NULL}) /\ Len(q) = length
      /\ \A i \in 1..length : q[i] = data[NodeAt[i]]
  BY <1>1, <1>4, ItemsOf
<1>6. data'[m] = x /\ \A k \in Nodes : k # m => data'[k] = data[k]
  BY <1>1, <1>2 DEF IInv, TypeOK
<1>7. ASSUME NEW i \in 1..(length + 1)
      PROVE  data'[NodeAt'[i]] = IF i < p THEN q[i] ELSE IF i = p THEN x ELSE q[i - 1]
  <2>1. NodeAt'[i] = IF i < p THEN NodeAt[i] ELSE IF i = p THEN m ELSE NodeAt[i - 1]
    BY <1>3 DEF Inserted
  <2>2. /\ i < p => i \in 1..length
        /\ i > p => i - 1 \in 1..length /\ ~(i < p) /\ i # p
        /\ i = p => ~(i < p)
        /\ i < p \/ i = p \/ i > p
    BY <1>2
  <2>3. CASE i < p
    <3>1. NodeAt[i] \in Nodes /\ NodeAt[i] # m /\ q[i] = data[NodeAt[i]]
      BY <1>2, <1>5, <2>2, <2>3
    <3> QED
      BY <1>6, <2>1, <2>3, <3>1
  <2>4. CASE i = p
    BY <1>6, <2>1, <2>2, <2>4
  <2>5. CASE i > p
    <3>1. NodeAt[i - 1] \in Nodes /\ NodeAt[i - 1] # m /\ q[i - 1] = data[NodeAt[i - 1]]
      BY <1>2, <1>5, <2>2, <2>5
    <3> QED
      BY <1>6, <2>1, <2>2, <2>5, <3>1
  <2> QED
    BY <2>2, <2>3, <2>4, <2>5
<1>8. PICK r : r = Inserted(q, length, p, x)
  OBVIOUS
<1>9. Items' = r
  BY <1>1, <1>7, <1>8, ItemsNext DEF Elements, Inserted
<1>10. WithItem(r, q, length, p, x)
  <2>1. PICK S, n : S = Values \cup {NULL} /\ n = length
    OBVIOUS
  <2>2. n \in Nat /\ q \in Seq(S) /\ Len(q) = n /\ x \in S /\ p \in 1..(n + 1)
    BY <1>2, <1>5, <2>1
  <2>3. r = Inserted(q, n, p, x)
    BY <1>8, <2>1
  <2>4. WithItem(r, q, n, p, x)
    BY <2>2, <2>3, ElementsWithOne
  <2> QED
    BY <2>1, <2>4
<1>11. Position' = PlaceWith(Position, p)
  <2>1. Position = PlaceOf(index) /\ Position' = PlaceOf(index')
    BY <1>1, ItemsOf, ItemsNext
  <2>2. IndexWith(index, index', p)
    BY <1>1 DEF IndexWith
  <2>3. index \in Int /\ index' \in Int /\ p \in Nat /\ p >= 1
    BY <1>1, <1>2
  <2> QED
    BY <2>1, <2>2, <2>3, PlaceWithOne
<1> QED
  BY <1>4, <1>9, <1>10, <1>11

(* After a deletion. *)
LEMMA RemovesItem ==
  ASSUME IInv, NEW p \in 1..length, Removes(p)
  PROVE  /\ WithoutItem(Items', Items, length, p)
         /\ Position' = PlaceWithout(Position, p)
<1>1. /\ Running /\ Running'
      /\ data' = [data EXCEPT ![NodeAt[p]] = NULL] /\ length' = length - 1
      /\ index' \in Int
      /\ index >= 0 /\ p = index + 1 => index' < 0
      /\ index >= 0 /\ p # index + 1 => index' = IF p <= index THEN index - 1 ELSE index
      /\ index < 0 => index' < 0
  BY DEF Removes, Running
<1>2. /\ length \in Nat /\ index \in Int
      /\ \A i \in 1..length : NodeAt[i] \in live /\ NodeAt[i] \in Nodes
      /\ \A i, j \in 1..length : NodeAt[i] = NodeAt[j] => i = j
  BY <1>1, InOrder
<1>3. NodeAt' = Removed(NodeAt, length, p)
  BY RemovesKeep
<1>4. PICK q : q = Items
  OBVIOUS
<1>5. /\ q \in Seq(Values \cup {NULL}) /\ Len(q) = length
      /\ \A i \in 1..length : q[i] = data[NodeAt[i]]
  BY <1>1, <1>4, ItemsOf
<1>6. \A k \in Nodes : k # NodeAt[p] => data'[k] = data[k]
  BY <1>1, <1>2 DEF IInv, TypeOK
<1>7. ASSUME NEW i \in 1..(length - 1)
      PROVE  data'[NodeAt'[i]] = IF i < p THEN q[i] ELSE q[i + 1]
  <2>1. NodeAt'[i] = IF i < p THEN NodeAt[i] ELSE NodeAt[i + 1]
    BY <1>3 DEF Removed
  <2>2. /\ i \in 1..length /\ i + 1 \in 1..length
        /\ i < p => i # p
        /\ ~(i < p) => i + 1 # p
    BY <1>2
  <2>3. CASE i < p
    <3>1. NodeAt[i] \in Nodes /\ NodeAt[i] # NodeAt[p] /\ q[i] = data[NodeAt[i]]
      BY <1>2, <1>5, <2>2, <2>3
    <3> QED
      BY <1>6, <2>1, <2>3, <3>1
  <2>4. CASE ~(i < p)
    <3>1. NodeAt[i + 1] \in Nodes /\ NodeAt[i + 1] # NodeAt[p] /\ q[i + 1] = data[NodeAt[i + 1]]
      BY <1>2, <1>5, <2>2, <2>4
    <3> QED
      BY <1>6, <2>1, <2>4, <3>1
  <2> QED
    BY <2>3, <2>4
<1>8. PICK r : r = Removed(q, length, p)
  OBVIOUS
<1>9. Items' = r
  BY <1>1, <1>7, <1>8, ItemsNext DEF Elements, Removed
<1>10. WithoutItem(r, q, length, p)
  <2>1. PICK S, n : S = Values \cup {NULL} /\ n = length
    OBVIOUS
  <2>2. n \in Nat /\ q \in Seq(S) /\ Len(q) = n /\ p \in 1..n
    BY <1>2, <1>5, <2>1
  <2>3. r = Removed(q, n, p)
    BY <1>8, <2>1
  <2>4. WithoutItem(r, q, n, p)
    BY <2>2, <2>3, ElementsWithoutOne
  <2> QED
    BY <2>1, <2>4
<1>11. Position' = PlaceWithout(Position, p)
  <2>1. Position = PlaceOf(index) /\ Position' = PlaceOf(index')
    BY <1>1, ItemsOf, ItemsNext
  <2>2. IndexWithout(index, index', p)
    BY <1>1 DEF IndexWithout
  <2>3. index \in Int /\ index' \in Int /\ p \in Nat /\ p >= 1
    BY <1>1, <1>2
  <2> QED
    BY <2>1, <2>2, <2>3, PlaceWithoutOne
<1> QED
  BY <1>4, <1>9, <1>10, <1>11

(* Each procedure is one step of the sequence with a cursor, or none. *)

LEMMA PrependIsPrepend ==
  ASSUME IInv, NEW n \in Nodes, NEW x \in Values, Prepend(n, x)
  PROVE  Abstract!Prepend(x)
<1>1. Running /\ length \in Nat /\ index \in Int /\ 1 \in 1..(length + 1)
  BY InOrder DEF Prepend
<1>2. Inserts(1, n, x)
  BY PrependInserts
<1>3. Items' = <<x>> \o Items /\ Position' = PlaceWith(Position, 1)
  BY <1>1, <1>2, InsertsItem DEF WithItem
<1>4. Position \in Nat
  BY <1>1, ItemsOf DEF PlaceOf
<1>5. PlaceWith(Position, 1) = IF Position > 0 THEN Position + 1 ELSE 0
  BY <1>4 DEF PlaceWith
<1> QED
  BY <1>3, <1>5 DEF Abstract!Prepend, Abstract!Defined

LEMMA AppendIsAppend ==
  ASSUME IInv, NEW n \in Nodes, NEW x \in Values, AppendNode(n, x)
  PROVE  Abstract!AppendItem(x)
<1>1. Running /\ length \in Nat /\ index \in Int /\ length + 1 \in 1..(length + 1)
      /\ (index >= 0 => index + 1 \in 1..length)
  BY InOrder DEF AppendNode
<1>2. Inserts(length + 1, n, x)
  BY AppendInserts
<1>3. Items' = Append(Items, x) /\ Position' = PlaceWith(Position, length + 1)
  BY <1>1, <1>2, InsertsItem DEF WithItem
<1>4. Position \in Nat /\ ~(length + 1 <= Position)
  BY <1>1, ItemsOf DEF PlaceOf
<1>5. PlaceWith(Position, length + 1) = Position
  BY <1>4 DEF PlaceWith
<1> QED
  BY <1>3, <1>5 DEF Abstract!AppendItem

LEMMA InsertBeforeIsInsertBefore ==
  ASSUME IInv, NEW n \in Nodes, NEW x \in Values, InsertBefore(n, x)
  PROVE  Abstract!Prepend(x) \/ Abstract!InsertBefore(x)
<1>1. /\ Running /\ index >= 0 /\ length \in Nat /\ index \in Int /\ index + 1 \in 1..length
      /\ Prepend(n, x) \/ Inserts(index + 1, n, x)
  BY InsertBeforeInserts, InOrder
<1>2. CASE Prepend(n, x)
  BY <1>2, PrependIsPrepend
<1>3. CASE Inserts(index + 1, n, x)
  <2>1. index + 1 \in 1..(length + 1)
    BY <1>1
  <2>2. PICK p \in 1..(length + 1) : p = index + 1
    BY <2>1
  <2>3. p \in Nat /\ p > 0 /\ Position = p
    BY <1>1, <2>2, ItemsOf DEF PlaceOf
  <2>4. WithItem(Items', Items, length, p, x) /\ Position' = PlaceWith(Position, p)
    BY <1>3, <2>2, InsertsItem
  <2>5. PlaceWith(p, p) = p + 1
    BY <2>3 DEF PlaceWith
  <2>6. Items' = SubSeq(Items, 1, Position - 1) \o <<x>> \o SubSeq(Items, Position, Len(Items))
    BY <2>3, <2>4 DEF WithItem
  <2> QED
    BY <2>3, <2>4, <2>5, <2>6 DEF Abstract!InsertBefore, Abstract!Defined, Abstract!InsertAt
<1> QED
  BY <1>1, <1>2, <1>3

LEMMA InsertAfterIsInsertAfter ==
  ASSUME IInv, NEW n \in Nodes, NEW x \in Values, InsertAfter(n, x)
  PROVE  Abstract!AppendItem(x) \/ Abstract!InsertAfter(x)
<1>1. /\ Running /\ index >= 0 /\ length \in Nat /\ index \in Int /\ index + 1 \in 1..length
      /\ AppendNode(n, x) \/ Inserts(index + 2, n, x)
  BY InsertAfterInserts, InOrder
<1>2. CASE AppendNode(n, x)
  BY <1>2, AppendIsAppend
<1>3. CASE Inserts(index + 2, n, x)
  <2>1. index + 2 \in 1..(length + 1)
    BY <1>1
  <2>2. PICK p \in 1..(length + 1) : p = index + 2
    BY <2>1
  <2>3. /\ p \in Nat /\ Position = p - 1 /\ Position \in Nat /\ Position > 0
        /\ p = Position + 1 /\ ~(p <= Position) /\ (Position + 1) - 1 = p - 1
    BY <1>1, <2>2, ItemsOf DEF PlaceOf
  <2>4. WithItem(Items', Items, length, p, x) /\ Position' = PlaceWith(Position, p)
    BY <1>3, <2>2, InsertsItem
  <2>5. PlaceWith(Position, p) = Position
    BY <2>3 DEF PlaceWith
  <2>6. Items' = SubSeq(Items, 1, (Position + 1) - 1) \o <<x>> \o SubSeq(Items, Position + 1, Len(Items))
    BY <2>3, <2>4 DEF WithItem
  <2> QED
    BY <2>3, <2>4, <2>5, <2>6 DEF Abstract!InsertAfter, Abstract!Defined, Abstract!InsertAt
<1> QED
  BY <1>1, <1>2, <1>3

LEMMA DeleteFrontIsDeleteFront ==
  ASSUME IInv, DeleteFront
  PROVE  Abstract!DeleteFront
<1>1. Running /\ length \in Nat /\ length > 0 /\ index \in Int /\ 1 \in 1..length /\ Removes(1)
  BY DeleteFrontRemoves, InOrder DEF Removes
<1>2. Items' = Tail(Items) /\ Position' = PlaceWithout(Position, 1)
  BY <1>1, RemovesItem DEF WithoutItem
<1>3. Position \in Nat /\ Len(Items) = length
  BY <1>1, ItemsOf DEF PlaceOf
<1>4. PlaceWithout(Position, 1) = IF Position > 0 THEN Position - 1 ELSE 0
  BY <1>3 DEF PlaceWithout
<1>5. Items # <<>>
  BY <1>1, <1>3
<1> QED
  BY <1>2, <1>4, <1>5 DEF Abstract!DeleteFront, Abstract!Defined

LEMMA DeleteBackIsDeleteBack ==
  ASSUME IInv, DeleteBack
  PROVE  Abstract!DeleteBack
<1>1. /\ Running /\ length \in Nat /\ length > 0 /\ index \in Int /\ length \in 1..length
      /\ Removes(length) /\ (index >= 0 => index + 1 \in 1..length)
  BY DeleteBackRemoves, InOrder DEF Removes
<1>2. Items' = SubSeq(Items, 1, Len(Items) - 1) /\ Position' = PlaceWithout(Position, length)
  BY <1>1, RemovesItem DEF WithoutItem
<1>3. Position \in Nat /\ Len(Items) = length /\ Position <= length
  BY <1>1, ItemsOf DEF PlaceOf
<1>4. PlaceWithout(Position, length) = IF Position = length THEN 0 ELSE Position
  BY <1>1, <1>3 DEF PlaceWithout
<1>5. Items # <<>>
  BY <1>1, <1>3
<1> QED
  BY <1>2, <1>3, <1>4, <1>5 DEF Abstract!DeleteBack

LEMMA DeleteCursorIsDelete ==
  ASSUME IInv, DeleteCursor
  PROVE  Abstract!DeleteBack \/ Abstract!DeleteFront \/ Abstract!DeleteCursor
<1>1. /\ Running /\ index >= 0 /\ length \in Nat /\ index \in Int /\ index + 1 \in 1..length
      /\ DeleteBack \/ DeleteFront \/ Removes(index + 1)
  BY DeleteCursorRemoves, InOrder
<1>2. CASE DeleteBack
  BY <1>2, DeleteBackIsDeleteBack
<1>3. CASE DeleteFront
  BY <1>3, DeleteFrontIsDeleteFront
<1>4. CASE Removes(index + 1)
  <2>1. PICK p \in 1..length : p = index + 1
    BY <1>1
  <2>2. p \in Nat /\ p > 0 /\ Position = p
    BY <1>1, <2>1, ItemsOf DEF PlaceOf
  <2>3. WithoutItem(Items', Items, length, p) /\ Position' = PlaceWithout(Position, p)
    BY <1>4, <2>1, RemovesItem
  <2>4. PlaceWithout(p, p) = 0
    BY DEF PlaceWithout
  <2>5. Items' = SubSeq(Items, 1, Position - 1) \o SubSeq(Items, Position + 1, Len(Items))
    BY <2>2, <2>3 DEF WithoutItem
  <2> QED
    BY <2>2, <2>3, <2>4, <2>5 DEF Abstract!DeleteCursor, Abstract!Defined, Abstract!RemoveAt
<1> QED
  BY <1>1, <1>2, <1>3, <1>4

LEMMA SetIsSet ==
  ASSUME IInv, NEW x \in Values, Set(x)
  PROVE  Abstract!Set(x)
<1>1. /\ Running /\ index >= 0 /\ NodeAt' = NodeAt
      /\ data' = [data EXCEPT ![cursor] = x]
      /\ Running' /\ length' = length /\ index' = index
  BY SetKeeps DEF Set, place, Running
<1>2. /\ length \in Nat /\ index \in Int /\ index + 1 \in 1..length /\ cursor = NodeAt[index + 1]
      /\ \A i \in 1..length : NodeAt[i] \in Nodes
      /\ \A i, j \in 1..length : NodeAt[i] = NodeAt[j] => i = j
  BY <1>1, InOrder
<1>3. PICK p \in 1..length : p = index + 1
  BY <1>2
<1>4. Position = p /\ p > 0 /\ Position' = Position
  BY <1>1, <1>2, <1>3, ItemsOf, ItemsNext DEF PlaceOf
<1>5. Items = [i \in 1..length |-> data[NodeAt[i]]] /\ Items' = [i \in 1..length |-> data'[NodeAt[i]]]
  BY <1>1, ItemsOf, ItemsNext DEF Elements
<1>6. ASSUME NEW i \in 1..length
      PROVE  data'[NodeAt[i]] = IF i = p THEN x ELSE data[NodeAt[i]]
  BY <1>1, <1>2, <1>3 DEF IInv, TypeOK
<1>7. Items' = [Items EXCEPT ![p] = x]
  BY <1>5, <1>6
<1> QED
  BY <1>4, <1>7 DEF Abstract!Set, Abstract!Defined

(* The elements stay; the cursor is placed, moved or lost, or it was not   *)
(* there and is not.                                                       *)
LEMMA MovesMove ==
  ASSUME IInv, MoveFront \/ MoveBack \/ MovePrev \/ MoveNext
  PROVE  \/ Abstract!MoveFront \/ Abstract!MoveBack \/ Abstract!MovePrev \/ Abstract!MoveNext
         \/ UNCHANGED Abstract!vars
<1>1. /\ Running /\ UNCHANGED <<next, data, front, length>> /\ index' \in Int
      /\ status' \in {"running", "exited", "nullCursor"}
  BY MovesMoveTheCursor DEF CursorMoves, heap
<1>2. NodeAt' = NodeAt
  BY <1>1, SameNodes
<1>3. Items' = Items /\ Position = PlaceOf(index) /\ Position' = PlaceOf(index')
  BY <1>1, <1>2 DEF Items, Position, PlaceOf, Running
<1>4. /\ length \in Nat /\ index \in Int /\ Len(Items) = length
      /\ length # 0 => Items # <<>>
      /\ \A i \in 1..length : next[NodeAt[i]] = IF i = length THEN NULL ELSE NodeAt[i + 1]
      /\ \A i \in 1..length : NodeAt[i] # NULL
      /\ index >= 0 => index + 1 \in 1..length /\ cursor = NodeAt[index + 1]
  BY <1>1, InOrder, ItemsOf
<1>5. CASE MoveFront
  <2>1. index' = 0 /\ length # 0
    BY <1>5 DEF MoveFront, IsEmpty
  <2>2. PlaceOf(0) = 1
    BY DEF PlaceOf
  <2> QED
    BY <1>3, <1>4, <2>1, <2>2 DEF Abstract!MoveFront
<1>6. CASE MoveBack
  <2>1. index' = length - 1 /\ length # 0
    BY <1>6 DEF MoveBack, IsEmpty
  <2>2. PlaceOf(length - 1) = length
    BY <1>4, <2>1 DEF PlaceOf
  <2> QED
    BY <1>3, <1>4, <2>1, <2>2 DEF Abstract!MoveBack
<1>7. CASE MovePrev
  <2>1. CASE index' = index
    BY <1>3, <2>1 DEF Abstract!vars
  <2>2. CASE index' # index
    <3>1. index' = IF index > 0 THEN index - 1 ELSE -1
      BY <1>7, <2>2 DEF MovePrev, place
    <3>2. CASE index >= 0
      <4>1. PlaceOf(index) > 0 /\ PlaceOf(index') = PlaceOf(index) - 1
        BY <1>4, <3>1, <3>2 DEF PlaceOf
      <4> QED
        BY <1>3, <4>1 DEF Abstract!MovePrev, Abstract!Defined
    <3>3. CASE index < 0
      <4>1. PlaceOf(index) = 0 /\ PlaceOf(index') = 0
        BY <1>4, <3>1, <3>3 DEF PlaceOf
      <4> QED
        BY <1>3, <4>1 DEF Abstract!vars
    <3> QED
      BY <1>4, <3>2, <3>3
  <2> QED
    BY <2>1, <2>2
<1>8. CASE MoveNext
  <2>1. /\ index # -1
        /\ \/ cursor # NULL /\ next[cursor] # NULL /\ index' = index + 1
           \/ cursor # NULL /\ next[cursor] = NULL /\ index' = -1
           \/ cursor = NULL /\ index' = index
    BY <1>8 DEF MoveNext, place
  <2>2. CASE index < 0
    <3>1. index' \in {index, index + 1, -1}
      BY <2>1
    <3>2. index' < 0
      BY <1>4, <2>1, <2>2, <3>1
    <3>3. PlaceOf(index) = 0 /\ PlaceOf(index') = 0
      BY <2>2, <3>2 DEF PlaceOf
    <3> QED
      BY <1>3, <3>3 DEF Abstract!vars
  <2>3. CASE index >= 0
    <3>1. /\ index + 1 \in 1..length /\ cursor = NodeAt[index + 1] /\ cursor # NULL
          /\ next[cursor] = IF index + 1 = length THEN NULL ELSE NodeAt[(index + 1) + 1]
      BY <1>4, <2>3
    <3>2. PlaceOf(index) = index + 1 /\ PlaceOf(index) > 0
      BY <1>4, <2>3 DEF PlaceOf
    <3>3. CASE index + 1 = length
      <4>1. index' = -1 /\ PlaceOf(-1) = 0 /\ ~(PlaceOf(index) < length)
        BY <1>4, <2>1, <3>1, <3>2, <3>3 DEF PlaceOf
      <4> QED
        BY <1>3, <1>4, <3>2, <4>1 DEF Abstract!MoveNext, Abstract!Defined
    <3>4. CASE index + 1 # length
      <4>1. (index + 1) + 1 \in 1..length
        BY <1>4, <3>1, <3>4
      <4>2. next[cursor] # NULL
        BY <1>4, <3>1, <3>4, <4>1
      <4>3. index' = index + 1
        BY <2>1, <3>1, <4>2
      <4>4. PlaceOf(index') = PlaceOf(index) + 1 /\ PlaceOf(index) < length
        BY <1>4, <2>3, <3>1, <3>4, <4>3 DEF PlaceOf
      <4> QED
        BY <1>3, <1>4, <3>2, <4>4 DEF Abstract!MoveNext, Abstract!Defined
    <3> QED
      BY <3>3, <3>4
  <2> QED
    BY <1>4, <2>2, <2>3
<1> QED
  BY <1>5, <1>6, <1>7, <1>8

LEMMA EndsReset ==
  ASSUME IInv, NewList \/ FreeList \/ IsInList \/ Clear
  PROVE  Abstract!Reset \/ UNCHANGED Abstract!vars
<1>1. CASE NewList \/ Clear
  <2>1. length' = 0 /\ index' < 0
    BY <1>1, ClearKeeps DEF NewList
  <2>2. Items' = <<>>
    BY <2>1 DEF Items
  <2>3. Position' = 0
    BY <2>1 DEF Position
  <2> QED
    BY <2>2, <2>3 DEF Abstract!Reset
<1>2. CASE FreeList /\ status' = "none"
  BY <1>2 DEF Items, Position, Abstract!Reset
<1>3. CASE (FreeList /\ status' # "none") \/ IsInList
  <2>1. Running /\ status' = "danglingFront" /\ UNCHANGED <<next, data, front, index, length>>
    BY <1>3 DEF FreeList, IsInList, heap, place
  <2>2. NodeAt' = NodeAt
    BY <2>1, SameNodes
  <2>3. Items' = Items /\ Position' = Position
    BY <2>1, <2>2 DEF Items, Position, Running
  <2> QED
    BY <2>3 DEF Abstract!vars
<1> QED
  BY <1>1, <1>2, <1>3

LEMMA StepIsStep ==
  ASSUME IInv, [Next]_vars
  PROVE  [Abstract!Next]_(Abstract!vars)
<1>1. CASE UNCHANGED vars
  <2>1. UNCHANGED <<next, data, front, index, length, status>>
    BY <1>1 DEF vars, heap, place
  <2>2. NodeAt' = NodeAt
    BY <2>1, SameNodes
  <2> QED
    BY <2>1, <2>2 DEF Items, Position, Abstract!vars
<1>2. CASE NewList \/ FreeList \/ IsInList \/ Clear
  BY <1>2, EndsReset DEF Abstract!Next
<1>3. CASE MoveFront \/ MoveBack \/ MovePrev \/ MoveNext
  BY <1>3, MovesMove DEF Abstract!Next
<1>4. CASE DeleteFront \/ DeleteBack \/ DeleteCursor
  BY <1>4, DeleteFrontIsDeleteFront, DeleteBackIsDeleteBack, DeleteCursorIsDelete DEF Abstract!Next
<1>5. CASE \E x \in Values : Set(x)
  BY <1>5, SetIsSet DEF Abstract!Next
<1>6. CASE \E n \in Nodes, x \in Values :
             Prepend(n, x) \/ AppendNode(n, x) \/ InsertBefore(n, x) \/ InsertAfter(n, x)
  <2>1. PICK n \in Nodes, x \in Values :
          Prepend(n, x) \/ AppendNode(n, x) \/ InsertBefore(n, x) \/ InsertAfter(n, x)
    BY <1>6
  <2>2. Abstract!Prepend(x) \/ Abstract!AppendItem(x) \/ Abstract!InsertBefore(x) \/ Abstract!InsertAfter(x)
    BY <2>1, PrependIsPrepend, AppendIsAppend, InsertBeforeIsInsertBefore, InsertAfterIsInsertAfter
  <2> QED
    BY <2>1, <2>2 DEF Abstract!Next
<1> QED
  BY <1>1, <1>2, <1>3, <1>4, <1>5, <1>6 DEF Next

(* Until a call fails, the linked nodes are the sequence with a cursor that *)
(* list.h promises: every procedure does to the elements and the cursor    *)
(* what it says, and nothing else (list.c:165-510).                        *)
THEOREM ListIsASequenceWithACursor == Spec => Refinement
<1>1. Init => Abstract!Init
  BY DEF Init, Items, Position, Abstract!Init
<1>2. IInv /\ [Next]_vars => [Abstract!Next]_(Abstract!vars)
  BY StepIsStep
<1> QED
  BY <1>1, <1>2, AlwaysIInv, PTL DEF Spec, Refinement, Abstract!Spec

=============================================================================
