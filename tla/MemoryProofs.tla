---------------------------- MODULE MemoryProofs ----------------------------
(***************************************************************************)
(* Proofs about Memory for any size of a chunk and of a pointer, any       *)
(* inputs and any number of writes that fall short or fail.  IInv is the   *)
(* inductive invariant: next to the types it says what the buffer holds,   *)
(* where the two loops are when they take their exits, and how far what    *)
(* was written has come: exactly as long as no write went wrong, as a      *)
(* lower bound under both commands once one did.                           *)
(***************************************************************************)
EXTENDS Memory, TLAPS

(* The place in the input before the bytes that were read last. *)
Base == pos - b_read

(* The buffer begins with the bytes read last; behind them are older ones. *)
Buffered ==
  /\ b_read <= pos /\ b_read <= Length
  /\ \A k \in 1..Chunk : IF k <= b_read THEN buff[k] = Base + k ELSE buff[k] <= Base
  /\ pc \in {"write", "done"} /\ b_read = 0 => pos = total \/ Length = 0

Control ==
  /\ pc = "main" => pos = 0 /\ out = <<>> /\ count = 0
  /\ pc = "write" => b_write < b_read \/ (b_read = 0 /\ b_write = 0)
  /\ ~IsSet /\ pc = "done" => b_read = 0
  /\ IsSet /\ pc \in {"main", "read", "write"} => count < content_length \/ content_length = 0

(* As long as no write went wrong, every write takes what was read. *)
Faultless ==
  faults = 0 =>
    /\ \A k \in DOMAIN out : out[k] = k
    /\ pc = "write" => b_write = 0 /\ Len(out) = Base
    /\ pc \in {"main", "read", "done"} => Len(out) = pos
    /\ IsSet => count = Len(out)
    /\ CopiesPrefix

(* A set has written at least what it counted, and what it was done with. *)
SetCounted ==
  IsSet =>
    /\ count <= Len(out)
    /\ pc = "write" => Len(out) >= Base + b_write
    /\ pc \in {"main", "read"} => Len(out) >= pos
    /\ SetWritesEnough

(* Nothing above h was written, and every byte up to h was before any       *)
(* above it.                                                               *)
Covered(l, h) ==
  /\ \A j \in DOMAIN l : l[j] <= h
  /\ \A i \in 1..h :
       \E k \in DOMAIN l :
         /\ l[k] = i
         /\ \A j \in DOMAIN l : l[j] > i => j > k

(* The place a get has come to; b_write below 0 is before what was read. *)
Reached ==
  IF pc = "write" THEN Base + (IF b_write > 0 THEN b_write ELSE 0) ELSE pos

GetCovered ==
  ~IsSet /\ pc \in {"main", "read", "write", "done"} =>
    \E h \in 0..total : h >= Reached /\ Covered(out, h)

IInv ==
  /\ TypeOK
  /\ Buffered
  /\ Control
  /\ Faultless
  /\ SetCounted
  /\ GetCovered

-----------------------------------------------------------------------------
(* The integers of a state, and what a write makes of them. *)

LEMMA Integral ==
  ASSUME TypeOK
  PROVE  /\ total \in Nat /\ content_length \in Nat
         /\ pos \in Nat /\ pos <= total
         /\ b_read \in Nat /\ b_read <= Chunk /\ b_write \in Int /\ count \in Int
         /\ faults \in Nat /\ faults <= MaxFaults /\ MaxFaults \in Nat
         /\ Chunk \in Nat /\ Chunk > 0 /\ PtrSize \in Nat
         /\ Length \in Nat /\ Length <= Chunk /\ (~IsSet => Length = Chunk)
         /\ Length = 0 => IsSet /\ content_length = 0
         /\ Base \in Int
<1>1. /\ total \in Nat /\ content_length \in Nat
      /\ Chunk \in Nat /\ Chunk > 0 /\ PtrSize \in Nat /\ MaxFaults \in Nat
  BY SizesAssumption, InputsAssumption, FaultsAssumption DEF TypeOK
<1>2. /\ pos \in Nat /\ pos <= total
      /\ b_read \in Nat /\ b_read <= Chunk /\ count \in Int
      /\ faults \in Nat /\ faults <= MaxFaults
  BY <1>1 DEF TypeOK
<1>3. b_write \in Int
  BY <1>1, <1>2 DEF TypeOK
<1>4. /\ Length \in Nat /\ Length <= Chunk /\ (~IsSet => Length = Chunk)
      /\ Length = 0 => IsSet /\ content_length = 0
  BY <1>1 DEF Length, Smaller
<1>5. Base \in Int
  BY <1>2 DEF Base
<1> QED
  BY <1>1, <1>2, <1>3, <1>4, <1>5

(* Two sequences put together. *)
LEMMA Joining ==
  ASSUME NEW S, NEW l \in Seq(S), NEW m \in Seq(S)
  PROVE  /\ l \o m \in Seq(S)
         /\ Len(l \o m) = Len(l) + Len(m)
         /\ DOMAIN (l \o m) = 1..(Len(l) + Len(m))
         /\ \A k \in 1..(Len(l) + Len(m)) :
              (l \o m)[k] = IF k <= Len(l) THEN l[k] ELSE m[k - Len(l)]
OBVIOUS

(* The same with a name for the whole and for the length of its first part. *)
LEMMA Joined ==
  ASSUME NEW S, NEW l \in Seq(S), NEW m \in Seq(S), NEW s, s = l \o m,
         NEW a \in Nat, a = Len(l), NEW b \in Nat, b = Len(m)
  PROVE  /\ s \in Seq(S)
         /\ Len(s) = a + b
         /\ DOMAIN s = 1..(a + b)
         /\ \A k \in 1..(a + b) : s[k] = IF k <= a THEN l[k] ELSE m[k - a]
BY Joining

LEMMA OutIsASequence ==
  ASSUME TypeOK
  PROVE  out \in Seq(0..total) /\ Len(out) \in Nat /\ DOMAIN out = 1..Len(out)
BY DEF TypeOK

(* A byte taken from the buffer, or from beside it. *)
LEMMA BytesAt ==
  ASSUME TypeOK, Buffered, NEW k \in Int
  PROVE  /\ ByteAt(k) \in 0..total
         /\ k \in 1..b_read => ByteAt(k) = Base + k
         /\ k \notin 1..b_read => ByteAt(k) <= Base
<1>1. CASE k \in 1..Chunk
  <2>1. ByteAt(k) = buff[k] /\ buff[k] \in 0..total
    BY <1>1 DEF ByteAt, TypeOK
  <2>2. IF k <= b_read THEN buff[k] = Base + k ELSE buff[k] <= Base
    BY <1>1 DEF Buffered
  <2> QED
    BY <1>1, <2>1, <2>2, Integral
<1>2. CASE k \notin 1..Chunk
  <2>1. ByteAt(k) = 0
    BY <1>2 DEF ByteAt, Garbage
  <2>2. k \notin 1..b_read
    BY <1>2, Integral
  <2>3. Base >= 0
    BY Integral DEF Buffered, Base
  <2> QED
    BY <2>1, <2>2, <2>3, Integral
<1> QED
  BY <1>1, <1>2

(* How the two loops go on after a write counted as w. *)
LEMMA LoopsGoOn ==
  ASSUME TypeOK, NEW w \in Int, Written(w)
  PROVE  /\ b_write' = b_write + w
         /\ count' = IF IsSet THEN count + w ELSE count
         /\ pc' \in {"write", "read", "done"}
         /\ pc' = "write" => b_write' < b_read /\ (IsSet => count' < content_length)
         /\ pc' = "read" => b_read > 0 /\ b_write' >= b_read /\ (IsSet => count' < content_length)
         /\ pc' = "done" => \/ IsSet /\ count' >= content_length
                            \/ b_write' >= b_read /\ b_read = 0
<1>1. /\ b_write' = b_write + w
      /\ count' = IF IsSet THEN count + w ELSE count
      /\ pc' = AfterWrite(b_write + w, count + w)
  BY DEF Written
<1> DEFINE b == b_write + w
           c == count + w
<1>2. b \in Int /\ c \in Int /\ b_read \in Nat /\ content_length \in Nat
  BY Integral
<1>3. /\ (IsSet => count' = c) /\ b_write' = b /\ pc' = AfterWrite(b, c)
  BY <1>1
<1> HIDE DEF b, c
<1>4. CASE b < b_read /\ (~IsSet \/ c < content_length)
  <2>1. pc' = "write"
    BY <1>2, <1>3, <1>4 DEF AfterWrite
  <2> QED
    BY <1>1, <1>3, <1>4, <2>1
<1>5. CASE b >= b_read /\ b_read > 0 /\ (~IsSet \/ c < content_length)
  <2>1. pc' = "read"
    BY <1>2, <1>3, <1>5 DEF AfterWrite
  <2> QED
    BY <1>1, <1>3, <1>5, <2>1
<1>6. CASE (b >= b_read /\ b_read = 0) \/ (IsSet /\ c >= content_length)
  <2>1. pc' = "done"
    BY <1>2, <1>3, <1>6 DEF AfterWrite
  <2> QED
    BY <1>1, <1>3, <1>6, <2>1
<1> QED
  BY <1>2, <1>4, <1>5, <1>6

(* What a read puts where. *)
LEMMA Reading ==
  ASSUME TypeOK, Read
  PROVE  \E r \in 0..Length :
           /\ r <= total - pos
           /\ r = 0 => pos = total \/ Length = 0
           /\ b_read' = r /\ pos' = pos + r /\ b_write' = 0 /\ pc' = "write"
           /\ buff' = [k \in 1..Chunk |-> IF k <= r THEN pos + k ELSE buff[k]]
           /\ Base' = pos
           /\ UNCHANGED <<input, count, out, faults>>
<1>1. PICK r \in 0..Smaller(Length, total - pos) :
           /\ r = 0 => Smaller(Length, total - pos) = 0
           /\ b_read' = r
           /\ buff' = [k \in 1..Chunk |-> IF k <= r THEN pos + k ELSE buff[k]]
           /\ pos' = pos + r
  BY DEF Read
<1>2. b_write' = 0 /\ pc' = "write" /\ UNCHANGED <<input, count, out, faults>>
  BY DEF Read
<1>3. r \in 0..Length /\ r <= total - pos /\ (r = 0 => pos = total \/ Length = 0)
  <2> DEFINE rest == total - pos
             len == Length
  <2>1. len \in Nat /\ rest \in Nat
    BY Integral
  <2>2. r \in 0..Smaller(len, rest) /\ (r = 0 => Smaller(len, rest) = 0)
    BY <1>1
  <2>3. rest = 0 => pos = total
    BY Integral
  <2> HIDE DEF rest, len
  <2>4. r \in 0..len /\ r <= rest /\ (r = 0 => rest = 0 \/ len = 0)
    BY <2>1, <2>2 DEF Smaller
  <2> QED
    BY <2>3, <2>4 DEF rest, len
<1>4. Base' = pos
  <2>1. r \in Int /\ pos \in Int /\ pos' - b_read' = (pos + r) - r
    BY <1>1, <1>3, Integral
  <2>2. Base' = pos' - b_read'
    BY DEF Base
  <2> QED
    BY <2>1, <2>2
<1> QED
  BY <1>1, <1>2, <1>3, <1>4

(* What a write appends. *)
LEMMA Appending ==
  ASSUME TypeOK, Buffered, Control, Write
  PROVE  \E w \in 0..b_read, m \in Seq(0..total) :
           /\ w = 0 => b_read = 0
           /\ Len(m) = w /\ out' = out \o m
           /\ \A k \in 1..w : m[k] = ByteAt(Offset + k)
           /\ faults' = IF w < b_read THEN faults + 1 ELSE faults
           /\ faults' <= MaxFaults
           /\ Written(w)
           /\ pc = "write" /\ UNCHANGED <<input, pos, buff, b_read>>
<1>1. PICK w \in 0..b_read :
        /\ w = 0 => b_read = 0
        /\ out' = out \o [k \in 1..w |-> ByteAt(Offset + k)]
        /\ faults' = IF w < b_read THEN faults + 1 ELSE faults
        /\ Written(w)
  BY DEF Write
<1>2. faults' <= MaxFaults /\ pc = "write" /\ UNCHANGED <<input, pos, buff, b_read>>
  BY DEF Write
<1>3. Offset \in Int /\ w \in Nat
  BY <1>1, Integral DEF Offset
<1>4. \A k \in 1..w : ByteAt(Offset + k) \in 0..total
  BY <1>3, BytesAt
<1> DEFINE m == [k \in 1..w |-> ByteAt(Offset + k)]
<1>5. m \in Seq(0..total) /\ Len(m) = w /\ \A k \in 1..w : m[k] = ByteAt(Offset + k)
  BY <1>3, <1>4
<1> HIDE DEF m
<1>6. out' = out \o m
  BY <1>1 DEF m
<1> QED
  BY <1>1, <1>2, <1>5, <1>6

-----------------------------------------------------------------------------
(* One lemma for each part of the inductive invariant. *)

(* What only main, the end and a failed read do. *)
Control1 == Main \/ Finish \/ ReadFails

LEMMA OnlyPc ==
  ASSUME TypeOK, Control1
  PROVE  /\ UNCHANGED <<command, total, content_length, pos, buff, b_read, b_write, count, out, faults>>
         /\ pc' \in {"read", "exit", "ok"}
         /\ pc' = "read" => pc = "main" /\ (IsSet \/ command.word = "get")
BY DEF Control1, Main, Finish, ReadFails, Accepted, input

LEMMA SameInput ==
  ASSUME TypeOK, [Next]_vars
  PROVE  UNCHANGED <<command, total, content_length>> /\ IsSet' = IsSet /\ Length' = Length
<1>1. UNCHANGED <<command, total, content_length>>
  BY DEF Next, Main, Finish, Read, ReadFails, Write, WriteFails, vars, input
<1> QED
  BY <1>1 DEF IsSet, Length

LEMMA TypesKept ==
  ASSUME IInv, [Next]_vars
  PROVE  TypeOK'
<1>0. TypeOK /\ Buffered /\ Control /\ UNCHANGED <<command, total, content_length>>
  BY SameInput DEF IInv
<1>1. CASE Control1
  BY <1>0, <1>1, OnlyPc DEF TypeOK
<1>2. CASE Read
  <2>1. PICK r \in 0..Length :
           /\ r <= total - pos
           /\ b_read' = r /\ pos' = pos + r /\ b_write' = 0 /\ pc' = "write"
           /\ buff' = [k \in 1..Chunk |-> IF k <= r THEN pos + k ELSE buff[k]]
           /\ UNCHANGED <<count, out, faults>>
    BY <1>0, <1>2, Reading
  <2>2. r \in Nat /\ r <= Chunk /\ pos + r \in 0..total
    BY <1>0, <2>1, Integral
  <2>3. buff' \in [1..Chunk -> 0..total]
    <3>1. ASSUME NEW k \in 1..Chunk
          PROVE  (IF k <= r THEN pos + k ELSE buff[k]) \in 0..total
      <4>1. buff[k] \in 0..total
        BY <1>0 DEF TypeOK
      <4>2. k <= r => pos + k \in 0..total
        <5>1. k \in Nat /\ r \in Nat /\ pos \in Nat /\ total \in Nat /\ pos + r <= total
          BY <1>0, <2>1, <2>2, Integral
        <5> QED
          BY <5>1
      <4> QED
        BY <4>1, <4>2
    <3> QED
      BY <2>1, <3>1
  <2>4. b_read' \in 0..Chunk /\ b_write' \in -faults..(2 * Chunk - 1)
    <3>1. faults \in Nat /\ Chunk \in Nat /\ Chunk > 0
      BY <1>0, Integral
    <3>2. 0 \in -faults..(2 * Chunk - 1)
      BY <3>1
    <3> QED
      BY <2>1, <2>2, <3>1, <3>2
  <2> QED
    BY <1>0, <2>1, <2>2, <2>3, <2>4 DEF TypeOK
<1>3. CASE Write
  <2>1. PICK w \in 0..b_read, m \in Seq(0..total) :
           /\ out' = out \o m
           /\ faults' = IF w < b_read THEN faults + 1 ELSE faults
           /\ faults' <= MaxFaults
           /\ Written(w)
           /\ pc = "write" /\ UNCHANGED <<pos, buff, b_read>>
    BY <1>0, <1>3, Appending
  <2>2. out' \in Seq(0..total)
    BY <1>0, <2>1 DEF TypeOK
  <2>3. w \in Nat /\ w <= b_read
    BY <1>0, <2>1, Integral
  <2>4. /\ b_write' = b_write + w /\ pc' \in {"write", "read", "done"}
        /\ count' = IF IsSet THEN count + w ELSE count
    BY <1>0, <2>1, <2>3, LoopsGoOn
  <2>5. faults' \in 0..MaxFaults /\ faults' >= faults
    <3>1. faults \in Nat /\ MaxFaults \in Nat
      BY <1>0, Integral
    <3>2. faults' = faults + 1 \/ faults' = faults
      BY <2>1
    <3> QED
      BY <2>1, <3>1, <3>2
  <2>6. b_write' \in -faults'..(2 * Chunk - 1)
    <3>1. b_write < b_read \/ b_write + w = 0
      BY <1>0, <2>1, <2>3, Integral DEF Control
    <3>2. b_write >= -faults /\ b_write \in Int
      BY <1>0, Integral DEF TypeOK
    <3>3. /\ b_read \in Nat /\ Chunk \in Nat /\ b_read <= Chunk /\ Chunk > 0
          /\ faults \in Nat /\ faults' \in Nat /\ faults' >= faults
      BY <1>0, <2>5, Integral
    <3>4. b_write + w <= 2 * Chunk - 1
      BY <2>3, <3>1, <3>2, <3>3
    <3>5. b_write + w \in -faults'..(2 * Chunk - 1)
      <4>1. \A b \in Int, v, f, g \in Nat : b >= -f /\ g >= f => b + v \in Int /\ b + v >= -g
        OBVIOUS
      <4>2. b_write + w \in Int /\ b_write + w >= -faults'
        BY <2>3, <3>2, <3>3, <4>1
      <4> QED
        BY <3>3, <3>4, <4>2
    <3> QED
      BY <2>4, <3>5
  <2>7. count' \in Int
    <3>1. count \in Int
      BY <1>0, Integral
    <3> QED
      BY <2>3, <2>4, <3>1
  <2> QED
    BY <1>0, <2>1, <2>2, <2>4, <2>5, <2>6, <2>7 DEF TypeOK
<1>4. CASE WriteFails
  <2>1. /\ faults' = faults + 1 /\ faults < MaxFaults /\ Written(-1)
        /\ UNCHANGED <<pos, buff, b_read, out>>
    BY <1>4 DEF WriteFails
  <2>2. /\ b_write' = b_write + -1 /\ pc' \in {"write", "read", "done"}
        /\ count' = IF IsSet THEN count + -1 ELSE count
    BY <1>0, <2>1, LoopsGoOn
  <2>3. b_write \in Int /\ b_write >= -faults /\ b_write <= 2 * Chunk - 1
    BY <1>0, Integral DEF TypeOK
  <2>4. faults' \in 0..MaxFaults /\ b_write' \in -faults'..(2 * Chunk - 1) /\ count' \in Int
    <3>1. faults \in Nat /\ MaxFaults \in Nat /\ Chunk \in Nat /\ count \in Int
      BY <1>0, Integral
    <3>2. faults' \in 0..MaxFaults /\ faults' = faults + 1
      BY <2>1, <3>1
    <3>3. b_write' \in -faults'..(2 * Chunk - 1)
      BY <2>2, <2>3, <3>1, <3>2
    <3>4. count' \in Int
      BY <2>2, <3>1
    <3> QED
      BY <3>2, <3>3, <3>4
  <2> QED
    BY <1>0, <2>1, <2>2, <2>4 DEF TypeOK
<1>5. CASE UNCHANGED vars
  BY <1>0, <1>5 DEF vars, input, TypeOK
<1> QED
  BY <1>1, <1>2, <1>3, <1>4, <1>5 DEF Next, Control1

LEMMA BufferedKept ==
  ASSUME IInv, [Next]_vars
  PROVE  Buffered'
<1>0. TypeOK /\ Buffered /\ Length' = Length /\ UNCHANGED <<command, total, content_length>>
  BY SameInput DEF IInv
<1>1. CASE Control1
  <2>1. UNCHANGED <<pos, b_read, buff>> /\ pc' \notin {"write", "done"} /\ Base' = Base
    BY <1>0, <1>1, OnlyPc DEF Base
  <2> QED
    BY <1>0, <2>1 DEF Buffered
<1>2. CASE Read
  <2>1. PICK r \in 0..Length :
           /\ r = 0 => pos = total \/ Length = 0
           /\ b_read' = r /\ pos' = pos + r
           /\ buff' = [k \in 1..Chunk |-> IF k <= r THEN pos + k ELSE buff[k]]
           /\ Base' = pos
    BY <1>0, <1>2, Reading
  <2>2. r \in Nat /\ r <= Length /\ pos \in Nat /\ total \in Nat
    BY <1>0, <2>1, Integral
  <2>3. ASSUME NEW k \in 1..Chunk
        PROVE  IF k <= r THEN buff'[k] = pos + k ELSE buff'[k] <= pos
    <3>1. IF k <= b_read THEN buff[k] = Base + k ELSE buff[k] <= Base
      BY <1>0 DEF Buffered
    <3>2. k \in Nat /\ b_read \in Nat /\ b_read <= pos /\ Base = pos - b_read /\ buff[k] \in Nat
      <4>1. buff[k] \in 0..total
        BY <1>0 DEF TypeOK
      <4>2. b_read \in Nat /\ b_read <= pos /\ k \in Nat
        BY <1>0, Integral DEF Buffered
      <4> QED
        BY <2>2, <4>1, <4>2 DEF Base
    <3>3. buff[k] <= pos
      BY <2>2, <3>1, <3>2
    <3>4. buff'[k] = IF k <= r THEN pos + k ELSE buff[k]
      BY <2>1
    <3> QED
      BY <3>3, <3>4
  <2>4. b_read' <= pos' /\ b_read' <= Length'
    BY <1>0, <2>1, <2>2
  <2>5. b_read' = 0 => pos' = total \/ Length = 0
    BY <2>1, <2>2
  <2> QED
    BY <1>0, <2>1, <2>3, <2>4, <2>5 DEF Buffered
<1>3. CASE Write \/ WriteFails
  <2>1. pc = "write" /\ UNCHANGED <<pos, b_read, buff>> /\ Base' = Base
    BY <1>3 DEF Write, WriteFails, Base
  <2> QED
    BY <1>0, <2>1 DEF Buffered
<1>4. CASE UNCHANGED vars
  BY <1>0, <1>4 DEF vars, input, Buffered, Base
<1> QED
  BY <1>1, <1>2, <1>3, <1>4 DEF Next, Control1

LEMMA ControlKept ==
  ASSUME IInv, [Next]_vars
  PROVE  Control'
<1>0. TypeOK /\ Buffered /\ Control /\ IsSet' = IsSet /\ UNCHANGED <<command, total, content_length>>
  BY SameInput DEF IInv
<1>1. CASE Control1
  <2>1. count' = count /\ pc' \in {"read", "exit", "ok"} /\ (pc' = "read" => pc = "main")
    BY <1>0, <1>1, OnlyPc
  <2> QED
    BY <1>0, <2>1 DEF Control
<1>2. CASE Read
  <2>1. PICK r \in 0..Length :
           b_read' = r /\ b_write' = 0 /\ pc' = "write" /\ count' = count
    BY <1>0, <1>2, Reading
  <2>2. b_write' < b_read' \/ (b_read' = 0 /\ b_write' = 0)
    BY <1>0, <2>1, Integral
  <2>3. pc = "read"
    BY <1>2 DEF Read
  <2> QED
    BY <1>0, <2>1, <2>2, <2>3 DEF Control
<1>3. ASSUME NEW w \in Int, Written(w), b_read' = b_read
      PROVE  Control'
  <2>1. /\ pc' \in {"write", "read", "done"}
        /\ pc' = "write" => b_write' < b_read /\ (IsSet => count' < content_length)
        /\ pc' = "read" => (IsSet => count' < content_length)
        /\ pc' = "done" => IsSet \/ b_read = 0
    BY <1>0, <1>3, LoopsGoOn
  <2> QED
    BY <1>0, <1>3, <2>1 DEF Control
<1>4. CASE Write
  <2>1. PICK w \in 0..b_read : Written(w) /\ b_read' = b_read
    BY <1>4 DEF Write
  <2>2. w \in Int
    BY <1>0, <2>1, Integral
  <2> QED
    BY <1>3, <2>1, <2>2
<1>5. CASE WriteFails
  BY <1>3, <1>5 DEF WriteFails
<1>6. CASE UNCHANGED vars
  BY <1>0, <1>6 DEF vars, Control
<1> QED
  BY <1>1, <1>2, <1>4, <1>5, <1>6 DEF Next, Control1

LEMMA FaultlessKept ==
  ASSUME IInv, [Next]_vars
  PROVE  Faultless'
<1>0. /\ TypeOK /\ Buffered /\ Control /\ Faultless
      /\ IsSet' = IsSet /\ Length' = Length /\ UNCHANGED <<command, total, content_length>>
  BY SameInput DEF IInv
<1>1. CASE Control1
  <2>1. UNCHANGED <<pos, b_read, b_write, count, out, faults>>
        /\ pc' \in {"read", "exit", "ok"} /\ (pc' = "read" => pc = "main")
    BY <1>0, <1>1, OnlyPc
  <2> QED
    BY <1>0, <2>1 DEF Faultless, CopiesPrefix
<1>2. CASE Read
  <2>1. /\ b_write' = 0 /\ pc' = "write" /\ Base' = pos
        /\ UNCHANGED <<count, out, faults>>
    BY <1>0, <1>2, Reading
  <2>2. pc = "read"
    BY <1>2 DEF Read
  <2> QED
    BY <1>0, <2>1, <2>2 DEF Faultless, CopiesPrefix
<1>3. CASE Write
  <2> SUFFICES ASSUME faults' = 0
               PROVE  Faultless'
    BY DEF Faultless
  <2>1. PICK w \in 0..b_read, m \in Seq(0..total) :
           /\ Len(m) = w /\ out' = out \o m
           /\ \A k \in 1..w : m[k] = ByteAt(Offset + k)
           /\ faults' = IF w < b_read THEN faults + 1 ELSE faults
           /\ Written(w)
           /\ pc = "write" /\ UNCHANGED <<pos, b_read>>
    BY <1>0, <1>3, Appending
  <2>2. faults = 0 /\ w = b_read /\ w \in Nat
    <3>1. b_read \in Nat /\ faults \in Nat
      BY <1>0, Integral
    <3> QED
      BY <2>1, <3>1
  <2>3. b_write = 0 /\ Len(out) = Base /\ (\A k \in DOMAIN out : out[k] = k)
        /\ (IsSet => count = Len(out))
    BY <1>0, <2>1, <2>2 DEF Faultless
  <2>4. PICK n \in Nat : n = Len(out) /\ n = Base
    BY <1>0, <2>3, OutIsASequence
  <2>5. \A k \in 1..w : m[k] = n + k
    <3> SUFFICES ASSUME NEW k \in 1..w PROVE m[k] = n + k
      OBVIOUS
    <3>1. Offset + k = k
      BY <1>0, <2>3, SizesAssumption DEF Offset
    <3>2. ByteAt(k) = Base + k
      BY <1>0, <2>2, BytesAt
    <3> QED
      BY <2>1, <2>4, <3>1, <3>2
  <2>6. out \in Seq(0..total) /\ DOMAIN out = 1..n /\ \A k \in 1..n : out[k] = k
    BY <1>0, <2>3, <2>4, OutIsASequence
  <2>7. Len(out') = n + w /\ \A k \in DOMAIN out' : out'[k] = k
    <3>1. /\ n = Len(out) /\ w = Len(m) /\ out' = out \o m
          /\ n \in Nat /\ w \in Nat /\ m \in Seq(0..total)
      BY <2>1, <2>2, <2>4
    <3>2. /\ Len(out') = n + w /\ DOMAIN out' = 1..(n + w)
          /\ \A k \in 1..(n + w) : out'[k] = IF k <= n THEN out[k] ELSE m[k - n]
      BY <2>6, <3>1, Joined
    <3>3. ASSUME NEW k \in 1..(n + w) PROVE out'[k] = k
      <4>1. CASE k <= n
        BY <2>6, <3>2, <4>1
      <4>2. CASE k > n
        <5>1. k - n \in 1..w /\ n + (k - n) = k
          BY <2>2, <4>2
        <5>2. out'[k] = m[k - n]
          BY <2>4, <3>1, <3>2, <4>2
        <5> QED
          BY <2>5, <5>1, <5>2
      <4> QED
        BY <3>1, <4>1, <4>2
    <3> QED
      BY <3>2, <3>3
  <2>8. n + w = pos
    BY <1>0, <2>2, <2>4, Integral DEF Base
  <2>9. /\ b_write' = w /\ (IsSet => count' = n + w)
        /\ pc' \in {"write", "read", "done"}
        /\ pc' = "write" => b_write' < b_read
        /\ pc' = "done" => \/ IsSet /\ count' >= content_length
                           \/ b_read = 0
    BY <1>0, <2>1, <2>2, <2>3, <2>4, LoopsGoOn
  <2>10. pc' # "write"
    BY <2>2, <2>9
  <2>11. pc' = "done" /\ b_read = 0 => pos = total \/ (IsSet /\ content_length = 0)
    BY <1>0, <2>1, Integral DEF Buffered
  <2>12. /\ content_length \in Nat /\ total \in Nat /\ pos \in Nat /\ pos <= total
         /\ Length \in Nat /\ w <= Length
    BY <1>0, <2>2, Integral DEF Buffered
  <2>13. pc' = "done" /\ ~IsSet => Len(out') = total
    BY <2>7, <2>8, <2>9, <2>11
  <2>14. IsSet => n < content_length \/ content_length = 0
    BY <1>0, <2>1, <2>3, <2>4 DEF Control
  <2>15. pc' = "done" /\ IsSet => /\ n + w >= Smaller(content_length, total)
                                  /\ content_length > 0 => n + w < content_length + Length
    <3>1. Smaller(content_length, total) <= content_length
          /\ Smaller(content_length, total) <= total
      BY <2>12 DEF Smaller
    <3>2. Smaller(content_length, total) \in Nat
      BY <2>12 DEF Smaller
    <3> DEFINE s == Smaller(content_length, total)
    <3> HIDE DEF s
    <3>3. s \in Nat /\ s <= content_length /\ s <= total
      BY <3>1, <3>2 DEF s
    <3>4. pc' = "done" /\ IsSet => n + w >= s
      BY <2>2, <2>8, <2>9, <2>11, <2>12, <3>3
    <3>5. IsSet /\ content_length > 0 => n + w < content_length + Length
      BY <2>2, <2>12, <2>14
    <3> QED
      BY <3>4, <3>5 DEF s
  <2>16. CopiesPrefix'
    BY <1>0, <2>7, <2>13, <2>15 DEF CopiesPrefix
  <2> QED
    BY <1>0, <2>1, <2>7, <2>8, <2>9, <2>10, <2>16 DEF Faultless
<1>4. CASE WriteFails
  <2>1. faults' # 0
    BY <1>0, <1>4, Integral DEF WriteFails
  <2> QED
    BY <2>1 DEF Faultless
<1>5. CASE UNCHANGED vars
  BY <1>0, <1>5 DEF vars, input, Faultless, CopiesPrefix, Base
<1> QED
  BY <1>1, <1>2, <1>3, <1>4, <1>5 DEF Next, Control1

LEMMA SetCountedKept ==
  ASSUME IInv, [Next]_vars
  PROVE  SetCounted'
<1>0. /\ TypeOK /\ Buffered /\ Control /\ SetCounted
      /\ IsSet' = IsSet /\ UNCHANGED <<command, total, content_length>>
  BY SameInput DEF IInv
<1>1. CASE Control1
  <2>1. UNCHANGED <<pos, b_read, b_write, count, out>>
        /\ pc' \in {"read", "exit", "ok"} /\ (pc' = "read" => pc = "main")
    BY <1>0, <1>1, OnlyPc
  <2> QED
    BY <1>0, <2>1 DEF SetCounted, SetWritesEnough
<1>2. CASE Read
  <2>1. /\ b_write' = 0 /\ pc' = "write" /\ Base' = pos
        /\ UNCHANGED <<count, out>>
    BY <1>0, <1>2, Reading
  <2>2. pc = "read" /\ pos + 0 = pos
    BY <1>0, <1>2, Integral DEF Read
  <2> QED
    BY <1>0, <2>1, <2>2 DEF SetCounted, SetWritesEnough
(* Both kinds of write: w is what is counted, v the bytes written. *)
<1>3. ASSUME NEW w \in Int, NEW v \in Nat, w <= v, Written(w), Len(out') = Len(out) + v,
             pc = "write", UNCHANGED <<pos, b_read>>
      PROVE  SetCounted'
  <2> SUFFICES ASSUME IsSet
               PROVE  SetCounted'
    BY <1>0 DEF SetCounted
  <2>1. /\ b_write' = b_write + w /\ count' = count + w
        /\ pc' \in {"write", "read", "done"}
        /\ pc' = "read" => b_write' >= b_read
        /\ pc' = "done" => \/ count' >= content_length
                           \/ b_write' >= b_read /\ b_read = 0
    BY <1>0, <1>3, LoopsGoOn
  <2> DEFINE n == Len(out)
             n1 == Len(out')
  <2>2. count <= n /\ n >= Base + b_write
    BY <1>0, <1>3 DEF SetCounted
  <2>3. /\ n \in Nat /\ count \in Int /\ Base \in Int /\ b_write \in Int /\ b_read \in Nat
        /\ pos \in Nat /\ total \in Nat /\ content_length \in Nat /\ Base = pos - b_read
    BY <1>0, Integral, OutIsASequence DEF Base
  <2>4. Base' = Base /\ n1 = n + v
    BY <1>3 DEF Base
  <2>5. pc' = "done" /\ b_read = 0 => pos = total \/ content_length = 0
    BY <1>0, <1>3, Integral DEF Buffered
  <2> HIDE DEF n, n1
  <2>6. count' <= n1 /\ n1 >= Base' + b_write'
    BY <1>3, <2>1, <2>2, <2>3, <2>4
  <2>7. pc' = "read" => n1 >= pos
    BY <2>1, <2>3, <2>4, <2>6
  <2>8. pc' = "done" => n1 >= content_length \/ (pos = total /\ n1 >= total)
    <3>1. CASE count' >= content_length
      BY <1>3, <2>1, <2>3, <2>4, <2>6, <3>1
    <3>2. CASE b_write' >= b_read /\ b_read = 0
      BY <1>3, <2>1, <2>3, <2>4, <2>5, <2>6, <3>2
    <3> QED
      BY <2>1, <3>1, <3>2
  <2> QED
    BY <1>0, <1>3, <2>1, <2>6, <2>7, <2>8 DEF SetCounted, SetWritesEnough, n1
<1>4. CASE Write
  <2>1. PICK w \in 0..b_read, m \in Seq(0..total) :
           /\ Len(m) = w /\ out' = out \o m
           /\ Written(w)
           /\ pc = "write" /\ UNCHANGED <<pos, b_read>>
    BY <1>0, <1>4, Appending
  <2>2. w \in Nat /\ w \in Int /\ w <= w
    BY <1>0, <2>1, Integral
  <2>3. Len(out') = Len(out) + w
    BY <1>0, <2>1, OutIsASequence, Joining
  <2> QED
    BY <1>3, <2>1, <2>2, <2>3
<1>5. CASE WriteFails
  <2>1. Written(-1) /\ out' = out /\ pc = "write" /\ UNCHANGED <<pos, b_read>>
    BY <1>5 DEF WriteFails
  <2>2. Len(out') = Len(out) + 0 /\ -1 \in Int /\ 0 \in Nat /\ -1 <= 0
    BY <1>0, <2>1, OutIsASequence
  <2> QED
    BY <1>3, <2>1, <2>2
<1>6. CASE UNCHANGED vars
  BY <1>0, <1>6 DEF vars, input, SetCounted, SetWritesEnough, Base
<1> QED
  BY <1>1, <1>2, <1>4, <1>5, <1>6 DEF Next, Control1

(* Bytes that are at most lo, or the next ones up to hi in order, cover    *)
(* what is up to hi as well.                                               *)
LEMMA CoveredMore ==
  ASSUME NEW l \in Seq(Nat), NEW m \in Seq(Nat),
         NEW h \in Nat, NEW lo \in Nat, NEW hi \in Nat, NEW d \in Int,
         lo <= h, Covered(l, h),
         \A k \in 1..Len(m) : m[k] <= lo \/ (m[k] = d + k /\ m[k] <= hi),
         \A i \in lo + 1..hi : i - d \in 1..Len(m) /\ m[i - d] = i
  PROVE  Covered(l \o m, IF hi > h THEN hi ELSE h)
<1> DEFINE g == IF hi > h THEN hi ELSE h
<1>1. PICK a \in Nat, b \in Nat : a = Len(l) /\ b = Len(m)
  OBVIOUS
<1> DEFINE s == l \o m
<1>2. /\ DOMAIN s = 1..(a + b)
      /\ \A k \in 1..(a + b) : s[k] = IF k <= a THEN l[k] ELSE m[k - a]
  <2>1. s = l \o m
    OBVIOUS
  <2> HIDE DEF s
  <2> QED
    BY <1>1, <2>1, Joined
<1>3. g \in Nat /\ g >= h /\ g >= hi
  OBVIOUS
<1>4. /\ \A j \in 1..a : l[j] <= h /\ l[j] \in Nat
      /\ \A i \in 1..h : \E k \in 1..a : l[k] = i /\ \A j \in 1..a : l[j] > i => j > k
  <2>1. DOMAIN l = 1..a /\ \A j \in 1..a : l[j] \in Nat
    BY <1>1
  <2>2. /\ \A j \in DOMAIN l : l[j] <= h
        /\ \A i \in 1..h : \E k \in DOMAIN l : l[k] = i /\ \A j \in DOMAIN l : l[j] > i => j > k
    BY DEF Covered
  <2> QED
    BY <2>1, <2>2
<1>5. \A k \in 1..b : m[k] \in Nat /\ (m[k] <= lo \/ (m[k] = d + k /\ m[k] <= hi))
  BY <1>1
<1>6. \A i \in lo + 1..hi : i - d \in 1..b /\ m[i - d] = i
  BY <1>1
<1>7. \A j \in 1..(a + b) : (j \in 1..a /\ s[j] = l[j]) \/ (j - a \in 1..b /\ j > a /\ s[j] = m[j - a])
  BY <1>1, <1>2
<1> HIDE DEF g, s
<1>8. ASSUME NEW j \in 1..(a + b)
      PROVE  s[j] <= g
  <2>1. CASE j \in 1..a /\ s[j] = l[j]
    BY <1>3, <1>4, <2>1
  <2>2. CASE j - a \in 1..b /\ s[j] = m[j - a]
    <3>1. PICK e \in Nat : e = m[j - a]
      BY <1>5, <2>2
    <3>2. e <= lo \/ e <= hi
      BY <1>5, <2>2, <3>1
    <3>3. e <= g
      BY <1>3, <3>2
    <3> QED
      BY <2>2, <3>1, <3>3
  <2> QED
    BY <1>7, <2>1, <2>2
<1>9. ASSUME NEW i \in 1..g
      PROVE  \E k \in 1..(a + b) : s[k] = i /\ \A j \in 1..(a + b) : s[j] > i => j > k
  <2>1. CASE i <= h
    <3>0. i \in 1..h
      BY <1>3, <1>9, <2>1
    <3>1. PICK k \in 1..a : l[k] = i /\ \A j \in 1..a : l[j] > i => j > k
      BY <1>4, <3>0
    <3>2. k \in 1..(a + b) /\ s[k] = i
      BY <1>1, <1>2, <3>1
    <3>3. ASSUME NEW j \in 1..(a + b), s[j] > i
          PROVE  j > k
      <4>1. CASE j \in 1..a /\ s[j] = l[j]
        BY <3>1, <3>3, <4>1
      <4>2. CASE j > a
        BY <1>1, <3>1, <4>2
      <4> QED
        BY <1>7, <4>1, <4>2
    <3> QED
      BY <3>2, <3>3
  <2>2. CASE i > h
    <3>1. i \in lo + 1..hi /\ g = hi
      BY <1>3, <2>2 DEF g
    <3>2. i - d \in 1..b /\ m[i - d] = i
      BY <1>6, <3>1
    <3> DEFINE k == a + (i - d)
    <3>3. k \in 1..(a + b) /\ k > a /\ k - a = i - d
      BY <1>1, <3>1, <3>2
    <3> HIDE DEF k
    <3>4. s[k] = i
      <4>1. s[k] = m[k - a]
        BY <1>1, <1>2, <3>3
      <4> QED
        BY <3>2, <3>3, <4>1
    <3>5. ASSUME NEW j \in 1..(a + b), s[j] > i
          PROVE  j > k
      <4>1. CASE j \in 1..a /\ s[j] = l[j]
        BY <1>4, <2>2, <3>5, <4>1
      <4>2. CASE j - a \in 1..b /\ j > a /\ s[j] = m[j - a]
        <5>1. s[j] = d + (j - a)
          <6>1. s[j] > lo /\ s[j] \in Nat
            BY <1>5, <2>2, <3>5, <4>2
          <6> QED
            BY <1>5, <4>2, <6>1
        <5> QED
          BY <1>1, <3>1, <3>3, <3>5, <5>1
      <4> QED
        BY <1>7, <4>1, <4>2
    <3> QED
      BY <3>3, <3>4, <3>5
  <2> QED
    BY <1>3, <2>1, <2>2
<1>10. Covered(s, g)
  BY <1>2, <1>8, <1>9 DEF Covered
<1> QED
  BY <1>10 DEF g, s

(* How far a get has come when a chunk was written up to c of its bytes. *)
LEMMA ReachedNext ==
  ASSUME TypeOK, Buffered, Control, ~IsSet, pc = "write",
         NEW w \in Int, Written(w), UNCHANGED <<command, pos, b_read>>
  PROVE  /\ Reached = Base + (IF b_write > 0 THEN b_write ELSE 0)
         /\ Reached' \in Nat /\ Reached' <= pos /\ Reached' >= Base
         /\ Reached' > Base => Reached' <= Base + (b_write + w)
         /\ \A j \in 1..b_read : j <= b_write + w => Base + j <= Reached'
<1> DEFINE c == b_write + w
<1>1. /\ b_write' = c
      /\ pc' \in {"write", "read", "done"}
      /\ pc' = "write" => b_write' < b_read
      /\ pc' # "write" => b_write' >= b_read
  BY LoopsGoOn
<1>2. c \in Int /\ b_read \in Nat /\ pos \in Nat /\ b_read <= pos /\ Base = pos - b_read
  BY Integral DEF Buffered, Base
<1>3. Base' = Base
  BY DEF Base
<1> HIDE DEF c
<1>4. Reached' = IF pc' = "write" THEN Base + (IF c > 0 THEN c ELSE 0) ELSE pos
  BY <1>1, <1>3 DEF Reached
<1>5. CASE pc' = "write" /\ c > 0
  <2>1. Reached' = Base + c /\ c < b_read
    BY <1>1, <1>4, <1>5
  <2> QED
    BY <1>2, <1>5, <2>1 DEF Reached, c
<1>6. CASE pc' = "write" /\ ~(c > 0)
  <2>1. Reached' = Base
    BY <1>2, <1>4, <1>6
  <2> QED
    BY <1>2, <1>6, <2>1 DEF Reached, c
<1>7. CASE pc' # "write"
  <2>1. Reached' = Base + b_read /\ Reached' = pos /\ c >= b_read
    BY <1>1, <1>2, <1>4, <1>7
  <2> QED
    BY <1>2, <2>1 DEF Reached, c
<1> QED
  BY <1>5, <1>6, <1>7

LEMMA GetCoveredKept ==
  ASSUME IInv, [Next]_vars
  PROVE  GetCovered'
<1>0. /\ TypeOK /\ Buffered /\ Control /\ GetCovered
      /\ IsSet' = IsSet /\ UNCHANGED <<command, total, content_length>>
  BY SameInput DEF IInv
<1> SUFFICES ASSUME ~IsSet, pc' \in {"main", "read", "write", "done"}
             PROVE  \E h \in 0..total : h >= Reached' /\ Covered(out', h)
  BY <1>0 DEF GetCovered
<1>1. CASE Control1
  <2>1. UNCHANGED <<pos, out>> /\ pc' = "read" /\ pc = "main"
    BY <1>0, <1>1, OnlyPc
  <2>2. Reached' = Reached
    BY <2>1 DEF Reached
  <2> QED
    BY <1>0, <2>1, <2>2 DEF GetCovered
<1>2. CASE Read
  <2>1. /\ b_write' = 0 /\ pc' = "write" /\ Base' = pos
        /\ UNCHANGED out /\ pc = "read"
    BY <1>0, <1>2, Reading DEF Read
  <2>2. Reached' = pos /\ Reached = pos
    <3>1. pos + 0 = pos
      BY <1>0, Integral
    <3> QED
      BY <2>1, <3>1 DEF Reached
  <2> QED
    BY <1>0, <2>1, <2>2 DEF GetCovered
<1>3. CASE Write
  <2>1. PICK w \in 0..b_read, m \in Seq(0..total) :
           /\ Len(m) = w /\ out' = out \o m
           /\ \A k \in 1..w : m[k] = ByteAt(Offset + k)
           /\ Written(w)
           /\ pc = "write" /\ UNCHANGED <<pos, b_read>>
    BY <1>0, <1>3, Appending
  <2>2. PICK h \in 0..total : h >= Reached /\ Covered(out, h)
    BY <1>0, <2>1 DEF GetCovered
  <2>3. /\ w \in Nat /\ w \in Int /\ total \in Nat /\ pos \in Nat /\ pos <= total /\ b_read \in Nat
        /\ b_write \in Int /\ Base \in Int /\ Base >= 0 /\ Base + b_read = pos
    BY <1>0, <2>1, Integral DEF Buffered, Base
  <2>4. /\ Reached = Base + (IF b_write > 0 THEN b_write ELSE 0)
        /\ Reached' \in Nat /\ Reached' <= pos /\ Reached' >= Base
        /\ Reached' > Base => Reached' <= Base + (b_write + w)
        /\ \A j \in 1..b_read : j <= b_write + w => Base + j <= Reached'
    BY <1>0, <2>1, <2>3, ReachedNext
  <2> DEFINE lo == Reached
             hi == Reached'
             d == Base + b_write
             b == Base
             f == b_write
             r == b_read
  <2>5. /\ b \in Nat /\ f \in Int /\ r \in Nat /\ d = b + f /\ d \in Int
        /\ lo \in Nat /\ lo >= b /\ lo >= d /\ hi \in Nat /\ hi <= total /\ hi <= b + r
        /\ hi > b => hi <= d + w
        /\ \A j \in 1..r : j <= f + w => b + j <= hi
    BY <2>3, <2>4
  <2>6. \A k \in 1..w : /\ f + k \in 1..r => m[k] = b + (f + k)
                        /\ f + k \notin 1..r => m[k] <= b
    <3> SUFFICES ASSUME NEW k \in 1..w
                 PROVE  /\ f + k \in 1..r => m[k] = b + (f + k)
                        /\ f + k \notin 1..r => m[k] <= b
      OBVIOUS
    <3>1. m[k] = ByteAt(f + k) /\ f + k \in Int
      BY <2>1, <2>3 DEF Offset
    <3> QED
      BY <1>0, <3>1, BytesAt
  <2>7. out \in Seq(Nat) /\ m \in Seq(Nat) /\ h \in Nat /\ h >= lo /\ h <= total /\ Covered(out, h)
    <3>1. out \in Seq(0..total) /\ total \in Nat
      BY <1>0, <2>3, OutIsASequence
    <3> QED
      BY <2>1, <2>2, <3>1
  <2>8. \A k \in 1..w : m[k] \in Nat
    BY <2>1, <2>7
  <2> HIDE DEF lo, hi, d, b, f, r
  <2>9. ASSUME NEW k \in 1..w
        PROVE  m[k] <= lo \/ (m[k] = d + k /\ m[k] <= hi)
    <3>1. CASE f + k \in 1..r
      <4>1. f + k <= f + w
        BY <2>3, <2>5
      <4>2. b + (f + k) <= hi
        BY <2>5, <3>1, <4>1
      <4>3. b + (f + k) = d + k
        BY <2>5
      <4> QED
        BY <2>6, <3>1, <4>2, <4>3
    <3>2. CASE f + k \notin 1..r
      <4>1. PICK e \in Nat : e = m[k]
        BY <2>8
      <4>2. e <= b
        BY <2>6, <3>2, <4>1
      <4> QED
        BY <2>5, <4>1, <4>2
    <3> QED
      BY <3>1, <3>2
  <2>10. ASSUME NEW i \in lo + 1..hi
         PROVE  i - d \in 1..w /\ m[i - d] = i
    <3>1. i - d \in 1..w /\ f + (i - d) \in 1..r /\ b + (f + (i - d)) = i
      BY <2>3, <2>5
    <3> QED
      BY <2>6, <3>1
  <2>11. Covered(out \o m, IF hi > h THEN hi ELSE h)
    <3>1. Len(m) = w /\ lo <= h
      BY <2>1, <2>5, <2>7
    <3> QED
      BY <2>5, <2>7, <2>9, <2>10, <3>1, CoveredMore
  <2>12. PICK g \in 0..total : g = (IF hi > h THEN hi ELSE h) /\ g >= hi
    BY <2>3, <2>5, <2>7
  <2>13. g >= Reached' /\ Covered(out', g)
    BY <2>1, <2>11, <2>12 DEF hi
  <2> QED
    BY <2>13
<1>4. CASE WriteFails
  <2>1. Written(-1) /\ out' = out /\ pc = "write" /\ UNCHANGED <<pos, b_read>> /\ b_read > 0
    BY <1>4 DEF WriteFails
  <2>2. PICK h \in 0..total : h >= Reached /\ Covered(out, h)
    BY <1>0, <2>1 DEF GetCovered
  <2>3. /\ b_write \in Int /\ Base \in Int /\ total \in Nat
        /\ Reached = Base + (IF b_write > 0 THEN b_write ELSE 0)
        /\ Reached' \in Nat /\ Reached' >= Base
        /\ Reached' > Base => Reached' <= Base + (b_write + -1)
    BY <1>0, <2>1, Integral, ReachedNext
  <2>4. h >= Reached'
    BY <2>2, <2>3
  <2> QED
    BY <2>1, <2>2, <2>4
<1>5. CASE UNCHANGED vars
  <2>1. Reached' = Reached /\ UNCHANGED <<pc, out>>
    BY <1>5 DEF vars, Reached, Base
  <2> QED
    BY <1>0, <2>1 DEF GetCovered
<1> QED
  BY <1>1, <1>2, <1>3, <1>4, <1>5 DEF Next, Control1

-----------------------------------------------------------------------------

LEMMA InitIInv ==
  ASSUME Init
  PROVE  IInv
<1>1. total \in Nat /\ content_length \in Nat /\ Chunk \in Nat /\ Chunk > 0 /\ MaxFaults \in Nat
  BY SizesAssumption, InputsAssumption, FaultsAssumption DEF Init
<1>2. PICK e : e = <<>> /\ out = e
  BY DEF Init
<1>3. Len(e) = 0 /\ DOMAIN e = {} /\ e \in Seq(0..total)
  BY <1>2
<1>4. TypeOK
  <2>1. buff \in [1..Chunk -> 0..total]
    BY <1>1 DEF Init, Garbage
  <2>2. 0 \in -faults..(2 * Chunk - 1) /\ 0 \in 0..MaxFaults /\ 0 \in 0..Chunk /\ 0 \in 0..total
    BY <1>1 DEF Init
  <2> QED
    BY <1>1, <1>2, <1>3, <2>1, <2>2 DEF Init, TypeOK
<1>5. Buffered
  <2>1. Base = 0 /\ Length \in Nat
    BY <1>4, Integral DEF Init, Base
  <2>2. \A k \in 1..Chunk : buff[k] = 0 /\ ~(k <= 0)
    BY <1>1 DEF Init, Garbage
  <2> QED
    BY <2>1, <2>2 DEF Init, Buffered
<1>6. Control
  BY <1>1 DEF Init, Control
<1>7. Faultless
  BY <1>2, <1>3 DEF Init, Faultless, CopiesPrefix
<1>8. SetCounted
  BY <1>2, <1>3 DEF Init, SetCounted, SetWritesEnough
<1>9. GetCovered
  <2>1. 0 \in 0..total /\ 0 >= Reached
    BY <1>1 DEF Init, Reached
  <2>2. Covered(out, 0)
    BY <1>2, <1>3 DEF Covered
  <2> QED
    BY <2>1, <2>2 DEF GetCovered
<1> QED
  BY <1>4, <1>5, <1>6, <1>7, <1>8, <1>9 DEF IInv

LEMMA NextIInv ==
  ASSUME IInv, [Next]_vars
  PROVE  IInv'
BY TypesKept, BufferedKept, ControlKept, FaultlessKept, SetCountedKept, GetCoveredKept DEF IInv

LEMMA AlwaysIInv == Spec => []IInv
<1>1. Init => IInv
  BY InitIInv
<1>2. IInv /\ [Next]_vars => IInv'
  BY NextIInv
<1> QED
  BY <1>1, <1>2, PTL DEF Spec

(* Whatever the sizes of the chunk and of a pointer, and however the reads  *)
(* and writes go, the counters of get_write and set_write stay in their    *)
(* ranges: b_write is below 0 only by the writes that failed, and below    *)
(* two chunks; nothing but bytes of the input and of the untouched buffer  *)
(* is written (memory.c:14-72).                                            *)
THEOREM MemoryTypes == Spec => []TypeOK
<1>1. IInv => TypeOK
  BY DEF IInv
<1> QED
  BY <1>1, AlwaysIInv, PTL

(* As long as no write went wrong, what was written is the input from its  *)
(* start, all of it by a get that is done, and what was announced by a set *)
(* and less than a chunk more (memory.c:14-72).                            *)
THEOREM FaultlessCopies == Spec => []CopiesPrefix
<1>1. IInv => CopiesPrefix
  BY DEF IInv, Faultless, CopiesPrefix
<1> QED
  BY <1>1, AlwaysIInv, PTL

(* A set that is done has written at least as many bytes as were announced *)
(* or as there were, however many writes fell short or failed              *)
(* (memory.c:40-41).                                                       *)
THEOREM SetsWriteEnough == Spec => []SetWritesEnough
<1>1. IInv => SetWritesEnough
  BY DEF IInv, SetCounted, SetWritesEnough
<1> QED
  BY <1>1, AlwaysIInv, PTL

(* A get that is done has written every byte of the file before any later  *)
(* one, however many writes fell short or failed (memory.c:58-68).         *)
THEOREM GetsLoseNothing == Spec => []GetLosesNothing
<1>1. ASSUME IInv
      PROVE  GetLosesNothing
  <2> SUFFICES ASSUME command.word = "get", pc = "done"
               PROVE  \A i \in 1..total :
                        \E k \in DOMAIN out :
                          /\ out[k] = i
                          /\ \A j \in DOMAIN out : out[j] > i => j > k
    BY DEF GetLosesNothing
  <2>1. ~IsSet /\ TypeOK
    BY <1>1 DEF IInv, IsSet
  <2>2. b_read = 0
    BY <1>1, <2>1 DEF IInv, Control
  <2>3. pos = total
    BY <1>1, <2>1, <2>2, Integral DEF IInv, Buffered
  <2>4. PICK h \in 0..total : h >= total /\ Covered(out, h)
    BY <1>1, <2>1, <2>3 DEF IInv, GetCovered, Reached
  <2>5. h = total
    BY <2>1, <2>4, Integral
  <2> QED
    BY <2>4, <2>5 DEF Covered
<1>2. IInv => GetLosesNothing
  BY <1>1
<1> QED
  BY <1>2, AlwaysIInv, PTL

=============================================================================
