------------------------------- MODULE Memory -------------------------------
(***************************************************************************)
(* The get and set commands of asgn1/memory.c: one command is read from    *)
(* standard input, then get_write copies a file to standard output, or     *)
(* set_write copies standard input to a file, in chunks through a buffer.  *)
(*                                                                         *)
(* A byte is known by its place in the input; Garbage is whatever lies     *)
(* outside what was read into the buffer.  read may return less than it    *)
(* was asked for, write may take less or fail.  main and the two loops are *)
(* sequential: one call of read or write is one action.                    *)
(***************************************************************************)
EXTENDS Integers, Sequences, FiniteSets

CONSTANTS
  Chunk,      (* the size of a chunk (512 in the code)                     *)
  PtrSize,    (* the size of a pointer: the step of set_write's buff + 1   *)
  Totals,     (* how many bytes the input may have                         *)
  Announced,  (* the content lengths a set may announce                    *)
  MaxFaults   (* bound: how many writes fall short or fail                 *)

ASSUME SizesAssumption == Chunk \in Nat \ {0} /\ PtrSize \in Nat \ {0}
ASSUME InputsAssumption == Totals \subseteq Nat /\ Announced \subseteq Nat
ASSUME FaultsAssumption == MaxFaults \in Nat

VARIABLES
  command,         (* [word, location, trailing]: what stdin holds         *)
  total,           (* the bytes there are to copy                          *)
  content_length,
  pc,              (* "main", "read", "write", "done", "ok", "exit"        *)
  pos,             (* the bytes read so far                                *)
  buff,            (* the bytes of the buffer, from its start              *)
  b_read, b_write, count,
  out,             (* the bytes written so far                             *)
  faults           (* history: the writes that fell short or failed        *)

input == <<command, total, content_length>>
vars == <<input, pc, pos, buff, b_read, b_write, count, out, faults>>

Garbage == 0
Smaller(a, b) == IF a < b THEN a ELSE b

IsSet == command.word = "set"
Length == IF IsSet THEN Smaller(Chunk, content_length) ELSE Chunk

(* A location can be opened or not; "letter" is one of a single character, *)
(* "set" a file of that name.                                              *)
Commands ==
  [word : {"get", "set", "other"}, location : {"file", "letter", "set", "missing"},
   trailing : BOOLEAN]

-----------------------------------------------------------------------------
(* main.  The second read_line of a get leaves the end of the word "get"   *)
(* behind a location of one character, which check_option then refuses.    *)
(* get flushes standard input and refuses what it finds there.             *)

Accepted ==
  \/ IsSet /\ command.location # "missing"
  \/ command.word = "get" /\ command.location \in {"file", "set"} /\ ~command.trailing

Main ==
  /\ pc = "main"
  /\ pc' = IF Accepted THEN "read" ELSE "exit"
  /\ UNCHANGED <<input, pos, buff, b_read, b_write, count, out, faults>>

(* After a get, main looks at the word again, where the location now is: a *)
(* file called "set" is taken for the other command, which is refused.     *)
Finish ==
  /\ pc = "done"
  /\ pc' = IF ~IsSet /\ command.location = "set" THEN "exit" ELSE "ok"
  /\ UNCHANGED <<input, pos, buff, b_read, b_write, count, out, faults>>

-----------------------------------------------------------------------------
(* get_write and set_write *)

(* The place in the input is counted as if the chunk were always filled. *)
ReadVariant ==
  /\ pc = "read"
  /\ \E r \in 0..Smaller(Length, total - pos) :
       /\ r = 0 => Smaller(Length, total - pos) = 0
       /\ b_read' = r
       /\ buff' = [k \in 1..Chunk |-> IF k <= r THEN pos + k ELSE buff[k]]
       /\ pos' = Smaller(total, pos + Length)
  /\ b_write' = 0
  /\ pc' = "write"
  /\ UNCHANGED <<input, count, out, faults>>

(* read returns some of what is there, 0 at the end, or fails. *)
Read ==
  /\ pc = "read"
  /\ \E r \in 0..Smaller(Length, total - pos) :
       /\ r = 0 => Smaller(Length, total - pos) = 0
       /\ b_read' = r
       /\ buff' = [k \in 1..Chunk |-> IF k <= r THEN pos + k ELSE buff[k]]
       /\ pos' = pos + r
  /\ b_write' = 0
  /\ pc' = "write"
  /\ UNCHANGED <<input, count, out, faults>>

ReadFails ==
  /\ pc = "read"
  /\ pc' = "exit"
  /\ UNCHANGED <<input, pos, buff, b_read, b_write, count, out, faults>>

(* The byte k places after the start of the buffer, and where a write      *)
(* starts: set_write's buff is an array of pointers.                       *)
ByteAt(k) == IF k \in 1..Chunk THEN buff[k] ELSE Garbage
Offset == IF IsSet THEN PtrSize * b_write ELSE b_write

(* One write too many: until more than b_read was taken. *)
AfterWriteVariant(written, counted) ==
  CASE written <= b_read /\ (~IsSet \/ counted < content_length)            -> "write"
    [] b_read > 0 /\ written > b_read
         /\ (~IsSet \/ counted < content_length)                            -> "read"
    [] OTHER                                                                -> "done"

(* The inner loop writes a whole b_read again until that many were taken;  *)
(* the outer one goes on until the end of the input, or for a set until    *)
(* content_length bytes were counted.                                      *)
AfterWrite(written, counted) ==
  CASE written < b_read /\ (~IsSet \/ counted < content_length)             -> "write"
    [] b_read > 0 /\ written >= 0 /\ written >= b_read
         /\ (~IsSet \/ counted < content_length)                            -> "read"
    [] OTHER                                                                -> "done"

(* A failed write counts as -1 byte: bytes is a size_t, and never below 0. *)
Written(w) ==
  /\ b_write' = b_write + w
  /\ count' = IF IsSet THEN count + w ELSE count
  /\ pc' = AfterWrite(b_write + w, count + w)

(* Every write starts at the buffer's start. *)
WriteVariant ==
  /\ pc = "write"
  /\ \E w \in 0..b_read :
       /\ w = 0 => b_read = 0
       /\ out' = out \o [k \in 1..w |-> ByteAt(k)]
       /\ faults' = IF w < b_read THEN faults + 1 ELSE faults
       /\ Written(w)
  /\ faults' <= MaxFaults
  /\ UNCHANGED <<input, pos, buff, b_read>>

Write ==
  /\ pc = "write"
  /\ \E w \in 0..b_read :
       /\ w = 0 => b_read = 0
       /\ out' = out \o [k \in 1..w |-> ByteAt(Offset + k)]
       /\ faults' = IF w < b_read THEN faults + 1 ELSE faults
       /\ Written(w)
  /\ faults' <= MaxFaults
  /\ UNCHANGED <<input, pos, buff, b_read>>

(* A failed write that counts as nothing written, and is not tried again. *)
WriteFailsVariant ==
  /\ pc = "write"
  /\ b_read > 0
  /\ faults < MaxFaults
  /\ faults' = faults + 1
  /\ pc' = "read"
  /\ UNCHANGED <<input, pos, buff, b_read, b_write, count, out>>

WriteFails ==
  /\ pc = "write"
  /\ b_read > 0
  /\ faults < MaxFaults
  /\ faults' = faults + 1
  /\ Written(-1)
  /\ UNCHANGED <<input, pos, buff, b_read, out>>

-----------------------------------------------------------------------------

Init ==
  /\ command \in Commands
  /\ total \in Totals
  /\ content_length \in Announced
  /\ pc = "main"
  /\ pos = 0
  /\ buff = [k \in 1..Chunk |-> Garbage]
  /\ b_read = 0 /\ b_write = 0 /\ count = 0
  /\ out = <<>>
  /\ faults = 0

Next == Main \/ Finish \/ Read \/ ReadFails \/ Write \/ WriteFails

Spec == Init /\ [][Next]_vars

(* The program goes on; its input ends, since total is finite, and only    *)
(* finitely many writes go wrong.                                          *)
FairSpec == Spec /\ WF_vars(Next)

-----------------------------------------------------------------------------
(* Properties *)

(* The counters keep to their ranges: b_write is below 0 only after failed *)
(* writes (memory.c:14-72).                                                *)
TypeOK ==
  /\ command \in Commands
  /\ total \in Totals /\ content_length \in Announced
  /\ pc \in {"main", "read", "write", "done", "ok", "exit"}
  /\ pos \in 0..total
  /\ buff \in [1..Chunk -> 0..total]
  /\ b_read \in 0..Chunk
  /\ b_write \in -faults..(2 * Chunk - 1)
  /\ count \in Int
  /\ out \in Seq(0..total)
  /\ faults \in 0..MaxFaults

(* As long as no write goes wrong, what was written is the input from its  *)
(* start, however the reads cut it; a get that is done has written all of  *)
(* it, a set as much as was announced or there was, and less than a chunk  *)
(* more (memory.c:14-72).                                                  *)
CopiesPrefix ==
  faults = 0 =>
    /\ \A k \in DOMAIN out : out[k] = k
    /\ pc = "done" /\ ~IsSet => Len(out) = total
    /\ pc = "done" /\ IsSet =>
         /\ Len(out) >= Smaller(content_length, total)
         /\ content_length > 0 => Len(out) < content_length + Length

(* Whatever goes wrong with writes, a set that is done has written as many *)
(* bytes as were announced, unless the input had fewer (memory.c:40-41).   *)
SetWritesEnough ==
  IsSet /\ pc = "done" =>
    \/ Len(out) >= content_length
    \/ pos = total /\ Len(out) >= total

(* A get that is done has written every byte of the file, in order, even   *)
(* if writes fell short or failed; what is in between is written again, or *)
(* was not of the file (memory.c:58-68).                                   *)
GetLosesNothing ==
  command.word = "get" /\ pc = "done" =>
    \A i \in 1..total :
      \E k \in DOMAIN out :
        /\ out[k] = i
        /\ \A j \in DOMAIN out : out[j] > i => j > k

(* Every command ends, if only so many writes fall short or fail: the code *)
(* tries again for as long as they do (memory.c:58-68, 126-201).           *)
CommandEnds == <>(pc \in {"ok", "exit"})

=============================================================================
