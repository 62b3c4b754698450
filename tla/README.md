# Computer-Systems-Design: specifications, model checking and proofs

The repository holds the five assignments of a systems course, one directory
each. This directory holds TLA+ modules for the parts of it that do more than
one thing at a time or keep state over a long sequence of calls, the TLC
configurations that check them on small instances, and proofs checked by TLAPS.
`PROJECT.json` lists the components, the runs, the mutants, the lines every
definition models, the findings, the hazards and the theorems.

    tlc -workers 2 -config RWLock_priorities.cfg RWLock     # a run
    tlapm RWLockProofs.tla                                  # a module of proofs

## 1. Inventory

| part | state | operations | what is hard |
|---|---|---|---|
| asgn3/rwlock.c, a read/write lock with three priorities | five counters, a mutex, two condition variables | `rwlock_new`, `rwlock_delete`, `reader_lock`, `reader_unlock`, `writer_lock`, `writer_unlock` | any interleaving of threads, wakeups (lost, shared, spurious), starvation, wrap of a 32-bit counter |
| asgn3/queue.c, a bounded queue of pointers | a ring buffer, three semaphores per queue, the *global* indices `in` and `out` | `queue_new`, `queue_delete`, `queue_push`, `queue_pop` | more threads than slots, order of elements, several queues over one pair of indices |
| asgn4/httpserver.c, a multithreaded file server | the connection queue, `a->mutex`, per-request locals, the file system, the audit log | accept loop, `workerThreads`, `handle_connection`, `handle_get`, `handle_put`, `handle_unsupported` | the log must explain every response; two locks in a fixed order with different lifetimes; bodies that stop; slow clients |
| asgn4/file_lock.c, linked_hash_map.c: a lock per file name | an array of locks, a counter, a hash map from names to locks | `file_lock_{read,write}_{lock,unlock}`, `linkedHashMap_{get,put,resize}` | names that share a lock, a map read without a lock while it is resized |
| asgn5/cache.c, cacher.c: a cache simulator | a linked list, `currentSize`, the removed items, two miss counters | `handleCacheAccess` under FIFO, LRU and clock | long sequences of accesses; the counter and the list drifting apart |
| asgn5/list.c, a doubly linked list with a cursor | nodes, front, back, cursor, index, length | 20 operations | sequences of calls that leave the cursor or an end dangling |
| asgn1/memory.c, get/set of a file over stdin | one buffer, offsets, counts | `main`, `set_write`, `get_write` | short reads, short and failed writes, inputs shorter or longer than announced |
| asgn2/httpserver.c, io.c, Request.c: a single-threaded server | per-request locals, the files, the process's descriptors | accept loop, `build_request`, `check_file`, `get_write`, `put_write` | which of several responses are sent; descriptors lost one by one; silent clients; loops that must end |
| archives `asgn*_helper_funcs.a` and their headers | binary | sockets, parser, and in asgn4 the queue and the lock the server links with | external |

How they interact. In asgn4 `main` pushes every accepted connection onto a
bounded queue and the workers pop them: that queue is the only thing main and
the workers share. The workers share `a->mutex`, the file locks and the file
system. A handler takes `a->mutex`, then the file's lock; GET keeps both to its
end, PUT releases `a->mutex` once the file is open and truncated and receives
the body under the file's lock alone. The unlock functions read the hash map
without any mutex. The server links the archive's queue and rwlock (the Makefile
of asgn4 compiles its own directory and the archive, not asgn3), with the
interfaces that asgn3 implements. In asgn5 the cache simulator keeps its
removed items in a `List`, of which it uses `newList`, `append` and `isInList`.

What makes each part correct:

- read/write lock: counters that say what the threads do; readers and writers
  apart; a sleeping thread always has somebody who will wake it; writers are not
  starved by readers, nor readers for ever asleep once writers stop.
- queue: a FIFO that holds at most its size; a slot is never given out twice nor
  lost; nobody waits next to an element or a slot for ever.
- file server: every response is the one a server that handles one request at a
  time, in the order of its log, would give; nothing is held between requests;
  every connection is answered and closed.
- file locks: a PUT is alone at its file from the moment it has the lock, names
  sharing a lock or not.
- cache: the size is respected, misses are classified, and what is evicted is
  what the policy says.
- list: links, ends, length and cursor agree after any sequence of calls, and the
  list is the sequence with a cursor that list.h describes.
- get/set: what arrives is what was read, in order; nothing is lost.
- single-threaded server: first answers are true, a PUT leaves its body or as
  much of it as could be written, no descriptor is lost, and every connection is
  answered.

## 2. Modules

| module | of | role |
|---|---|---|
| `ReadWriteLock` | rwlock.h | abstract: sets of readers and writers |
| `RWLock` | asgn3/rwlock.c | the lock with its counters and condition variables |
| `RWLockProofs` | | theorems about `RWLock` |
| `BoundedFIFO` | queue.h | abstract: a sequence per queue |
| `BoundedQueue` | asgn3/queue.c | the ring buffer, statement by statement |
| `BoundedQueueProofs` | | theorems about `BoundedQueue` |
| `FileLock` | asgn4/file_lock.c, linked_hash_map.c | actions on the per-file locks; each lock is an instance of `ReadWriteLock` |
| `FileLockProofs` | | lemmas about `FileLock` |
| `FileServer`, `MCFileServer` | asgn4/httpserver.c | composes `FileLock` with the workers, the queue, the files and the log |
| `FileServerProofs` | | theorems about `FileServer` |
| `Cache`, `MCCache` | asgn5/cache.c, cacher.c | the simulator, one access a step |
| `CacheProofs` | | theorems about `Cache` |
| `CursorList` | asgn5/list.h | abstract: a sequence and a position |
| `List`, `MCList` | asgn5/list.c | the nodes on a heap, one procedure a step |
| `ListProofs` | | theorems about `List` |
| `Memory` | asgn1/memory.c | get and set, one `read` or `write` a step |
| `MemoryProofs` | | theorems about `Memory` |
| `SimpleServer`, `MCSimpleServer` | asgn2/httpserver.c, io.c, Request.c | the accept loop, step by step, with files and descriptors |
| `SimpleServerProofs` | | theorems about `SimpleServer` |

A definition called `...Variant` is a plausible slip in the definition after
it: a dropped guard, a missing wakeup, a wrong semaphore. No specification uses
one. Each property is tried against one of them, and TLC finds it violated.

### RWLock

Every access to the counters is made with `rw->mutex` held, so a critical
section, from `pthread_mutex_lock` or the return of `pthread_cond_wait` to
`pthread_mutex_unlock` or the next `pthread_cond_wait`, is one action. `pc` says
where each thread is: asleep (`waitRead`, `waitWrite`), woken but not yet back in
the mutex (`wokenRead`, `wokenWrite`), or a holder. `ReaderLock` and `WriterLock`
are the entry with the first evaluation of the condition, `ReaderResume` and
`WriterResume` the evaluation after a wakeup, so that a woken thread competes
with newcomers. The conditions of N_WAY also write `totalActiveReaders` when they
admit; `AdmitReader` and `AdmitWriter` do that, with the wrap at `UintMod`. A
signal picks any sleeper; a sleeper may also wake by itself (`SpuriousWakeup`).
`rwlock_new` may be called again after `rwlock_delete`, with any priority. The
refinement reads the abstract readers and writers off `pc` while the lock is one
with WRITERS, and sees nobody in a lock of another priority (`Holders`).

What each priority keeps apart is stated as the code has it. With WRITERS
everything. With READERS readers and writers, but **not** two writers:
`writer_should_wait` (rwlock.c:143-146) does not look at `activeWriters`. With
N_WAY nothing at all: neither condition looks at `activeWriters`, and nobody
ever waits, because each side is held back by a waiting thread of the other side
only and the first of them never comes (`NobodyWaits`, a part of the proofs'
invariant). `Exclusion` therefore states one writer for WRITERS alone; no
property covers the two writers of READERS. What the comments promise of N_WAY,
a writer after n readers or when no reader is there, is `NWayTakesTurns`, and
`rwlock_nway` shows that the code does not do it.

### BoundedQueue

One action per semaphore operation, buffer access and index update, so the
store, the advance and the two posts of different threads interleave. A call of
`queue_delete` is made when no call is under way (anything else is undefined).
A slot past the end of a queue's array may be met where the indices of another
queue are left behind; `BlockAssumption` keeps to instances where it falls in the
block malloc gave, so that `Slots` is each queue's own array and its slack.
`Content` is the refinement mapping: the elements that `full` counts, those
stored and not yet counted, and those counted off and not yet loaded, read off
the ring from `out`.

### FileLock and FileServer

`map` is the sequence of the hash map's nodes, newest first; a name is looked up
in its chain. `polynomial_hash` is below 101 and the capacity is at least 4096 in
the code, so the index of a name does not depend on the capacity: `Bucket`. A put
into a full map takes two steps, the start of the resize and its end; in
between, a reader without a lock finds no key but the newest of its chain
(`Hidden`), because `linkedHashMap_resize` first clears the `next` of the head of
each chain. Two names may share a lock once the counter has wrapped.

A file is known by the PUT that wrote it and whether all of it is there; other
things behind a name are a missing file, a directory, a file that may not be
opened, and a name in a directory that does not exist. Any `open` may also fail
for the moment, for want of descriptors say: the request is answered 500 and
the file left untouched. `opened` is history: the PUTs that did open their file,
by which the log's 500 of a body that broke off is told from the 500 of an open
that failed. A request is one GET or PUT of a name, an unsupported method, or one
that does not parse. `conn_recv_file` either receives the whole body or fails
and leaves a part; `conn_send_file` sends the file or returns an error, which
`audit` sends after it and logs. `log` is stderr: the lines of `audit` and of
`handle_put`. `arrived` is history: how long the log was when a GET was accepted.

The actions follow the handlers from one lock operation to the next:
`GetAccess`, `GetMutex` | `PutMutex`, `LockFile` (with `EndPut` when the map is
resized), then one of `GetNotExisted`, `GetRefused`, `GetServe`, `PutRefused`,
`PutOpen`, then `PutReceive`, `UnlockFile`, `ReleaseMutex`, `Close`. What happens
under the file's lock between two of its operations (open, send, audit, close) is
one action: no other worker reaches this file meanwhile. A GET that sends its file
or is refused therefore opens and closes a descriptor in one step, and what
`DescriptorsClosed` tries is the close of a PUT and the 404 that closes nothing.
Another worker may write a line of the log about another file, since the last
line of a PUT is written without `a->mutex`; such lines come in both orders in
the model, and neither order says anything about the other file.
`file_lock->mutex` is taken inside `a->mutex` only, so it never waits.
Connections are numbered in the order in which main accepts them.

Until the map is resized, a worker that is at no file holds no lock
(`IdleUntilResized`). A resize may leave a lock held (`LeftHeld`, which the run
`server_resize` reaches), and then the server may stop: `EveryConnectionClosed`
names this, and nothing else, as its exception.

### Cache

`list` is the list from `head`, `currentSize` the counter, which under the clock
differs from the list's length. One line of input is one action: `Hit`, or
`MissFL`, `MissClockRoom`, `MissClockFull` by policy and room. `evictClock` is
modelled to the letter: the hand passes one node at the most, `currentSize` is
lowered twice, a counter of 0 begins the list afresh over what was in it, a node
added to an empty list with another counter is linked to freed memory and lost,
and the program may end in the assertion (`aborted`) or in a read through NULL
(`crashed`). `missed` and `last` are history variables. `ClockDrift` says what is
left of the size: from 3 on, every eviction leaves the list one node longer than
the counter says, and nothing else moves them apart.

### List

`next`, `prev`, `data` and `live` are the heap, the other variables the header.
A procedure of list.c is one action, under the precondition of its comment; what
a procedure does outside it (print and exit) is not a step, but for `movePrev` of
an empty list, which the comment allows and the code ends the program on
(`exited`): list.h:43-51 say that a move with an undefined cursor does nothing.
Two procedures leave the header wrong: `deleteFront` lowers `index` also where
there is no cursor (to -2 and below), and `deleteBack` of the only element leaves
`front` at the freed node. `risks` remembers which of the two happened and was
not made up for since (by placing the cursor, by inserting); in
`nullCursor` a `moveNext` has read through NULL, in `danglingFront` `freeList` or
`isInList` has read a freed node. The refinement mapping takes every negative
`index` for an undefined cursor. `CursorList` translates the comments of list.h.

### Memory

`command` is what standard input holds, as far as main tells it apart: the word,
a location that opens or not, one of a single character (the end of "get" is
left behind it in the buffer, and `check_option` refuses it), one called "set"
(main compares the word again where the location now is, and ends with an
error), and input after a get. A byte is its place in the input, so `out` says
what was copied, in which order, and what was never read (`Garbage`). `read`
returns some of what is there; `write` takes some of what it is given, or fails,
which counts as -1 byte because `bytes` is unsigned and the test for an error
never holds. The next `write` of the same chunk starts that many places on, or
for a set that many pointers on, and asks for the whole of `b_read` again.

### SimpleServer

`pc` follows main from `accept` to `close`; the only thread serves `conn`.
`fds` are the connections whose descriptor of a file is open, and `FdsLeft`
what the process may still open. `check_file` answers what it refuses and
returns a code that main takes for true, so the file is opened, and answered,
again (`GetMissing`, `GetSend`). `PutByte`, `PutFails` and `PutEnds` are the
turns of `put_write`'s loop; with `content_length` 0, as it always is
(`build_request` looks for `Content_Length:`, and no header may have that
name), a body that ended before its first byte lets none of the three go on:
`Stuck`. Descriptors run low in a way of their own: a PUT loses one only if two
were left, so `accept` never fails, and in the end every file is answered 404
and every PUT stores nothing. The disk may be full: an absent file may not be
created (`PutOpen`), and a write to an open file may fail and end the loop with
what was written so far (`PutFails`), which main does not look at; `failed`
remembers it until the next connection. A client may go away; asgn2 does not ignore
SIGPIPE, as asgn4 does, and a write may then kill the server.

## 3. Runs

| run | instance | distinct states | shows |
|---|---|---|---|
| `rwlock_priorities` | 4 threads, 3 priorities, n in {0, 2}, 2-bit counter, fair | 3 784 | types, counters, exclusion; with WRITERS no lost wakeup, refinement of `ReadWriteLock`, progress of writers and readers |
| `queue_fifo` | 1 queue of 1 or 2 slots, 3 threads, 2 values, fair | 58 317 | refinement of `BoundedFIFO`, slots, progress |
| `server_requests` | 2 workers, 3 connections, 3 files, 2 locks, 1 chain, queue of 1, fair | 824 902 | the log is a linearization, PUTs alone at their file, nothing kept between requests, every connection closed |
| `cache_policies` | 5 items, sizes -1, 1, 2, 3, 4, 7 misses | 1 930 585 | size, misses, what FIFO and LRU keep, how far the clock drifts |
| `list_calls` | 4 nodes, 2 values, index down to -5 | 1 529 (up to symmetry) | refinement of `CursorList`, links, cursor, when calls fail |
| `memory_commands` | chunks of 3, pointers of 2, inputs of up to 7 bytes, 2 bad writes, fair | 132 713 | what is copied, what is lost, that a command ends |
| `simple_server` | 3 connections, 2 files of 6 kinds, bodies of up to 2, 3 descriptors, fair | 1 264 784 | true answers, stored bodies, lost descriptors, every connection answered |
| `rwlock_readers_stall` | 3 threads, READERS, fair | violation | lost wakeup |
| `rwlock_nway` | 3 threads, N_WAY, n = 2 | violation | a writer beside the first of two readers |
| `queue_shared` | 2 queues, 1 thread | violation | global indices |
| `server_resize` | 2 workers, 4 names, room for 3 | violation | an unlock that misses its lock |
| `simple_success` | 1 connection, 2 files of 6 kinds | violation | 200 or 201 for a body that was not stored |

Deadlock is checked for the lock: whatever the priority, some thread can always
go on, since sleepers may wake spuriously. It is not checked elsewhere: the
queue's threads all wait when every one pops, the servers, the commands and the
cache end with their finite input, and a list may fill its small heap.

Why the bounds are enough.

- Lock: the conditions compare counters with 0 and with n. Four threads give two
  holders of one kind and two waiters of the other, or a holder, a woken thread
  and two sleepers; the counter of two bits wraps within the run. The theorems
  remove the bound for the safety properties.
- Queue: three threads on one or two slots fill and empty it with one or two
  callers waiting at either end, and two values tell a wrong order apart. The
  heap block of a small array has room for three pointers at the least, which is
  why the sizes stay below that when the indices of two queues mix
  (`BlockAssumption`, which TLC evaluates on every run).
- Server: two workers put one in a PUT's body and the other at the same lock
  with the mutex or at another file; main, its queue of one place full, waits
  beside them. 4096 locks become two: the first two names have a lock each, the
  third shares the first's and resizes the map, so that wrap, resize and a full
  queue happen; nothing in the code depends on 4096 itself. The names are in one
  chain: in the code more than 4096 names are in at most 101. One file can be
  created, written and read, one is a directory, one is in no directory; a file
  that is denied is to every action what a directory is. Three workers, more files
  and any chains are left to the theorems, which cover every property of this run
  but the progress.
- Cache: five items over sizes up to four evict, return and evict again; seven
  misses go twice round a size of three, clock included.
- List: four nodes have a front, a back and two inner nodes, so that every case
  of every insertion and deletion occurs on either side of the cursor; an index
  of -5 is what clearing a full list under the cursor leaves.
- Memory: 0, 1, 3, 4 and 7 bytes are none, less than a chunk, a chunk, and
  chunks with a rest, against announced lengths on either side of each; a
  pointer of two bytes tells `buff + 1` from the next byte and stays in the chunk.
- SimpleServer: three descriptors are one for a connection and two for files, so
  that two PUTs lose what there is and the third connection finds none; bodies
  of up to two bytes break off, or fail to be written, at the start, in the middle
  or not at all.

Fairness. A thread inside the lock's code goes on when it can and a holder
releases the lock (`Fairness` in `RWLock`, weak fairness of the four actions);
arrivals, spurious wakeups and the choice of the thread a signal wakes are left
free. In the queue, each thread inside a call goes on if it can; semaphores are
not assumed to serve in order, which is why `ItemTaken` and `RoomUsed` speak of
some caller and not of each. In the server, main and the workers do
not all stand still while one of them can go on; that a PUT's body ends is the 5
second timeout that `listener_accept` sets on every connection. No fairness among
the workers is needed because the connections are finite. In `Memory` the
program goes on; that it ends is claimed for finitely many bad writes only
(`MaxFaults`), since a write that fails for ever is tried for ever. In `SimpleServer` main goes on, and reads end by the
client or by the timeout; nothing is assumed of clients.

## 4. What the violations show

1. READERS loses a wakeup: a leaving writer signals writers although readers
   wait; the signalled writer yields to the readers, whom nobody wakes.
2. `in` and `out` are shared by all queues and survive `queue_delete`. With one
   queue, created once, pops give what was pushed, in its order (`queue_fifo`,
   and the theorems `QueueIsABoundedFIFO` and `PopsGiveElements` for every size and
   number of threads).
3. When the 4097th name resizes the map, a PUT's unlock without a mutex may
   miss its name, and the file is locked for ever. Until then a lock is always
   given back (`IdleUntilResized` in `server_requests`, and the theorem
   `IdleWorkersHoldNothing` for any number of workers and files).
4. N_WAY admits a writer beside readers: the code asks for no reader waiting
   *or* none active where rwlock.c:148-149 says "or no reader is currently
   waiting or active", and as nobody ever waits, the writer need not wait for n
   readers either.
5. asgn2 answers 200 or 201 to a PUT that stored nothing, or less than came,
   since main looks neither at what `open` nor at what `put_write` returns;
   io.c:42-45 say that 200 is for success and 201 for a file that was created.

Other behaviour a reader may not expect, which the passing properties state as
it is:

- A GET decides on 404 by an `access()` made before it waited. It may report a
  file missing that a PUT has created and logged meanwhile, but never one that
  was there when the GET came (`LogIsLinearization`); the descriptor that open
  gave is leaked (`DescriptorsClosed` names this path as its exception).
- The clock's hand passes one node only, and the assertion at cache.c:149 then
  fails if the next one was used too (`aborted`); the cache outgrows its size
  (`ClockDrift`).
- Three kinds of calls of the list fail although their preconditions hold
  (`FailuresExplained`): `movePrev` on an empty list ends the program, where
  list.h:43-46 says that it does nothing with an undefined cursor; `moveNext` may
  read through NULL after `deleteFront`, where list.h:48-51 says the same; and
  `freeList` and `isInList` may meet a freed node after `deleteBack`.
- After a short write, a set writes bytes it never read; it only writes enough
  of them (`SetWritesEnough`). A get writes some bytes twice and loses none
  (`GetLosesNothing`).
- A PUT of asgn2 leaves the bytes it passed on, all that came unless a write
  failed, or the file as it was (`PutStored`). asgn2 sends a second response after
  a refusal (`GetAnsweredTruly`), loses a descriptor with every PUT whose client
  closes (`DescriptorsAccounted`), and serves nobody after one with an empty body
  (`AnsweredOrStuck`).

## 5. Proofs

`RWLockProofs` proves about `RWLock`, for every finite set of threads, every
subset of the priorities, every n and every width of the counter (the named
assumptions of `RWLock`):

- `TypesHold`, `CountersHold`, `ExclusionHolds`: `TypeOK`, `CountersAgree` and
  `Exclusion` are invariants.
- `NoLostWakeupHolds`: so is `NoLostWakeup`.
- `WritersImplementReadWriteLock`: the specification implies `Refinement`. A lock
  of another priority that WRITERS may follow had no holder when it was deleted
  (`UnusedWhenDead`), so that the change of priority is a stutter.

The inductive invariant `IInv` is the conjunction of `TypeOK`, `CountersAgree`,
`Exclusion`, `NobodyWaits` (with N_WAY no thread ever sleeps) and
`UnusedWhenDead` (a lock that is not allocated has no users, without which
`rwlock_new` would reset counters under threads).
Neither `Exclusion` nor `NobodyWaits` is inductive alone: the decisions read
counters, and `CountersAgree` is what makes a counter of zero mean an empty set
of threads (lemma `CountersDecide`, from the cardinality theorems of the
library). A step moves one thread, or the caller and the threads it wakes;
`Move`, `Signal` and `Broadcast` say which, `Roles` what that does to the sets of
readers, writers and waiters, and there is one lemma per action. `NoLostWakeup`
is proved on top of `IInv` with sleepers and wakers thread by thread, and the
refinement by showing that an admission is an acquisition, an unlock a release
and every other step a stutter.

`BoundedQueueProofs` proves about `BoundedQueue`, for every finite set of
threads, any queues, elements and finite set of sizes (the named assumptions of
`BoundedQueue`), and any bound on the calls of `queue_new`:

- `TypesHold`: `TypeOK` and `IndicesInBuffer` are invariants. The latter says
  that `in` and `out` are indices of the block behind every buffer, and of the
  buffer itself if all queues are of one size; without it a popped element might be
  of no type. With several sizes it rests on `BlockAssumption`.
- `SlotsHold`: `SlotsAccounted` is an invariant, also where queues share the
  indices: what sharing breaks is the order of the elements, not their number.

And, if `MaxNews <= 1`, that is if a queue is created once, as the file server
does (asgn4/httpserver.c:106):

- `QueueIsABoundedFIFO`: the specification implies `Refinement`.
- `PopsGiveElements`: `PopGivesElement` is an invariant.

The hypothesis is the code's limit and not the proof's: `queue_shared` violates
the second with two queues.

The inductive invariant `IInv` is `TypeOK`, `IndicesInSlots`, `CallsOnAllocated`
and `SlotsAccounted`. `CallsOnAllocated` is there for `queue_new`, which sets the
semaphores as if no call held a slot. `Counts` follows one thread into and out
of the sets of callers that `SlotsAccounted` counts; the semaphore steps change
a counter and a set by one each, the other steps neither. `FIFOInv` adds `Ring`
(in is where the elements end that begin at out, up to a store or a load whose
index has yet to follow, so both indices are below the queue's own size and
nothing rests on `Slots`), `OneQueue`, `Fresh` (before the first `queue_new` the
indices are 0) and `PushesValues`. The ring is read as a sequence in lemmas of
its own (`CellsAppend`, `CellsHead`, `CellsShift`, on remainders by `ModNext` and
`ModShift`). `Alone`, from the mutex's account, says that at most one index lags
behind; `PresentFits`, from the slots' account, that a store never reaches the
slot of an element. A store is then a push, a load a pop, and every other step
of a call leaves the sequence alone.

`FileServerProofs`, with `FileLockProofs` beneath it, proves about `FileServer`,
for any workers, connections, files and chains of the hash map, any number of
locks and any length of the queue (the assumptions of `FileLock` and of
`FileServer`: one lock at least, a size of the queue, `Nobody` no worker and no
connection, and initial files of the known kinds):

- `FileServerTypes`: `TypeOK` is an invariant.
- `AuditLogLinearizes`: so is `LogIsLinearization`, whatever locks files share
  and whether the map is resized or not.
- `DescriptorsAreClosed`: so is `DescriptorsClosed`.
- `PutsAreAlone`: so is `PutsAlone`, with shared locks and a resize as well.
- `IdleWorkersHoldNothing`: so is `IdleUntilResized`, whatever chains and locks
  names share. `server_resize` shows that after the resize a lock may stay held.

The inductive invariant `IInv` has, next to `TypeOK` and the invariant of the
locks, `ConnectionsApart` (a connection is in the queue, with one worker, or
done, and logged once), `PlacesFit` (a worker's place says who has the mutex),
`FilesLocked` (a worker holds its file's lock from the moment it took it),
`PutsOpened` (which PUTs have opened their file),
`FilesAsLogged` (a file that nobody is writing is what the log makes of it),
`PutsInformed`, `GetsInformed` (what a handler learnt and still relies on is
true now, or was at a moment of the log after the request came),
`DescriptorsKept`, and the property itself. The heart is that a line appended to
the log explains its own response and changes no earlier one: of two workers at
one file one excludes the other, and a PUT's line names the only file it
changes. The idle theorem adds that, as long as the map has not been resized
(`Unresized`, which a step can end but not restore, as the capacity only grows), a
lock is held only where it is needed (`HeldAsNeeded`): an unlock misses no name.

`CacheProofs` proves about `Cache`, for any finite set of items, any sizes other
than 0 and any number of misses: `CacheTypes`, `ListsStayWithinSize`,
`MissesAreClassified`, `ClockDrifts`, `FIFOKeepsNewest` (the invariants
`TypeOK`, `SizeRespected`, `MissesClassified`, `ClockDrift`, `KeepsNewest`) and
`LRUKeepsLastUsed` (the action property `LastUsedStays`). `IInv` has one part for
each relation the properties need: the list against the counter (`ListCounted`,
`ClockBounds`), the counters against the history (`CountsSeen`, where every item
missed is in the list or among the removed ones), the list against the last
misses (`HoldsNewest`) and where the item used last stands (`LastKept`). The
clock's part is an equation: from size 3 on, twice the length is the counter
plus the misses, and the drift follows.

`ListProofs` proves about `List`, for any finite heap, any elements and any bound
of `index`: `ListTypes`, `ListStaysLinked`, `CursorKeepsItsPlace`,
`FailuresAreExplained` (the invariants `TypeOK`, `Linked`, `CursorAtIndex`,
`FailuresExplained`) and `ListIsASequenceWithACursor`, the refinement of
`CursorList`. `IInv` is `TypeOK`, `Chained` (the nodes in order are a chain: all
different, all that is allocated, linked both ways between front and back),
`CursorAtIndex`, `Owed` (what a header that is wrong owes to which deletion) and
`FailuresExplained`. The nodes in order, `NodeAt`, are a recursive function:
the proof exhibits a chain that solves its equation and shows by a least
counterexample that the solution is unique (`WalkIsChain`). An insertion puts
a node at a place of the chain and a deletion takes one out, so there is one
lemma each about chains and one for each procedure that says which place; the
same two facts give the steps of `CursorList`.

`MemoryProofs` proves about `Memory`, for any size of a chunk and of a pointer,
any inputs and any number of bad writes: `MemoryTypes`, `FaultlessCopies`,
`SetsWriteEnough` and `GetsLoseNothing` (the invariants `TypeOK`, `CopiesPrefix`,
`SetWritesEnough`, `GetLosesNothing`). `IInv` adds to them what the buffer holds
(`Buffered`: the bytes read last, behind them older ones), where the loops take
their exits (`Control`), and how far the output has come: exactly while no write
went wrong (`Faultless`), as a lower bound once one did (`SetCounted`,
`GetCovered`). A byte may be written several times; `Covered` says that each has
a place with only smaller or equal ones before it.

`SimpleServerProofs` proves about `SimpleServer`, for any finite set of
connections, any files, bodies and number of descriptors: `SimpleServerTypes`,
`DescriptorsAreAccounted`, `GetsAreAnsweredTruly` and `PutsAreStored` (the
invariants `TypeOK`, `DescriptorsAccounted`, `GetAnsweredTruly`, `PutStored`).
`IInv` adds `Control` (which request main's step is for), `Owners` (whose
descriptors are open, and that one is always left to accept with, which is why
`accept` never fails) and `GetsInformed` and `PutsStored`, what was told and
stored up to this step.

Left to TLC. Every safety property, action property and refinement of a passing
run is proved. The progress properties are not: `WritersProgress`,
`ReadersFollow`, `ItemTaken`, `RoomUsed`, `EveryConnectionClosed`, `CommandEnds`
and `AnsweredOrStuck` rest on fairness, and liveness and ENABLED are out of this
prover's reach. So is an induction principle over a predicate; where a proof
needs one (`ListProofs`, `FileServerProofs`), it takes a least counterexample.
The refinement of `BoundedFIFO` is proved under the hypothesis named above, and
`queue_shared` fails without it.

## 6. Not modelled

- In the multithreaded server: a failing `fstat` (on a descriptor just opened;
  it would log 200 and send nothing), the options and the port, the teardown
  that is never reached, a connection of -1 from `listener_accept` (which reads
  as the request BAD); in the hash map, the read of the bucket array after a
  resize has freed it (undefined; the stuck lock needs no such read).
- The internals of the archives: sockets, the parser, the lock and queue the
  file server links with. The file server assumes of its locks what
  `ReadWriteLock` states; `RWLockProofs` shows that asgn3's lock keeps that with
  WRITERS. The server builds its locks with N_WAY and 1: with asgn3's N_WAY they
  would exclude nobody.
- In asgn2: an `open` of a file that is there, or is to be read, that fails for
  another reason than its kind or the descriptors; a header longer than the 4096
  bytes of its buffer, text in front of the request line, an invalid port, a
  listener that could not be made.
- In asgn1: content lengths that do not fit an int; a set that announces 0 makes
  an array of no elements, which is taken for an empty buffer.
- In the list: calls outside their preconditions and on a NULL list, which print
  and exit.
- Text: messages, header parsing, printing of lists and caches.

## 7. Plan

Done: (1) `RWLock` with its abstract lock and proofs, (2) `BoundedQueue` with
`BoundedFIFO` and the proofs about its slots, (3) `FileLock` and `FileServer`,
(4) `Cache`, (5) `List` with `CursorList`, (6) `Memory`, (7) `SimpleServer`.

(8) Proofs of every safety property, action property and refinement that a
passing run checks.

Next:

9. Sharper theorems where the hypotheses allow it: `QueueIsABoundedFIFO` for a
   queue that is created again at a moment when `in` and `out` agree and lie
   within it.
10. Lemmas towards the progress properties that are safety facts: that some step
    of a thread inside a call of the queue is always possible, unless all pop
    from an empty queue or push onto a full one.
