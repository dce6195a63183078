# A TLA+ verification of the hash-reversal server

The repository is a TCP server that answers requests "which number between
`start` and `end` has this SHA-256 hash?".  One thread runs an epoll loop; a pool
of workers searches blocks of the requested ranges.  Everything that makes it
fast makes it concurrent: workers claim blocks with atomic increments from jobs
that the main thread allocates, publishes and deletes, and the locks, wakers,
freelist, heap, ring buffer and allocator underneath are hand-written.  This
directory models that concurrent core, checks it with TLC and proves most of its
safety with TLAPS.  Paths below are relative to `src/src/`.

## 1. Inventory

| component | state | operations | interacts with |
|---|---|---|---|
| spinning read-write lock, `bits/spin.c` | one word: writer bit and reader count | rdlock, rdunlock, wrlock, wrunlock | `rlock`, `wlock` of the priority scheduler, locks of the others |
| priority scheduler, `scheduler/sched_priority.c` (the default) | freelist of jobs, two heaps of slot indices (published, edited), one private heap per worker, `job_id` | submit, cancel, schedule, enter and leave job, worker loop | locks, freelist, heap, base, cache, reversal |
| scheduler base, `scheduler/scheduler.c`, `bits/futex.c`, `server/worker_pool.c` | `waker`, `running`, recipients | wake, yield, close, notify, create and join the pool | called by every scheduler and by the server |
| freelist, `bits/freelist.h` | slots, stack of free indices, capacity | init, insert (grows), remove | priority scheduler |
| priority heap, `bits/priority_heap.c`, `bits/vec.h` | array of (element, priority) | insert, remove at index, get and extract max, copy | priority scheduler |
| cache, `cache.c`, `bits/ringbuffer.h` | radix tree, ring of pending entries | get, insert pending (workers), process pending (main) | schedulers |
| radix tree, `bits/radix_tree.c` | tree of branch nodes of three sizes with compressed prefixes | insert, get | cache |
| page allocator, `bits/page_allocator.c` | lock-free free list, list of all pages | alloc, free, destroy | exercised by `experiments/misc.c` only |
| random scheduler, `scheduler/sched_rand.c` | ring of pending jobs, list of jobs with the sum of their priorities, a cursor, one mutex | submit, cancel, schedule, worker loop | ring, base, cache, reversal; chosen at compile time |
| linked-list scheduler, `scheduler/sched_linked_list.c` | linked list of jobs, block counter and done flag of each; no lock | submit, (empty) cancel, worker loop | base, cache, reversal; chosen at compile time |
| epoll server, `server/epoll.c`, `server/server.c` | epoll set, batch of events, stop flag; the kernel's connections and descriptors | poll, accept, consume request, exit; signal handler | submits to the scheduler; workers close its sockets |
| reversal, `sha256/reverse.c`, `sha256/x4/reverse_*` | the candidates of the group | search a block in groups of one, four or eight candidates | workers |
| SHA-256 implementations, `sha256/x1`, `x4`, `x4x2`, `x8` | message schedule, working variables | hash one, four or eight inputs | reversal |
| protocol conversion, sort, prng | none | pure functions | server, benchmarks |

### Hard behaviours, and what correct means

* **Lock.** Readers exchange a word they loaded earlier.  Correct: a writer is
  never inside with anybody else; the word is exactly the holders; when somebody
  spins, somebody gets in.
* **Priority scheduler.** Main swaps heaps while workers copy them; jobs are
  deleted and slots reused while workers hold old copies; a claim is a
  `fetch_add` followed, outside any lock, by a reference count; the reused slot
  is written without a lock.  Correct: slots are neither lost nor handed out
  twice; a worker never forgets a live job; no block is searched twice; a job is
  deleted only when all its blocks were handed out; a client gets one reply, the
  preimage of its own hash; every solvable request is answered.
* **Wakers.** A wakeup may fall between the last look at `job_id` and the wait.
  Correct: nobody sleeps through a job or a shutdown; the shutdown ends.
* **Heap.** Removal from the middle of the array while a loop runs over it.
  Correct: always a heap, never loses a node, the loop finds every complete job.
* **Ring.** Written for one producer: that is how the random scheduler uses it; the
  cache's is pushed to by all workers.  Correct: values come out once and in order,
  and only a full ring drops one.
* **Random scheduler.** Main pushes while a worker drains; the cursor points into a
  list from which jobs are removed by swapping, also by other workers.  Correct: the
  cursor stays inside, no candidate of a job is lost, every client gets a reply.
* **Linked-list scheduler.** Workers walk the list while main changes it, and set done
  flags that main and the other walkers read.  Correct: no job leaves the list
  before it is done, every client gets a reply, the shutdown ends.
* **Page allocator.** The exchange that pops compares a pointer, not the link.
* **Radix tree.** Insertion splits edges, grows branches through four sizes and
  frees nodes whose parent it must find again.  Correct: the tree is a map; each
  node and string is owned once; a lookup finds exactly what was inserted.
* **Epoll server.** Requests may arrive in parts; workers close descriptors, and
  accept reuses their numbers, while main is in the middle of a batch of older
  events.  Correct: a reply reaches the connection that asked; a client that waits is
  not given up for an older event of its number or by a worker that closes; a request
  that arrives whole is answered; a signal stops the server.
* **SHA-256.** Seventeen functions compute the same rounds in different orders, with
  folded constants, rings of slots and rotated scratch registers, four or eight
  inputs at a time.  Correct: all agree with the plain version after every round;
  a search never drops a group that holds the answer.

`PROJECT.json` lists each hazard with its line and the property aimed at it.

## 2. Modules

```
RWLockSpec <- implements - SpinRWLock                  (PrioritySchedulerProofs)
    | the locks that PriorityScheduler takes
    v
SchedulerBase   (requests, recipients, wakers, cache: no next-state relation)
    ^ EXTENDS
    +-- PriorityScheduler                              PrioritySchedulerProofs
    |       heap = set of nodes: HeapSpec <- implements - PriorityHeap
    |                                                  PriorityHeapProofs
    +-- RandScheduler                                  RandSchedulerProofs
    |       INSTANCE PendingRing - implements -> FifoSpec
    +-- LinkedListScheduler                            LinkedListSchedulerProofs
cache = set of answers: MapSpec <- implements - RadixTree
                                                       RadixTreeProofs
search = finds the answer of a block: Sha256Hash       Sha256Proofs
                                      EXTENDS Sha256Words
EpollServer   (around an abstract scheduler that answers a recipient at most once)
                                                       EpollServerProofs
PageAllocator                                          PageAllocatorProofs
```

An `MC*` module gives each specification its instances for TLC.  Operators whose
comment begins with *Mutant* are deliberately wrong variants; each stands for a
plausible bug and shows that a property is able to fail.

**SpinRWLock** has one action per atomic operation on the lock word, for any
number of threads, and the mask as a constant (2^31 in the code).  A failed
writer attempt changes nothing and has no action.  `at` says where a thread is, `loaded` is the
local `e` of `spin_rwlock_rdlock`.  **RWLockSpec** is the lock as
its users think of it: a set of readers and at most one writer.  The mapping
takes the threads in the critical sections.

**SchedulerBase** is what the three schedulers share: the requests and their
assumptions, the search of a block (`Searched`, `Reverse`), `Notify`, the wakers
(`WakeWorkers`, `SeesWakeFrom`) and the cache (`AnswerFromCache`, `MissCache`,
`InsertPending`).  It declares the variables of `struct SchedulerBase`, of the cache
and of the clients; each scheduler adds its own and puts the operators into its
actions.  Three abstractions are made here, for all schedulers:

* a hash is its unique preimage, so hashing a candidate is comparing it;
* the ring of the cache is the set of entries in it.  One push at a time appends;
  when pushes overlap, any of the entries may be lost and key and value of two may
  be mixed (a data race in the source, hence nondeterministic);
* each client sends one request; every schedule of arrivals is allowed.

**PriorityScheduler** is the core.  An action is one atomic access or one critical
section that nothing shared can separate.  Main (`mpc`) goes `idle` -> `insert`
(cache looked up, recipient created) -> [`tear`] -> `cleanup` -> `idle`; or
`close` -> `join` -> `stopped`.  A worker (`pc`) goes `loop` -> `copied` -> `pick`
-> `claimed` -> `enter` -> `search` -> `loop`, or on through `mark`, `notify` and
`cache`; or `wait` -> `yield` -> `asleep`.  `rlock` is held for reading at
`claimed` and `mark` and `wlock` at `copied`; `RlockFree` and `WlockFree` are
what a writer waits for.  The variables have the source's names; `task` holds a
worker's locals.  What is abstracted:

* a heap is a set of nodes and its root any maximal node; **PriorityHeap** has the
  array and is shown to implement that set (**HeapSpec**), including the two
  effects a removal has on the running cleanup loop (one node skipped, one
  visited again), which `CleanupRemove` has too.  So the loop may leave a job that
  was complete before it began; a later submission deletes it;
* the write of a free slot that a worker still refers to is a data race: some
  fields (any subset) are written at one time and the rest later.

History variables: `handed` (blocks handed out per client), `slotRaced` (a slot
was overwritten under a worker that referred to it), `ringRaced` (two pushes
overlapped), `usedFreed` (a freed recipient was used).  The properties about
answers, blocks and deletion are stated for behaviours without these races,
because with them the source promises nothing (section 5 shows what happens);
`SlotAccounting`, `WorkersKnowLiveJobs` and `TypeOK` hold with the races.

**PendingRing** has one action per load or store of `ringbuffer_push` and
`ringbuffer_pop` that the other thread can see, and the loop that both users write
around the pop: it stops at the head it read first.  One producer and one consumer
overlap freely.  A full ring drops the value without a word (`PushDropped`).  The
mapping to **FifoSpec**, a bounded queue from which a value is taken and its place
released in two steps, lists the values from the tail to the head; the ring has one
place less than its array.

**RandScheduler** instantiates the ring and runs its steps inside its own actions.
Main goes `idle` -> `push` -> `wake` -> `idle`.  A worker takes the mutex (`loop` ->
`drain`), moves the pending jobs to the list one by one, and at `pick` either takes a
block of the job under the cursor (`Schedule`, with any offset the generator may
give) or, before that, finds the list empty and waits; it then searches, removes the
job (`Cancel`, under the mutex again), notifies and caches.  The mutex is held at
`drain` and `pick`.  `CursorAfter` is the loop that walks the cursor over the
priorities, `RemoveSwap` the removal and the reset of the cursor, `NextStart` the
bound of a task with its sum at the width `U64`.  `handed` (history) has the
candidates given to workers.

**LinkedListScheduler** has one action per access to shared memory.  Main walks past
unfinished jobs (`PassUnfinished`), makes the first finished one the head
(`SetCurrent`), and puts the new job in front of the first one of larger priority
(`Link`).  A worker goes `start` -> `next_job` -> `search` -> `notify` -> `cache`, or from
the end of the list to `yield` and `asleep`.  `Circle` is the `goto next_job` of a
worker that has found no block left in a job that is not done.  `lost` (history) has
the jobs that `SetCurrent` took off the list.

**PriorityHeap** translates the array algorithms (`shift_up`, `shift_down`,
insert, remove, extract), their loops as functions of the rounds left, and the loop of
`sched_priority.c:124-136` over the array, while jobs become removable at any
moment.

**PageAllocator** has one action per load, store or exchange of the allocator.
A weak exchange may fail without reason.  `aba` records that an exchange
succeeded although the link it installs is no longer the page's link.

**RadixTree** runs in the main thread only, so a call is one step.  The nodes are in
one store, `mem`, from indices to records (`edge`, `branch4`, `branch8`,
`branch16`, `full`, `leaf`), and refer to each other by index as in the code;
`strings` counts the heap buffers of strings that do not fit into their edge.
`Walk` is the loop of `_radix_tree_insert` as a function of the rounds done: a place is a
node, the nibbles consumed and the recorded path (`PushPrev`), and `Onward` goes to the next one
(`OverEdge`, `OverBranch`) as long as nothing has to be changed.  `At` is what happens where it stops:
`AtEdge` with the `Split*`, `AtBranch`, `ReplaceLeaf` or `InsertHere`.  `SetPrev` climbs back
along the path, one entry per round (`Climb`).  `KeySize` is the length of the longest key, which
bounds the depth of the tree and with it the rounds of a lookup.  A pointer into a store that was
reallocated has no counterpart (a hazard).  `Get` returns the set of possible
results, because a lookup whose key ends at a branch of 16 reads one nibble past
the key.  **MapSpec** is the promise: the last insertion, and nothing else,
changes the map.

**EpollServer** has three sides.  The kernel: `conn` (what each peer sent, what was
read, how it ended), `fds` and `watched`; `Ready` is what a level-triggered
`epoll_wait` would return.  The clients: `Connect`, `Arrive` (some of the bytes),
`Leave` (a FIN or a reset).  The server: main goes `test` -> `enter` -> `waiting` ->
`batch` and handles the events in any order with what was ready when they were
collected; a worker sends (`Answer`) and then closes (`CloseReplied`) in two steps;
`Signal` sets the flag at any moment and interrupts a wait.  `Received` is the
result of `recv`, `-1` included.  A closed descriptor leaves the epoll set, and
`Accept` takes the lowest free number.  Of the scheduler only the promise is kept
that a recipient is answered at most once.

**Sha256Words** has the 32-bit words, as sets of bit positions: sums by their
carries, shifts, rotations, the six functions and the constants.  **Sha256Hash** has
the versions, each a record: lanes, words made before the first round, slots of
memory, where `w[i-2]` is read, and whether constants are folded.  One step is one
word, one round, or both where the code fuses them.  `Two`, `ScratchAfter`, `Slot`
and `Word*` say where each word comes from and goes; `Partial`, `WordOffset`,
`FoldedConstant` and `FirstVariables` are the folded sums of the assembly, with
the constants of its table; `LowOf` and `HighOf` are the lanes of the shuffles.
Some versions leave the order of a sum to the compiler: sums are compared, not
their order.  `plain` runs `sha256_custom` in step on the same inputs and is what
the others are compared with; `raw` is the hash of each input.  The searches go on
from group to group: `KeepGroup` and `DropGroup` are the early tests, `Predicted`
the value that the target implies for them.  The targets of the run are hashes of
candidates and near misses, which pass an early test or fail in two words only.

## 3. Runs

| run | question | instance | distinct states |
|---|---|---|---|
| `spin_lock` | exact word, implements RWLockSpec, no livelock | 3 threads, fair | 4 thousand |
| `priority_two` | no block twice, right answers, one reply, references held | 2 workers, 2 overlapping requests of 2 blocks, all three wakers | 2.4 million |
| `priority_reuse` | slot accounting, deletion, forgotten jobs, types | 1 worker, 3 requests of 1 block, one cancellable, one repeated, all wakers | 1.5 million |
| `priority_live` | answers, shutdown, no stranded worker | 2 workers, 2 requests, futex waker, fair | 177 thousand |
| `priority_heap` | heap order; implements HeapSpec | 5 elements, 3 priorities | 19 thousand |
| `rand_scheduler` | cursor in the list, no candidate lost, the ring is a queue, who is answered twice and who never | 2 workers, 2 requests of 2 tasks, rings of 1 and 2 places, all wakers, fair | 98 thousand |
| `linked_list` | no job lost by an insertion, answers, shutdown | 2 workers, 3 requests of 2, 1 and 0 blocks, all wakers, fair | 501 thousand |
| `page_allocator` | exclusive pages, complete list, nothing lost | 2 threads, 3 pages, 2 held each | 3 million |
| `radix_tree` | shape, ownership, lookups; implements MapSpec | 8 keys of 2 and 4 nibbles, 2 values | 7 thousand |
| `epoll_server` | descriptors, replies, no waiting client given up, answers, stop | 3 connections, 2 descriptors, fair | 642 thousand |
| `sha256` | every version equals the plain one; every search is right | 11 inputs around 2^32, 35 calls | 4 thousand |

One more run, `priority_lost_wakeup`, expects a violation and belongs to section 5.

**Bounds.** The block size is 2 and the lanes 2, so that a block is one group of
candidates and the ranges have one or two blocks with a partial last one
(`end - start + 1` even and odd offsets).  The initial capacity is 1, so that the
second request grows the freelist and the third reuses a slot: growth, deletion,
reuse under a worker with an old copy, torn writes and the cache hit of the
repeated request all occur.  Two workers are what it takes for two claims of one
block, two pushes, or a claim against a deletion.  `RcModulus` is 16 in place of
2^32: the counter never gets near either.  Five heap elements give a tree of
three levels, in which a removed node's replacement can move up or down.

The random scheduler has blocks of 4 and requests of 9 values, so that each has two
tasks with one value in common; the answer of one request is that value, the other's
is inside a task.  Priorities 0 (taken as 1) and 2 give the cursor offsets within a
job and across jobs.  A ring of two entries has one place: the second submission
finds it full or empty, depending on when a worker drains it.  In the linked list the
second request is put in front of the first, the third between the two, and the third
has no block.  The first two ask for the same hash, so that the cache answers one of
them in some behaviours.

With three pages and two threads one thread can pop, keep and push back two pages
during the other's exchange.  Integers are unbounded in the scheduler's model; the sums that
could overflow 64 bits need a range end near 2^64 (a listed hazard).

The radix tree has four nibbles in place of 16, and branches of 2, 3, 4 and 5
entries in place of 4, 8, 16 and 17, so that eight keys grow a branch through all
sizes; strings longer than 2 nibbles in place of 12 have a buffer.  Its keys
include prefixes of each other.  `VIEW IndexFree` identifies trees that differ in
the numbers of their nodes and in the history `last`; `RefinesMap` is evaluated on
every step, also into states already seen.  In the epoll server a request is two
units in place of 49 bytes, which can arrive together or apart; the third
connection needs a descriptor number that a worker has closed.  Clients send one
request each, as those of the repository do.  The SHA runs have the real width of
32 and 64 bits and all 64 words and rounds; eleven consecutive inputs cross 2^32, so
that carries and both halves matter, and searches end with a hit in the first or a
later group, a near miss, or nothing; one has an empty range, which only
`reverse_sha256` tests before its first hash (`EmptyRange`).  Since the rounds have no branches that
depend on data, an error in a constant, a slot or a register shows on nearly any
input.

**Deadlock** is checked in all runs but six.  `priority_two`, `priority_reuse`,
`priority_lost_wakeup`, `rand_scheduler` and `linked_list` include the
condition-variable waker, with which the system really can stop for ever (and idle
workers of the random scheduler never look into the ring); in `epoll_server` the model
comes to rest when every client has been served and no signal comes.

**Fairness.** `LiveSpec` of the scheduler assumes weak fairness of main's
submission and shutdown steps and of each worker: threads are scheduled by the
operating system, and a spinning lock acquisition succeeds in the end.  The
second part is more than the lock guarantees to one thread (a reader-preferring
spin lock can starve a writer in theory); critical sections here are short and
workers spend their time outside them.  Arrivals, cancellations, the stop signal
and spurious wakeups are not fair: they may never come.  `LiveSpec` of the random scheduler assumes only that
main's steps and each worker's are scheduled: its mutex may be taken by others again
and again, and the property holds all the same, because workers that do so use
blocks up.  So does `LiveSpec` of the linked-list scheduler, which has no lock.  `LockLiveSpec`
assumes weak fairness of each thread that is spinning or inside; the property
shown live is that *somebody* gets in.  `LiveSpec` of the epoll server assumes weak
fairness of main and of the workers; clients, signals and failing accepts are
free.

## 4. Proofs

`PrioritySchedulerProofs` (any sets of workers and requests, any block size,
capacity, number of lanes, set of wakers), in nine layers.  The first three:

1. `Typed`: `TypeOK` and `NodesWritten`.  A claim reads the request of the job
   behind a node; free slots have none.  So types need the fact that every node
   in any heap, and every node a worker works with, belongs to a slot that has
   been written; slots are never erased, and a torn write mixes two written jobs.
   Result: `TypeCorrect`.
2. `SlotInv`: `SlotAccounting` and "the cleanup visits only nodes of the heap it
   edits".  Growth, insertion, cleanup and publication each move indices between
   the free ones and the occupied ones (`SlotsAdded`, `SlotTaken`, `SlotFreed`,
   `SlotPublished`).  Result: `SlotsAccounted`.
3. `KnowInv`: `WorkersKnowLiveJobs` with three strengthenings.  `IdsPending`: the
   job being written has the next id, also when the write is torn.
   `IdsRecorded`: nobody has recorded an id above `job_id`, and a worker that is
   about to record one has exactly the published heap.  `ClaimsBehind`: a claimed
   block of a job the worker has recorded lies before the job's next block or the
   job is done, so dropping it drops nothing live.  The unlocked write is
   harmless here because, by layer 2, the slot is not that of a published job.
   Result: `LiveJobsKnown`.

A job is read in several steps while main writes free slots without a lock, so the layers
that follow hold, but for the last and like the properties themselves, until a slot is
overwritten under a worker (`~slotRaced`).

4. `KeptInv`: a worker works on a node of its own copy of the heap; a write is torn
   only when somebody refers to the slot.  `JobInv`: one slot per client and per id,
   clients who have not been submitted are in no slot, and what was handed out of a
   job lies behind its next block (`HandedBehind`).  This is the link between
   the history `handed` and `block_idx` without which nothing follows about blocks.
   Result: `BlocksOnce`.
5. `HashInv`: a worker keeps the hash it searches for as long as the id of the job
   stays the same (`sched_priority.c:215`), so the proof has to carry that no slot has
   that id with another hash (`HashCached`, which needs that ids are unique, layer 4);
   from the search on the worker has the recipient and answer of its own job
   (`AnswerCarried`); entries of the cache pair a key with itself (`EntriesRight`),
   unless pushes overlapped.  Result: `AnswersRight`.
6. `CarryInv`: who carries which block (`BlockCarried`, `CarriedOnce`), and a client that
   was answered was answered from the one block that holds its answer, which nobody
   carries any more (`Served`).  A second worker can then not find the answer.
   Result: `RecipientsUsedOnce`.
7. `RefInv`: the count of a slot is the number of workers inside its job plus one when
   its client was answered; the counter wraps at `RcModulus`, so it has to have room
   for all of them.  Result: `RefsAreHeld`.
8. `HandInv`: while the client of a job waits, its block index has passed only blocks
   that were handed out; the cleanup removes a job whose count is 0, which by layer
   7 has not been answered.  Result: `DeletedAfterHandout`, an action property.
9. `FutexInv`, by itself: with the futex, the word is not 0 from the first job or the
   stop on, because nothing resets it.  Result: `NobodyStranded`.

The last section of the same module, which extends SpinRWLock too, is about the lock under all of
this, for any finite set of threads that the mask is larger than.  The inductive invariant,
`LockInv`, is that the word equals the readers inside plus the writer bit (`LockWord`), together
with the types and `MutualExclusion`, which alone is not inductive because an exchange knows
only the value it loaded.  Results:
`LockExcludes`, `LockWordCounts` and the refinement `LockRefinesSpec`.  The proofs of the scheduler do not
use them: there the lock is the guard `RlockFree` or `WlockFree`, which is what **RWLockSpec** promises.

`PriorityHeapProofs` (any jobs and priorities).  `HeapInv`: the array holds distinct nodes, in the
order of a heap.  An insertion breaks the order between one place and its parent only, a
removal between one place and its children or its parent; `AlmostUp` and `AlmostDown` say so,
together with what has to hold across the broken place (its children against its parent),
without which a single exchange restores nothing.  `Rise` and `Sink`, the bodies of the two loops, keep
them and move the place; each leaves the set of nodes as it is (`Exchanged`).  The loops are functions
of the number of rounds left: `RoundsExist` shows by a least counterexample that there is
such a function, and `UpLoop` and `DownLoop` carry what a round keeps through all of them, to a
place where the loop stops because the order is whole.  `remove` raises a node to the largest
priority and extracts it, so the lemmas speak of nodes with one priority more (`Boosted`).
`ReplacesOne` is what an extraction does to the part of the array that the cleanup has yet to visit: one
node may come in and one go out, which is what **HeapSpec** allows.  Results: `HeapStaysOrdered` and,
one step of `HeapSpec` per operation, `HeapRefinesSet`.

`RandSchedulerProofs` begins with the ring (any size, any set of clients).  `RingInv`: while the
producer is between its test and its store of the head, the place at the head is free and, in
the end, holds the value (`PushInv`); the consumer never passes the head it stops at
(`DrainInv`); and every place from the tail to the head holds a value (`StoredInv`).
The last needs the first two, and all need the remainders of the macros as case
distinctions (`Remainders` to `TailMoves`), since the solver does no arithmetic of %
with a variable modulus.  `RingStep` has one step per action, `StepRefines` maps each
to a step of the queue.  Result: `RingIsAQueue`.

The ring is then carried into the scheduler: the steps of `Spec` are, for the ring's variables, steps of the ring (`RingSteps`), because main pushes only
clients (`SubmitsClient`).  Result: `PendingJobsQueued`.  That there is only one
consumer is how the model is built: the drain has one set of local variables since
it lies inside the mutex.  The other results rest on `Places`: types, the mutex
(`LockInv`), and that a job is in one place at a time, with main, in the ring, with
the drain or once in the list.  On it are built

* `StartInv` (a job starts within its range) and `RestInv`: each candidate is handed out,
  or comes, or is in the list behind its job's start.  Result: `RangesAccounted`.
* `BlockInv` (a job starts at the first value of a block) and `OnceInv`: an answer that
  is not at a seam is found by one worker at most, and by none when its client has been
  answered; and then nothing is left of the range that holds it.  Result:
  `AnsweredTwiceAtSeam`.  `Seam` reaches `LANES - 1` values past the end of the range,
  as the last group does; the proof does not go through without them.
* `CursorInv`: `CursorInBounds`, with `priority_idx` a number.  The sum of the priorities is
  a recursive function; that it exists, is unique and changes as jobs are added,
  swapped and dropped (`SumsExist` to `SumAround`), and that the walk of the cursor
  ends at a job (`CursorMoves`), is shown by a least counterexample, because the
  provers cannot instantiate an induction.  Result: `CursorStaysInBounds`.

`LinkedListSchedulerProofs`.  `Inv` says that there is a sequence of clients whose links are
those of the list (`IsList`), sorted, and where main is in it: while it walks, at some
place of the sequence; once it has cut the front off, at its head; and its new job is
in it only after `Link`.  `ListFromIs` shows that what the model computes by
following the links is that sequence, which takes that it is no longer than
there are clients; `RestOfList`, `InsertInList` and `BeforeIs` are the cut, the insertion and
the search for the place.  Result: `ListStaysWhole`.

`PageAllocatorProofs`.  `IsList` and the lemmas about it (`KeepList`, `PushList`,
`PopList`) treat both stacks as sequences of pages.  `AnyInv`: the list of all pages is a
sequence of the mapped pages without those being recorded; it only grows, so a stale
link does it no harm, and it holds after an ABA as well.  Result: `DestroyUnmapsAll`.
`FreeInv`, until the first ABA: the free list is a sequence of the mapped pages that
nobody owns, no page has two owners, and the link of a page about to be pushed is the
head its owner loaded.  Results: `ExclusiveBeforeStale`, `NoneLostBeforeStale`.

`EpollServerProofs`.  `Inv` follows a connection through its descriptor: descriptors stand for
different open connections (`FdsOpen`), the descriptor of a recipient for the one that
asked (`Asked`), whose request has been read as a whole and once (`Counted`) and has no
reply yet (`Replied`).  Main never closes a descriptor of a client that has left,
and this is what the invariant needs.  `Kept` adds that an event with a hang-up reports
input too, so that the removal from the epoll set (`epoll.c:95`) is not reached, and that
a descriptor about to be closed is of a client that has its reply or has gone.  Results:
`RecipientsHoldDescriptors`, `RepliesReachTheAsker`, `WaitingClientsAreKept`.

`Sha256Proofs` (all inputs, all words), in five layers:

1. *Words.*  A word is a set of positions and a sum is defined by its carries.
   `CarriesRipple` shows that the carries are the ones that ripple from position to
   position, by a least counterexample, and `SumFrom` that no other set ripples.  From there sums are
   an abelian group at any size (`SumComm`, `SumAssoc`, `SumZero`, `SubInverse`; 32 bits in
   the rounds, 64 in the candidates), which is all that reordered sums need.
2. *Folded sums.*  `ShortWords` are the words 16 to 31 without the zeros of the block;
   `FoldedWordRight` and `FirstRoundsRight` are the assembly's constants.  What is left of them
   are equations between constants (`FoldedSums`), which TLC evaluates.  One of them is
   not what it seems: `0xb2d5ee51`, from which the hash function subtracts to have `~e`, is the complement
   of `0xcd2a11ae` but for the highest bit, and `H[5]`, with which the result is
   masked, does not have that bit (`NotSumButOneBit`).
3. *Layout.*  `Shape` has what the proof needs to know of a version; all seventeen have it.
   `HashInv` ties the counts of words and rounds, the slots (`HeldIn`: the last sixteen words,
   and the block where it is stored), the scratch registers (`ScratchIn`) and the
   variables of each lane to the plain version's.  `SlotsDiffer`: sixteen words in a row
   never share a slot.  `RegistersAgree` alone is not inductive, since the next word may
   come from any slot.  Results: `SameRegisters`, `SameWindow`.
4. *Hashes.*  `Traced` says that words and variables are on the way from an input's
   block to its hash, and `OneTrace` that there is one such way.  So what a version ends with is
   what `sha256_custom` had, lane by lane (`LaneOrder`).  Result: `SameHashes`.
5. *Searches.*  `Back` undoes a round (`BackRight`), hence what the early tests look at
   after round 56 or 60 follows from the target (`LastRounds`, `TestPassed`).  Candidates
   are ordered (`LeqTransitive`) and the next one is the sum with one (`NextInOrder`), so a group that
   goes by takes no candidate along that was not tried (`PlusBelow`).  `SearchInv`: no input
   before the group has the hash.  Result: `SearchesRight`.

`RadixTreeProofs` (any keys, values, number of nibbles and branch sizes), in five parts:

1. *The invariant.*  `Inv`: there is a labelling `P` of the nodes by the nibbles that lead to them, and a map
   `M` from keys to values, such that the store is a tree with these labels whose leaves hold `M`
   (`Keeps`).  None of the checked invariants is inductive: an insertion is right only because it
   writes to the place that stands for the key, which takes labels.  The label of a node is that of the
   node above and the nibbles between (`Extends`); it grows along every pointer but
   those to immediate leaves, so there are no cycles, and `Tied` says that nothing is shared.
2. *Steps within a call.*  In the middle of a call the store is a `Forest`: `X` are the nodes about to be removed, `R`
   those that nothing refers to yet, `H` the pointers about to be overwritten.  `ForestLeaf`,
   `ForestPrepend`, `ForestPair`, `ForestDetach`, `ForestGiveUp`, `ForestRemove`, `ForestGrow` and `ForestReplace` say how a
   creation, a removal or an assignment changes the three; a node that is leaked, freed twice or
   referred to twice would stay in one of them.  `ClimbLoop` does this for `SetPrev`: each branch
   that grows is a new node, so the pointer to it has to be written one step further up, and
   the climb ends at an edge, at the root or at a branch with room.
3. *The ends of a call.*  `EndHere`, `EndFirst`, `EndBoth`, `EndOld`, `EndNew`, `EndBranchEdge`, `EndBranchLeaf` and `ForestReplace` are the
   eight ways in which an insertion ends.  Each leaves `X`, `R` and `H` empty and `M` with the new
   value under the key.
4. *The walk.*  `Standing`: the node at which the walk is has the consumed part of the key as its label, and the last
   entry of the path is the place that refers to it; every round consumes a nibble or ends
   at an immediate entry, so that `Walk` has enough rounds (`WalkEnds`).  `WalkReaches`: when the key is in
   the tree, the walk stays on the way to its leaf, which is why an insertion replaces the value
   and does not add a second leaf.  Results: `TreeTypeOK`, `ShapeKept`, `NodesOwnedOnce`.
5. *The map.*  `ContentsAre`: the leaves found level by level are those of `M`.  That requires every path to be no
   longer than a key, which follows from there being a leaf below each node (`LeafBelow`, by a node
   from which the fewest nodes can be reached).  `GetFinds` and `GetMisses` follow a lookup: to the leaf of its
   key, and, for an absent key of full length that extends no stored one, away from every leaf, also when a branch
   of 16 reads a nibble behind the key.  Results: `TreeRefinesMap`, `LookupsAreRight`.

Every proof uses the assumptions of the modules' constants (`RequestAssumption`,
`SizeAssumption`, `LanesAssumption`, `WakerAssumption`, `RandAssumption`, `BlockAssumption`,
`ServerAssumption`, `ThreadsFinite`, `MaskAssumption`, `KeyAssumption`, `CapAssumption`, `CallAssumption`, `FoldedSums`; `RingAssumption` for the ring by
itself, which the scheduler's proof establishes for its instance; `PagesAssumption`:
there is a thread; `ClientsAssumption`: the clients of the linked list are finitely
many, as the jobs in a memory are).  The code does not reject a request with `end < start`; `RequestAssumption`
excludes it.  Some theorems have a hypothesis besides, each one met by the
instances of the runs named in section 3:

| hypothesis | theorems | why |
|---|---|---|
| `RangesUnaligned`: no `end - start` is a multiple of the block size | `BlocksOnce`, `DeletedAfterHandout` | otherwise the last block is not counted and may be claimed twice (section 5) |
| `AnswersCounted`: the answer is not in the block after the counted ones | `RecipientsUsedOnce`, `RefsAreHeld`, `DeletedAfterHandout` | the same; it follows from `RangesUnaligned` when no hash is that of a value behind its range (`UnalignedAnswersCounted`) |
| `LanesFit`: the lanes divide the block size | the same three | 4 and a power of two in the code; otherwise a search reaches into the next block |
| `RefsFit`: fewer workers than the counter counts, less one | `RefsAreHeld`, `DeletedAfterHandout` | 2^32 in the code |
| `WakerTypes = {"FUTEX"}` | `NobodyStranded` | false for the other two wakers (section 5) |
| `OneRequest` | the three of the epoll server | a second request makes a second recipient (section 5) |
| `[]UpperWordsAgree`: eight inputs hashed side by side have the same upper word | the four of `Sha256Proofs` | otherwise halves of two inputs meet in a lane (section 5) |
| `[]GroupsKnown`: the candidates a search tries are inputs of the run, and none is 0 or 2^64 - 1 | `SearchesRight` | `raw` has the hashes of the inputs only; 0 stands for no answer, and after the largest number the search starts over and does not end |
| `RangesFit`: no range ends less than a block below 2^64 | `AnsweredTwiceAtSeam` | otherwise the sum wraps, and blocks are searched again (section 5) |

The inductive invariants of layers 4 to 8, of the heap, of the random and the linked-list
scheduler, of the page allocator and of the hash functions held in TLC on the instances of section 3 before they were proved
(`HandInv` in a slightly weaker form), as did the two hypotheses about the hash
functions; those of the epoll server and of the radix tree were only proved (the latter begins
with a choice of labels and a map, which TLC cannot enumerate).

Only proved, not run: `MutualExclusion` of the lock (`LockExcludes`; the refinement,
which the run checks, implies it) and the types of the radix tree (`TreeTypeOK`).

Only model-checked: liveness (outside the prover's reach, as is ENABLED).  Every invariant and action
property of the runs, and every refinement, is a theorem, some under a hypothesis of the table.
Induction over data is out of reach too: where a loop is a function of its rounds, a least
counterexample takes the place of the induction, and this is how the heap, the carries, the
cursor and the radix tree are done.

## 5. Where the code does not do what it says

The run that expects a violation:

* `priority_lost_wakeup`: with the default condition
  variable the worker leaves `wlock` before it waits, and the broadcast takes no
  mutex.  A job (or the stop) announced in between wakes nobody; at shutdown
  main then joins a worker for ever.  With the futex waker (`priority_live`) the
  word stays set after the first wake, so this cannot happen (workers then
  spin in place of sleeping).  The other two schedulers use the same waker in the
  same way; their liveness is stated for the futex, or excepts waiting workers.
  The spinning waker loses wakeups too: a worker that has decided to yield adds to the
  word after main has set it to 0, and spins from there; and another worker's
  yield raises the word again before a sleeper has looked at it
  (`scheduler.c:50-64`).  Only the futex is proved (`NobodyStranded`).

Found while modelling, present in the models, and kept out of the properties by
their stated conditions:

* Between the claim of the last block and the increment of the reference count
  (`sched_priority.c:278`) the job can be deleted and its slot reused; the worker then
  takes the new job's recipient and sends it the other client's answer.
  `RecipientUsedOnce` and `AnswersAreRight` exclude it through `slotRaced`.
* The eight-lane x4x2 versions give a lane the low word of one input and the high
  word of another, four further on (`x4x2/optim_x4x2.c:33`).  The tests hash eight equal
  inputs, and the inputs of the run for these versions have equal high words.  The
  search that uses them is not the configured one; it would miss candidates in a
  group that crosses a multiple of 2^32.
* Random scheduler: a ring made for `default_cap` jobs holds one less, and with a
  `default_cap` of 1 none.  A job that finds it full is dropped
  (`ringbuffer.h:37`) and its client never answered.
* Random scheduler: idle workers wait for the list to have a job
  (`sched_rand.c:164`), but only a worker that takes the mutex moves pending jobs
  there.  When all are waiting, wakeups bring them back to the same wait, and the
  pending client is never answered, nor is any later one (`Trapped`).
* Random scheduler: `start + block_size` may pass 2^64 (`sched_rand.c:195`) when a range
  ends less than a block below it.  The minimum with `end` is then the wrapped sum, the
  job goes on from there, and its last values are never reached.  With a request of
  4 to 15 and `U64` = 16 TLC finds this in `RequestsAnswered`; those of the run stay
  below.
* Both other schedulers give the last value of a block to the next block as well,
  and a search may look past its end.  Two workers can answer one client,
  the second through a freed recipient (`AnsweredTwiceOnlyAtSeam`).
* Linked list: the loop that should skip finished jobs skips unfinished ones
  (`sched_linked_list.c:54`).  A submission takes every job before the first finished
  one off the list; a client whose job still has blocks is then not answered
  unless some worker is already past the head (`lost`).
* Linked list: `block_count` is rounded down (`:68`), so the values after the last
  whole block are never searched, and a job shorter than a block has none.
* Linked list: a worker that finds no block left returns to the same job until it is
  done (`:155`).  A job without an answer in its blocks is never done; its workers look at
  no other job and not at `running`, so the clients behind it are not answered and
  the shutdown does not end (`Wedged`).
* Linked list: jobs are sorted by ascending priority (`:84`), so that those of the
  lowest priority come first, and cancellation does nothing (`:104`).
* When `end - start` is a multiple of the block size there is one more block than
  `block_count` (`sched_priority.c:38`).  It can be claimed, but the job already
  counts as done and may be deleted first; and marking a job as done (`:33`) reopens
  it, so that the answer can be found again and sent through a freed recipient.
* The path that finds the answer never gives its reference back
  (`sched_priority.c:294`), so a solved job is never deleted (`RefsHeld` counts these
  references as held).  This keeps slots from being reused and hides the two
  items above from most executions.
* The page allocator has the classical ABA of a lock-free stack
  (`page_allocator.c:32`); `ExclusiveUnlessStale` holds until it happens.
* A radix lookup returns the leaf it reaches without asking whether the key has a
  remainder (`radix_tree.c:1021`, against the insertion's `:843`), so a longer key
  finds the value of a stored prefix.  Keys of one length, as the cache has, cannot
  meet this; `LookupsRight` is stated for keys that are no extension of another.
* A client that closes first is never removed: `recv` returns 0 and
  `consume_request` returns (`epoll.c:206`); with a reset EPOLLIN is reported too,
  and the branch for hang-ups (`:94`) is not reached.  The descriptor stays in use
  and its event is ready for ever.
* A request that arrives in two segments is read in part and dropped
  (`epoll.c:206`); `RequestAnswered` speaks of requests that are there as a whole
  when main reads.  If the client sends a second request on the connection, the rest of
  the first and the beginning of the second are taken for one.  A second request on the
  same connection also creates a second recipient for the descriptor that the first reply
  closes.

## 6. Not modelled

`x8/optim_x8.c` is unfinished: its blends mix words of different inputs, its final
shuffles scramble the hashes without adding the initial values, and its test is
commented out (`experiments/misc.c:294`), so that there is no behaviour to compare with
the plain version.  Byte swaps of the protocol's 64-bit fields have no state.
Benchmarks, experiments, clients and the assembly preprocessor in `tools/` are not
part of the server; the sort is called by the benchmarks only, and the generator
supplies the random scheduler's offset, which is any value in the model.
`lmdbcowjobs.c` is a stub and `iouring.c` is empty.  `simple.c` is a blocking server that
can be compiled in place of the epoll server: it accepts, reads and submits one
connection after the other, without batches or stale events.  Socket set-up (`server.c`)
and `main.c` run once.  Recipients of type FUTEX occur only in a benchmark.  Failing allocations
are not modelled except `mmap` in the page allocator.

Five hazards have no property.  A range that ends near 2^64 makes the search wrap and
not end; a departed client keeps its descriptor; two requests on one connection make two
recipients of one descriptor; and the rest of a split request may be taken for the start of
another, when a second one follows on the connection.  In each of the four the code has no
guard whose working could be stated; section 5 says what happens.  A pointer into a
reallocated store of the radix tree is the fifth: nodes are indices in the model.

## 7. Plan

Done: all modules of section 2 and the proofs of section 4, which cover every safety
property of the runs.  What could be added: the liveness of the lock by hand-written
ranking arguments, should the prover learn ENABLED; a model of `lmdbcowjobs.c` when it is
written; and the reallocation of the node stores, for which nodes would need addresses.
