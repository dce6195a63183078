-------------------------- MODULE PriorityScheduler --------------------------
(***************************************************************************)
(* scheduler/sched_priority.c: the scheduler the server runs by default.   *)
(* One main thread (the epoll loop) submits requests; a pool of workers    *)
(* claims blocks of the submitted ranges, searches them and answers the    *)
(* client.  Jobs live in the slots of a freelist and are found through a   *)
(* heap of slot indices: main edits jobs_w and swaps it with jobs_r, each  *)
(* worker works from its own copy of jobs_r.                               *)
(*                                                                         *)
(* One action is one atomic access to shared memory, or one critical       *)
(* section whose shared accesses nothing else can separate.  The locks are *)
(* the abstract ones of RWLockSpec: a thread holds wlock for reading at    *)
(* "copied", and rlock for reading at "claimed" and "mark"; shorter        *)
(* critical sections and both writer sections are single actions.          *)
(*                                                                         *)
(* Abstractions, besides those of SchedulerBase: a heap is the set of its  *)
(* nodes, any of the maximal ones being its root; a local variable that is *)
(* not read again is reset.                                                *)
(***************************************************************************)
EXTENDS SchedulerBase

CONSTANTS
    Cancellable,    \* clients whose job main may cancel
    BLOCK_SIZE,     \* SCHEDULER_PRIORITY_BLOCK_SIZE, 2^16 in the code
    DEFAULT_CAP,    \* initial capacity of the freelist
    RcModulus       \* the width of rc, 2^32 in the code

ASSUME SizeAssumption ==
    /\ BLOCK_SIZE \in Nat \ {0}
    /\ DEFAULT_CAP \in Nat \ {0}
    /\ RcModulus \in Nat \ {0}

NoJobId == -1   \* SCHEDULER_NO_JOB_ID_SENTINEL

VARIABLES
    (* the freelist of jobs: its slots, its capacity, its free indices *)
    jobs, cap, indices,
    (* the published heap and the one main edits *)
    jobs_r, jobs_w,
    (* the main thread: where it is, the client it submits, the slot it
       writes, the fields of it not yet written, the nodes cleanup still
       has to visit *)
    mpc, cur, slot, torn, todo,
    (* the workers and their locals *)
    local_jobs, prev_max, prev_job, target_hash, task,
    (* history: blocks handed out per client; has a slot been overwritten
       while a worker still referred to it *)
    handed, slotRaced

listVars   == <<jobs, cap, indices>>
heapVars   == <<jobs_r, jobs_w>>
mainVars   == <<mpc, cur, slot, torn, todo>>
workVars   == <<pc, local_jobs, prev_max, prev_job, target_hash, task>>
histVars   == <<handed, slotRaced, ringRaced, usedFreed>>
vars == <<baseVars, listVars, heapVars, mainVars, workVars, cacheVars,
          clientVars, histVars>>

----------------------------------------------------------------------------
(* Jobs, blocks and the search. *)

\* (difficulty + (block_size - 1)) / block_size
BlockCount(c) ==
    (Request[c].end - Request[c].start + BLOCK_SIZE - 1) \div BLOCK_SIZE

\* The job scheduler_priority_submit builds on its stack.
NewJob(c, id) ==
    [block_idx |-> 0, block_count |-> BlockCount(c), recipient |-> c,
     request |-> c, id |-> id, rc |-> 0]

\* calloc'ed memory.
ZeroJob ==
    [block_idx |-> 0, block_count |-> 0, recipient |-> NoClient,
     request |-> NoClient, id |-> 0, rc |-> 0]

Fields == {"block_idx", "block_count", "recipient", "request", "id", "rc"}

\* A job of which only the fields outside `late` have been written yet.
HalfWritten(old, new, late) ==
    [block_idx   |-> IF "block_idx" \in late THEN old.block_idx ELSE new.block_idx,
     block_count |-> IF "block_count" \in late THEN old.block_count ELSE new.block_count,
     recipient   |-> IF "recipient" \in late THEN old.recipient ELSE new.recipient,
     request     |-> IF "request" \in late THEN old.request ELSE new.request,
     id          |-> IF "id" \in late THEN old.id ELSE new.id,
     rc          |-> IF "rc" \in late THEN old.rc ELSE new.rc]

\* Mutant: off by one.
IsDoneEarly(j) == j.block_idx + 1 >= j.block_count

IsDone(j) == j.block_idx >= j.block_count

\* Mutant: off by one.
MarkAsDoneOffByOne(j) == [j EXCEPT !.block_idx = j.block_count - 1]

MarkAsDone(j) == [j EXCEPT !.block_idx = j.block_count]

MaxNodes(heap) == {n \in heap : \A m \in heap : m.priority <= n.priority}

NoNode == [elem |-> -1, priority |-> 0]

NoTask ==
    [node |-> NoNode, block_idx |-> 0, start |-> 0, end |-> 0,
     answer |-> NoAnswer, recipient |-> NoClient, position |-> 0]

\* A worker uses its job between the fetch_add of the block index and the
\* store that marks the job as done.
InJob(w) == pc[w] \in {"claimed", "enter", "search", "mark"}

RefersTo(w, idx) ==
    \/ InJob(w) /\ task[w].node.elem = idx
    \/ \E n \in local_jobs[w] : n.elem = idx

RlockFree == \A w \in Workers : pc[w] \notin {"claimed", "mark"}
WlockFree == \A w \in Workers : pc[w] # "copied"

----------------------------------------------------------------------------
Init ==
    /\ BaseInit
    /\ jobs = [i \in 0 .. DEFAULT_CAP - 1 |-> ZeroJob]
    /\ cap = DEFAULT_CAP
    /\ indices = [i \in 1 .. DEFAULT_CAP |-> i - 1]
    /\ jobs_r = {}
    /\ jobs_w = {}
    /\ mpc = "idle"
    /\ cur = NoClient
    /\ slot = 0
    /\ torn = {}
    /\ todo = {}
    /\ pc = [w \in Workers |-> "loop"]
    /\ local_jobs = [w \in Workers |-> {}]
    /\ prev_max = [w \in Workers |-> 0]
    /\ prev_job = [w \in Workers |-> NoJobId]
    /\ target_hash = [w \in Workers |-> 0]
    /\ task = [w \in Workers |-> NoTask]
    /\ handed = [c \in Clients |-> {}]
    /\ slotRaced = FALSE

----------------------------------------------------------------------------
(* scheduler_priority_submit, called by the epoll loop with a recipient it *)
(* has just created.                                                       *)

\* A cached answer is sent at once.
SubmitHit(c, entry) ==
    /\ mpc = "idle"
    /\ AnswerFromCache(c, entry)
    /\ UNCHANGED <<baseVars, listVars, heapVars, mainVars, workVars, racing,
                   histVars>>

SubmitMiss(c) ==
    /\ mpc = "idle"
    /\ MissCache(c)
    /\ cur' = c
    /\ mpc' = "insert"
    /\ UNCHANGED <<baseVars, listVars, heapVars, slot, torn, todo, workVars,
                   racing, sent, histVars>>

\* The heap copy that follows the insertion, and the start of the cleanup.
StartCleanup(idx) ==
    /\ slot' = idx
    /\ jobs_w' = jobs_r
    /\ todo' = jobs_r
    /\ mpc' = "cleanup"

\* Mutant: the small growth factor for every capacity.
GrownCapSmall(c) == (5 * c) \div 4

GrownCap(c) == IF c <= 16384 THEN 2 * c ELSE (5 * c) \div 4

\* freelist_insert with no free index: grow and insert, rlock held to write.
InsertGrow ==
    LET newCap == GrownCap(cap)
        idx == newCap - 1
    IN  /\ mpc = "insert"
        /\ indices = <<>>
        /\ RlockFree
        /\ cap' = newCap
        /\ jobs' = [i \in 0 .. newCap - 1 |->
                      IF i = idx THEN NewJob(cur, job_id + 1)
                      ELSE IF i < cap THEN jobs[i] ELSE ZeroJob]
        /\ indices' = [i \in 1 .. newCap - cap - 1 |-> cap + i - 1]
        /\ StartCleanup(idx)
        /\ UNCHANGED <<baseVars, jobs_r, cur, torn, workVars, cacheVars,
                       clientVars, histVars>>

LastFree == indices[Len(indices)]

\* freelist_insert with a free index takes the last one.  No lock is held;
\* the struct copy is one step when no worker can see the slot ...
InsertUnseen ==
    /\ mpc = "insert"
    /\ indices # <<>>
    /\ \A w \in Workers : ~RefersTo(w, LastFree)
    /\ jobs' = [jobs EXCEPT ![LastFree] = NewJob(cur, job_id + 1)]
    /\ indices' = SubSeq(indices, 1, Len(indices) - 1)
    /\ StartCleanup(LastFree)
    /\ UNCHANGED <<baseVars, cap, jobs_r, cur, torn, workVars, cacheVars,
                   clientVars, histVars>>

\* ... and a data race when a worker still refers to it: any of the fields
\* may be written before, the others after, what the worker does next.
InsertSeen(late) ==
    /\ mpc = "insert"
    /\ indices # <<>>
    /\ \E w \in Workers : RefersTo(w, LastFree)
    /\ jobs' = [jobs EXCEPT ![LastFree] =
                  HalfWritten(@, NewJob(cur, job_id + 1), late)]
    /\ indices' = SubSeq(indices, 1, Len(indices) - 1)
    /\ slot' = LastFree
    /\ torn' = late
    /\ mpc' = "tear"
    /\ slotRaced' = TRUE
    /\ UNCHANGED <<baseVars, cap, heapVars, cur, todo, workVars, cacheVars,
                   clientVars, handed, ringRaced, usedFreed>>

InsertRest ==
    /\ mpc = "tear"
    /\ jobs' = [jobs EXCEPT ![slot] =
                  HalfWritten(@, NewJob(cur, job_id + 1), Fields \ torn)]
    /\ torn' = {}
    /\ StartCleanup(slot)
    /\ UNCHANGED <<baseVars, cap, indices, jobs_r, cur, workVars, cacheVars,
                   clientVars, histVars>>

\* Mutant: only the reference count is looked at.
RemovableUnfinished(n) == jobs[n.elem].rc = 0

Removable(n) == IsDone(jobs[n.elem]) /\ jobs[n.elem].rc = 0

CleanupKeep(n) ==
    /\ mpc = "cleanup"
    /\ n \in todo
    /\ ~Removable(n)
    /\ todo' = todo \ {n}
    /\ UNCHANGED <<baseVars, listVars, heapVars, mpc, cur, slot, torn,
                   workVars, cacheVars, clientVars, histVars>>

\* priority_heap_remove moves other nodes: at most one that the loop has not
\* visited moves to a position it has passed and is then skipped, at most one
\* that it has visited moves to the position it looks at next (PriorityHeap
\* has the array).
CleanupRemove(n, skipped, again) ==
    /\ mpc = "cleanup"
    /\ n \in todo
    /\ Removable(n)
    /\ skipped \subseteq todo \ {n}
    /\ again \subseteq jobs_w \ todo
    /\ Cardinality(skipped) <= 1
    /\ Cardinality(again) <= 1
    /\ indices' = Append(indices, n.elem)
    /\ jobs_w' = jobs_w \ {n}
    /\ todo' = (todo \ ({n} \cup skipped)) \cup again
    /\ UNCHANGED <<baseVars, jobs, cap, jobs_r, mpc, cur, slot, torn,
                   workVars, cacheVars, clientVars, histVars>>

\* Mutant: the swap without wlock.
PublishUnlocked ==
    /\ mpc = "cleanup"
    /\ todo = {}
    /\ jobs_r' = jobs_w \cup {[elem |-> slot, priority |-> Request[cur].priority]}
    /\ jobs_w' = jobs_r
    /\ job_id' = job_id + 1
    /\ WakeWorkers
    /\ mpc' = "idle"
    /\ cur' = NoClient
    /\ slot' = 0
    /\ UNCHANGED <<waker_type, running, listVars, torn, todo, local_jobs,
                   prev_max, prev_job, target_hash, task, cacheVars,
                   clientVars, histVars>>

\* Insert into the write heap, then with wlock held to write: swap the heaps,
\* publish the job id, wake the workers.
Publish ==
    /\ mpc = "cleanup"
    /\ todo = {}
    /\ WlockFree
    /\ jobs_r' = jobs_w \cup {[elem |-> slot, priority |-> Request[cur].priority]}
    /\ jobs_w' = jobs_r
    /\ job_id' = job_id + 1
    /\ WakeWorkers
    /\ mpc' = "idle"
    /\ cur' = NoClient
    /\ slot' = 0
    /\ UNCHANGED <<waker_type, running, listVars, torn, todo, local_jobs,
                   prev_max, prev_job, target_hash, task, cacheVars,
                   clientVars, histVars>>

\* scheduler_priority_cancel, for a job in the published heap.
Cancel(n) ==
    /\ mpc = "idle"
    /\ n \in jobs_r
    /\ jobs[n.elem].request \in Cancellable
    /\ jobs' = [jobs EXCEPT ![n.elem] = MarkAsDone(@)]
    /\ UNCHANGED <<baseVars, cap, indices, heapVars, mainVars, workVars,
                   cacheVars, clientVars, histVars>>

\* server_scheduler_destroy: stop, wake, join, then free the scheduler.
Close ==
    /\ mpc = "idle"
    /\ running' = FALSE
    /\ mpc' = "close"
    /\ UNCHANGED <<waker_type, waker, job_id, listVars, heapVars, cur, slot,
                   torn, todo, workVars, cacheVars, clientVars, histVars>>

\* Mutant: the scheduler is closed without waking its workers.
CloseNoWake ==
    /\ mpc = "close"
    /\ mpc' = "join"
    /\ UNCHANGED <<baseVars, listVars, heapVars, cur, slot, torn, todo,
                   workVars, cacheVars, clientVars, histVars>>

CloseWake ==
    /\ mpc = "close"
    /\ WakeWorkers
    /\ mpc' = "join"
    /\ UNCHANGED <<waker_type, running, job_id, listVars, heapVars, cur, slot,
                   torn, todo, local_jobs, prev_max, prev_job, target_hash,
                   task, cacheVars, clientVars, histVars>>

JoinAndDestroy ==
    /\ mpc = "join"
    /\ \A w \in Workers : pc[w] = "exited"
    /\ mpc' = "stopped"
    /\ UNCHANGED <<baseVars, listVars, heapVars, cur, slot, torn, todo,
                   workVars, cacheVars, clientVars, histVars>>

----------------------------------------------------------------------------
(* scheduler_priority_worker and scheduler_priority_schedule. *)

\* The loop of the worker ends when the scheduler no longer runs.
Exit(w) ==
    /\ pc[w] = "loop"
    /\ ~running
    /\ Goto(w, "exited")
    /\ local_jobs' = [local_jobs EXCEPT ![w] = {}]
    /\ UNCHANGED <<baseVars, listVars, heapVars, mainVars, prev_max, prev_job,
                   target_hash, task, cacheVars, clientVars, histVars>>

\* With wlock held to read: nothing newer, or copy the heap and then the id.
NoRefresh(w) ==
    /\ pc[w] = "loop"
    /\ running
    /\ job_id <= prev_max[w]
    /\ Goto(w, "pick")
    /\ UNCHANGED <<baseVars, listVars, heapVars, mainVars, local_jobs,
                   prev_max, prev_job, target_hash, task, cacheVars,
                   clientVars, histVars>>

CopyHeap(w) ==
    /\ pc[w] = "loop"
    /\ running
    /\ job_id > prev_max[w]
    /\ local_jobs' = [local_jobs EXCEPT ![w] = jobs_r]
    /\ Goto(w, "copied")
    /\ UNCHANGED <<baseVars, listVars, heapVars, mainVars, prev_max, prev_job,
                   target_hash, task, cacheVars, clientVars, histVars>>

SetMaxJobId(w) ==
    /\ pc[w] = "copied"
    /\ prev_max' = [prev_max EXCEPT ![w] = job_id]
    /\ Goto(w, "pick")
    /\ UNCHANGED <<baseVars, listVars, heapVars, mainVars, local_jobs,
                   prev_job, target_hash, task, cacheVars, clientVars,
                   histVars>>

\* With rlock held to read: take the next block index of the best job ...
FetchBlock(w, n) ==
    /\ pc[w] = "pick"
    /\ n \in MaxNodes(local_jobs[w])
    /\ task' = [task EXCEPT ![w].node = n,
                            ![w].block_idx = jobs[n.elem].block_idx]
    /\ jobs' = [jobs EXCEPT ![n.elem].block_idx = @ + 1]
    /\ handed' = [handed EXCEPT ![jobs[n.elem].request] =
                     @ \cup {jobs[n.elem].block_idx}]
    /\ Goto(w, "claimed")
    /\ UNCHANGED <<baseVars, cap, indices, heapVars, mainVars, local_jobs,
                   prev_max, prev_job, target_hash, cacheVars, clientVars,
                   slotRaced, ringRaced, usedFreed>>

\* Mutant: the last value of the block is the first of the next one.
ClaimBlockOverlapping(w) ==
    LET j == jobs[task[w].node.elem]
        b == task[w].block_idx
        start == Request[j.request].start + b * BLOCK_SIZE
        last == start + BLOCK_SIZE
        end == Request[j.request].end
    IN  /\ pc[w] = "claimed"
        /\ b <= j.block_count
        /\ task' = [task EXCEPT ![w].start = start,
                                ![w].end = IF end < last THEN end ELSE last]
        /\ prev_job' = [prev_job EXCEPT ![w] = j.id]
        /\ target_hash' = IF prev_job[w] # j.id
                          THEN [target_hash EXCEPT ![w] = Request[j.request].hash]
                          ELSE target_hash
        /\ Goto(w, "enter")
        /\ UNCHANGED <<baseVars, listVars, heapVars, mainVars, local_jobs,
                       prev_max, cacheVars, clientVars, histVars>>

\* Mutant: the target hash is read only for the first job.
ClaimBlockStaleHash(w) ==
    LET j == jobs[task[w].node.elem]
        b == task[w].block_idx
        start == Request[j.request].start + b * BLOCK_SIZE
        last == start + BLOCK_SIZE - 1
        end == Request[j.request].end
    IN  /\ pc[w] = "claimed"
        /\ b <= j.block_count
        /\ task' = [task EXCEPT ![w].start = start,
                                ![w].end = IF end < last THEN end ELSE last]
        /\ prev_job' = [prev_job EXCEPT ![w] = j.id]
        /\ target_hash' = IF prev_job[w] = NoJobId
                          THEN [target_hash EXCEPT ![w] = Request[j.request].hash]
                          ELSE target_hash
        /\ Goto(w, "enter")
        /\ UNCHANGED <<baseVars, listVars, heapVars, mainVars, local_jobs,
                       prev_max, cacheVars, clientVars, histVars>>

\* ... then read the job: a block of its range ...
ClaimBlock(w) ==
    LET j == jobs[task[w].node.elem]
        b == task[w].block_idx
        start == Request[j.request].start + b * BLOCK_SIZE
        last == start + BLOCK_SIZE - 1
        end == Request[j.request].end
    IN  /\ pc[w] = "claimed"
        /\ b <= j.block_count
        /\ task' = [task EXCEPT ![w].start = start,
                                ![w].end = IF end < last THEN end ELSE last]
        /\ prev_job' = [prev_job EXCEPT ![w] = j.id]
        /\ target_hash' = IF prev_job[w] # j.id
                          THEN [target_hash EXCEPT ![w] = Request[j.request].hash]
                          ELSE target_hash
        /\ Goto(w, "enter")
        /\ UNCHANGED <<baseVars, listVars, heapVars, mainVars, local_jobs,
                       prev_max, cacheVars, clientVars, histVars>>

\* ... or no block is left and the job leaves the local heap.
DropJob(w) ==
    /\ pc[w] = "claimed"
    /\ task[w].block_idx > jobs[task[w].node.elem].block_count
    /\ local_jobs' = [local_jobs EXCEPT ![w] = @ \ {task[w].node}]
    /\ task' = [task EXCEPT ![w] = NoTask]
    /\ Goto(w, "pick")
    /\ UNCHANGED <<baseVars, listVars, heapVars, mainVars, prev_max, prev_job,
                   target_hash, cacheVars, clientVars, histVars>>

EnterJob(w) ==
    /\ pc[w] = "enter"
    /\ jobs' = [jobs EXCEPT ![task[w].node.elem].rc = (@ + 1) % RcModulus]
    /\ Goto(w, "search")
    /\ UNCHANGED <<baseVars, cap, indices, heapVars, mainVars, local_jobs,
                   prev_max, prev_job, target_hash, task, cacheVars,
                   clientVars, histVars>>

Found(w) == Reverse(task[w].start, task[w].end, target_hash[w])

\* Mutant: the reference is given back twice, without the wrap-around.
LeaveJobTwice(w) ==
    /\ pc[w] = "search"
    /\ Found(w) = NoAnswer
    /\ jobs' = [jobs EXCEPT ![task[w].node.elem].rc = @ - 2]
    /\ task' = [task EXCEPT ![w] = NoTask]
    /\ Goto(w, "loop")
    /\ UNCHANGED <<baseVars, cap, indices, heapVars, mainVars, local_jobs,
                   prev_max, prev_job, target_hash, cacheVars, clientVars,
                   histVars>>

\* No answer in the block: leave the job.
LeaveJob(w) ==
    /\ pc[w] = "search"
    /\ Found(w) = NoAnswer
    /\ jobs' = [jobs EXCEPT ![task[w].node.elem].rc = (@ - 1) % RcModulus]
    /\ task' = [task EXCEPT ![w] = NoTask]
    /\ Goto(w, "loop")
    /\ UNCHANGED <<baseVars, cap, indices, heapVars, mainVars, local_jobs,
                   prev_max, prev_job, target_hash, cacheVars, clientVars,
                   histVars>>

\* An answer: with rlock held to read, take the recipient ...
ReadRecipient(w) ==
    /\ pc[w] = "search"
    /\ Found(w) # NoAnswer
    /\ task' = [task EXCEPT ![w].answer = Found(w),
                            ![w].recipient = jobs[task[w].node.elem].recipient]
    /\ Goto(w, "mark")
    /\ UNCHANGED <<baseVars, listVars, heapVars, mainVars, local_jobs,
                   prev_max, prev_job, target_hash, cacheVars, clientVars,
                   histVars>>

\* ... and mark the job as done; the reference taken by EnterJob is kept.
MarkDone(w) ==
    /\ pc[w] = "mark"
    /\ jobs' = [jobs EXCEPT ![task[w].node.elem] = MarkAsDone(@)]
    /\ Goto(w, "notify")
    /\ UNCHANGED <<baseVars, cap, indices, heapVars, mainVars, local_jobs,
                   prev_max, prev_job, target_hash, task, cacheVars,
                   clientVars, histVars>>

Entry(w) == [key |-> target_hash[w], value |-> task[w].answer]

NotifyRecipient(w) ==
    /\ pc[w] = "notify"
    /\ Notify(task[w].recipient, task[w].answer)
    /\ racing' = racing \cup {Entry(w)}
    /\ Goto(w, "cache")
    /\ UNCHANGED <<baseVars, listVars, heapVars, mainVars, local_jobs,
                   prev_max, prev_job, target_hash, task, tree, pending,
                   handed, slotRaced, ringRaced>>

\* cache_insert_pending, alone ...
CachePush(w) ==
    /\ pc[w] = "cache"
    /\ Push(w, Entry(w))
    /\ task' = [task EXCEPT ![w] = NoTask]
    /\ Goto(w, "loop")
    /\ UNCHANGED <<baseVars, listVars, heapVars, mainVars, local_jobs,
                   prev_max, prev_job, target_hash, tree, clientVars,
                   histVars>>

\* ... or together with the other pushes in flight.
CachePushRaced(w, lost, k, v) ==
    /\ pc[w] = "cache"
    /\ PushRaced(w, Entry(w), lost, k, v)
    /\ task' = [task EXCEPT ![w] = NoTask]
    /\ Goto(w, "loop")
    /\ UNCHANGED <<baseVars, listVars, heapVars, mainVars, local_jobs,
                   prev_max, prev_job, target_hash, tree, clientVars, handed,
                   slotRaced, usedFreed>>

----------------------------------------------------------------------------
(* Waiting for a new job: the loop at the end of the schedule function and *)
(* scheduler_yield_worker.                                                 *)

NothingLeft(w) ==
    /\ pc[w] = "pick"
    /\ local_jobs[w] = {}
    /\ Goto(w, "wait")
    /\ UNCHANGED <<baseVars, listVars, heapVars, mainVars, local_jobs,
                   prev_max, prev_job, target_hash, task, cacheVars,
                   clientVars, histVars>>

StopWaiting(w) ==
    /\ pc[w] = "wait"
    /\ ~running \/ job_id > prev_max[w]
    /\ Goto(w, "loop")
    /\ UNCHANGED <<baseVars, listVars, heapVars, mainVars, local_jobs,
                   prev_max, prev_job, target_hash, task, cacheVars,
                   clientVars, histVars>>

DecideToYield(w) ==
    /\ pc[w] = "wait"
    /\ running
    /\ job_id <= prev_max[w]
    /\ Goto(w, "yield")
    /\ UNCHANGED <<baseVars, listVars, heapVars, mainVars, local_jobs,
                   prev_max, prev_job, target_hash, task, cacheVars,
                   clientVars, histVars>>

Yield(w) ==
    /\ pc[w] = "yield"
    /\ IF waker_type = "SPIN"
       THEN /\ waker' = waker + 1
            /\ task' = [task EXCEPT ![w].position = waker]
       ELSE UNCHANGED <<waker, task>>
    /\ Goto(w, "asleep")
    /\ UNCHANGED <<waker_type, running, job_id, listVars, heapVars, mainVars,
                   local_jobs, prev_max, prev_job, target_hash, cacheVars,
                   clientVars, histVars>>

\* What a spinning or futex-waiting worker looks at before it goes on.
SeesWake(w) == SeesWakeFrom(task[w].position)

Awake(w) ==
    /\ pc[w] = "asleep"
    /\ SeesWake(w)
    /\ task' = [task EXCEPT ![w] = NoTask]
    /\ Goto(w, "wait")
    /\ UNCHANGED <<baseVars, listVars, heapVars, mainVars, local_jobs,
                   prev_max, prev_job, target_hash, cacheVars, clientVars,
                   histVars>>

\* pthread_cond_wait may return without a signal.
SpuriousWake(w) ==
    /\ pc[w] = "asleep"
    /\ waker_type = "PTHREAD"
    /\ Goto(w, "wait")
    /\ UNCHANGED <<baseVars, listVars, heapVars, mainVars, local_jobs,
                   prev_max, prev_job, target_hash, task, cacheVars,
                   clientVars, histVars>>

----------------------------------------------------------------------------
Submit ==
    \/ InsertGrow
    \/ InsertUnseen
    \/ \E late \in SUBSET Fields : InsertSeen(late)
    \/ InsertRest
    \/ \E n \in todo : CleanupKeep(n)
    \/ \E n \in todo : \E skipped \in SUBSET todo, again \in SUBSET jobs_w :
          CleanupRemove(n, skipped, again)
    \/ Publish

Shutdown == CloseWake \/ JoinAndDestroy

Arrival ==
    \/ \E c \in Clients : SubmitMiss(c)
    \/ \E c \in Clients : \E entry \in tree \cup pending : SubmitHit(c, entry)
    \/ \E n \in jobs_r : Cancel(n)
    \/ Close

WorkerStep(w) ==
    \/ Exit(w)
    \/ NoRefresh(w)
    \/ CopyHeap(w)
    \/ SetMaxJobId(w)
    \/ \E n \in local_jobs[w] : FetchBlock(w, n)
    \/ ClaimBlock(w)
    \/ DropJob(w)
    \/ EnterJob(w)
    \/ LeaveJob(w)
    \/ ReadRecipient(w)
    \/ MarkDone(w)
    \/ NotifyRecipient(w)
    \/ CachePush(w)
    \/ \E lost \in SUBSET racing : \E k, v \in racing :
          CachePushRaced(w, lost, k, v)
    \/ NothingLeft(w)
    \/ StopWaiting(w)
    \/ DecideToYield(w)
    \/ Yield(w)
    \/ Awake(w)

\* The process has ended.
Stopped == mpc = "stopped" /\ UNCHANGED vars

Next ==
    \/ Arrival
    \/ Submit
    \/ Shutdown
    \/ \E w \in Workers : WorkerStep(w) \/ SpuriousWake(w)
    \/ Stopped

Spec == Init /\ [][Next]_vars

\* Every thread keeps running (main inside a submission or the shutdown, a
\* worker anywhere but in a sleep nobody ends) and every spinning lock
\* acquisition succeeds in the end.  Requests, the stop signal and spurious
\* wakeups need not come.
Fairness ==
    /\ WF_vars(Submit)
    /\ WF_vars(Shutdown)
    /\ \A w \in Workers : WF_vars(WorkerStep(w))

LiveSpec == Spec /\ Fairness

----------------------------------------------------------------------------
FreeSlots == {indices[i] : i \in DOMAIN indices}

Nodes == [elem : 0 .. cap - 1, priority : Nat]

Jobs == [block_idx : Nat, block_count : Nat,
         recipient : Clients \cup {NoClient},
         request : Clients \cup {NoClient}, id : Nat, rc : 0 .. RcModulus - 1]

Tasks == [node : Nodes \cup {NoNode}, block_idx : Nat, start : Nat, end : Nat,
          answer : Nat, recipient : Clients \cup {NoClient}, position : Nat]

Labels == {"loop", "copied", "pick", "claimed", "enter", "search", "mark",
           "notify", "cache", "wait", "yield", "asleep", "exited"}

ListType ==
    /\ cap \in Nat \ {0}
    /\ jobs \in [0 .. cap - 1 -> Jobs]
    /\ indices \in Seq(0 .. cap - 1)

MainType ==
    /\ jobs_r \subseteq Nodes /\ jobs_w \subseteq Nodes /\ todo \subseteq Nodes
    /\ mpc \in {"idle", "insert", "tear", "cleanup", "close", "join", "stopped"}
    /\ cur \in Clients \cup {NoClient}
    /\ slot \in 0 .. cap - 1 /\ torn \subseteq Fields

WorkType ==
    /\ pc \in [Workers -> Labels]
    /\ local_jobs \in [Workers -> SUBSET Nodes]
    /\ prev_max \in [Workers -> Nat]
    /\ prev_job \in [Workers -> Nat \cup {NoJobId}]
    /\ target_hash \in [Workers -> Nat]
    /\ task \in [Workers -> Tasks]

ClientType ==
    /\ recipient \in [Clients -> {"none", "live", "freed"}]
    /\ sent \in [Clients -> Nat]
    /\ handed \in [Clients -> SUBSET Nat]
    /\ slotRaced \in BOOLEAN /\ ringRaced \in BOOLEAN /\ usedFreed \in BOOLEAN

TypeOK ==
    /\ BaseType
    /\ ListType
    /\ MainType
    /\ WorkType
    /\ CacheType
    /\ ClientType

----------------------------------------------------------------------------
(* Properties of every build and every schedule. *)

\* The heap main works from: the one it edits during a cleanup.
Scheduled == IF mpc = "cleanup" THEN jobs_w ELSE jobs_r

Occupied ==
    {n.elem : n \in Scheduled}
        \cup (IF mpc \in {"tear", "cleanup"} THEN {slot} ELSE {})

\* Every slot of the freelist is either free once, or occupied by exactly one
\* scheduled job: growing, inserting and the cleanup loop lose no slot and
\* give none out twice.
SlotAccounting ==
    /\ \A i, k \in DOMAIN indices : indices[i] = indices[k] => i = k
    /\ FreeSlots \cap Occupied = {}
    /\ FreeSlots \cup Occupied = 0 .. cap - 1
    /\ \A m, n \in Scheduled : m.elem = n.elem => m = n
    /\ mpc \in {"tear", "cleanup"} => \A n \in Scheduled : n.elem # slot

\* A worker that has seen job id k has every published job up to k that still
\* has blocks to hand out in its local heap: copying, dropping exhausted jobs
\* and reusing slots never make a worker forget a job it could work on.
WorkersKnowLiveJobs ==
    \A w \in Workers : \A n \in jobs_r :
        /\ jobs[n.elem].id <= prev_max[w]
        /\ ~IsDone(jobs[n.elem])
        /\ pc[w] # "exited"
        => n \in local_jobs[w]

----------------------------------------------------------------------------
(* Properties of behaviours in which no slot is overwritten under a worker *)
(* that still refers to it.                                                *)

\* The blocks of a range: the ones that hold a candidate.
RangeBlocks(c) ==
    {b \in 0 .. BlockCount(c) : Request[c].start + b * BLOCK_SIZE <= Request[c].end}

\* No two claims ever get the same block of a range.
BlocksHandedOnce ==
    [][\A w \in Workers :
         pc[w] = "pick" /\ pc'[w] = "claimed" /\ ~slotRaced =>
            LET c == jobs[task'[w].node.elem].request
                b == task'[w].block_idx
            IN  b \in RangeBlocks(c) => b \notin handed[c]
      ]_vars

\* A job that the cleanup deletes has had every block of its range handed out
\* (or has been cancelled).
DeletedJobsWereHandedOut ==
    [][\A n \in jobs_w :
         mpc = "cleanup" /\ mpc' = "cleanup" /\ n \notin jobs_w' /\ ~slotRaced =>
            LET c == jobs[n.elem].request
            IN  RangeBlocks(c) \subseteq handed[c] \/ c \in Cancellable
      ]_vars

\* A client is never sent anything but the preimage of its hash.
AnswersAreRight ==
    ~slotRaced /\ ~ringRaced =>
        \A c \in Clients : sent[c] \in {NoAnswer, Request[c].hash}

\* A recipient is used once: nobody answers a client that has been answered.
RecipientUsedOnce == ~slotRaced => ~usedFreed

\* The reference count of a published job is the number of workers between
\* entering and leaving it, plus one for good when the job was solved: the
\* worker that finds the answer does not leave, so the cleanup never deletes a
\* solved job (and its slot is never reused).
Inside(w, n) ==
    pc[w] \in {"search", "mark", "notify"} /\ task[w].node.elem = n.elem

RefsHeld ==
    ~slotRaced =>
        \A n \in jobs_r :
            jobs[n.elem].rc =
                Cardinality({w \in Workers : Inside(w, n)})
                + (IF sent[jobs[n.elem].request] = NoAnswer THEN 0 ELSE 1)

\* A worker that sleeps with no wakeup on its way has seen the newest job, and
\* the scheduler is not shutting down.
Stranded(w) ==
    /\ pc[w] = "asleep"
    /\ ~SeesWake(w)
    /\ job_id > prev_max[w] \/ mpc = "join"

NoWorkerStranded == \A w \in Workers : ~Stranded(w)

\* Every request whose preimage lies in its range is answered, unless the
\* server stops or a slot is overwritten under a worker.
RequestsAnswered ==
    \A c \in Clients :
        c \notin Cancellable /\ Solvable(c) /\ recipient[c] = "live"
            ~> sent[c] # NoAnswer \/ ~running \/ slotRaced

\* The stop signal ends the process.
ShutdownCompletes == (mpc = "close") ~> (mpc = "stopped")
=============================================================================
