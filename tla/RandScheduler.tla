---------------------------- MODULE RandScheduler ----------------------------
(***************************************************************************)
(* scheduler/sched_rand.c: a scheduler with one list of jobs under one     *)
(* mutex.  Main pushes a submitted job into a ring (PendingRing) without   *)
(* the mutex; a worker that takes the mutex first moves the ring's jobs to *)
(* the list, then moves a cursor by a random offset over the priorities    *)
(* and takes the next block of the job under the cursor.                   *)
(*                                                                         *)
(* One action is one access to the ring or to what is read without the     *)
(* mutex (running, the length of the list), or the rest of a critical      *)
(* section.  A thread holds the mutex at "drain" and "pick".               *)
(*                                                                         *)
(* Abstractions, besides those of SchedulerBase: a job is known by its     *)
(* client, who submits once, where the code compares ids; the offset drawn *)
(* is any value the modulus leaves.                                        *)
(***************************************************************************)
EXTENDS SchedulerBase

CONSTANTS
    BLOCK_SIZE,     \* SCHEDULER_RAND_BLOCK_SIZE, 2^16 in the code
    DefaultCaps,    \* the sizes of the ring considered, default_cap
    U64             \* the width of start and end, 2^64 in the code

ASSUME RandAssumption ==
    /\ BLOCK_SIZE \in Nat \ {0}
    /\ DefaultCaps \subseteq Nat \ {0}
    /\ U64 \in Nat \ {0}
    /\ \A c \in Clients : Request[c].end < U64

VARIABLES
    (* the list of jobs and what is kept about it *)
    jobs, priority_sum, task_idx, priority_idx,
    (* pending_jobs, and what main and the holder of the mutex do with it *)
    size, data, head, tail, ppc, put, cpc, until, got, dropped,
    (* main: where it is, the client it submits *)
    mpc, cur,
    (* the workers: their task, the waker value they spin from *)
    task, position,
    (* history: the candidates handed out per client *)
    handed

listVars == <<jobs, priority_sum, task_idx, priority_idx>>
ringVars == <<size, data, head, tail, ppc, put, cpc, until, got, dropped>>
mainVars == <<mpc, cur>>
workVars == <<task, position, handed>>
raceVars == <<ringRaced, usedFreed>>
vars == <<baseVars, pc, cacheVars, clientVars, raceVars, listVars, ringVars,
          mainVars, workVars>>

Ring == INSTANCE PendingRing WITH
            Values <- Clients, NoValue <- NoClient, Sizes <- DefaultCaps

----------------------------------------------------------------------------
\* max(request->priority, 1)
Priority(c) == IF Request[c].priority = 0 THEN 1 ELSE Request[c].priority

NewJob(c) == [client |-> c, start |-> Request[c].start]

NoTask == [client |-> NoClient, start |-> 0, end |-> 0, answer |-> NoAnswer]

Init ==
    /\ BaseInit
    /\ Ring!Init
    /\ jobs = <<>>
    /\ priority_sum = 0
    /\ task_idx = 0
    /\ priority_idx = 0
    /\ mpc = "idle"
    /\ cur = NoClient
    /\ pc = [w \in Workers |-> "loop"]
    /\ task = [w \in Workers |-> NoTask]
    /\ position = [w \in Workers |-> 0]
    /\ handed = [c \in Clients |-> {}]

LockFree == \A w \in Workers : pc[w] \notin {"drain", "pick"}

----------------------------------------------------------------------------
(* scheduler_rand_submit, on the main thread. *)

SubmitHit(c, entry) ==
    /\ mpc = "idle"
    /\ AnswerFromCache(c, entry)
    /\ UNCHANGED <<baseVars, pc, racing, raceVars, listVars, ringVars,
                   mainVars, workVars>>

SubmitMiss(c) ==
    /\ mpc = "idle"
    /\ MissCache(c)
    /\ cur' = c
    /\ mpc' = "push"
    /\ UNCHANGED <<baseVars, pc, racing, sent, raceVars, listVars, ringVars,
                   workVars>>

\* The steps of ringbuffer_push; a dropped job is woken for all the same.
PushFull ==
    /\ mpc = "push"
    /\ Ring!PushDropped(cur)
    /\ mpc' = "wake"
    /\ UNCHANGED <<baseVars, pc, cacheVars, clientVars, raceVars, listVars,
                   cur, workVars>>

PushJob ==
    /\ mpc = "push"
    /\ Ring!PushCheck(cur) \/ Ring!PushWrite
    /\ UNCHANGED <<baseVars, pc, cacheVars, clientVars, raceVars, listVars,
                   mainVars, workVars>>

PublishJob ==
    /\ mpc = "push"
    /\ Ring!PushPublish
    /\ mpc' = "wake"
    /\ UNCHANGED <<baseVars, pc, cacheVars, clientVars, raceVars, listVars,
                   cur, workVars>>

Wake ==
    /\ mpc = "wake"
    /\ WakeWorkers
    /\ mpc' = "idle"
    /\ cur' = NoClient
    /\ UNCHANGED <<waker_type, running, job_id, cacheVars, clientVars,
                   raceVars, listVars, ringVars, workVars>>

\* scheduler_base_close and worker_destroy_pool.
Close ==
    /\ mpc = "idle"
    /\ running' = FALSE
    /\ mpc' = "close"
    /\ UNCHANGED <<waker_type, waker, job_id, pc, cacheVars, clientVars,
                   raceVars, listVars, ringVars, cur, workVars>>

CloseWake ==
    /\ mpc = "close"
    /\ WakeWorkers
    /\ mpc' = "join"
    /\ UNCHANGED <<waker_type, running, job_id, cacheVars, clientVars,
                   raceVars, listVars, ringVars, cur, workVars>>

JoinAndDestroy ==
    /\ mpc = "join"
    /\ \A w \in Workers : pc[w] = "exited"
    /\ mpc' = "stopped"
    /\ UNCHANGED <<baseVars, pc, cacheVars, clientVars, raceVars, listVars,
                   ringVars, cur, workVars>>

----------------------------------------------------------------------------
(* scheduler_rand_schedule. *)

Exit(w) ==
    /\ pc[w] = "loop"
    /\ ~running
    /\ Goto(w, "exited")
    /\ UNCHANGED <<baseVars, cacheVars, clientVars, raceVars, listVars,
                   ringVars, mainVars, workVars>>

\* Take the mutex, and the head up to which the pending jobs are moved.
TakeLock(w) ==
    /\ pc[w] = "loop"
    /\ running
    /\ LockFree
    /\ Ring!DrainStart
    /\ Goto(w, "drain")
    /\ UNCHANGED <<baseVars, cacheVars, clientVars, raceVars, listVars,
                   mainVars, workVars>>

PopPending(w) ==
    /\ pc[w] = "drain"
    /\ Ring!PopRead
    /\ UNCHANGED <<baseVars, pc, cacheVars, clientVars, raceVars, listVars,
                   mainVars, workVars>>

\* ... and scheduler_rand_push_job.
AppendPending(w) ==
    /\ pc[w] = "drain"
    /\ Ring!PopStore
    /\ priority_sum' = priority_sum + Priority(got)
    /\ jobs' = Append(jobs, NewJob(got))
    /\ UNCHANGED <<baseVars, pc, cacheVars, clientVars, raceVars, task_idx,
                   priority_idx, mainVars, workVars>>

\* Mutant: off by one.
DrainDoneOffByOne(w) ==
    /\ pc[w] = "drain"
    /\ Ring!DrainEnd
    /\ Goto(w, IF Len(jobs) <= 1 THEN "wait" ELSE "pick")
    /\ UNCHANGED <<baseVars, cacheVars, clientVars, raceVars, listVars,
                   mainVars, workVars>>

\* Give the mutex up when there is no job.
DrainDone(w) ==
    /\ pc[w] = "drain"
    /\ Ring!DrainEnd
    /\ Goto(w, IF jobs = <<>> THEN "wait" ELSE "pick")
    /\ UNCHANGED <<baseVars, cacheVars, clientVars, raceVars, listVars,
                   mainVars, workVars>>

\* The job k places after the one under the cursor, around the list.
JobFromCursor(k) == jobs[((task_idx + k) % Len(jobs)) + 1]

\* What is left of the priorities of the job under the cursor and of the k
\* jobs after it.
Reach(k) ==
    LET sum[i \in 0 .. k] ==
            IF i = 0 THEN Priority(JobFromCursor(0).client) - priority_idx
            ELSE sum[i - 1] + Priority(JobFromCursor(i).client)
    IN  sum[k]

\* Where the loop leaves the cursor: past every job whose remaining priority
\* is smaller than what is left of the offset.
CursorAfter(offset) ==
    LET skipped == {k \in 0 .. Len(jobs) : Reach(k) < offset}
        k == Cardinality(skipped)
    IN  [task_idx     |-> (task_idx + k) % Len(jobs),
         priority_idx |-> IF k = 0 THEN priority_idx + offset
                          ELSE offset - Reach(k - 1)]

\* Mutant: the cursor is left where it was.
RemoveSwapKeepCursor(i) ==
    /\ priority_sum' = priority_sum - Priority(jobs[i].client)
    /\ jobs' = SubSeq([jobs EXCEPT ![i] = jobs[Len(jobs)]], 1, Len(jobs) - 1)
    /\ UNCHANGED <<task_idx, priority_idx>>

\* scheduler_rand_remove_swap_job, and the reset of the cursor after it.
RemoveSwap(i) ==
    /\ priority_sum' = priority_sum - Priority(jobs[i].client)
    /\ jobs' = SubSeq([jobs EXCEPT ![i] = jobs[Len(jobs)]], 1, Len(jobs) - 1)
    /\ task_idx' = 0
    /\ priority_idx' = 0

\* Mutant: the next task starts one value earlier.
NextStartEarly(job) ==
    LET next == (job.start + BLOCK_SIZE - 1) % U64
        end  == Request[job.client].end
    IN  IF end < next THEN end ELSE next

\* The value at which the next task of a job starts: also the last of this.
NextStart(job) ==
    LET next == (job.start + BLOCK_SIZE) % U64
        end  == Request[job.client].end
    IN  IF end < next THEN end ELSE next

\* Take the next block of the job under the cursor; the mutex is given up.
Schedule(w, offset) ==
    /\ pc[w] = "pick"
    /\ LET cursor == CursorAfter(offset)
           i    == cursor.task_idx + 1
           job  == jobs[i]
           next == NextStart(job)
       IN  /\ task' = [task EXCEPT ![w] =
                         [client |-> job.client, start |-> job.start,
                          end |-> next, answer |-> NoAnswer]]
           /\ handed' = [handed EXCEPT ![job.client] =
                           @ \cup Searched(job.start, next)]
           /\ IF next = Request[job.client].end
              THEN RemoveSwap(i)
              ELSE /\ jobs' = [jobs EXCEPT ![i].start = next]
                   /\ task_idx' = cursor.task_idx
                   /\ priority_idx' = cursor.priority_idx
                   /\ UNCHANGED priority_sum
    /\ Goto(w, "search")
    /\ UNCHANGED <<baseVars, cacheVars, clientVars, raceVars, ringVars,
                   mainVars, position>>

----------------------------------------------------------------------------
(* The loop that waits for a job, and scheduler_yield_worker.  It looks at *)
(* the length of the list, never at the ring.                              *)

StopWaiting(w) ==
    /\ pc[w] = "wait"
    /\ ~running \/ jobs # <<>>
    /\ Goto(w, "loop")
    /\ UNCHANGED <<baseVars, cacheVars, clientVars, raceVars, listVars,
                   ringVars, mainVars, workVars>>

DecideToYield(w) ==
    /\ pc[w] = "wait"
    /\ running
    /\ jobs = <<>>
    /\ Goto(w, "yield")
    /\ UNCHANGED <<baseVars, cacheVars, clientVars, raceVars, listVars,
                   ringVars, mainVars, workVars>>

Yield(w) ==
    /\ pc[w] = "yield"
    /\ IF waker_type = "SPIN"
       THEN /\ waker' = waker + 1
            /\ position' = [position EXCEPT ![w] = waker]
       ELSE UNCHANGED <<waker, position>>
    /\ Goto(w, "asleep")
    /\ UNCHANGED <<waker_type, running, job_id, cacheVars, clientVars,
                   raceVars, listVars, ringVars, mainVars, task, handed>>

Awake(w) ==
    /\ pc[w] = "asleep"
    /\ SeesWakeFrom(position[w])
    /\ position' = [position EXCEPT ![w] = 0]
    /\ Goto(w, "wait")
    /\ UNCHANGED <<baseVars, cacheVars, clientVars, raceVars, listVars,
                   ringVars, mainVars, task, handed>>

\* pthread_cond_wait may return without a signal.
SpuriousWake(w) ==
    /\ pc[w] = "asleep"
    /\ waker_type = "PTHREAD"
    /\ Goto(w, "wait")
    /\ UNCHANGED <<baseVars, cacheVars, clientVars, raceVars, listVars,
                   ringVars, mainVars, workVars>>

----------------------------------------------------------------------------
(* scheduler_rand_worker. *)

Found(w) ==
    Reverse(task[w].start, task[w].end, Request[task[w].client].hash)

SearchFailed(w) ==
    /\ pc[w] = "search"
    /\ Found(w) = NoAnswer
    /\ task' = [task EXCEPT ![w] = NoTask]
    /\ Goto(w, "loop")
    /\ UNCHANGED <<baseVars, cacheVars, clientVars, raceVars, listVars,
                   ringVars, mainVars, position, handed>>

SearchFound(w) ==
    /\ pc[w] = "search"
    /\ Found(w) # NoAnswer
    /\ task' = [task EXCEPT ![w].answer = Found(w)]
    /\ Goto(w, "cancel")
    /\ UNCHANGED <<baseVars, cacheVars, clientVars, raceVars, listVars,
                   ringVars, mainVars, position, handed>>

\* Mutant: the first job is removed, whichever it is.
CancelFirst(w) ==
    /\ pc[w] = "cancel"
    /\ LockFree
    /\ IF jobs # <<>> THEN RemoveSwap(1) ELSE UNCHANGED listVars
    /\ Goto(w, "notify")
    /\ UNCHANGED <<baseVars, cacheVars, clientVars, raceVars, ringVars,
                   mainVars, workVars>>

\* scheduler_rand_cancel: the job may have left the list.
Cancel(w) ==
    /\ pc[w] = "cancel"
    /\ LockFree
    /\ IF \E i \in DOMAIN jobs : jobs[i].client = task[w].client
       THEN \E i \in DOMAIN jobs :
               jobs[i].client = task[w].client /\ RemoveSwap(i)
       ELSE UNCHANGED listVars
    /\ Goto(w, "notify")
    /\ UNCHANGED <<baseVars, cacheVars, clientVars, raceVars, ringVars,
                   mainVars, workVars>>

Entry(w) ==
    [key |-> Request[task[w].client].hash, value |-> task[w].answer]

NotifyRecipient(w) ==
    /\ pc[w] = "notify"
    /\ Notify(task[w].client, task[w].answer)
    /\ racing' = racing \cup {Entry(w)}
    /\ Goto(w, "cache")
    /\ UNCHANGED <<baseVars, tree, pending, ringRaced, listVars, ringVars,
                   mainVars, workVars>>

CachePush(w) ==
    /\ pc[w] = "cache"
    /\ InsertPending(w, Entry(w))
    /\ task' = [task EXCEPT ![w] = NoTask]
    /\ Goto(w, "loop")
    /\ UNCHANGED <<baseVars, tree, clientVars, usedFreed, listVars, ringVars,
                   mainVars, position, handed>>

----------------------------------------------------------------------------
Submit == PushFull \/ PushJob \/ PublishJob \/ Wake

Shutdown == CloseWake \/ JoinAndDestroy

Arrival ==
    \/ \E c \in Clients : SubmitMiss(c)
    \/ \E c \in Clients : \E entry \in tree \cup pending : SubmitHit(c, entry)
    \/ Close

WorkerStep(w) ==
    \/ Exit(w)
    \/ TakeLock(w)
    \/ PopPending(w)
    \/ AppendPending(w)
    \/ DrainDone(w)
    \/ \E offset \in 0 .. priority_sum - 1 : Schedule(w, offset)
    \/ StopWaiting(w)
    \/ DecideToYield(w)
    \/ Yield(w)
    \/ Awake(w)
    \/ SearchFailed(w)
    \/ SearchFound(w)
    \/ Cancel(w)
    \/ NotifyRecipient(w)
    \/ CachePush(w)

\* The process has ended.
Stopped == mpc = "stopped" /\ UNCHANGED vars

Next ==
    \/ Arrival
    \/ Submit
    \/ Shutdown
    \/ \E w \in Workers : WorkerStep(w) \/ SpuriousWake(w)
    \/ Stopped

Spec == Init /\ [][Next]_vars

\* Every thread keeps running; the mutex need not be fair.  Requests, the stop
\* signal and spurious wakeups need not come.
Fairness ==
    /\ WF_vars(Submit)
    /\ WF_vars(Shutdown)
    /\ \A w \in Workers : WF_vars(WorkerStep(w))

LiveSpec == Spec /\ Fairness

----------------------------------------------------------------------------
JobType == [client : Clients, start : Nat]

Tasks == [client : Clients \cup {NoClient}, start : Nat, end : Nat, answer : Nat]

Labels == {"loop", "drain", "pick", "wait", "yield", "asleep", "search",
           "cancel", "notify", "cache", "exited"}

TypeOK ==
    /\ BaseType
    /\ CacheType
    /\ recipient \in [Clients -> {"none", "live", "freed"}]
    /\ sent \in [Clients -> Nat]
    /\ ringRaced \in BOOLEAN /\ usedFreed \in BOOLEAN
    /\ jobs \in Seq(JobType)
    /\ priority_sum \in Nat /\ task_idx \in Nat /\ priority_idx \in Nat
    /\ mpc \in {"idle", "push", "wake", "close", "join", "stopped"}
    /\ cur \in Clients \cup {NoClient}
    /\ pc \in [Workers -> Labels]
    /\ task \in [Workers -> Tasks]
    /\ position \in [Workers -> Nat]
    /\ handed \in [Clients -> SUBSET Nat]

----------------------------------------------------------------------------
PrioritySum ==
    LET sum[i \in 0 .. Len(jobs)] ==
            IF i = 0 THEN 0 ELSE sum[i - 1] + Priority(jobs[i].client)
    IN  sum[Len(jobs)]

\* The cursor is always at a job of the list and within its priority, and
\* the modulus of the random offset is the sum of the priorities: no access
\* out of bounds ("reset the scheduler state, or segfaults be upon us",
\* sched_rand.c:206), no wrap of the remaining priority, no division by zero.
CursorInBounds ==
    /\ priority_sum = PrioritySum
    /\ IF jobs = <<>>
       THEN task_idx = 0 /\ priority_idx = 0
       ELSE /\ task_idx < Len(jobs)
            /\ priority_idx <= Priority(jobs[task_idx + 1].client)

InRing(c) ==
    c = put \/ c = got \/ \E i \in DOMAIN Ring!Contents : Ring!Contents[i] = c

\* The candidates of a request that nobody has been given yet.
Left(c) ==
    IF InRing(c) \/ cur = c THEN Request[c].start .. Request[c].end
    ELSE UNION {jobs[i].start .. Request[c].end :
                   i \in {k \in DOMAIN jobs : jobs[k].client = c}}

Solved(c) ==
    \/ recipient[c] = "freed"
    \/ \E w \in Workers : pc[w] = "notify" /\ task[w].client = c

\* Every candidate of a request that was not dropped is either still to be
\* handed out or has been handed to a worker, until an answer is found:
\* draining, removing a job by swapping and cancelling lose nothing.
RangeAccounted ==
    \A c \in Clients :
        recipient[c] # "none" /\ c \notin dropped /\ ~Solved(c) =>
            Request[c].start .. Request[c].end \subseteq handed[c] \cup Left(c)

\* The candidates that two tasks of one job share: the last of one task is
\* the first of the next, and the last group of a task may reach beyond it,
\* and beyond the end of the range.
Seam(c) ==
    {v \in Request[c].start + BLOCK_SIZE .. Request[c].end + LANES - 1 :
        (v - Request[c].start) % BLOCK_SIZE < LANES}

\* A second worker comes to answer the same client only with an answer that
\* two consecutive tasks share; otherwise a recipient is used once.
AnsweredTwiceOnlyAtSeam ==
    \A w \in Workers :
        LET c == task[w].client
        IN  /\ pc[w] = "notify"
            /\ \/ recipient[c] = "freed"
               \/ \E v \in Workers \ {w} : pc[v] = "notify" /\ task[v].client = c
            => Request[c].hash \in Seam(c)

\* Pending jobs reach the list once, in the order of their submission, while
\* main pushes without the mutex; a job is dropped only while the ring is full.
PendingIsAQueue == Ring!RefinesFifo

\* Nobody will look into the ring again.
Trapped(c) ==
    /\ InRing(c)
    /\ jobs = <<>>
    /\ \A w \in Workers : pc[w] \in {"wait", "yield", "asleep"}

\* Every solvable request is answered, unless the server stops, the ring was
\* full, or its job is in the ring while all workers wait: they wait for a job
\* in the list, and only they move one there (sched_rand.c:164).
RequestsAnswered ==
    \A c \in Clients :
        Solvable(c) /\ recipient[c] = "live"
            ~> sent[c] # NoAnswer \/ ~running \/ c \in dropped \/ Trapped(c)
=============================================================================
