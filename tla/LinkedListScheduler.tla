------------------------- MODULE LinkedListScheduler -------------------------
(***************************************************************************)
(* scheduler/sched_linked_list.c: a scheduler without locks.  Jobs form a  *)
(* linked list that only main changes; the workers walk it, claim blocks   *)
(* with an atomic increment and set a job's done flag when they have found *)
(* its answer.  Nothing is ever freed.                                     *)
(*                                                                         *)
(* One action is one access to shared memory, but a claim tests done and   *)
(* increments at once: an increment that comes after another worker has    *)
(* set done has the effect of one before it.  Plain loads and stores are   *)
(* taken in program order, as the build on x86-64 performs them.           *)
(*                                                                         *)
(* Abstractions, besides those of SchedulerBase: a job is known by its     *)
(* client; NULL is NoClient; a worker's copies of the fields of a job      *)
(* (jstart, jend, jblock_count, jhash) are known by the job they were      *)
(* copied from, prev_job; block_idx stops counting at block_count.         *)
(***************************************************************************)
EXTENDS SchedulerBase

CONSTANT BLOCK_SIZE     \* SCHEDULER_LL_BLOCK_SIZE, 2^16 in the code

ASSUME BlockAssumption == BLOCK_SIZE \in Nat \ {0}

ASSUME ClientsAssumption == IsFiniteSet(Clients)

VARIABLES
    (* the head of the list; the fields of the jobs that change *)
    current_job, next, done, block_idx,
    (* main: where it is, the client it submits, its local job *)
    mpc, cur, walk,
    (* the workers: the locals job and prev_job, the block and its answer,
       the waker value they spin from *)
    job, prev_job, task, position,
    (* history: the jobs that main has taken off the list *)
    lost

listVars == <<current_job, next, done, block_idx>>
mainVars == <<mpc, cur, walk>>
workVars == <<job, prev_job, task, position>>
raceVars == <<ringRaced, usedFreed>>
vars == <<baseVars, pc, cacheVars, clientVars, raceVars, listVars, mainVars,
          workVars, lost>>

----------------------------------------------------------------------------
\* (end - start) / block_size: the values after the last whole block belong to
\* no block.
BlockCount(c) == (Request[c].end - Request[c].start) \div BLOCK_SIZE

NoTask == [start |-> 0, end |-> 0, answer |-> NoAnswer]

Init ==
    /\ BaseInit
    /\ current_job = NoClient
    /\ next = [c \in Clients |-> NoClient]
    /\ done = [c \in Clients |-> FALSE]
    /\ block_idx = [c \in Clients |-> 0]
    /\ mpc = "idle"
    /\ cur = NoClient
    /\ walk = NoClient
    /\ pc = [w \in Workers |-> "start"]
    /\ job = [w \in Workers |-> NoClient]
    /\ prev_job = [w \in Workers |-> NoClient]
    /\ task = [w \in Workers |-> NoTask]
    /\ position = [w \in Workers |-> 0]
    /\ lost = {}

\* The jobs from `first` on, in order.
ListFrom(first) ==
    LET nth[n \in 1 .. Cardinality(Clients) + 1] ==
            IF n = 1 THEN first
            ELSE IF nth[n - 1] = NoClient THEN NoClient ELSE next[nth[n - 1]]
        last == Cardinality({n \in DOMAIN nth : nth[n] # NoClient})
    IN  [n \in 1 .. last |-> nth[n]]

Listed(first) == {ListFrom(first)[n] : n \in DOMAIN ListFrom(first)}

----------------------------------------------------------------------------
(* scheduler_linked_list_submit, on the main thread. *)

SubmitHit(c, entry) ==
    /\ mpc = "idle"
    /\ AnswerFromCache(c, entry)
    /\ UNCHANGED <<baseVars, pc, racing, raceVars, listVars, mainVars,
                   workVars, lost>>

SubmitMiss(c) ==
    /\ mpc = "idle"
    /\ MissCache(c)
    /\ cur' = c
    /\ walk' = current_job
    /\ mpc' = "skip"
    /\ UNCHANGED <<baseVars, pc, racing, sent, raceVars, listVars, workVars,
                   lost>>

Unfinished(c) == c # NoClient /\ ~done[c]

\* Jobs that are not done are passed over ...
PassUnfinished ==
    /\ mpc = "skip"
    /\ Unfinished(walk)
    /\ walk' = next[walk]
    /\ UNCHANGED <<baseVars, pc, cacheVars, clientVars, raceVars, listVars,
                   mpc, cur, workVars, lost>>

\* ... and the list now starts at the first one that is.
SetCurrent ==
    /\ mpc = "skip"
    /\ ~Unfinished(walk)
    /\ current_job' = walk
    /\ lost' = lost \cup (Listed(current_job) \ Listed(walk))
    /\ mpc' = "link"
    /\ UNCHANGED <<baseVars, pc, cacheVars, clientVars, raceVars, next, done,
                   block_idx, cur, walk, workVars>>

\* The jobs that the new one comes after.
Before(c) ==
    {n \in DOMAIN ListFrom(walk) :
        \A k \in 1 .. n : Request[ListFrom(walk)[k]].priority <= Request[c].priority}

\* Mutant: the rest of the list is cut off.
LinkCut ==
    LET n == Cardinality(Before(cur))
    IN  /\ mpc = "link"
        /\ IF n = 0
           THEN /\ current_job' = cur
                /\ next' = [next EXCEPT ![cur] = walk]
           ELSE /\ next' = [next EXCEPT ![ListFrom(walk)[n]] = cur]
                /\ UNCHANGED current_job
        /\ walk' = NoClient
        /\ mpc' = "wake"
        /\ UNCHANGED <<baseVars, pc, cacheVars, clientVars, raceVars, done,
                       block_idx, cur, workVars, lost>>

\* The new job is put in front of the first one with a larger priority.
Link ==
    LET n == Cardinality(Before(cur))
    IN  /\ mpc = "link"
        /\ IF n = 0
           THEN /\ current_job' = cur
                /\ next' = [next EXCEPT ![cur] = walk]
           ELSE LET prev == ListFrom(walk)[n]
                IN  /\ next' = [next EXCEPT ![cur] = next[prev], ![prev] = cur]
                    /\ UNCHANGED current_job
        /\ walk' = NoClient
        /\ mpc' = "wake"
        /\ UNCHANGED <<baseVars, pc, cacheVars, clientVars, raceVars, done,
                       block_idx, cur, workVars, lost>>

Wake ==
    /\ mpc = "wake"
    /\ WakeWorkers
    /\ cur' = NoClient
    /\ mpc' = "idle"
    /\ UNCHANGED <<waker_type, running, job_id, cacheVars, clientVars,
                   raceVars, listVars, walk, workVars, lost>>

\* scheduler_base_close and worker_destroy_pool.
Close ==
    /\ mpc = "idle"
    /\ running' = FALSE
    /\ mpc' = "close"
    /\ UNCHANGED <<waker_type, waker, job_id, pc, cacheVars, clientVars,
                   raceVars, listVars, cur, walk, workVars, lost>>

CloseWake ==
    /\ mpc = "close"
    /\ WakeWorkers
    /\ mpc' = "join"
    /\ UNCHANGED <<waker_type, running, job_id, cacheVars, clientVars,
                   raceVars, listVars, cur, walk, workVars, lost>>

JoinAndDestroy ==
    /\ mpc = "join"
    /\ \A w \in Workers : pc[w] = "exited"
    /\ mpc' = "stopped"
    /\ UNCHANGED <<baseVars, pc, cacheVars, clientVars, raceVars, listVars,
                   cur, walk, workVars, lost>>

----------------------------------------------------------------------------
(* scheduler_linked_list_worker. *)

\* Back from scheduler_yield_worker a worker starts again.
AtStart(w) == pc[w] \in {"start", "wait"}

Exit(w) ==
    /\ AtStart(w)
    /\ ~running
    /\ Goto(w, "exited")
    /\ UNCHANGED <<baseVars, cacheVars, clientVars, raceVars, listVars,
                   mainVars, workVars, lost>>

Start(w) ==
    /\ AtStart(w)
    /\ running
    /\ job' = [job EXCEPT ![w] = current_job]
    /\ Goto(w, "next_job")
    /\ UNCHANGED <<baseVars, cacheVars, clientVars, raceVars, listVars,
                   mainVars, prev_job, task, position, lost>>

SkipDone(w) ==
    /\ pc[w] = "next_job"
    /\ job[w] # NoClient
    /\ ~Unfinished(job[w])
    /\ job' = [job EXCEPT ![w] = next[job[w]]]
    /\ UNCHANGED <<baseVars, pc, cacheVars, clientVars, raceVars, listVars,
                   mainVars, prev_job, task, position, lost>>

EndOfList(w) ==
    /\ pc[w] = "next_job"
    /\ job[w] = NoClient
    /\ Goto(w, "yield")
    /\ UNCHANGED <<baseVars, cacheVars, clientVars, raceVars, listVars,
                   mainVars, workVars, lost>>

Yield(w) ==
    /\ pc[w] = "yield"
    /\ IF waker_type = "SPIN"
       THEN /\ waker' = waker + 1
            /\ position' = [position EXCEPT ![w] = waker]
       ELSE UNCHANGED <<waker, position>>
    /\ Goto(w, "asleep")
    /\ UNCHANGED <<waker_type, running, job_id, cacheVars, clientVars,
                   raceVars, listVars, mainVars, job, prev_job, task, lost>>

\* Mutant: back from the wait a worker goes on with its job, not to start.
AwakeNextJob(w) ==
    /\ pc[w] = "asleep"
    /\ SeesWakeFrom(position[w])
    /\ position' = [position EXCEPT ![w] = 0]
    /\ Goto(w, "next_job")
    /\ UNCHANGED <<baseVars, cacheVars, clientVars, raceVars, listVars,
                   mainVars, job, prev_job, task, lost>>

Awake(w) ==
    /\ pc[w] = "asleep"
    /\ SeesWakeFrom(position[w])
    /\ position' = [position EXCEPT ![w] = 0]
    /\ Goto(w, "start")
    /\ UNCHANGED <<baseVars, cacheVars, clientVars, raceVars, listVars,
                   mainVars, job, prev_job, task, lost>>

\* pthread_cond_wait may return without a signal.
SpuriousWake(w) ==
    /\ pc[w] = "asleep"
    /\ waker_type = "PTHREAD"
    /\ Goto(w, "start")
    /\ UNCHANGED <<baseVars, cacheVars, clientVars, raceVars, listVars,
                   mainVars, workVars, lost>>

\* Mutant: the index after the increment is used: block 0 is never searched.
BlockAfterAdd(c, idx) ==
    LET start == Request[c].start + (idx + 1) * BLOCK_SIZE
        end   == start + BLOCK_SIZE
    IN  [start |-> start, answer |-> NoAnswer,
         end |-> IF end > Request[c].end THEN Request[c].end ELSE end]

\* The last value of a block is the first of the next one.
Block(c, idx) ==
    LET start == Request[c].start + idx * BLOCK_SIZE
        end   == start + BLOCK_SIZE
    IN  [start |-> start, answer |-> NoAnswer,
         end |-> IF end > Request[c].end THEN Request[c].end ELSE end]

\* Copy the job if it is another than before, and claim its next block.
ClaimBlock(w) ==
    LET c   == job[w]
        idx == block_idx[c]
    IN  /\ pc[w] = "next_job"
        /\ c # NoClient
        /\ ~done[c]
        /\ idx < BlockCount(c)
        /\ prev_job' = [prev_job EXCEPT ![w] = c]
        /\ block_idx' = [block_idx EXCEPT ![c] = idx + 1]
        /\ task' = [task EXCEPT ![w] = Block(c, idx)]
        /\ Goto(w, "search")
        /\ UNCHANGED <<baseVars, cacheVars, clientVars, raceVars, current_job,
                       next, done, mainVars, job, position, lost>>

Exhausted(c) == ~done[c] /\ block_idx[c] >= BlockCount(c)

\* No block is left, and `goto next_job` comes back to the same job: the
\* worker circles until another one sets done, and looks at nothing else.
Circle(w) ==
    /\ pc[w] = "next_job"
    /\ job[w] # NoClient
    /\ Exhausted(job[w])
    /\ prev_job' = [prev_job EXCEPT ![w] = job[w]]
    /\ UNCHANGED <<baseVars, pc, cacheVars, clientVars, raceVars, listVars,
                   mainVars, job, task, position, lost>>

Found(w) ==
    Reverse(task[w].start, task[w].end, Request[prev_job[w]].hash)

SearchFailed(w) ==
    /\ pc[w] = "search"
    /\ Found(w) = NoAnswer
    /\ task' = [task EXCEPT ![w] = NoTask]
    /\ Goto(w, "start")
    /\ UNCHANGED <<baseVars, cacheVars, clientVars, raceVars, listVars,
                   mainVars, job, prev_job, position, lost>>

MarkDone(w) ==
    /\ pc[w] = "search"
    /\ Found(w) # NoAnswer
    /\ task' = [task EXCEPT ![w].answer = Found(w)]
    /\ done' = [done EXCEPT ![job[w]] = TRUE]
    /\ Goto(w, "notify")
    /\ UNCHANGED <<baseVars, cacheVars, clientVars, raceVars, current_job,
                   next, block_idx, mainVars, job, prev_job, position, lost>>

Entry(w) == [key |-> Request[prev_job[w]].hash, value |-> task[w].answer]

NotifyRecipient(w) ==
    /\ pc[w] = "notify"
    /\ Notify(job[w], task[w].answer)
    /\ racing' = racing \cup {Entry(w)}
    /\ Goto(w, "cache")
    /\ UNCHANGED <<baseVars, tree, pending, ringRaced, listVars, mainVars,
                   workVars, lost>>

CachePush(w) ==
    /\ pc[w] = "cache"
    /\ InsertPending(w, Entry(w))
    /\ task' = [task EXCEPT ![w] = NoTask]
    /\ Goto(w, "start")
    /\ UNCHANGED <<baseVars, tree, clientVars, usedFreed, listVars, mainVars,
                   job, prev_job, position, lost>>

----------------------------------------------------------------------------
Submit == PassUnfinished \/ SetCurrent \/ Link \/ Wake

Shutdown == CloseWake \/ JoinAndDestroy

Arrival ==
    \/ \E c \in Clients : SubmitMiss(c)
    \/ \E c \in Clients : \E entry \in tree \cup pending : SubmitHit(c, entry)
    \/ Close

WorkerStep(w) ==
    \/ Exit(w)
    \/ Start(w)
    \/ SkipDone(w)
    \/ EndOfList(w)
    \/ Yield(w)
    \/ Awake(w)
    \/ ClaimBlock(w)
    \/ Circle(w)
    \/ SearchFailed(w)
    \/ MarkDone(w)
    \/ NotifyRecipient(w)
    \/ CachePush(w)

\* The process has ended.
Stopped == mpc = "stopped" /\ UNCHANGED vars

Next ==
    \/ Arrival
    \/ Submit
    \/ Shutdown
    \/ \E w \in Workers : WorkerStep(w) \/ SpuriousWake(w)
    \/ Stopped

Spec == Init /\ [][Next]_vars

\* Every thread keeps running.  Requests, the stop signal and spurious wakeups
\* need not come.
Fairness ==
    /\ WF_vars(Submit)
    /\ WF_vars(Shutdown)
    /\ \A w \in Workers : WF_vars(WorkerStep(w))

LiveSpec == Spec /\ Fairness

----------------------------------------------------------------------------
Refs == Clients \cup {NoClient}

Tasks == [start : Nat, end : Nat, answer : Nat]

Labels == {"start", "wait", "next_job", "yield", "asleep", "search", "notify",
           "cache", "exited"}

TypeOK ==
    /\ BaseType
    /\ CacheType
    /\ recipient \in [Clients -> {"none", "live", "freed"}]
    /\ sent \in [Clients -> Nat]
    /\ ringRaced \in BOOLEAN /\ usedFreed \in BOOLEAN
    /\ current_job \in Refs /\ next \in [Clients -> Refs]
    /\ done \in [Clients -> BOOLEAN] /\ block_idx \in [Clients -> Nat]
    /\ mpc \in {"idle", "skip", "link", "wake", "close", "join", "stopped"}
    /\ cur \in Refs /\ walk \in Refs
    /\ pc \in [Workers -> Labels]
    /\ job \in [Workers -> Refs] /\ prev_job \in [Workers -> Refs]
    /\ task \in [Workers -> Tasks]
    /\ position \in [Workers -> Nat]
    /\ lost \subseteq Clients

----------------------------------------------------------------------------
\* The list that the workers walk while main changes it is sorted by priority,
\* has no job twice, and between two submissions holds every job that still
\* waits for its answer, except those that SetCurrent took off: putting a new
\* job in, in front of, between or after others, loses none.
ListWhole ==
    LET list == ListFrom(current_job)
    IN  /\ \A i, k \in DOMAIN list :
              i < k => /\ list[i] # list[k]
                       /\ Request[list[i]].priority <= Request[list[k]].priority
        /\ mpc = "idle" =>
              \A c \in Clients :
                 recipient[c] = "live" /\ c \notin lost => c \in Listed(current_job)

\* The answer of c is in one of the whole blocks of its range.
InABlock(c) ==
    /\ Request[c].hash # NoAnswer
    /\ BlockCount(c) > 0
    /\ Request[c].hash \in Request[c].start ..
                           Request[c].start + BlockCount(c) * BLOCK_SIZE

\* A worker that has come to an exhausted job without an answer in its blocks
\* circles on it for ever.
Wedged(w) ==
    /\ pc[w] = "next_job"
    /\ job[w] # NoClient
    /\ Exhausted(job[w])
    /\ ~InABlock(job[w])

\* With the futex, a client whose answer is in one of the blocks gets it,
\* unless the server is closed, its job was taken off the list unfinished, or
\* every worker circles on a job that will never be done.
RequestsAnswered ==
    \A c \in Clients :
        waker_type = "FUTEX" /\ InABlock(c) /\ recipient[c] = "live"
            ~> \/ sent[c] # NoAnswer
               \/ ~running
               \/ c \in lost
               \/ \A w \in Workers : Wedged(w)

\* With the futex, main comes back from worker_destroy_pool, unless a worker
\* circles on a job that will never be done: a circling worker does not look
\* at running, and all others find it FALSE, asleep or not.
ShutdownCompletes ==
    waker_type = "FUTEX" /\ ~running
        ~> mpc = "stopped" \/ \E w \in Workers : Wedged(w)
=============================================================================
