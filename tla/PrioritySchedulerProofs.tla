----------------------- MODULE PrioritySchedulerProofs -----------------------
(***************************************************************************)
(* Proofs about PriorityScheduler for every set of workers, of requests,   *)
(* block size, initial capacity and waker.                                 *)
(*                                                                         *)
(* The inductive invariant begins with three layers, each proved with the  *)
(* help of the ones before: Typed (types, and that every node used belongs *)
(* to a slot that was written), SlotInv (the accounts of the freelist) and *)
(* KnowInv (ids, copies and claims).  KnowInv needs SlotInv because a job  *)
(* is written without a lock: it is harmless to what the workers know only *)
(* because the slot is not the slot of a published job.                    *)
(* The layers about answers and deletion follow, each with its own comment.*)
(* The last section is about the read-write lock that the scheduler takes. *)
(***************************************************************************)
EXTENDS PriorityScheduler, SpinRWLock, FiniteSetTheorems, SequenceTheorems, TLAPS

----------------------------------------------------------------------------
(* The operators the model is built from. *)

\* The fields of a request are numbers and its range is not empty.
LEMMA RequestFields ==
    ASSUME NEW c \in Clients
    PROVE  /\ Request[c].start \in Nat
           /\ Request[c].end \in Nat
           /\ Request[c].hash \in Nat
           /\ Request[c].priority \in Nat
           /\ Request[c].start <= Request[c].end
BY RequestAssumption DEF Requests

\* A range has a natural number of blocks.
LEMMA BlockCountType ==
    ASSUME NEW c \in Clients
    PROVE  BlockCount(c) \in Nat
<1> DEFINE a == Request[c].end - Request[c].start + BLOCK_SIZE - 1
<1>1. a \in Nat
  BY RequestFields, SizeAssumption
<1>2. a \div BLOCK_SIZE \in Nat
  <2> HIDE DEF a
  <2> QED
    BY <1>1, SizeAssumption
<1> QED
  BY <1>2 DEF BlockCount

\* The job that a submission builds is a job.
LEMMA NewJobType ==
    ASSUME NEW c \in Clients, NEW k \in Nat
    PROVE  NewJob(c, k) \in Jobs
BY BlockCountType, SizeAssumption DEF NewJob, Jobs

\* Memory that calloc returns is a job.
LEMMA ZeroJobType == ZeroJob \in Jobs
BY SizeAssumption DEF ZeroJob, Jobs

\* A mixture of two jobs is a job.
LEMMA HalfWrittenType ==
    ASSUME NEW old \in Jobs, NEW new \in Jobs, NEW late
    PROVE  HalfWritten(old, new, late) \in Jobs
BY DEF HalfWritten, Jobs

\* The freelist really grows, also above the limit where it no longer doubles.
LEMMA GrownCapBigger ==
    ASSUME NEW k \in Nat \ {0}
    PROVE  GrownCap(k) \in Nat /\ GrownCap(k) > k
<1>1. CASE k <= 16384
  BY <1>1 DEF GrownCap
<1>2. CASE k > 16384
  BY <1>2 DEF GrownCap
<1> QED
  BY <1>1, <1>2

\* The first candidate of a block is a natural number.
LEMMA BlockStartType ==
    ASSUME NEW c \in Clients, NEW b \in Nat
    PROVE  Request[c].start + b * BLOCK_SIZE \in Nat
<1>1. b * BLOCK_SIZE \in Nat
  BY SizeAssumption
<1> QED
  BY <1>1, RequestFields

\* The search returns a natural number.
LEMMA ReverseType ==
    ASSUME NEW a, NEW b, NEW h \in Nat
    PROVE  Reverse(a, b, h) \in Nat
BY DEF Reverse, NoAnswer

----------------------------------------------------------------------------
(* Type correctness.  A claim reads the request of the job, and a free slot *)
(* has none: TypeOK needs that every node anybody may still use is the node *)
(* of a slot that has been written once.                                    *)

Written(i) == i \in 0 .. cap - 1 /\ jobs[i].request \in Clients

NodesWritten ==
    /\ \A n \in jobs_r : Written(n.elem)
    /\ \A n \in jobs_w : Written(n.elem)
    /\ \A w \in Workers : \A n \in local_jobs[w] : Written(n.elem)
    /\ \A w \in Workers : InJob(w) => Written(task[w].node.elem)
    /\ mpc \in {"tear", "cleanup"} => Written(slot)
    /\ mpc \in {"insert", "tear", "cleanup"} => cur \in Clients

Typed == TypeOK /\ NodesWritten

\* The initial state is typed.
LEMMA InitTyped == Init => Typed
<1> SUFFICES ASSUME Init PROVE Typed
  OBVIOUS
<1>1. NoTask \in Tasks
  BY DEF NoTask, Tasks, NoNode, NoAnswer
<1>2. jobs \in [0 .. cap - 1 -> Jobs] /\ cap \in Nat \ {0}
  BY ZeroJobType, SizeAssumption DEF Init, BaseInit
<1>3. indices \in Seq(0 .. cap - 1)
  BY SizeAssumption DEF Init, BaseInit
<1>4. TypeOK
  <2>1. BaseType /\ CacheType
    BY WakerAssumption DEF Init, BaseInit, BaseType, CacheType
  <2>2. ListType
    BY <1>2, <1>3 DEF ListType
  <2>3. MainType
    BY SizeAssumption DEF Init, BaseInit, MainType
  <2>4. WorkType
    BY <1>1 DEF Init, BaseInit, WorkType, Labels, NoJobId
  <2>5. ClientType
    BY DEF Init, BaseInit, ClientType, NoAnswer
  <2> QED
    BY <2>1, <2>2, <2>3, <2>4, <2>5 DEF TypeOK
<1>5. NodesWritten
  BY DEF Init, BaseInit, NodesWritten, InJob
<1> QED
  BY <1>4, <1>5 DEF Typed

\* Waking the workers moves only those that sleep.
LEMMA WakeWorkersMoves ==
    ASSUME BaseType, WorkType, WakeWorkers
    PROVE  /\ waker' \in Nat
           /\ pc' \in [Workers -> Labels]
           /\ \A w \in Workers :
                \/ pc'[w] = pc[w]
                \/ pc[w] = "asleep" /\ pc'[w] = "wait"
BY WakerAssumption DEF BaseType, WorkType, WakeWorkers, Labels

\* A step that leaves the slots alone keeps what NodesWritten says of a node.
LEMMA QuietMain ==
    ASSUME Typed,
           \/ \E c \in Clients : SubmitMiss(c)
           \/ \E c \in Clients : \E entry \in tree \cup pending : SubmitHit(c, entry)
           \/ Close \/ CloseWake \/ JoinAndDestroy
           \/ \E n \in todo : CleanupKeep(n)
           \/ Publish
    PROVE  Typed'
<1> USE DEF Typed, TypeOK, baseVars, listVars, heapVars, mainVars, workVars,
            cacheVars, clientVars, histVars
<1>1. CASE \E c \in Clients : SubmitMiss(c)
  <2> PICK c \in Clients : SubmitMiss(c)
    BY <1>1
  <2>1. BaseType' /\ ListType' /\ MainType' /\ WorkType'
    BY DEF SubmitMiss, MissCache, BaseType, ListType, MainType, WorkType, Nodes, Tasks
  <2>2. CacheType' /\ ClientType'
    BY DEF SubmitMiss, MissCache, CacheType, ClientType, ProcessPending
  <2>3. NodesWritten'
    BY DEF SubmitMiss, MissCache, NodesWritten, Written, InJob
  <2> QED
    BY <2>1, <2>2, <2>3
<1>2. CASE \E c \in Clients : \E entry \in tree \cup pending : SubmitHit(c, entry)
  <2> PICK c \in Clients, entry \in tree \cup pending : SubmitHit(c, entry)
    BY <1>2
  <2>1. BaseType' /\ ListType' /\ MainType' /\ WorkType'
    BY DEF SubmitHit, AnswerFromCache, BaseType, ListType, MainType, WorkType,
           Nodes, Tasks
  <2>2. CacheType' /\ ClientType'
    BY DEF SubmitHit, AnswerFromCache, CacheType, ClientType, ProcessPending, Entries
  <2>3. NodesWritten'
    BY DEF SubmitHit, AnswerFromCache, NodesWritten, Written, InJob
  <2> QED
    BY <2>1, <2>2, <2>3
<1>3. CASE Close \/ JoinAndDestroy \/ \E n \in todo : CleanupKeep(n)
  <2>1. BaseType' /\ ListType' /\ MainType' /\ WorkType'
    BY <1>3 DEF Close, JoinAndDestroy, CleanupKeep, BaseType, ListType, MainType,
                WorkType, Nodes, Tasks
  <2>2. CacheType' /\ ClientType'
    BY <1>3 DEF Close, JoinAndDestroy, CleanupKeep, CacheType, ClientType
  <2>3. NodesWritten'
    BY <1>3 DEF Close, JoinAndDestroy, CleanupKeep, NodesWritten, Written, InJob
  <2> QED
    BY <2>1, <2>2, <2>3
<1>4. CASE CloseWake
  <2>1. WakeWorkers
    BY <1>4 DEF CloseWake
  <2>2. BaseType' /\ ListType' /\ MainType' /\ WorkType'
    BY <1>4, <2>1, WakeWorkersMoves DEF CloseWake, BaseType, ListType, MainType,
       WorkType, Nodes, Tasks
  <2>3. CacheType' /\ ClientType'
    BY <1>4 DEF CloseWake, CacheType, ClientType
  <2>4. NodesWritten'
    BY <1>4, <2>1, WakeWorkersMoves DEF CloseWake, NodesWritten, Written, InJob
  <2> QED
    BY <2>2, <2>3, <2>4
<1>5. CASE Publish
  <2> DEFINE new == [elem |-> slot, priority |-> Request[cur].priority]
  <2>1. WakeWorkers
    BY <1>5 DEF Publish
  <2>2. new \in Nodes /\ Written(new.elem)
    BY <1>5, RequestFields DEF Publish, NodesWritten, Nodes, Written
  <2>3. BaseType' /\ ListType' /\ MainType' /\ WorkType'
    BY <1>5, <2>1, <2>2, WakeWorkersMoves DEF Publish, BaseType, ListType,
       MainType, WorkType, Nodes, Tasks
  <2>4. CacheType' /\ ClientType'
    BY <1>5 DEF Publish, CacheType, ClientType
  <2>5. NodesWritten'
    BY <1>5, <2>1, <2>2, WakeWorkersMoves DEF Publish, NodesWritten, Written,
       InJob
  <2> QED
    BY <2>3, <2>4, <2>5
<1> QED
  BY <1>1, <1>2, <1>3, <1>4, <1>5

----------------------------------------------------------------------------
(* The free indices are used from the end of their sequence. *)

\* The last free index is a slot, and the others stay where they are.
LEMMA TakeLastFree ==
    ASSUME ListType, indices # <<>>
    PROVE  LET rest == SubSeq(indices, 1, Len(indices) - 1)
           IN  /\ Len(indices) \in Nat \ {0}
               /\ LastFree \in 0 .. cap - 1
               /\ rest \in Seq(0 .. cap - 1)
               /\ DOMAIN rest = 1 .. Len(indices) - 1
               /\ \A k \in 1 .. Len(indices) - 1 : rest[k] = indices[k]
<1> USE DEF ListType
<1>1. Len(indices) \in Nat /\ Len(indices) # 0
  BY EmptySeq
<1>2. LastFree \in 0 .. cap - 1
  BY <1>1, ElementOfSeq DEF LastFree
<1> DEFINE rest == SubSeq(indices, 1, Len(indices) - 1)
<1>3. \A k \in 1 .. Len(indices) - 1 : indices[k] \in 0 .. cap - 1
  BY <1>1, ElementOfSeq
<1>4. /\ rest \in Seq(0 .. cap - 1)
      /\ Len(rest) = Len(indices) - 1
      /\ \A k \in 1 .. Len(indices) - 1 : rest[k] = indices[k]
  <2> DEFINE last == Len(indices) - 1
  <2>1. last \in Nat
    BY <1>1
  <2>2. \A k \in 1 .. last : indices[k] \in 0 .. cap - 1
    BY <1>3
  <2> HIDE DEF last
  <2>3. /\ SubSeq(indices, 1, last) \in Seq(0 .. cap - 1)
        /\ Len(SubSeq(indices, 1, last)) = IF 1 <= last THEN last - 1 + 1 ELSE 0
        /\ \A k \in 1 .. last - 1 + 1 : SubSeq(indices, 1, last)[k] = indices[1 + k - 1]
    BY <2>1, <2>2, SubSeqProperties
  <2>4. Len(SubSeq(indices, 1, last)) = last
    BY <2>1, <2>3
  <2>5. \A k \in 1 .. last : SubSeq(indices, 1, last)[k] = indices[k]
    <3> TAKE k \in 1 .. last
    <3>1. k \in 1 .. last - 1 + 1 /\ 1 + k - 1 = k
      BY <2>1
    <3> QED
      BY <2>3, <3>1
  <2> QED
    BY <2>3, <2>4, <2>5 DEF last
<1> QED
  BY <1>1, <1>2, <1>4, LenProperties

\* The struct copy into a free slot, at once or field by field.
LEMMA SlotWriters ==
    ASSUME Typed,
           \/ InsertGrow
           \/ InsertUnseen
           \/ \E late \in SUBSET Fields : InsertSeen(late)
           \/ InsertRest
    PROVE  Typed'
<1> USE DEF Typed, TypeOK, baseVars, listVars, heapVars, mainVars, workVars,
            cacheVars, clientVars, histVars
<1> DEFINE new == NewJob(cur, job_id + 1)
<1>1. /\ cur \in Clients
      /\ new \in Jobs
      /\ new.request = cur
  <2>1. cur \in Clients /\ job_id + 1 \in Nat
    BY DEF InsertGrow, InsertUnseen, InsertSeen, InsertRest, NodesWritten, BaseType
  <2> QED
    BY <2>1, NewJobType DEF NewJob
<1>2. ASSUME NEW i \in 0 .. cap - 1, NEW late
      PROVE  /\ HalfWritten(jobs[i], new, late) \in Jobs
             /\ HalfWritten(jobs[i], new, late).request \in {jobs[i].request, cur}
  <2>1. jobs[i] \in Jobs
    BY DEF ListType
  <2> QED
    BY <1>1, <2>1, HalfWrittenType DEF HalfWritten
<1> HIDE DEF new
<1>3. CASE InsertGrow
  <2> DEFINE newCap == GrownCap(cap)
  <2>1. newCap \in Nat /\ newCap > cap /\ cap \in Nat \ {0}
    BY GrownCapBigger DEF ListType
  <2>2. /\ cap' = newCap
        /\ jobs' = [i \in 0 .. newCap - 1 |->
                      IF i = newCap - 1 THEN new
                      ELSE IF i < cap THEN jobs[i] ELSE ZeroJob]
        /\ indices' = [i \in 1 .. newCap - cap - 1 |-> cap + i - 1]
        /\ slot' = newCap - 1
    BY <1>3 DEF InsertGrow, StartCleanup, new
  <2> HIDE DEF newCap
  <2>3. indices' \in Seq(0 .. newCap - 1)
    <3>1. \A i \in 1 .. newCap - cap - 1 : cap + i - 1 \in 0 .. newCap - 1
      BY <2>1
    <3>2. indices' \in [1 .. newCap - cap - 1 -> 0 .. newCap - 1]
      BY <2>2, <3>1
    <3>3. newCap - cap - 1 \in Nat
      BY <2>1
    <3> QED
      BY <3>2, <3>3, SeqDef
  <2>4. jobs' \in [0 .. newCap - 1 -> Jobs]
    BY <1>1, <2>1, <2>2, ZeroJobType DEF ListType
  <2>5. ListType'
    BY <2>1, <2>2, <2>3, <2>4 DEF ListType
  <2>6. Nodes \subseteq Nodes' /\ Tasks \subseteq Tasks'
    <3>1. 0 .. cap - 1 \subseteq 0 .. cap' - 1
      BY <2>1, <2>2
    <3> QED
      BY <3>1 DEF Nodes, Tasks
  <2>7. \A i : Written(i) => Written(i)'
    BY <2>1, <2>2 DEF Written
  <2>8. BaseType' /\ MainType' /\ WorkType'
    BY <1>3, <2>1, <2>2, <2>6 DEF InsertGrow, StartCleanup, BaseType, MainType,
       WorkType
  <2>9. CacheType' /\ ClientType'
    BY <1>3 DEF InsertGrow, CacheType, ClientType
  <2>10. Written(slot)'
    BY <1>1, <2>1, <2>2 DEF Written
  <2>11. NodesWritten'
    BY <1>1, <1>3, <2>7, <2>10 DEF InsertGrow, StartCleanup, NodesWritten, InJob
  <2> QED
    BY <2>5, <2>8, <2>9, <2>11
<1>4. CASE InsertUnseen
  <2>1. LastFree \in 0 .. cap - 1 /\ indices' \in Seq(0 .. cap - 1)
    BY <1>4, TakeLastFree DEF InsertUnseen
  <2>2. jobs' = [jobs EXCEPT ![LastFree] = new]
    BY <1>4 DEF InsertUnseen, new
  <2>3. BaseType' /\ ListType' /\ MainType' /\ WorkType'
    BY <1>1, <1>4, <2>1, <2>2 DEF InsertUnseen, StartCleanup, BaseType, ListType,
       MainType, WorkType, Nodes, Tasks
  <2>4. CacheType' /\ ClientType'
    BY <1>4 DEF InsertUnseen, CacheType, ClientType
  <2>5. \A i : Written(i) \/ i = LastFree => Written(i)'
    BY <1>1, <1>4, <2>1, <2>2 DEF Written, InsertUnseen, ListType
  <2>6. NodesWritten'
    BY <1>1, <1>4, <2>5 DEF InsertUnseen, StartCleanup, NodesWritten, InJob
  <2> QED
    BY <2>3, <2>4, <2>6
<1>5. CASE \E late \in SUBSET Fields : InsertSeen(late)
  <2> PICK late \in SUBSET Fields : InsertSeen(late)
    BY <1>5
  <2>1. LastFree \in 0 .. cap - 1 /\ indices' \in Seq(0 .. cap - 1)
    BY TakeLastFree DEF InsertSeen
  <2>2. jobs' = [jobs EXCEPT ![LastFree] = HalfWritten(jobs[LastFree], new, late)]
    BY DEF InsertSeen, new, ListType
  <2>3. Written(LastFree)
    BY DEF InsertSeen, RefersTo, NodesWritten
  <2>8. /\ UNCHANGED <<baseVars, cap, heapVars, cur, todo, workVars>>
        /\ slot' = LastFree /\ torn' = late /\ mpc' = "tear"
    BY DEF InsertSeen
  <2>9. /\ HalfWritten(jobs[LastFree], new, late) \in Jobs
        /\ HalfWritten(jobs[LastFree], new, late).request \in {jobs[LastFree].request, cur}
    BY <1>2, <2>1
  <2>4. BaseType' /\ ListType' /\ MainType' /\ WorkType'
    BY <2>1, <2>2, <2>8, <2>9 DEF BaseType, ListType, MainType, WorkType, Nodes, Tasks
  <2>5. CacheType' /\ ClientType'
    BY DEF InsertSeen, CacheType, ClientType
  <2>6. \A i : Written(i) => Written(i)'
    BY <1>1, <2>1, <2>2, <2>8, <2>9 DEF Written, ListType
  <2>7. NodesWritten'
    BY <1>1, <2>3, <2>6 DEF InsertSeen, NodesWritten, InJob
  <2> QED
    BY <2>4, <2>5, <2>7
<1>6. CASE InsertRest
  <2>1. slot \in 0 .. cap - 1
    BY DEF MainType
  <2>2. jobs' = [jobs EXCEPT ![slot] = HalfWritten(jobs[slot], new, Fields \ torn)]
    BY <1>6, <2>1 DEF InsertRest, new, ListType
  <2>3. BaseType' /\ ListType' /\ MainType' /\ WorkType'
    BY <1>2, <1>6, <2>1, <2>2 DEF InsertRest, StartCleanup, BaseType, ListType,
       MainType, WorkType, Nodes, Tasks
  <2>4. CacheType' /\ ClientType'
    BY <1>6 DEF InsertRest, CacheType, ClientType
  <2>5. \A i : Written(i) => Written(i)'
    BY <1>1, <1>2, <1>6, <2>1, <2>2 DEF Written, InsertRest, ListType
  <2>6. NodesWritten'
    BY <1>1, <1>6, <2>5 DEF InsertRest, StartCleanup, NodesWritten, InJob
  <2> QED
    BY <2>3, <2>4, <2>6
<1> QED
  BY <1>3, <1>4, <1>5, <1>6

\* Deleting a node and cancelling a job leave every written slot written.
LEMMA SlotKeepers ==
    ASSUME Typed,
           \/ \E n \in todo : \E skipped \in SUBSET todo, again \in SUBSET jobs_w :
                CleanupRemove(n, skipped, again)
           \/ \E n \in jobs_r : Cancel(n)
    PROVE  Typed'
<1> USE DEF Typed, TypeOK, baseVars, listVars, heapVars, mainVars, workVars,
            cacheVars, clientVars, histVars
<1>1. CASE \E n \in todo : \E skipped \in SUBSET todo, again \in SUBSET jobs_w :
              CleanupRemove(n, skipped, again)
  <2> PICK n \in todo, skipped \in SUBSET todo, again \in SUBSET jobs_w :
        CleanupRemove(n, skipped, again)
    BY <1>1
  <2>1. n.elem \in 0 .. cap - 1
    BY DEF MainType, Nodes
  <2>2. indices' \in Seq(0 .. cap - 1)
    BY <2>1, AppendProperties DEF CleanupRemove, ListType
  <2>3. BaseType' /\ ListType' /\ MainType' /\ WorkType'
    BY <2>2 DEF CleanupRemove, BaseType, ListType, MainType, WorkType, Nodes, Tasks
  <2>4. CacheType' /\ ClientType'
    BY DEF CleanupRemove, CacheType, ClientType
  <2>5. NodesWritten'
    BY DEF CleanupRemove, NodesWritten, Written, InJob
  <2> QED
    BY <2>3, <2>4, <2>5
<1>2. CASE \E n \in jobs_r : Cancel(n)
  <2> PICK n \in jobs_r : Cancel(n)
    BY <1>2
  <2>1. n.elem \in 0 .. cap - 1
    BY DEF MainType, Nodes
  <2>2. MarkAsDone(jobs[n.elem]) \in Jobs
    BY <2>1 DEF MarkAsDone, ListType, Jobs
  <2>3. BaseType' /\ ListType' /\ MainType' /\ WorkType'
    BY <2>1, <2>2 DEF Cancel, BaseType, ListType, MainType, WorkType, Nodes, Tasks
  <2>4. CacheType' /\ ClientType'
    BY DEF Cancel, CacheType, ClientType
  <2>5. \A i : Written(i) => Written(i)'
    BY <2>1 DEF Cancel, MarkAsDone, Written, ListType, Jobs
  <2>6. NodesWritten'
    BY <2>5 DEF Cancel, NodesWritten, InJob
  <2> QED
    BY <2>3, <2>4, <2>6
<1> QED
  BY <1>1, <1>2

\* A worker never changes what makes a slot written.
LEMMA WorkersTyped ==
    ASSUME Typed, NEW w \in Workers, WorkerStep(w) \/ SpuriousWake(w)
    PROVE  Typed'
<1> USE DEF Typed, TypeOK, baseVars, listVars, heapVars, mainVars, workVars,
            cacheVars, clientVars, histVars, Goto
<1>0. NoTask \in Tasks /\ NoNode \in {NoNode}
  BY DEF NoTask, Tasks, NoAnswer
<1>1. CASE \/ Exit(w) \/ NoRefresh(w) \/ CopyHeap(w) \/ SetMaxJobId(w)
           \/ NothingLeft(w) \/ StopWaiting(w) \/ DecideToYield(w)
           \/ SpuriousWake(w)
  <2> USE DEF Exit, NoRefresh, CopyHeap, SetMaxJobId, NothingLeft, StopWaiting,
              DecideToYield, SpuriousWake
  <2>1. BaseType' /\ ListType' /\ MainType' /\ CacheType' /\ ClientType'
    BY <1>1 DEF BaseType, ListType, MainType, CacheType, ClientType, Nodes
  <2>2. WorkType'
    BY <1>1 DEF BaseType, MainType, WorkType, Nodes, Tasks, Labels
  <2>3. NodesWritten'
    BY <1>1 DEF NodesWritten, Written, InJob, WorkType
  <2> QED
    BY <2>1, <2>2, <2>3
<1>2. CASE Yield(w) \/ Awake(w) \/ DropJob(w)
  <2> USE DEF Yield, Awake, DropJob
  <2>1. BaseType' /\ ListType' /\ MainType' /\ CacheType' /\ ClientType'
    BY <1>2 DEF BaseType, ListType, MainType, CacheType, ClientType, Nodes
  <2>2. WorkType'
    <3>1. CASE Yield(w)
      <4>1. task' \in [Workers -> Tasks]
        BY <3>1 DEF BaseType, WorkType, Tasks
      <4> QED
        BY <3>1, <4>1 DEF WorkType, Nodes, Tasks, Labels
    <3>2. CASE Awake(w)
      BY <1>0, <3>2 DEF WorkType, Nodes, Tasks, Labels
    <3>3. CASE DropJob(w)
      BY <1>0, <3>3 DEF WorkType, Nodes, Tasks, Labels
    <3> QED
      BY <1>2, <3>1, <3>2, <3>3
  <2>3. NodesWritten'
    BY <1>2 DEF NodesWritten, Written, InJob, WorkType
  <2> QED
    BY <2>1, <2>2, <2>3
<1>3. CASE \E n \in local_jobs[w] : FetchBlock(w, n)
  <2> PICK n \in local_jobs[w] : FetchBlock(w, n)
    BY <1>3
  <2>1. n \in Nodes /\ n.elem \in 0 .. cap - 1 /\ Written(n.elem)
    BY DEF WorkType, Nodes, NodesWritten
  <2>2. jobs[n.elem] \in Jobs /\ jobs[n.elem].block_idx \in Nat
    BY <2>1 DEF ListType, Jobs
  <2>3. ListType'
    <3>1. [jobs[n.elem] EXCEPT !.block_idx = @ + 1] \in Jobs
      BY <2>2 DEF Jobs
    <3>2. jobs' = [jobs EXCEPT ![n.elem] = [jobs[n.elem] EXCEPT !.block_idx = @ + 1]]
      BY <2>1 DEF FetchBlock, ListType
    <3> QED
      BY <2>1, <3>1, <3>2 DEF FetchBlock, ListType
  <2>4. BaseType' /\ MainType' /\ CacheType' /\ ClientType'
    BY <2>2 DEF FetchBlock, BaseType, MainType, CacheType, ClientType, Nodes
  <2>5. WorkType'
    <3>1. [task[w] EXCEPT !.node = n, !.block_idx = jobs[n.elem].block_idx] \in Tasks
      BY <2>1, <2>2 DEF WorkType, Tasks
    <3>2. task' = [task EXCEPT ![w] = [task[w] EXCEPT !.node = n,
                                            !.block_idx = jobs[n.elem].block_idx]]
      BY DEF FetchBlock, WorkType
    <3> QED
      BY <3>1, <3>2 DEF FetchBlock, WorkType, Nodes, Tasks, Labels
  <2>6. \A i : Written(i) => Written(i)'
    BY <2>1 DEF FetchBlock, Written, ListType, Jobs
  <2>7. NodesWritten'
    BY <2>1, <2>6 DEF FetchBlock, NodesWritten, InJob, WorkType, Tasks
  <2> QED
    BY <2>3, <2>4, <2>5, <2>7
<1>4. CASE ClaimBlock(w)
  <2> DEFINE j == jobs[task[w].node.elem]
             start == Request[j.request].start + task[w].block_idx * BLOCK_SIZE
             last == start + BLOCK_SIZE - 1
             end == Request[j.request].end
  <2>1. j \in Jobs /\ j.request \in Clients /\ j.id \in Nat
    BY <1>4 DEF ClaimBlock, NodesWritten, Written, InJob, ListType, Jobs
  <2>2. task[w] \in Tasks /\ task[w].block_idx \in Nat
    BY DEF WorkType, Tasks
  <2>3. start \in Nat /\ last \in Nat /\ end \in Nat
    BY <2>1, <2>2, BlockStartType, RequestFields, SizeAssumption
  <2>4. Request[j.request].hash \in Nat
    BY <2>1, RequestFields
  <2>5. /\ task' = [task EXCEPT ![w].start = start,
                               ![w].end = IF end < last THEN end ELSE last]
        /\ prev_job' = [prev_job EXCEPT ![w] = j.id]
        /\ target_hash' \in {target_hash,
                             [target_hash EXCEPT ![w] = Request[j.request].hash]}
        /\ pc[w] = "claimed"
        /\ pc' = [pc EXCEPT ![w] = "enter"]
        /\ UNCHANGED <<baseVars, listVars, heapVars, mainVars, local_jobs,
                      prev_max, cacheVars, clientVars, histVars>>
    BY <1>4 DEF ClaimBlock
  <2> HIDE DEF j, start, last, end
  <2>6. BaseType' /\ ListType' /\ MainType' /\ CacheType' /\ ClientType'
    BY <2>5 DEF BaseType, ListType, MainType, CacheType, ClientType, Nodes
  <2>7. task' \in [Workers -> Tasks] /\ task'[w].node = task[w].node
    BY <2>2, <2>3, <2>5 DEF WorkType, Tasks, Nodes
  <2>8. WorkType'
    BY <2>1, <2>4, <2>5, <2>7 DEF WorkType, Labels, Nodes, Tasks
  <2>9. NodesWritten'
    BY <2>5, <2>7 DEF NodesWritten, Written, InJob, WorkType
  <2> QED
    BY <2>6, <2>8, <2>9
<1>5. CASE EnterJob(w) \/ LeaveJob(w) \/ MarkDone(w)
  <2> DEFINE i == task[w].node.elem
  <2>1. PICK new :
          /\ jobs' = [jobs EXCEPT ![i] = new]
          /\ new \in Jobs
          /\ new.request = jobs[i].request
    <3>1. jobs[i] \in Jobs /\ jobs[i].rc \in Int /\ i \in 0 .. cap - 1
      BY <1>5 DEF EnterJob, LeaveJob, MarkDone, NodesWritten, Written, InJob,
                  ListType, Jobs
    <3>2. \A k \in Int : k % RcModulus \in 0 .. RcModulus - 1
      BY SizeAssumption
    <3>3. CASE EnterJob(w)
      <4> DEFINE rc == (jobs[i].rc + 1) % RcModulus
      <4>1. rc \in 0 .. RcModulus - 1
        BY <3>1, <3>2
      <4>2. jobs' = [jobs EXCEPT ![i] = [jobs[i] EXCEPT !.rc = rc]]
        BY <3>1, <3>3 DEF EnterJob, ListType
      <4> HIDE DEF rc
      <4>3. [jobs[i] EXCEPT !.rc = rc] \in Jobs
        BY <3>1, <4>1 DEF Jobs
      <4>4. [jobs[i] EXCEPT !.rc = rc].request = jobs[i].request
        BY <3>1 DEF Jobs
      <4> QED
        BY <4>2, <4>3, <4>4
    <3>4. CASE LeaveJob(w)
      <4> DEFINE rc == (jobs[i].rc - 1) % RcModulus
      <4>1. rc \in 0 .. RcModulus - 1
        BY <3>1, <3>2
      <4>2. jobs' = [jobs EXCEPT ![i] = [jobs[i] EXCEPT !.rc = rc]]
        BY <3>1, <3>4 DEF LeaveJob, ListType
      <4> HIDE DEF rc
      <4>3. [jobs[i] EXCEPT !.rc = rc] \in Jobs
        BY <3>1, <4>1 DEF Jobs
      <4>4. [jobs[i] EXCEPT !.rc = rc].request = jobs[i].request
        BY <3>1 DEF Jobs
      <4> QED
        BY <4>2, <4>3, <4>4
    <3>5. CASE MarkDone(w)
      <4> WITNESS MarkAsDone(jobs[i])
      <4> QED
        BY <3>1, <3>5 DEF MarkDone, MarkAsDone, ListType, Jobs
    <3> QED
      BY <1>5, <3>3, <3>4, <3>5
  <2>2. i \in 0 .. cap - 1
    BY <1>5 DEF EnterJob, LeaveJob, MarkDone, NodesWritten, Written, InJob
  <2>3. UNCHANGED <<baseVars, cap, indices, heapVars, mainVars, local_jobs,
                    prev_max, prev_job, target_hash, cacheVars, clientVars,
                    histVars>>
    BY <1>5 DEF EnterJob, LeaveJob, MarkDone
  <2>4. /\ task' \in [Workers -> Tasks]
        /\ pc' \in [Workers -> Labels]
        /\ \A v \in Workers : InJob(v)' => InJob(v) /\ task'[v].node = task[v].node
    BY <1>0, <1>5 DEF EnterJob, LeaveJob, MarkDone, WorkType, Labels, InJob
  <2> HIDE DEF i
  <2>5. \A k : Written(k) => Written(k)'
    BY <2>1, <2>2, <2>3 DEF Written, ListType
  <2>6. BaseType' /\ ListType' /\ MainType' /\ CacheType' /\ ClientType'
    BY <2>1, <2>2, <2>3 DEF BaseType, ListType, MainType, CacheType, ClientType, Nodes
  <2>7. WorkType'
    BY <2>3, <2>4 DEF WorkType, Tasks, Nodes
  <2>8. NodesWritten'
    BY <2>3, <2>4, <2>5 DEF NodesWritten
  <2> QED
    BY <2>6, <2>7, <2>8
<1>6. CASE ReadRecipient(w)
  <2> DEFINE j == jobs[task[w].node.elem]
  <2>1. j \in Jobs
    BY <1>6 DEF ReadRecipient, NodesWritten, Written, InJob, ListType
  <2>2. Found(w) \in Nat
    BY ReverseType DEF Found, WorkType
  <2>3. [task[w] EXCEPT !.answer = Found(w), !.recipient = j.recipient] \in Tasks
    BY <2>1, <2>2 DEF WorkType, Tasks, Jobs
  <2>4. task' = [task EXCEPT ![w] = [task[w] EXCEPT !.answer = Found(w),
                                                 !.recipient = j.recipient]]
    BY <1>6 DEF ReadRecipient, WorkType
  <2>5. BaseType' /\ ListType' /\ MainType' /\ CacheType' /\ ClientType'
    BY <1>6 DEF ReadRecipient, BaseType, ListType, MainType, CacheType, ClientType, Nodes
  <2>6. WorkType'
    BY <1>6, <2>3, <2>4 DEF ReadRecipient, WorkType, Tasks, Nodes, Labels
  <2>7. task'[w].node = task[w].node
    BY <2>4 DEF WorkType, Tasks
  <2>8. NodesWritten'
    BY <1>6, <2>4, <2>7 DEF ReadRecipient, NodesWritten, Written, InJob, WorkType
  <2> QED
    BY <2>5, <2>6, <2>8
<1>7. Entry(w) \in Entries
  BY DEF Entry, Entries, WorkType, Tasks
<1>8. CASE NotifyRecipient(w)
  <2>1. task[w].answer \in Nat
    BY DEF WorkType, Tasks
  <2>2. BaseType' /\ ListType' /\ MainType' /\ CacheType'
    BY <1>7, <1>8 DEF NotifyRecipient, BaseType, ListType, MainType, CacheType, Nodes
  <2>3. ClientType'
    BY <1>8, <2>1 DEF NotifyRecipient, Notify, ClientType
  <2>4. WorkType'
    BY <1>8 DEF NotifyRecipient, WorkType, Tasks, Nodes, Labels
  <2>5. NodesWritten'
    BY <1>8 DEF NotifyRecipient, NodesWritten, Written, InJob, WorkType
  <2> QED
    BY <2>2, <2>3, <2>4, <2>5
<1>9. CASE \/ CachePush(w)
           \/ \E lost \in SUBSET racing : \E k, v \in racing :
                CachePushRaced(w, lost, k, v)
  <2>5. ringRaced' \in BOOLEAN
    BY <1>9 DEF CachePush, CachePushRaced, PushRaced, ClientType
  <2>1. BaseType' /\ ListType' /\ MainType' /\ ClientType'
    BY <1>9, <2>5 DEF CachePush, CachePushRaced, BaseType, ListType, MainType,
       ClientType, Nodes
  <2>2. CacheType'
    BY <1>7, <1>9 DEF CachePush, Push, CachePushRaced, PushRaced,
       CacheType, Entries
  <2>3. WorkType'
    BY <1>0, <1>9 DEF CachePush, CachePushRaced, WorkType, Tasks, Nodes, Labels
  <2>4. NodesWritten'
    BY <1>9 DEF CachePush, CachePushRaced, NodesWritten, Written, InJob, WorkType
  <2> QED
    BY <2>1, <2>2, <2>3, <2>4
<1> QED
  BY <1>1, <1>2, <1>3, <1>4, <1>5, <1>6, <1>8, <1>9 DEF WorkerStep

\* Every action keeps every variable in its type.
LEMMA StepTyped == Typed /\ [Next]_vars => Typed'
<1> SUFFICES ASSUME Typed, [Next]_vars PROVE Typed'
  OBVIOUS
<1>1. CASE Arrival
  BY <1>1, QuietMain, SlotKeepers DEF Arrival
<1>2. CASE Submit
  BY <1>2, QuietMain, SlotWriters, SlotKeepers DEF Submit
<1>3. CASE Shutdown
  BY <1>3, QuietMain DEF Shutdown
<1>4. CASE \E w \in Workers : WorkerStep(w) \/ SpuriousWake(w)
  BY <1>4, WorkersTyped
<1>5. CASE UNCHANGED vars
  BY <1>5 DEF vars, baseVars, listVars, heapVars, mainVars, workVars, cacheVars,
     clientVars, histVars, Typed, TypeOK, BaseType, ListType, MainType, WorkType,
     CacheType, ClientType, NodesWritten, Written, InJob, Nodes, Tasks
<1> QED
  BY <1>1, <1>2, <1>3, <1>4, <1>5 DEF Next, Stopped

\* The type invariant holds in every reachable state.
THEOREM TypeCorrect == Spec => []TypeOK
<1>1. Spec => []Typed
  BY InitTyped, StepTyped, PTL DEF Spec
<1>2. Typed => TypeOK
  BY DEF Typed
<1> QED
  BY <1>1, <1>2, PTL

----------------------------------------------------------------------------
(* The slots of the freelist.  SlotAccounting is inductive once the cleanup *)
(* is known to visit only nodes of the heap it edits.                       *)

SlotInv ==
    /\ SlotAccounting
    /\ mpc = "cleanup" => todo \subseteq jobs_w

\* At the start all slots are free.
LEMMA InitSlotInv == Init => SlotInv
<1> SUFFICES ASSUME Init PROVE SlotInv
  OBVIOUS
<1>1. DOMAIN indices = 1 .. DEFAULT_CAP /\ cap = DEFAULT_CAP /\ cap \in Nat
  BY SizeAssumption DEF Init, BaseInit
<1>2. \A i \in DOMAIN indices : indices[i] = i - 1
  BY <1>1 DEF Init, BaseInit
<1>3. FreeSlots = 0 .. cap - 1
  <2>1. FreeSlots \subseteq 0 .. cap - 1
    BY <1>1, <1>2 DEF FreeSlots
  <2>2. ASSUME NEW x \in 0 .. cap - 1 PROVE x \in FreeSlots
    <3>1. x + 1 \in DOMAIN indices /\ indices[x + 1] = x
      BY <1>1, <1>2
    <3> QED
      BY <3>1 DEF FreeSlots
  <2> QED
    BY <2>1, <2>2
<1>4. Scheduled = {} /\ Occupied = {}
  BY DEF Init, BaseInit, Scheduled, Occupied
<1>5. \A i, k \in DOMAIN indices : indices[i] = indices[k] => i = k
  BY <1>1, <1>2
<1> QED
  BY <1>3, <1>4, <1>5 DEF SlotInv, SlotAccounting, Init, BaseInit

\* Workers do not touch the freelist's indices, the heaps or main's locals.
LEMMA WorkersLeaveSlots ==
    ASSUME NEW w \in Workers, WorkerStep(w) \/ SpuriousWake(w)
    PROVE  UNCHANGED <<cap, indices, jobs_r, jobs_w, mpc, cur, slot, torn, todo,
                       job_id>>
BY DEF WorkerStep, SpuriousWake, Exit, NoRefresh, CopyHeap, SetMaxJobId,
   FetchBlock, ClaimBlock, DropJob, EnterJob, LeaveJob, ReadRecipient, MarkDone,
   NotifyRecipient, CachePush, CachePushRaced, NothingLeft, StopWaiting,
   DecideToYield, Yield, Awake, baseVars, listVars, heapVars, mainVars

\* A slot index moves from the free ones to the slot being written.
LEMMA SlotTaken ==
    ASSUME Typed, SlotInv, mpc = "insert", indices # <<>>,
           cap' = cap, jobs_r' = jobs_r, slot' = LastFree,
           indices' = SubSeq(indices, 1, Len(indices) - 1),
           \/ mpc' = "tear"
           \/ mpc' = "cleanup" /\ jobs_w' = jobs_r /\ todo' = jobs_r
    PROVE  SlotInv'
<1> USE DEF Typed, TypeOK
<1> DEFINE l == Len(indices)
<1>1. /\ l \in Nat \ {0}
      /\ DOMAIN indices = 1 .. l
      /\ DOMAIN indices' = 1 .. l - 1
      /\ \A k \in 1 .. l - 1 : indices'[k] = indices[k]
      /\ LastFree = indices[l]
  <2>1. DOMAIN indices = 1 .. Len(indices)
    BY LenProperties DEF ListType
  <2> QED
    BY <2>1, TakeLastFree DEF LastFree
<1> HIDE DEF l
<1>2. \A i, k \in DOMAIN indices : indices[i] = indices[k] => i = k
  BY DEF SlotInv, SlotAccounting
<1>3. FreeSlots' = FreeSlots \ {LastFree} /\ LastFree \in FreeSlots
  <2>1. LastFree \in FreeSlots
    BY <1>1 DEF FreeSlots
  <2>2. ASSUME NEW x \in FreeSlots' PROVE x \in FreeSlots \ {LastFree}
    <3>1. PICK k \in 1 .. l - 1 : x = indices[k]
      BY <1>1 DEF FreeSlots
    <3>2. k \in DOMAIN indices /\ l \in DOMAIN indices /\ k # l
      BY <1>1
    <3> QED
      BY <1>1, <1>2, <3>1, <3>2 DEF FreeSlots
  <2>3. ASSUME NEW x \in FreeSlots \ {LastFree} PROVE x \in FreeSlots'
    <3>1. PICK k \in DOMAIN indices : x = indices[k]
      BY DEF FreeSlots
    <3>2. k \in DOMAIN indices'
      BY <1>1, <3>1
    <3> QED
      BY <1>1, <3>1, <3>2 DEF FreeSlots
  <2> QED
    BY <2>1, <2>2, <2>3
<1>4. Scheduled' = jobs_r /\ Scheduled = jobs_r
  BY DEF Scheduled
<1>5. Occupied' = Occupied \cup {LastFree}
  BY <1>4 DEF Occupied
<1>6. \A i, k \in DOMAIN indices' : indices'[i] = indices'[k] => i = k
  BY <1>1, <1>2
<1>7. FreeSlots' \cap Occupied' = {} /\ FreeSlots' \cup Occupied' = 0 .. cap' - 1
  BY <1>3, <1>5 DEF SlotInv, SlotAccounting
<1>8. \A n \in jobs_r : n.elem # LastFree
  BY <1>3 DEF SlotInv, SlotAccounting, Scheduled, Occupied
<1> QED
  BY <1>4, <1>6, <1>7, <1>8 DEF SlotInv, SlotAccounting

\* Growing adds the new indices to the free ones, and the last of them is taken.
LEMMA SlotsAdded ==
    ASSUME Typed, SlotInv, InsertGrow
    PROVE  SlotInv'
<1> USE DEF Typed, TypeOK
<1> DEFINE new == GrownCap(cap)
<1>1. new \in Nat /\ new > cap /\ cap \in Nat \ {0}
  BY GrownCapBigger DEF ListType
<1>2. /\ mpc = "insert" /\ indices = <<>> /\ cap' = new
      /\ indices' = [i \in 1 .. new - cap - 1 |-> cap + i - 1]
      /\ slot' = new - 1 /\ jobs_r' = jobs_r
      /\ jobs_w' = jobs_r /\ todo' = jobs_r /\ mpc' = "cleanup"
  BY DEF InsertGrow, StartCleanup
<1> HIDE DEF new
<1>3. Scheduled' = jobs_r /\ Scheduled = jobs_r
  BY <1>2 DEF Scheduled
<1>4. FreeSlots = {}
  BY <1>2 DEF FreeSlots
<1>5. {n.elem : n \in jobs_r} = 0 .. cap - 1
  BY <1>2, <1>3, <1>4 DEF SlotInv, SlotAccounting, Occupied
<1>6. Occupied' = (0 .. cap - 1) \cup {new - 1}
  BY <1>2, <1>3, <1>5 DEF Occupied
<1>7. FreeSlots' = cap .. new - 2
  <2>1. FreeSlots' \subseteq cap .. new - 2
    BY <1>1, <1>2 DEF FreeSlots
  <2>2. ASSUME NEW x \in cap .. new - 2 PROVE x \in FreeSlots'
    <3>1. x - cap + 1 \in 1 .. new - cap - 1 /\ cap + (x - cap + 1) - 1 = x
      BY <1>1
    <3> QED
      BY <1>2, <3>1 DEF FreeSlots
  <2> QED
    BY <2>1, <2>2
<1>8. \A i, k \in DOMAIN indices' : indices'[i] = indices'[k] => i = k
  BY <1>1, <1>2
<1>9. \A n \in jobs_r : n.elem # new - 1
  <2>1. \A n \in jobs_r : n.elem \in 0 .. cap - 1
    BY <1>5
  <2> QED
    BY <1>1, <2>1
<1>10. FreeSlots' \cap Occupied' = {} /\ FreeSlots' \cup Occupied' = 0 .. cap' - 1
  BY <1>1, <1>2, <1>6, <1>7
<1> QED
  BY <1>2, <1>3, <1>8, <1>9, <1>10 DEF SlotInv, SlotAccounting

\* A slot that the cleanup frees belonged to the node it removes, and to no other.
LEMMA SlotFreed ==
    ASSUME Typed, SlotInv, NEW n \in todo, NEW skipped \in SUBSET todo,
           NEW again \in SUBSET jobs_w, CleanupRemove(n, skipped, again)
    PROVE  SlotInv'
<1> USE DEF Typed, TypeOK
<1> DEFINE l == Len(indices)
<1>1. /\ mpc = "cleanup" /\ mpc' = "cleanup" /\ cap' = cap /\ slot' = slot
      /\ indices' = Append(indices, n.elem)
      /\ jobs_w' = jobs_w \ {n}
      /\ todo' = (todo \ ({n} \cup skipped)) \cup again
      /\ n \notin again
  BY DEF CleanupRemove, listVars, mainVars
<1>2. n \in jobs_w /\ n.elem \in 0 .. cap - 1
  BY <1>1 DEF SlotInv, MainType, Nodes
<1>3. /\ l \in Nat /\ DOMAIN indices = 1 .. l /\ DOMAIN indices' = 1 .. l + 1
      /\ \A k \in 1 .. l : indices'[k] = indices[k]
      /\ indices'[l + 1] = n.elem
  <2>1. indices \in Seq(0 .. cap - 1)
    BY DEF ListType
  <2>2. l \in Nat /\ DOMAIN indices = 1 .. l
    BY <2>1, LenProperties
  <2>3. /\ indices' \in Seq(0 .. cap - 1) /\ Len(indices') = l + 1
        /\ \A k \in 1 .. l : indices'[k] = indices[k]
        /\ indices'[l + 1] = n.elem
    BY <1>1, <1>2, <2>1, AppendProperties
  <2> QED
    BY <2>2, <2>3, LenProperties
<1> HIDE DEF l
<1>4. Scheduled = jobs_w /\ Scheduled' = jobs_w \ {n}
  BY <1>1 DEF Scheduled
<1>5. \A m \in jobs_w : m.elem = n.elem => m = n
  BY <1>2, <1>4 DEF SlotInv, SlotAccounting
<1>6. FreeSlots' = FreeSlots \cup {n.elem}
  BY <1>3 DEF FreeSlots
<1>7. n.elem \in Occupied /\ n.elem # slot
  BY <1>1, <1>2, <1>4 DEF Occupied, SlotInv, SlotAccounting
<1>8. Occupied' = Occupied \ {n.elem}
  BY <1>1, <1>2, <1>4, <1>5, <1>7 DEF Occupied
<1>9. n.elem \notin FreeSlots
  BY <1>7 DEF SlotInv, SlotAccounting
<1>10. \A i, k \in DOMAIN indices' : indices'[i] = indices'[k] => i = k
  <2>1. \A k \in 1 .. l : indices[k] # n.elem
    BY <1>3, <1>9 DEF FreeSlots
  <2> QED
    BY <1>3, <2>1 DEF SlotInv, SlotAccounting
<1>11. FreeSlots' \cap Occupied' = {} /\ FreeSlots' \cup Occupied' = 0 .. cap' - 1
  BY <1>1, <1>6, <1>7, <1>8, <1>9 DEF SlotInv, SlotAccounting
<1>12. todo' \subseteq jobs_w'
  BY <1>1 DEF SlotInv
<1> QED
  BY <1>1, <1>4, <1>10, <1>11, <1>12 DEF SlotInv, SlotAccounting

\* The job that was written joins the published heap.
LEMMA SlotPublished ==
    ASSUME Typed, SlotInv, Publish
    PROVE  SlotInv'
<1> USE DEF Typed, TypeOK
<1> DEFINE new == [elem |-> slot, priority |-> Request[cur].priority]
<1>1. /\ mpc = "cleanup" /\ mpc' = "idle" /\ cap' = cap /\ indices' = indices
      /\ jobs_r' = jobs_w \cup {new}
  BY DEF Publish, listVars
<1>2. Scheduled = jobs_w /\ Scheduled' = jobs_w \cup {new} /\ new.elem = slot
  BY <1>1 DEF Scheduled
<1> HIDE DEF new
<1>3. FreeSlots' = FreeSlots
  BY <1>1 DEF FreeSlots
<1>4. Occupied' = Occupied
  BY <1>1, <1>2 DEF Occupied
<1>5. \A m, n \in Scheduled' : m.elem = n.elem => m = n
  BY <1>1, <1>2 DEF SlotInv, SlotAccounting
<1> QED
  BY <1>1, <1>3, <1>4, <1>5 DEF SlotInv, SlotAccounting

\* A step that keeps the lists and the phase of main keeps the accounts.
LEMMA SlotsUntouched ==
    ASSUME SlotInv, UNCHANGED <<cap, indices, jobs_r, jobs_w, slot>>,
           \/ UNCHANGED <<mpc, todo>>
           \/ mpc' = mpc /\ todo' \subseteq todo
           \/ mpc \notin {"tear", "cleanup"} /\ mpc' \notin {"tear", "cleanup"}
    PROVE  SlotInv'
<1>1. Scheduled' = Scheduled /\ FreeSlots' = FreeSlots
  BY DEF Scheduled, FreeSlots
<1>2. Occupied' = Occupied
  BY <1>1 DEF Occupied
<1> QED
  BY <1>1, <1>2 DEF SlotInv, SlotAccounting

\* Every action keeps the accounts.
LEMMA StepSlotInv == Typed /\ SlotInv /\ [Next]_vars => SlotInv'
<1> SUFFICES ASSUME Typed, SlotInv, [Next]_vars PROVE SlotInv'
  OBVIOUS
<1> USE DEF listVars, heapVars, mainVars
<1>1. CASE Arrival
  BY <1>1, SlotsUntouched DEF Arrival, SubmitMiss, SubmitHit, Cancel, Close
<1>2. CASE InsertGrow
  BY <1>2, SlotsAdded
<1>3. CASE InsertUnseen \/ \E late \in SUBSET Fields : InsertSeen(late)
  BY <1>3, SlotTaken DEF InsertUnseen, InsertSeen, StartCleanup
<1>4. CASE InsertRest
  <2>1. Scheduled' = jobs_r /\ Scheduled = jobs_r /\ FreeSlots' = FreeSlots
    BY <1>4 DEF InsertRest, StartCleanup, Scheduled, FreeSlots
  <2>2. Occupied' = Occupied
    BY <1>4, <2>1 DEF InsertRest, StartCleanup, Occupied
  <2> QED
    BY <1>4, <2>1, <2>2 DEF InsertRest, StartCleanup, SlotInv, SlotAccounting
<1>5. CASE \E n \in todo : CleanupKeep(n)
  BY <1>5, SlotsUntouched DEF CleanupKeep
<1>6. CASE \E n \in todo : \E skipped \in SUBSET todo, again \in SUBSET jobs_w :
              CleanupRemove(n, skipped, again)
  BY <1>6, SlotFreed
<1>7. CASE Publish
  BY <1>7, SlotPublished
<1>8. CASE Shutdown
  BY <1>8, SlotsUntouched DEF Shutdown, CloseWake, JoinAndDestroy
<1>9. CASE \E w \in Workers : WorkerStep(w) \/ SpuriousWake(w)
  BY <1>9, WorkersLeaveSlots, SlotsUntouched
<1>10. CASE UNCHANGED vars
  BY <1>10, SlotsUntouched DEF vars
<1> QED
  BY <1>1, <1>2, <1>3, <1>4, <1>5, <1>6, <1>7, <1>8, <1>9, <1>10
     DEF Next, Submit, Stopped

\* Growing the freelist, inserting into it and the cleanup loop lose no slot
\* and hand none out twice (freelist.h, sched_priority.c:107-136).
THEOREM SlotsAccounted == Spec => []SlotAccounting
<1>1. Init => Typed /\ SlotInv
  BY InitTyped, InitSlotInv
<1>2. (Typed /\ SlotInv) /\ [Next]_vars => (Typed /\ SlotInv)'
  BY StepTyped, StepSlotInv
<1>3. Typed /\ SlotInv => SlotAccounting
  BY DEF SlotInv
<1> QED
  BY <1>1, <1>2, <1>3, PTL DEF Spec

----------------------------------------------------------------------------
(* What the workers know.  That no live job is forgotten rests on the ids: *)
(* a worker has copied the published heap when it records job_id, the job  *)
(* being submitted has an id nobody has recorded, and a worker drops a job *)
(* only when the block it claimed lies behind the job's last one.          *)

\* Main's heap and the id of the job it writes.
IdsPending ==
    /\ mpc = "cleanup" => jobs_w \subseteq jobs_r /\ jobs[slot].id = job_id + 1
    /\ mpc = "tear" /\ "id" \notin torn => jobs[slot].id = job_id + 1

IdsRecorded ==
    \A w \in Workers :
        /\ prev_max[w] <= job_id
        /\ pc[w] = "copied" => local_jobs[w] = jobs_r

\* A claimed block of a job that the worker has recorded lies before the
\* job's next block, unless the job is done.
Known(w, n) == n \in jobs_r /\ jobs[n.elem].id <= prev_max[w]

ClaimBehind(w, n) ==
    pc[w] = "claimed" /\ Known(w, n) =>
        task[w].block_idx < jobs[n.elem].block_idx \/ IsDone(jobs[n.elem])

ClaimsBehind == \A w \in Workers : ClaimBehind(w, task[w].node)

KnowInv == IdsPending /\ IdsRecorded /\ ClaimsBehind /\ WorkersKnowLiveJobs

\* At the start nothing is published.
LEMMA InitKnowInv == Init => KnowInv
BY DEF Init, BaseInit, KnowInv, IdsPending, IdsRecorded, ClaimsBehind, ClaimBehind,
   WorkersKnowLiveJobs

\* A slot's job moves forward: its id and its number of blocks stay, and its
\* next block moves up or the job is done.
Forward(i) ==
    /\ jobs'[i].id = jobs[i].id
    /\ jobs'[i].block_count = jobs[i].block_count
    /\ jobs'[i].block_idx >= jobs[i].block_idx \/ IsDone(jobs'[i])

\* What is done stays done, and a block that was passed stays passed.
LEMMA ForwardDone ==
    ASSUME Typed, Typed', cap' = cap, NEW i \in 0 .. cap - 1, Forward(i)
    PROVE  /\ IsDone(jobs[i]) => IsDone(jobs'[i])
           /\ \A b \in Nat : b < jobs[i].block_idx =>
                b < jobs'[i].block_idx \/ IsDone(jobs'[i])
<1>1. jobs[i].block_idx \in Nat /\ jobs[i].block_count \in Nat
  BY DEF Typed, TypeOK, ListType, Jobs
<1>2. jobs'[i].block_idx \in Nat /\ jobs'[i].block_count \in Nat
  BY DEF Typed, TypeOK, ListType, Jobs
<1> QED
  BY <1>1, <1>2 DEF Forward, IsDone

\* A worker only moves jobs forward.
LEMMA WorkersMoveForward ==
    ASSUME Typed, NEW w \in Workers, WorkerStep(w) \/ SpuriousWake(w)
    PROVE  \A i \in 0 .. cap - 1 : Forward(i)
<1> USE DEF Typed, TypeOK, listVars
<1>0. \A i \in 0 .. cap - 1 : jobs[i].block_idx \in Nat /\ jobs[i].block_count \in Nat
  BY DEF ListType, Jobs
<1>1. CASE jobs' = jobs
  BY <1>0, <1>1 DEF Forward
<1>2. CASE \E n \in local_jobs[w] : FetchBlock(w, n)
  <2> PICK n \in local_jobs[w] : FetchBlock(w, n)
    BY <1>2
  <2>1. n.elem \in 0 .. cap - 1
    BY DEF WorkType, Nodes
  <2> QED
    BY <1>0, <2>1 DEF FetchBlock, Forward, ListType, Jobs
<1>3. CASE EnterJob(w) \/ LeaveJob(w)
  <2>1. PICK rc : jobs' = [jobs EXCEPT ![task[w].node.elem].rc = rc]
    BY <1>3 DEF EnterJob, LeaveJob
  <2>2. \A i \in 0 .. cap - 1 :
          /\ jobs'[i].id = jobs[i].id
          /\ jobs'[i].block_count = jobs[i].block_count
          /\ jobs'[i].block_idx = jobs[i].block_idx
    BY <2>1 DEF ListType, Jobs
  <2> QED
    BY <1>0, <2>2 DEF Forward
<1>4. CASE MarkDone(w)
  BY <1>0, <1>4 DEF MarkDone, MarkAsDone, Forward, IsDone, ListType, Jobs
<1> QED
  BY <1>1, <1>2, <1>3, <1>4 DEF WorkerStep, SpuriousWake, Exit, NoRefresh,
     CopyHeap, SetMaxJobId, ClaimBlock, DropJob, ReadRecipient, NotifyRecipient,
     CachePush, CachePushRaced, NothingLeft, StopWaiting, DecideToYield, Yield,
     Awake

\* So does main when it cancels a job.
LEMMA CancelMovesForward ==
    ASSUME Typed, NEW n \in jobs_r, Cancel(n)
    PROVE  \A i \in 0 .. cap - 1 : Forward(i)
<1> USE DEF Typed, TypeOK
<1>0. \A i \in 0 .. cap - 1 : jobs[i].block_idx \in Nat /\ jobs[i].block_count \in Nat
  BY DEF ListType, Jobs
<1> QED
  BY <1>0 DEF Cancel, MarkAsDone, Forward, IsDone, ListType, Jobs

\* What a step does to one worker: nothing that a claim or a copy depends on,
\* or one of the steps that take, record, drop or claim a job.
LEMMA WorkerMoves ==
    ASSUME Typed, NEW w \in Workers, WorkerStep(w) \/ SpuriousWake(w)
    PROVE  /\ \A v \in Workers \ {w} :
                /\ pc'[v] = pc[v] /\ task'[v] = task[v]
                /\ local_jobs'[v] = local_jobs[v] /\ prev_max'[v] = prev_max[v]
           /\ \/ CopyHeap(w)
              \/ SetMaxJobId(w)
              \/ \E n \in local_jobs[w] : FetchBlock(w, n)
              \/ DropJob(w)
              \/ /\ pc'[w] \notin {"copied", "claimed"}
                 /\ prev_max'[w] = prev_max[w]
                 /\ \/ local_jobs'[w] = local_jobs[w] /\ pc[w] # "exited"
                    \/ pc'[w] = "exited"
<1> USE DEF Typed, TypeOK, WorkType, Goto
<1>1. CASE \/ CopyHeap(w) \/ SetMaxJobId(w) \/ DropJob(w)
           \/ \E n \in local_jobs[w] : FetchBlock(w, n)
  BY <1>1 DEF CopyHeap, SetMaxJobId, DropJob, FetchBlock
<1>2. CASE \/ Exit(w) \/ NoRefresh(w) \/ ClaimBlock(w) \/ EnterJob(w)
           \/ LeaveJob(w) \/ ReadRecipient(w) \/ MarkDone(w)
  BY <1>2 DEF Exit, NoRefresh, ClaimBlock, EnterJob, LeaveJob, ReadRecipient,
     MarkDone
<1>3. CASE \/ NotifyRecipient(w) \/ CachePush(w) \/ NothingLeft(w)
           \/ \E lost \in SUBSET racing : \E k, v \in racing :
                CachePushRaced(w, lost, k, v)
           \/ StopWaiting(w) \/ DecideToYield(w) \/ Yield(w) \/ Awake(w)
           \/ SpuriousWake(w)
  BY <1>3 DEF NotifyRecipient, CachePush, CachePushRaced, NothingLeft,
     StopWaiting, DecideToYield, Yield, Awake, SpuriousWake, workVars
<1> QED
  BY <1>1, <1>2, <1>3 DEF WorkerStep

\* Copying, recording, claiming and dropping keep what the workers know.
LEMMA WorkersKeepKnowing ==
    ASSUME Typed, Typed', KnowInv,
           NEW w \in Workers, WorkerStep(w) \/ SpuriousWake(w)
    PROVE  KnowInv'
<1>1. /\ jobs_r' = jobs_r /\ jobs_w' = jobs_w /\ mpc' = mpc /\ slot' = slot
      /\ torn' = torn /\ job_id' = job_id /\ cap' = cap
  BY WorkersLeaveSlots
<1>2. \A i \in 0 .. cap - 1 : Forward(i)
  BY WorkersMoveForward
<1>3. /\ slot \in 0 .. cap - 1
      /\ \A n \in jobs_r : n.elem \in 0 .. cap - 1
      /\ \A v \in Workers : prev_max[v] \in Nat
      /\ job_id \in Nat
  BY DEF Typed, TypeOK, MainType, WorkType, BaseType, Nodes
<1>4. IdsPending'
  BY <1>1, <1>2, <1>3 DEF KnowInv, IdsPending, Forward
<1>5. ASSUME NEW v \in Workers, prev_max'[v] = prev_max[v],
             local_jobs'[v] = local_jobs[v], pc[v] # "exited"
      PROVE  \A n \in jobs_r' :
                jobs'[n.elem].id <= prev_max'[v] /\ ~IsDone(jobs'[n.elem])
                    => n \in local_jobs'[v]
  BY <1>1, <1>2, <1>3, <1>5, ForwardDone DEF KnowInv, WorkersKnowLiveJobs, Forward
<1>6. ASSUME NEW v \in Workers \ {w}
      PROVE  ClaimBehind(v, task[v].node)'
  <2> DEFINE n == task[v].node
  <2>1. /\ pc'[v] = pc[v] /\ task'[v] = task[v] /\ prev_max'[v] = prev_max[v]
        /\ task[v].block_idx \in Nat
    BY WorkerMoves DEF Typed, TypeOK, WorkType, Tasks
  <2>2. SUFFICES ASSUME pc[v] = "claimed", n \in jobs_r, jobs'[n.elem].id <= prev_max[v]
                 PROVE  \/ task[v].block_idx < jobs'[n.elem].block_idx
                        \/ IsDone(jobs'[n.elem])
    BY <1>1, <2>1 DEF ClaimBehind, Known
  <2>3. n.elem \in 0 .. cap - 1 /\ Forward(n.elem)
    BY <1>2, <1>3, <2>2
  <2>4. task[v].block_idx < jobs[n.elem].block_idx \/ IsDone(jobs[n.elem])
    BY <2>2, <2>3 DEF KnowInv, ClaimsBehind, ClaimBehind, Known, Forward
  <2> QED
    BY <1>1, <2>1, <2>3, <2>4, ForwardDone
<1>7. CASE CopyHeap(w)
  <2>1. pc'[w] = "copied" /\ local_jobs'[w] = jobs_r /\ prev_max'[w] = prev_max[w]
    BY <1>7 DEF CopyHeap, Goto, Typed, TypeOK, WorkType
  <2>2. IdsRecorded'
    BY <1>1, <2>1, WorkerMoves DEF KnowInv, IdsRecorded
  <2>3. ClaimsBehind'
    BY <1>6, <2>1 DEF ClaimsBehind, ClaimBehind
  <2>4. WorkersKnowLiveJobs'
    BY <1>1, <1>5, <2>1, WorkerMoves DEF WorkersKnowLiveJobs
  <2> QED
    BY <1>4, <2>2, <2>3, <2>4 DEF KnowInv
<1>8. CASE SetMaxJobId(w)
  <2>1. /\ pc[w] = "copied" /\ pc'[w] = "pick" /\ prev_max'[w] = job_id
        /\ local_jobs'[w] = local_jobs[w]
    BY <1>8 DEF SetMaxJobId, Goto, Typed, TypeOK, WorkType
  <2>2. IdsRecorded'
    BY <1>1, <1>3, <2>1, WorkerMoves DEF KnowInv, IdsRecorded
  <2>3. ClaimsBehind'
    BY <1>6, <2>1 DEF ClaimsBehind, ClaimBehind
  <2>4. local_jobs'[w] = jobs_r
    BY <2>1 DEF KnowInv, IdsRecorded
  <2>5. WorkersKnowLiveJobs'
    BY <1>1, <1>5, <2>4, WorkerMoves DEF WorkersKnowLiveJobs
  <2> QED
    BY <1>4, <2>2, <2>3, <2>5 DEF KnowInv
<1>9. CASE \E n \in local_jobs[w] : FetchBlock(w, n)
  <2> PICK n \in local_jobs[w] : FetchBlock(w, n)
    BY <1>9
  <2>1. /\ pc[w] = "pick" /\ pc'[w] = "claimed" /\ prev_max'[w] = prev_max[w]
        /\ local_jobs'[w] = local_jobs[w]
    BY DEF FetchBlock, Goto, Typed, TypeOK, WorkType
  <2>2. n.elem \in 0 .. cap - 1
    BY DEF Typed, TypeOK, WorkType, Nodes
  <2>3. /\ jobs[n.elem].block_idx \in Nat
        /\ task'[w].node = n /\ task'[w].block_idx = jobs[n.elem].block_idx
        /\ jobs'[n.elem].block_idx = jobs[n.elem].block_idx + 1
    BY <2>2 DEF FetchBlock, Typed, TypeOK, WorkType, ListType, Jobs, Tasks
  <2>4. IdsRecorded'
    BY <1>1, <2>1, WorkerMoves DEF KnowInv, IdsRecorded
  <2>5. ClaimsBehind'
    BY <1>6, <2>3 DEF ClaimsBehind, ClaimBehind
  <2>6. WorkersKnowLiveJobs'
    BY <1>1, <1>5, <2>1, WorkerMoves DEF WorkersKnowLiveJobs
  <2> QED
    BY <1>4, <2>4, <2>5, <2>6 DEF KnowInv
<1>10. CASE DropJob(w)
  <2> DEFINE n == task[w].node
  <2>1. /\ pc[w] = "claimed" /\ pc'[w] = "pick" /\ prev_max'[w] = prev_max[w]
        /\ local_jobs'[w] = local_jobs[w] \ {n}
        /\ task[w].block_idx > jobs[n.elem].block_count
        /\ jobs' = jobs
    BY <1>10 DEF DropJob, Goto, Typed, TypeOK, WorkType, listVars
  <2>2. IdsRecorded'
    BY <1>1, <2>1, WorkerMoves DEF KnowInv, IdsRecorded
  <2>3. ClaimsBehind'
    BY <1>6, <2>1 DEF ClaimsBehind, ClaimBehind
  <2>4. Known(w, n) => IsDone(jobs[n.elem])
    <3>1. /\ task[w].block_idx \in Nat
          /\ n \in jobs_r => /\ jobs[n.elem].block_idx \in Nat
                             /\ jobs[n.elem].block_count \in Nat
      BY <1>3 DEF Typed, TypeOK, WorkType, Tasks, ListType, Jobs
    <3>2. Known(w, n) => n \in jobs_r
      BY DEF Known
    <3>3. Known(w, n) => \/ task[w].block_idx < jobs[n.elem].block_idx
                         \/ IsDone(jobs[n.elem])
      BY <2>1 DEF KnowInv, ClaimsBehind, ClaimBehind
    <3> QED
      BY <2>1, <3>1, <3>2, <3>3 DEF IsDone
  <2>5. \A m \in jobs_r :
          jobs[m.elem].id <= prev_max[w] /\ ~IsDone(jobs[m.elem])
              => m \in local_jobs'[w]
    BY <2>1, <2>4 DEF Known, KnowInv, WorkersKnowLiveJobs
  <2>6. WorkersKnowLiveJobs'
    BY <1>1, <1>5, <2>1, <2>5, WorkerMoves DEF WorkersKnowLiveJobs
  <2> QED
    BY <1>4, <2>2, <2>3, <2>6 DEF KnowInv
<1>11. CASE /\ pc'[w] \notin {"copied", "claimed"}
            /\ prev_max'[w] = prev_max[w]
            /\ \/ local_jobs'[w] = local_jobs[w] /\ pc[w] # "exited"
               \/ pc'[w] = "exited"
  <2>1. IdsRecorded'
    BY <1>1, <1>11, WorkerMoves DEF KnowInv, IdsRecorded
  <2>2. ClaimsBehind'
    BY <1>6, <1>11 DEF ClaimsBehind, ClaimBehind
  <2>3. WorkersKnowLiveJobs'
    BY <1>1, <1>5, <1>11, WorkerMoves DEF WorkersKnowLiveJobs
  <2> QED
    BY <1>4, <2>1, <2>2, <2>3 DEF KnowInv
<1> QED
  BY <1>7, <1>8, <1>9, <1>10, <1>11, WorkerMoves

\* Cancelling a job keeps what the workers know.
LEMMA CancelKeepsKnowing ==
    ASSUME Typed, Typed', KnowInv, NEW n \in jobs_r, Cancel(n)
    PROVE  KnowInv'
<1>1. UNCHANGED <<cap, jobs_r, jobs_w, mpc, slot, torn, job_id, pc, task,
                  local_jobs, prev_max>>
  BY DEF Cancel, heapVars, mainVars, baseVars, workVars
<1>2. \A i \in 0 .. cap - 1 : Forward(i)
  BY CancelMovesForward
<1>3. /\ slot \in 0 .. cap - 1
      /\ \A m \in jobs_r : m.elem \in 0 .. cap - 1
  BY DEF Typed, TypeOK, MainType, Nodes
<1>4. IdsPending'
  BY <1>1, <1>2, <1>3 DEF KnowInv, IdsPending, Forward
<1>5. IdsRecorded'
  BY <1>1 DEF KnowInv, IdsRecorded
<1>6. ASSUME NEW w \in Workers PROVE ClaimBehind(w, task[w].node)'
  <2> DEFINE m == task[w].node
  <2>1. SUFFICES ASSUME pc[w] = "claimed", m \in jobs_r, jobs'[m.elem].id <= prev_max[w]
                 PROVE  \/ task[w].block_idx < jobs'[m.elem].block_idx
                        \/ IsDone(jobs'[m.elem])
    BY <1>1 DEF ClaimBehind, Known
  <2>2. m.elem \in 0 .. cap - 1 /\ Forward(m.elem) /\ task[w].block_idx \in Nat
    BY <1>2, <1>3, <2>1 DEF Typed, TypeOK, WorkType, Tasks
  <2>3. task[w].block_idx < jobs[m.elem].block_idx \/ IsDone(jobs[m.elem])
    BY <2>1, <2>2 DEF KnowInv, ClaimsBehind, ClaimBehind, Known, Forward
  <2> QED
    BY <1>1, <2>2, <2>3, ForwardDone
<1>7. ClaimsBehind'
  BY <1>1, <1>6 DEF ClaimsBehind
<1>8. WorkersKnowLiveJobs'
  BY <1>1, <1>2, <1>3, ForwardDone DEF KnowInv, WorkersKnowLiveJobs, Forward
<1> QED
  BY <1>4, <1>5, <1>7, <1>8 DEF KnowInv

\* Main never writes the slot of a published job, and publishes a job whose id
\* is above every recorded one.
LEMMA KnowsOldJobs ==
    ASSUME KnowInv, IdsPending', jobs_r' = jobs_r, job_id' = job_id,
           \A n \in jobs_r : jobs'[n.elem] = jobs[n.elem],
           UNCHANGED <<task, local_jobs, prev_max>>,
           \A w \in Workers :
                \/ pc'[w] = pc[w]
                \/ pc[w] = "asleep" /\ pc'[w] = "wait"
    PROVE  KnowInv'
<1>1. IdsRecorded'
  BY DEF KnowInv, IdsRecorded
<1>2. ClaimsBehind'
  BY DEF KnowInv, ClaimsBehind, ClaimBehind, Known
<1>3. WorkersKnowLiveJobs'
  BY DEF KnowInv, WorkersKnowLiveJobs
<1> QED
  BY <1>1, <1>2, <1>3 DEF KnowInv

\* Writing a slot does not touch a published job and gives it the next id.
LEMMA WritersKeepKnowing ==
    ASSUME Typed, SlotInv, KnowInv,
           \/ InsertGrow
           \/ InsertUnseen
           \/ \E late \in SUBSET Fields : InsertSeen(late)
           \/ InsertRest
    PROVE  KnowInv'
<1> USE DEF Typed, TypeOK, heapVars, baseVars, workVars
<1>0. /\ \A n \in jobs_r : n.elem \in 0 .. cap - 1
      /\ cap \in Nat \ {0} /\ slot \in 0 .. cap - 1 /\ job_id \in Nat
  BY DEF MainType, Nodes, ListType, BaseType
<1>1. CASE InsertGrow
  <2>1. GrownCap(cap) \in Nat /\ GrownCap(cap) > cap
    BY <1>0, GrownCapBigger
  <2>2. /\ slot' = GrownCap(cap) - 1
        /\ jobs' = [i \in 0 .. GrownCap(cap) - 1 |->
                      IF i = GrownCap(cap) - 1 THEN NewJob(cur, job_id + 1)
                      ELSE IF i < cap THEN jobs[i] ELSE ZeroJob]
    BY <1>1 DEF InsertGrow, StartCleanup
  <2>3. jobs'[slot'].id = job_id + 1
    BY <1>0, <2>1, <2>2 DEF NewJob
  <2>4. \A n \in jobs_r : jobs'[n.elem] = jobs[n.elem]
    BY <1>0, <2>1, <2>2
  <2>5. IdsPending'
    BY <1>1, <2>3 DEF InsertGrow, StartCleanup, IdsPending
  <2> QED
    BY <1>1, <2>4, <2>5, KnowsOldJobs DEF InsertGrow
<1>2. ASSUME indices # <<>>, mpc = "insert"
      PROVE  /\ LastFree \in 0 .. cap - 1
             /\ \A n \in jobs_r : n.elem # LastFree
  <2>1. LastFree \in 0 .. cap - 1 /\ Len(indices) \in DOMAIN indices
    BY <1>2, TakeLastFree, LenProperties DEF ListType
  <2>2. LastFree \in FreeSlots
    BY <2>1 DEF FreeSlots, LastFree
  <2> QED
    BY <1>2, <2>1, <2>2 DEF SlotInv, SlotAccounting, Occupied, Scheduled
<1>3. CASE InsertUnseen
  <2>1. \A n \in jobs_r : jobs'[n.elem] = jobs[n.elem]
    BY <1>0, <1>2, <1>3 DEF InsertUnseen, ListType
  <2>2. jobs'[LastFree].id = job_id + 1
    BY <1>2, <1>3 DEF InsertUnseen, ListType, NewJob
  <2>3. IdsPending'
    BY <1>3, <2>2 DEF InsertUnseen, StartCleanup, IdsPending
  <2> QED
    BY <1>3, <2>1, <2>3, KnowsOldJobs DEF InsertUnseen
<1>4. CASE \E late \in SUBSET Fields : InsertSeen(late)
  <2> PICK late \in SUBSET Fields : InsertSeen(late)
    BY <1>4
  <2>1. \A n \in jobs_r : jobs'[n.elem] = jobs[n.elem]
    BY <1>0, <1>2 DEF InsertSeen, ListType
  <2>2. "id" \notin late => jobs'[LastFree].id = job_id + 1
    BY <1>2 DEF InsertSeen, ListType, HalfWritten, NewJob
  <2>3. IdsPending'
    BY <2>2 DEF InsertSeen, IdsPending
  <2> QED
    BY <2>1, <2>3, KnowsOldJobs DEF InsertSeen
<1>5. CASE InsertRest
  <2>1. \A n \in jobs_r : n.elem # slot
    BY <1>5 DEF InsertRest, SlotInv, SlotAccounting, Scheduled
  <2>2. \A n \in jobs_r : jobs'[n.elem] = jobs[n.elem]
    BY <1>0, <1>5, <2>1 DEF InsertRest, ListType
  <2>3. jobs'[slot].id = job_id + 1
    <3>1. "id" \in torn \/ jobs[slot].id = job_id + 1
      BY <1>5 DEF InsertRest, KnowInv, IdsPending
    <3>2. "id" \in Fields
      BY DEF Fields
    <3> QED
      BY <1>0, <1>5, <3>1, <3>2 DEF InsertRest, ListType, HalfWritten, NewJob
  <2>4. IdsPending'
    BY <1>5, <2>3 DEF InsertRest, StartCleanup, IdsPending
  <2> QED
    BY <1>5, <2>2, <2>4, KnowsOldJobs DEF InsertRest
<1> QED
  BY <1>1, <1>3, <1>4, <1>5

\* A published job is new to every worker, whatever it has recorded.
LEMMA PublishKeepsKnowing ==
    ASSUME Typed, KnowInv, Publish
    PROVE  KnowInv'
<1> DEFINE new == [elem |-> slot, priority |-> Request[cur].priority]
<1>1. /\ mpc = "cleanup" /\ mpc' = "idle" /\ job_id' = job_id + 1 /\ jobs' = jobs
      /\ jobs_r' = jobs_w \cup {new} /\ UNCHANGED <<task, local_jobs, prev_max>>
      /\ WlockFree /\ WakeWorkers /\ new.elem = slot
  BY DEF Publish, listVars
<1> HIDE DEF new
<1>2. \A w \in Workers :
        \/ pc'[w] = pc[w]
        \/ pc[w] = "asleep" /\ pc'[w] = "wait"
  BY <1>1, WakeWorkersMoves DEF Typed, TypeOK
<1>3. \A w \in Workers : prev_max[w] \in Nat /\ prev_max[w] <= job_id /\ job_id \in Nat
  BY DEF Typed, TypeOK, WorkType, BaseType, KnowInv, IdsRecorded
<1>4. \A w \in Workers, n \in jobs_r' :
        jobs'[n.elem].id <= prev_max'[w] => n \in jobs_r
  BY <1>1, <1>3 DEF KnowInv, IdsPending
<1>5. IdsPending'
  BY <1>1 DEF IdsPending
<1>6. IdsRecorded'
  BY <1>1, <1>2, <1>3 DEF IdsRecorded, WlockFree
<1>7. ClaimsBehind'
  BY <1>1, <1>2, <1>4 DEF KnowInv, ClaimsBehind, ClaimBehind, Known
<1>8. WorkersKnowLiveJobs'
  BY <1>1, <1>2, <1>4 DEF KnowInv, WorkersKnowLiveJobs
<1> QED
  BY <1>5, <1>6, <1>7, <1>8 DEF KnowInv

\* Every action keeps what the workers know.
LEMMA StepKnowInv == Typed /\ SlotInv /\ KnowInv /\ [Next]_vars => KnowInv'
<1> SUFFICES ASSUME Typed, SlotInv, KnowInv, [Next]_vars PROVE KnowInv'
  OBVIOUS
<1> USE DEF baseVars, listVars, heapVars, mainVars, workVars
<1>0. Typed'
  BY StepTyped
<1>1. CASE \/ \E c \in Clients : SubmitMiss(c)
           \/ \E c \in Clients : \E entry \in tree \cup pending : SubmitHit(c, entry)
           \/ Close \/ JoinAndDestroy
           \/ \E n \in todo : CleanupKeep(n)
           \/ \E n \in todo : \E skipped \in SUBSET todo, again \in SUBSET jobs_w :
                CleanupRemove(n, skipped, again)
  <2>1. IdsPending'
    BY <1>1 DEF SubmitMiss, SubmitHit, Close, JoinAndDestroy, CleanupKeep,
                CleanupRemove, KnowInv, IdsPending
  <2> QED
    BY <1>1, <2>1, KnowsOldJobs DEF SubmitMiss, SubmitHit, Close,
       JoinAndDestroy, CleanupKeep, CleanupRemove
<1>2. CASE CloseWake
  <2>1. \A w \in Workers :
          \/ pc'[w] = pc[w]
          \/ pc[w] = "asleep" /\ pc'[w] = "wait"
    BY <1>2, WakeWorkersMoves DEF CloseWake, Typed, TypeOK
  <2>2. IdsPending'
    BY <1>2 DEF CloseWake, IdsPending
  <2> QED
    BY <1>2, <2>1, <2>2, KnowsOldJobs DEF CloseWake
<1>3. CASE \E n \in jobs_r : Cancel(n)
  BY <1>0, <1>3, CancelKeepsKnowing
<1>4. CASE \/ InsertGrow
           \/ InsertUnseen
           \/ \E late \in SUBSET Fields : InsertSeen(late)
           \/ InsertRest
  BY <1>4, WritersKeepKnowing
<1>5. CASE Publish
  BY <1>5, PublishKeepsKnowing
<1>6. CASE \E w \in Workers : WorkerStep(w) \/ SpuriousWake(w)
  BY <1>0, <1>6, WorkersKeepKnowing
<1>7. CASE UNCHANGED vars
  <2>1. IdsPending'
    BY <1>7 DEF vars, KnowInv, IdsPending
  <2> QED
    BY <1>7, <2>1, KnowsOldJobs DEF vars
<1> QED
  BY <1>1, <1>2, <1>3, <1>4, <1>5, <1>6, <1>7
     DEF Next, Arrival, Submit, Shutdown, Stopped

\* However copies, claims, deletions and reused slots interleave, a worker that
\* has recorded job id k still has every published, unfinished job up to k in
\* its local heap (sched_priority.c:180-244).
THEOREM LiveJobsKnown == Spec => []WorkersKnowLiveJobs
<1> DEFINE Inv == Typed /\ SlotInv /\ KnowInv
<1>1. Init => Inv
  BY InitTyped, InitSlotInv, InitKnowInv
<1>2. Inv /\ [Next]_vars => Inv'
  BY StepTyped, StepSlotInv, StepKnowInv
<1>3. Inv => WorkersKnowLiveJobs
  BY DEF KnowInv
<1> QED
  BY <1>1, <1>2, <1>3, PTL DEF Spec

----------------------------------------------------------------------------
(***************************************************************************)
(* What the scheduler hands out, answers and deletes.                      *)
(*                                                                         *)
(* A job is read under rlock in several steps while main writes free slots *)
(* without a lock, so what these theorems say holds as long as no slot is  *)
(* overwritten under a worker (~slotRaced, the condition of the properties *)
(* themselves).  Layers are added to those above: JobInv (the slots: one   *)
(* job per client and per id, and what has been handed out lies behind the *)
(* next block), HashInv (the hash a worker has cached, the answer it       *)
(* carries and the entries of the answer cache), CarryInv and RefInv (who  *)
(* carries which block, and who counts as a user of a job) and HandInv     *)
(* (what is marked done or deleted is handed out).  HashInv needs JobInv   *)
(* because a worker caches the hash by job id.                             *)
(***************************************************************************)

----------------------------------------------------------------------------
(* What the steps do, as far as these proofs need it. *)

Slots == 0 .. cap - 1

\* From the claim of a block to the notification a worker uses its task.
Working(w) == pc[w] \in {"claimed", "enter", "search", "mark", "notify"}

\* The fields of a job that nobody changes before the slot is reused.
JobKept(i) ==
    /\ jobs'[i].request = jobs[i].request
    /\ jobs'[i].recipient = jobs[i].recipient
    /\ jobs'[i].id = jobs[i].id
    /\ jobs'[i].block_count = jobs[i].block_count

\* Main has written the job of its client to slot s, which nobody refers to.
WritesSlot(s) ==
    /\ mpc = "insert" /\ mpc' = "cleanup" /\ slot' = s
    /\ cap \in Nat /\ cap' \in Nat /\ cap' >= cap /\ s \in 0 .. cap' - 1
    /\ jobs'[s] = NewJob(cur, job_id + 1)
    /\ \A i \in Slots : i # s => jobs'[i] = jobs[i]
    /\ \A i \in cap .. cap' - 1 : i # s => jobs'[i] = ZeroJob
    /\ \A n \in jobs_r : n.elem # s
    /\ \A w \in Workers : \A n \in local_jobs[w] : n.elem # s

\* The locals of the workers stay, and at most sleepers are woken.
WorkersStill ==
    /\ UNCHANGED <<local_jobs, prev_max, prev_job, target_hash, task>>
    /\ \A w \in Workers :
         \/ pc'[w] = pc[w]
         \/ pc[w] = "asleep" /\ pc'[w] = "wait"

\* The slots of a grown freelist are the old ones and the new ones.
LEMMA GrownSlots ==
    ASSUME NEW a \in Nat, NEW b \in Nat, b >= a
    PROVE  /\ \A i \in 0 .. b - 1 : i \in 0 .. a - 1 \/ i \in a .. b - 1
           /\ \A i \in a .. b - 1 : i \notin 0 .. a - 1
OBVIOUS

\* Growing the freelist and taking a free slot that nobody sees both write
\* one slot, and it is not the slot of a node of any heap.
LEMMA InsertWritesSlot ==
    ASSUME Typed, SlotInv, InsertGrow \/ InsertUnseen
    PROVE  /\ WritesSlot(slot')
           /\ cur \in Clients /\ job_id \in Nat
           /\ UNCHANGED <<jobs_r, cur, job_id, handed, slotRaced, ringRaced,
                          recipient, sent, tree, pending, racing, pc, usedFreed>>
           /\ UNCHANGED <<local_jobs, prev_max, prev_job, target_hash, task>>
<1> USE DEF Typed, TypeOK
<1>1. /\ mpc = "insert" /\ mpc' = "cleanup" /\ cur \in Clients /\ job_id \in Nat
      /\ UNCHANGED <<jobs_r, cur, job_id, handed, slotRaced, ringRaced,
                     recipient, sent, tree, pending, racing, pc, usedFreed>>
      /\ UNCHANGED <<local_jobs, prev_max, prev_job, target_hash, task>>
  BY DEF InsertGrow, InsertUnseen, StartCleanup, NodesWritten, BaseType, baseVars,
         workVars, cacheVars, clientVars, histVars
<1>2. /\ cap \in Nat \ {0}
      /\ DOMAIN jobs = 0 .. cap - 1
      /\ \A n \in jobs_r : n.elem \in 0 .. cap - 1
      /\ \A w \in Workers : \A n \in local_jobs[w] : n.elem \in 0 .. cap - 1
  BY DEF ListType, MainType, WorkType, Nodes
<1>3. CASE InsertGrow
  <2> DEFINE new == GrownCap(cap)
  <2>1. new \in Nat /\ new > cap
    BY <1>2, GrownCapBigger
  <2>2. /\ cap' = new /\ slot' = new - 1
        /\ jobs' = [i \in 0 .. new - 1 |->
                      IF i = new - 1 THEN NewJob(cur, job_id + 1)
                      ELSE IF i < cap THEN jobs[i] ELSE ZeroJob]
    BY <1>3 DEF InsertGrow, StartCleanup
  <2> HIDE DEF new
  <2>3. /\ \A n \in jobs_r : n.elem # slot'
        /\ \A w \in Workers : \A n \in local_jobs[w] : n.elem # slot'
    BY <1>2, <2>1, <2>2
  <2>4. /\ cap' \in Nat /\ cap' >= cap /\ slot' \in 0 .. cap' - 1
        /\ jobs'[slot'] = NewJob(cur, job_id + 1)
    BY <1>2, <2>1, <2>2
  <2>5. /\ \A i \in Slots : i # slot' => jobs'[i] = jobs[i]
        /\ \A i \in cap .. cap' - 1 : i # slot' => jobs'[i] = ZeroJob
    BY <1>2, <2>1, <2>2 DEF Slots
  <2> QED
    BY <1>1, <1>2, <2>3, <2>4, <2>5 DEF WritesSlot
<1>4. CASE InsertUnseen
  <2>1. /\ indices # <<>> /\ slot' = LastFree /\ cap' = cap
        /\ jobs' = [jobs EXCEPT ![LastFree] = NewJob(cur, job_id + 1)]
        /\ \A w \in Workers : ~RefersTo(w, LastFree)
    BY <1>4 DEF InsertUnseen, StartCleanup
  <2>2. LastFree \in 0 .. cap - 1 /\ Len(indices) \in Nat \ {0}
    BY <2>1, TakeLastFree
  <2>3. LastFree \in FreeSlots
    <3>1. Len(indices) \in DOMAIN indices
      BY <2>2, LenProperties DEF ListType
    <3> QED
      BY <3>1 DEF FreeSlots, LastFree
  <2>4. \A n \in jobs_r : n.elem # LastFree
    BY <1>1, <2>3 DEF SlotInv, SlotAccounting, Occupied, Scheduled
  <2>5. \A w \in Workers : \A n \in local_jobs[w] : n.elem # LastFree
    BY <2>1 DEF RefersTo
  <2>6. /\ jobs'[LastFree] = NewJob(cur, job_id + 1)
        /\ \A i \in Slots : i # LastFree => jobs'[i] = jobs[i]
        /\ cap .. cap - 1 = {}
    BY <1>2, <2>1, <2>2 DEF Slots
  <2> QED
    BY <1>1, <1>2, <2>1, <2>2, <2>4, <2>5, <2>6 DEF WritesSlot
<1> QED
  BY <1>1, <1>3, <1>4

\* No step of main touches the locals of a worker or the record of the blocks
\* handed out.
LEMMA MainLeavesWorkers ==
    ASSUME Typed, Arrival \/ Submit \/ Shutdown
    PROVE  WorkersStill /\ handed' = handed
<1> USE DEF Typed, TypeOK, WorkersStill, workVars, histVars
<1>1. CASE CloseWake \/ Publish
  <2>1. WakeWorkers
    BY <1>1 DEF CloseWake, Publish
  <2> QED
    BY <1>1, <2>1, WakeWorkersMoves DEF CloseWake, Publish
<1>2. CASE Arrival
  BY <1>2 DEF Arrival, SubmitMiss, SubmitHit, Cancel, Close
<1>3. CASE InsertGrow \/ InsertUnseen \/ InsertRest
           \/ \E late \in SUBSET Fields : InsertSeen(late)
  BY <1>3 DEF InsertGrow, InsertUnseen, InsertSeen, InsertRest
<1>4. CASE JoinAndDestroy \/ \E n \in todo : CleanupKeep(n)
  BY <1>4 DEF JoinAndDestroy, CleanupKeep
<1>5. CASE \E n \in todo : \E skipped \in SUBSET todo, again \in SUBSET jobs_w :
             CleanupRemove(n, skipped, again)
  BY <1>5 DEF CleanupRemove
<1> QED
  BY <1>1, <1>2, <1>3, <1>4, <1>5 DEF Submit, Shutdown

\* A worker changes neither the client nor the id of a slot's job.
LEMMA WorkersKeepJobs ==
    ASSUME Typed, NEW w \in Workers, WorkerStep(w) \/ SpuriousWake(w)
    PROVE  \A i \in Slots : JobKept(i)
<1>0. \A i \in Slots : jobs[i] \in Jobs /\ jobs \in [Slots -> Jobs]
  BY DEF Typed, TypeOK, ListType, Slots
<1>1. CASE jobs' = jobs
  BY <1>1 DEF JobKept
<1>2. ASSUME NEW e, NEW k, NEW i \in Slots,
             \/ jobs' = [jobs EXCEPT ![e].block_idx = k]
             \/ jobs' = [jobs EXCEPT ![e].rc = k]
      PROVE  JobKept(i)
  <2>1. \/ jobs'[i] = jobs[i]
        \/ jobs'[i] = [jobs[i] EXCEPT !.block_idx = k]
        \/ jobs'[i] = [jobs[i] EXCEPT !.rc = k]
    BY <1>0, <1>2
  <2> QED
    BY <1>0, <2>1 DEF JobKept, Jobs
<1>3. CASE \E n \in local_jobs[w] : FetchBlock(w, n)
  BY <1>2, <1>3 DEF FetchBlock
<1>4. CASE EnterJob(w)
  BY <1>2, <1>4 DEF EnterJob
<1>5. CASE LeaveJob(w)
  BY <1>2, <1>5 DEF LeaveJob
<1>6. CASE MarkDone(w)
  <2>1. jobs' = [jobs EXCEPT ![task[w].node.elem].block_idx =
                    jobs[task[w].node.elem].block_count]
    BY <1>6 DEF MarkDone, MarkAsDone
  <2> QED
    BY <1>2, <2>1
<1> QED
  BY <1>1, <1>3, <1>4, <1>5, <1>6 DEF WorkerStep, SpuriousWake, Exit, NoRefresh,
     CopyHeap, SetMaxJobId, ClaimBlock, DropJob, ReadRecipient, NotifyRecipient,
     CachePush, CachePushRaced, NothingLeft, StopWaiting, DecideToYield, Yield,
     Awake, listVars

\* Cancelling a job leaves it the job of its client.
LEMMA CancelKeepsJobs ==
    ASSUME Typed, NEW n \in jobs_r, Cancel(n)
    PROVE  \A i \in Slots : JobKept(i)
BY DEF Typed, TypeOK, Cancel, MarkAsDone, JobKept, ListType, Jobs, Slots

\* The other steps of main do not touch the slots at all.
LEMMA MainKeepsJobs ==
    ASSUME \/ \E c \in Clients : SubmitMiss(c)
           \/ \E c \in Clients : \E entry \in tree \cup pending : SubmitHit(c, entry)
           \/ Close \/ CloseWake \/ JoinAndDestroy \/ Publish
           \/ \E n \in todo : CleanupKeep(n)
           \/ \E n \in todo : \E skipped \in SUBSET todo, again \in SUBSET jobs_w :
                CleanupRemove(n, skipped, again)
    PROVE  jobs' = jobs /\ cap' = cap
BY DEF SubmitMiss, SubmitHit, Close, CloseWake, JoinAndDestroy, Publish,
       CleanupKeep, CleanupRemove, listVars

\* A worker changes only its own locals.
LEMMA OneWorkerMoves ==
    ASSUME Typed, NEW w \in Workers, WorkerStep(w) \/ SpuriousWake(w),
           NEW v \in Workers, v # w
    PROVE  /\ pc'[v] = pc[v] /\ task'[v] = task[v]
           /\ local_jobs'[v] = local_jobs[v] /\ prev_max'[v] = prev_max[v]
           /\ prev_job'[v] = prev_job[v] /\ target_hash'[v] = target_hash[v]
<1> USE DEF Typed, TypeOK, WorkType, Goto
<1>1. CASE Exit(w) \/ NoRefresh(w) \/ CopyHeap(w) \/ SetMaxJobId(w)
           \/ (\E n \in local_jobs[w] : FetchBlock(w, n)) \/ ClaimBlock(w)
           \/ DropJob(w) \/ EnterJob(w)
  BY <1>1 DEF Exit, NoRefresh, CopyHeap, SetMaxJobId, FetchBlock, ClaimBlock,
     DropJob, EnterJob
<1>2. CASE \/ LeaveJob(w) \/ ReadRecipient(w) \/ MarkDone(w) \/ NotifyRecipient(w)
           \/ CachePush(w)
           \/ \E lost \in SUBSET racing : \E k, e \in racing :
                CachePushRaced(w, lost, k, e)
  BY <1>2 DEF LeaveJob, ReadRecipient, MarkDone, NotifyRecipient, CachePush,
     CachePushRaced
<1>3. CASE NothingLeft(w) \/ StopWaiting(w) \/ DecideToYield(w) \/ Yield(w)
           \/ Awake(w) \/ SpuriousWake(w)
  BY <1>3 DEF NothingLeft, StopWaiting, DecideToYield, Yield, Awake, SpuriousWake
<1> QED
  BY <1>1, <1>2, <1>3 DEF WorkerStep

\* What a worker's step can do to its own locals: it copies the published heap
\* or shrinks its copy, and it caches the id and the hash of the job it claims.
LEMMA OwnLocals ==
    ASSUME Typed, NEW w \in Workers, WorkerStep(w) \/ SpuriousWake(w)
    PROVE  /\ \/ local_jobs'[w] \subseteq local_jobs[w]
              \/ local_jobs'[w] = jobs_r
           /\ \/ ClaimBlock(w)
              \/ prev_job'[w] = prev_job[w] /\ target_hash'[w] = target_hash[w]
           /\ \/ Working(w) /\ Working(w)' /\ task'[w].node = task[w].node
                 /\ local_jobs'[w] = local_jobs[w]
              \/ pc'[w] = "claimed" /\ task'[w].node \in local_jobs[w]
                 /\ local_jobs'[w] = local_jobs[w]
              \/ ~Working(w)'
<1> USE DEF Typed, TypeOK, WorkType, Goto, Working
<1>1. CASE Exit(w) \/ NoRefresh(w) \/ CopyHeap(w) \/ SetMaxJobId(w)
           \/ DropJob(w)
  BY <1>1 DEF Exit, NoRefresh, CopyHeap, SetMaxJobId, DropJob
<1>2. CASE (\E n \in local_jobs[w] : FetchBlock(w, n))
  BY <1>2 DEF FetchBlock, Tasks
<1>3. CASE ClaimBlock(w)
  BY <1>3 DEF ClaimBlock, Tasks
<1>4. CASE EnterJob(w) \/ LeaveJob(w) \/ MarkDone(w)
  BY <1>4 DEF EnterJob, LeaveJob, MarkDone
<1>5. CASE ReadRecipient(w)
  BY <1>5 DEF ReadRecipient, Tasks
<1>6. CASE \/ NotifyRecipient(w)
           \/ CachePush(w)
           \/ \E lost \in SUBSET racing : \E k, e \in racing :
                CachePushRaced(w, lost, k, e)
  BY <1>6 DEF NotifyRecipient, CachePush, CachePushRaced
<1>7. CASE NothingLeft(w) \/ StopWaiting(w) \/ DecideToYield(w) \/ Yield(w)
           \/ Awake(w) \/ SpuriousWake(w)
  BY <1>7 DEF NothingLeft, StopWaiting, DecideToYield, Yield, Awake, SpuriousWake
<1> QED
  BY <1>1, <1>2, <1>3, <1>4, <1>5, <1>6, <1>7 DEF WorkerStep

----------------------------------------------------------------------------
(* A worker works on a job of its own copy of the heap; a slot is written   *)
(* in two steps only when some worker refers to it.                         *)

KeptInv ==
    /\ \A w \in Workers : Working(w) => task[w].node \in local_jobs[w]
    /\ mpc = "tear" => slotRaced

\* Nobody works at the start.
LEMMA InitKeptInv == Init => KeptInv
BY DEF Init, KeptInv, Working

\* Copies are made and shrunk only by workers that hold no task.
LEMMA StepKeptInv == Typed /\ KeptInv /\ [Next]_vars => KeptInv'
<1> SUFFICES ASSUME Typed, KeptInv, [Next]_vars PROVE KeptInv'
  OBVIOUS
<1>1. CASE Arrival \/ Submit \/ Shutdown
  <2>1. \A w \in Workers : Working(w)' => task'[w].node \in local_jobs'[w]
    BY <1>1, MainLeavesWorkers DEF WorkersStill, KeptInv, Working
  <2>2. mpc' = "tear" => slotRaced'
    BY <1>1 DEF KeptInv, Arrival, Submit, Shutdown, SubmitMiss, SubmitHit, Cancel,
       Close, CloseWake, JoinAndDestroy, InsertGrow, InsertUnseen, InsertSeen,
       InsertRest, StartCleanup, CleanupKeep, CleanupRemove, Publish, mainVars
  <2> QED
    BY <2>1, <2>2 DEF KeptInv
<1>2. CASE \E w \in Workers : WorkerStep(w) \/ SpuriousWake(w)
  <2> PICK w \in Workers : WorkerStep(w) \/ SpuriousWake(w)
    BY <1>2
  <2>1. \A v \in Workers : Working(v)' => task'[v].node \in local_jobs'[v]
    <3> TAKE v \in Workers
    <3>1. CASE v = w
      BY <3>1, OwnLocals DEF KeptInv
    <3>2. CASE v # w
      BY <3>2, OneWorkerMoves DEF KeptInv, Working
    <3> QED
      BY <3>1, <3>2
  <2>2. mpc' = mpc /\ slotRaced' = slotRaced
    <3>1. slotRaced' = slotRaced
      BY DEF WorkerStep, SpuriousWake, Exit, NoRefresh, CopyHeap, SetMaxJobId,
         FetchBlock, ClaimBlock, DropJob, EnterJob, LeaveJob, ReadRecipient,
         MarkDone, NotifyRecipient, CachePush, CachePushRaced, NothingLeft,
         StopWaiting, DecideToYield, Yield, Awake, histVars
    <3> QED
      BY <3>1, WorkersLeaveSlots
  <2> QED
    BY <2>1, <2>2 DEF KeptInv
<1>3. CASE UNCHANGED vars
  BY <1>3 DEF vars, mainVars, workVars, histVars, KeptInv, Working
<1> QED
  BY <1>1, <1>2, <1>3 DEF Next, Stopped

----------------------------------------------------------------------------
(* The jobs in the slots.  A client whose recipient is not yet used, or who *)
(* is being submitted, is new: nothing is in a slot for it.                 *)

IdsOld ==
    /\ \A w \in Workers : prev_job[w] <= job_id
    /\ \A i \in Slots : jobs[i].id <= job_id \/ (mpc = "cleanup" /\ i = slot)
    /\ mpc = "cleanup" =>
         /\ \A n \in jobs_r : n.elem # slot
         /\ \A w \in Workers : \A n \in local_jobs[w] : n.elem # slot

OneJobEach ==
    /\ \A i, k \in Slots :
         /\ Written(i) /\ Written(k)
         /\ jobs[i].id = jobs[k].id \/ jobs[i].request = jobs[k].request
         => i = k
    /\ \A i \in Slots :
         /\ jobs[i].recipient = jobs[i].request
         /\ Written(i) => jobs[i].block_count = BlockCount(jobs[i].request)

New(c) == recipient[c] = "none" \/ (mpc = "insert" /\ c = cur)

NewClients ==
    /\ \A c \in Clients : New(c) =>
         handed[c] = {} /\ \A i \in Slots : jobs[i].request # c
    /\ mpc = "insert" => recipient[cur] # "none"

\* What has been handed out of a job lies before its next block, or is the
\* block after the last one, which is handed out again when the job is marked
\* as done.
HandedBehind ==
    \A i \in Slots : Written(i) =>
        \A b \in handed[jobs[i].request] :
            b < jobs[i].block_idx \/ b >= jobs[i].block_count

JobParts == IdsOld /\ OneJobEach /\ NewClients /\ HandedBehind

JobInv == ~slotRaced => JobParts

\* At the start no slot holds a job.
LEMMA InitJobInv == Init => JobInv
<1> SUFFICES ASSUME Init PROVE JobParts
  BY DEF JobInv
<1>1. \A i \in Slots : jobs[i] = ZeroJob
  BY DEF Init, Slots
<1>2. \A i \in Slots : jobs[i].request = NoClient /\ jobs[i].recipient = NoClient
                       /\ jobs[i].id = 0
  BY <1>1 DEF ZeroJob
<1>3. \A i \in Slots : ~Written(i)
  BY <1>2, RequestAssumption DEF Written
<1>4. job_id = 0 /\ mpc = "idle" /\ \A w \in Workers : prev_job[w] = -1
  BY DEF Init, BaseInit, NoJobId
<1>5. IdsOld
  BY <1>2, <1>4 DEF IdsOld
<1>6. OneJobEach /\ HandedBehind
  BY <1>2, <1>3 DEF OneJobEach, HandedBehind
<1>7. NewClients
  BY <1>2, <1>4, RequestAssumption DEF NewClients, Init
<1> QED
  BY <1>5, <1>6, <1>7 DEF JobParts

\* Writing the job of a new client to a slot nobody refers to.
LEMMA WritingKeepsJobs ==
    ASSUME Typed, SlotInv, JobParts, InsertGrow \/ InsertUnseen
    PROVE  JobParts'
<1> DEFINE s == slot'
<1> DEFINE new == NewJob(cur, job_id + 1)
<1>1. /\ WritesSlot(s) /\ cur \in Clients /\ job_id \in Nat
      /\ UNCHANGED <<jobs_r, cur, job_id, handed, slotRaced, recipient>>
      /\ UNCHANGED <<local_jobs, prev_job>>
  BY InsertWritesSlot
<1>2. /\ new.id = job_id + 1 /\ new.request = cur /\ new.recipient = cur
      /\ new.block_count = BlockCount(cur) /\ new.block_idx = 0
  BY DEF NewJob
<1>3. /\ ZeroJob.id = 0 /\ ZeroJob.request = NoClient /\ ZeroJob.recipient = NoClient
      /\ NoClient \notin Clients
  BY RequestAssumption DEF ZeroJob
<1>4. /\ s \in Slots' /\ mpc = "insert" /\ mpc' = "cleanup" /\ slot' = s
      /\ jobs'[s] = new
      /\ \A i \in Slots' : \/ i = s
                           \/ i \in Slots /\ i # s /\ jobs'[i] = jobs[i]
                           \/ i \notin Slots /\ jobs'[i] = ZeroJob
  <2>0. cap \in Nat /\ cap' \in Nat /\ cap' >= cap /\ s \in 0 .. cap' - 1
    BY <1>1 DEF WritesSlot
  <2>1. \A i \in Slots' : i \in Slots \/ i \in cap .. cap' - 1
    BY <2>0, GrownSlots DEF Slots
  <2>2. s \in Slots' /\ \A i \in cap .. cap' - 1 : i \notin Slots
    BY <2>0, GrownSlots DEF Slots
  <2> QED
    BY <1>1, <2>1, <2>2 DEF WritesSlot
<1>5. \A i \in Slots' : Written(i)' => i = s \/ (i \in Slots /\ Written(i) /\ jobs'[i] = jobs[i])
  BY <1>3, <1>4 DEF Written, Slots
<1>6. handed[cur] = {} /\ \A i \in Slots : jobs[i].request # cur /\ jobs[i].id <= job_id
  BY <1>1, <1>4 DEF JobParts, NewClients, New, IdsOld
<1>7. job_id + 1 # job_id /\ \A k : k <= job_id => k # job_id + 1
  BY <1>1
<1> HIDE DEF s, new
<1>8. IdsOld'
  <2>1. \A i \in Slots' : jobs'[i].id <= job_id \/ i = s
    BY <1>1, <1>3, <1>4, <1>6
  <2> QED
    BY <1>1, <1>4, <2>1 DEF IdsOld, WritesSlot, JobParts
<1>9. OneJobEach'
  <2>1. ASSUME NEW i \in Slots', NEW k \in Slots', Written(i)', Written(k)',
               jobs'[i].id = jobs'[k].id \/ jobs'[i].request = jobs'[k].request
        PROVE  i = k
    BY <1>2, <1>4, <1>5, <1>6, <1>7, <2>1 DEF JobParts, OneJobEach
  <2>2. ASSUME NEW i \in Slots'
        PROVE  /\ jobs'[i].recipient = jobs'[i].request
               /\ Written(i)' => jobs'[i].block_count = BlockCount(jobs'[i].request)
    BY <1>2, <1>3, <1>4, <1>5 DEF JobParts, OneJobEach
  <2> QED
    BY <2>1, <2>2 DEF OneJobEach
<1>10. NewClients'
  <2>1. ASSUME NEW c \in Clients, New(c)'
        PROVE  c # cur /\ New(c)
    <3>1. recipient[c] = "none"
      BY <1>1, <1>4, <2>1 DEF New
    <3> QED
      BY <1>4, <3>1 DEF New, JobParts, NewClients
  <2> QED
    BY <1>1, <1>2, <1>3, <1>4, <2>1 DEF JobParts, NewClients
<1>11. HandedBehind'
  BY <1>1, <1>2, <1>4, <1>5, <1>6 DEF JobParts, HandedBehind
<1> QED
  BY <1>8, <1>9, <1>10, <1>11 DEF JobParts

\* Announcing the id of the job that has just been written.
LEMMA PublishingKeepsJobs ==
    ASSUME Typed, KnowInv, JobParts, Publish
    PROVE  JobParts'
<1>1. /\ mpc = "cleanup" /\ mpc' = "idle" /\ job_id' = job_id + 1
      /\ UNCHANGED <<jobs, cap, handed, recipient, prev_job>>
  BY DEF Publish, listVars, clientVars, histVars
<1>2. /\ job_id \in Nat /\ jobs[slot].id = job_id + 1
      /\ \A i \in Slots : jobs[i].id \in Nat
      /\ \A w \in Workers : prev_job[w] \in Int
  BY <1>1 DEF Typed, TypeOK, BaseType, ListType, Jobs, WorkType, KnowInv, IdsPending,
              Slots, NoJobId
<1>3. IdsOld'
  BY <1>1, <1>2 DEF JobParts, IdsOld, Slots
<1>4. OneJobEach' /\ HandedBehind'
  BY <1>1 DEF JobParts, OneJobEach, HandedBehind, Slots, Written
<1>5. NewClients'
  BY <1>1 DEF JobParts, NewClients, New, Slots
<1> QED
  BY <1>3, <1>4, <1>5 DEF JobParts

\* The steps of main that leave slots and ids as they are.
LEMMA ClientsKeepJobs ==
    ASSUME Typed, JobParts,
           \/ \E c \in Clients : SubmitMiss(c)
           \/ \E c \in Clients : \E entry \in tree \cup pending : SubmitHit(c, entry)
           \/ Close \/ CloseWake \/ JoinAndDestroy
           \/ \E n \in todo : CleanupKeep(n)
           \/ \E n \in todo : \E skipped \in SUBSET todo, again \in SUBSET jobs_w :
                CleanupRemove(n, skipped, again)
    PROVE  JobParts'
<1>1. /\ UNCHANGED <<jobs, cap, handed, jobs_r, job_id, slot>>
      /\ UNCHANGED <<local_jobs, prev_job>>
      /\ mpc' = "cleanup" <=> mpc = "cleanup"
  BY DEF SubmitMiss, SubmitHit, Close, CloseWake, JoinAndDestroy, CleanupKeep,
         CleanupRemove, listVars, baseVars, heapVars, mainVars, workVars, histVars
<1>2. IdsOld' /\ OneJobEach' /\ HandedBehind'
  BY <1>1 DEF JobParts, IdsOld, OneJobEach, HandedBehind, Slots, Written
<1>3. NewClients'
  <2>1. CASE \E c \in Clients : SubmitMiss(c)
    <3> PICK c \in Clients : SubmitMiss(c)
      BY <2>1
    <3>1. /\ recipient[c] = "none" /\ recipient' = [recipient EXCEPT ![c] = "live"]
          /\ cur' = c /\ mpc' = "insert" /\ mpc = "idle"
      BY DEF SubmitMiss, MissCache
    <3>2. recipient \in [Clients -> {"none", "live", "freed"}]
      BY DEF Typed, TypeOK, ClientType
    <3>3. \A d \in Clients : New(d)' => New(d)
      BY <3>1, <3>2 DEF New
    <3>4. recipient'[cur'] # "none"
      BY <3>1, <3>2
    <3> QED
      BY <1>1, <3>3, <3>4 DEF JobParts, NewClients, Slots
  <2>2. CASE \E c \in Clients : \E entry \in tree \cup pending : SubmitHit(c, entry)
    <3> PICK c \in Clients, entry \in tree \cup pending : SubmitHit(c, entry)
      BY <2>2
    <3>1. /\ recipient' = [recipient EXCEPT ![c] = "freed"]
          /\ mpc' = "idle"
      BY DEF SubmitHit, AnswerFromCache, mainVars
    <3>2. recipient \in [Clients -> {"none", "live", "freed"}]
      BY DEF Typed, TypeOK, ClientType
    <3>3. \A d \in Clients : New(d)' => New(d)
      BY <3>1, <3>2 DEF New
    <3> QED
      BY <1>1, <3>1, <3>3 DEF JobParts, NewClients, Slots
  <2>3. CASE ~ \/ \E c \in Clients : SubmitMiss(c)
               \/ \E c \in Clients : \E entry \in tree \cup pending : SubmitHit(c, entry)
    <3>1. recipient' = recipient /\ cur' = cur /\ mpc' # "insert"
      BY <2>3 DEF Close, CloseWake, JoinAndDestroy, CleanupKeep, CleanupRemove,
         clientVars, mainVars
    <3> QED
      BY <1>1, <3>1 DEF JobParts, NewClients, New, Slots
  <2> QED
    BY <2>1, <2>2, <2>3
<1> QED
  BY <1>2, <1>3 DEF JobParts

\* A job that moves forward keeps what was handed out behind it.
LEMMA ForwardKeepsHanded ==
    ASSUME Typed, Typed', JobParts, cap' = cap, handed' = handed,
           \A i \in Slots : JobKept(i) /\ Forward(i)
    PROVE  OneJobEach' /\ HandedBehind'
<1>1. \A i \in Slots : /\ jobs'[i].request = jobs[i].request
                       /\ jobs'[i].recipient = jobs[i].recipient
                       /\ jobs'[i].id = jobs[i].id
                       /\ jobs'[i].block_count = jobs[i].block_count
                       /\ Written(i)' <=> Written(i)
  BY DEF JobKept, Written
<1>2. Slots' = Slots
  BY DEF Slots
<1>3. OneJobEach'
  BY <1>1, <1>2 DEF JobParts, OneJobEach
<1>4. HandedBehind'
  <2> SUFFICES ASSUME NEW i \in Slots, Written(i), NEW b \in handed[jobs[i].request]
               PROVE  b < jobs'[i].block_idx \/ b >= jobs'[i].block_count
    BY <1>1, <1>2 DEF HandedBehind
  <2>1. b < jobs[i].block_idx \/ b >= jobs[i].block_count
    BY DEF JobParts, HandedBehind
  <2>2. b \in Nat
    BY DEF Written, Typed, TypeOK, ClientType
  <2>3. /\ jobs[i].block_idx \in Nat /\ jobs[i].block_count \in Nat
        /\ jobs'[i].block_idx \in Nat
    BY <1>2 DEF Typed, TypeOK, ListType, Jobs, Slots
  <2>4. jobs'[i].block_idx >= jobs[i].block_idx \/ jobs'[i].block_idx >= jobs[i].block_count
    BY <1>1 DEF Forward, IsDone
  <2> QED
    BY <1>1, <2>1, <2>2, <2>3, <2>4
<1> QED
  BY <1>3, <1>4

\* Cancelling a job passes its blocks over.
LEMMA CancellingKeepsJobs ==
    ASSUME Typed, Typed', JobParts, NEW n \in jobs_r, Cancel(n)
    PROVE  JobParts'
<1>1. /\ UNCHANGED <<cap, handed, jobs_r, job_id, slot, mpc, cur, recipient>>
      /\ UNCHANGED <<local_jobs, prev_job>>
  BY DEF Cancel, baseVars, heapVars, mainVars, workVars, histVars, clientVars
<1>2. \A i \in Slots : JobKept(i) /\ Forward(i)
  BY CancelKeepsJobs, CancelMovesForward DEF Slots, JobKept, Forward
<1>3. OneJobEach' /\ HandedBehind'
  BY <1>1, <1>2, ForwardKeepsHanded
<1>4. IdsOld' /\ NewClients'
  BY <1>1, <1>2 DEF JobParts, IdsOld, NewClients, New, Slots, JobKept
<1> QED
  BY <1>3, <1>4 DEF JobParts

\* The claim of a block of job n hands that block out and goes to the next.
LEMMA FetchingKeepsHanded ==
    ASSUME Typed, JobParts, NEW w \in Workers, NEW n \in local_jobs[w],
           FetchBlock(w, n)
    PROVE  HandedBehind'
<1> DEFINE e == n.elem
<1> DEFINE c == jobs[e].request
<1> DEFINE k == jobs[e].block_idx
<1>1. /\ e \in Slots /\ Written(e) /\ c \in Clients
      /\ jobs \in [Slots -> Jobs] /\ handed \in [Clients -> SUBSET Nat]
      /\ k \in Nat
  BY DEF Typed, TypeOK, WorkType, Nodes, NodesWritten, Written, Slots, ListType,
         ClientType, Jobs
<1>2. /\ jobs' = [jobs EXCEPT ![e].block_idx = k + 1]
      /\ handed' = [handed EXCEPT ![c] = @ \cup {k}]
      /\ cap' = cap
  BY DEF FetchBlock
<1>3. \A i \in Slots : JobKept(i)
  BY WorkersKeepJobs DEF WorkerStep, JobKept
<1>4. \A i \in Slots : i # e => jobs'[i] = jobs[i]
  BY <1>1, <1>2
<1>5. jobs'[e].block_idx = k + 1
  BY <1>1, <1>2 DEF Jobs
<1> HIDE DEF e, c, k
<1> SUFFICES ASSUME NEW i \in Slots, Written(i), NEW b \in handed'[jobs[i].request]
             PROVE  b < jobs'[i].block_idx \/ b >= jobs'[i].block_count
  BY <1>2, <1>3 DEF HandedBehind, Slots, Written, JobKept
<1>6. jobs[i].request \in Clients
  BY DEF Written
<1>7. CASE i = e
  <2>1. c = jobs[i].request
    BY <1>7 DEF c
  <2>2. b = k \/ b \in handed[jobs[i].request]
    BY <1>1, <1>2, <2>1
  <2>3. b \in handed[jobs[i].request] => b \in Nat /\ (b < k \/ b >= jobs[i].block_count)
    BY <1>1, <1>6, <1>7 DEF JobParts, HandedBehind, k
  <2> QED
    BY <1>1, <1>3, <1>5, <1>7, <2>2, <2>3 DEF JobKept
<1>8. CASE i # e
  <2>1. jobs[i].request # c
    BY <1>1, <1>8 DEF JobParts, OneJobEach, c
  <2>2. b \in handed[jobs[i].request]
    BY <1>1, <1>2, <1>6, <2>1
  <2> QED
    BY <1>4, <1>8, <2>2 DEF JobParts, HandedBehind
<1> QED
  BY <1>7, <1>8

\* A notification never makes a recipient fresh again.
LEMMA WorkersUseRecipients ==
    ASSUME Typed, NEW w \in Workers, WorkerStep(w) \/ SpuriousWake(w)
    PROVE  \/ NotifyRecipient(w)
           \/ recipient' = recipient /\ sent' = sent /\ usedFreed' = usedFreed
BY DEF WorkerStep, SpuriousWake, Exit, NoRefresh, CopyHeap, SetMaxJobId,
   FetchBlock, ClaimBlock, DropJob, EnterJob, LeaveJob, ReadRecipient, MarkDone,
   CachePush, CachePushRaced, NothingLeft, StopWaiting, DecideToYield, Yield,
   Awake, clientVars, histVars

\* Only the claim of a block hands blocks out.
LEMMA WorkersHandOut ==
    ASSUME NEW w \in Workers, WorkerStep(w) \/ SpuriousWake(w)
    PROVE  \/ \E n \in local_jobs[w] : FetchBlock(w, n)
           \/ handed' = handed
BY DEF WorkerStep, SpuriousWake, Exit, NoRefresh, CopyHeap, SetMaxJobId,
   ClaimBlock, DropJob, EnterJob, LeaveJob, ReadRecipient, MarkDone,
   NotifyRecipient, CachePush, CachePushRaced, NothingLeft, StopWaiting,
   DecideToYield, Yield, Awake, histVars

\* A worker's step keeps what is known of the slots' jobs.
LEMMA WorkingKeepsJobs ==
    ASSUME Typed, Typed', KeptInv, JobParts,
           NEW w \in Workers, WorkerStep(w) \/ SpuriousWake(w)
    PROVE  JobParts'
<1>1. UNCHANGED <<cap, jobs_r, mpc, cur, slot, job_id>>
  BY WorkersLeaveSlots
<1>2. \A i \in Slots : JobKept(i)
  BY WorkersKeepJobs
<1>3. /\ Slots' = Slots
      /\ \A i \in Slots : /\ jobs'[i].request = jobs[i].request
                          /\ jobs'[i].recipient = jobs[i].recipient
                          /\ jobs'[i].id = jobs[i].id
                          /\ jobs'[i].block_count = jobs[i].block_count
                          /\ Written(i)' <=> Written(i)
  BY <1>1, <1>2 DEF JobKept, Slots, Written
<1>4. IdsOld'
  <2>1. ASSUME NEW v \in Workers
        PROVE  /\ prev_job'[v] <= job_id
               /\ mpc = "cleanup" => \A n \in local_jobs'[v] : n.elem # slot
    <3>1. CASE v = w
      <4>1. \A n \in local_jobs'[v] : n \in local_jobs[v] \/ n \in jobs_r
        BY <3>1, OwnLocals
      <4>2. prev_job'[v] = prev_job[v] \/ ClaimBlock(w)
        BY <3>1, OwnLocals
      <4>3. ASSUME ClaimBlock(w)
            PROVE  prev_job'[w] <= job_id
        <5>1. /\ prev_job' = [prev_job EXCEPT ![w] = jobs[task[w].node.elem].id]
              /\ pc[w] = "claimed"
          BY <4>3 DEF ClaimBlock
        <5>2. task[w].node \in local_jobs[w]
          BY <5>1 DEF KeptInv, Working
        <5>3. /\ task[w].node.elem \in Slots
              /\ mpc = "cleanup" => task[w].node.elem # slot
          BY <5>2 DEF JobParts, IdsOld, Typed, NodesWritten, Written, Slots
        <5>4. prev_job \in [Workers -> Nat \cup {NoJobId}]
          BY DEF Typed, TypeOK, WorkType
        <5> QED
          BY <5>1, <5>3, <5>4 DEF JobParts, IdsOld
      <4> QED
        BY <3>1, <4>1, <4>2, <4>3 DEF JobParts, IdsOld
    <3>2. CASE v # w
      BY <3>2, OneWorkerMoves DEF JobParts, IdsOld
    <3> QED
      BY <3>1, <3>2
  <2> QED
    BY <1>1, <1>3, <2>1 DEF JobParts, IdsOld
<1>5. OneJobEach' /\ HandedBehind'
  <2>1. \A i \in Slots : Forward(i)
    BY WorkersMoveForward DEF Slots, Forward
  <2>2. CASE handed' = handed
    BY <1>1, <1>2, <2>1, <2>2, ForwardKeepsHanded DEF JobKept, Forward
  <2>3. CASE \E n \in local_jobs[w] : FetchBlock(w, n)
    <3>1. HandedBehind'
      BY <2>3, FetchingKeepsHanded
    <3>2. OneJobEach'
      BY <1>3 DEF JobParts, OneJobEach
    <3> QED
      BY <3>1, <3>2
  <2> QED
    BY <2>2, <2>3, WorkersHandOut
<1>6. NewClients'
  <2>1. recipient \in [Clients -> {"none", "live", "freed"}]
    BY DEF Typed, TypeOK, ClientType
  <2>2. \A c \in Clients : recipient'[c] = "none" <=> recipient[c] = "none"
    BY <2>1, WorkersUseRecipients DEF NotifyRecipient, Notify
  <2>3. \A c \in Clients : New(c)' <=> New(c)
    BY <1>1, <2>2 DEF New
  <2>4. ASSUME NEW c \in Clients, New(c) PROVE handed'[c] = handed[c]
    <3>1. CASE \E n \in local_jobs[w] : FetchBlock(w, n)
      <4> PICK n \in local_jobs[w] : FetchBlock(w, n)
        BY <3>1
      <4>1. n.elem \in Slots /\ jobs[n.elem].request \in Clients
        BY DEF Typed, NodesWritten, Written, Slots
      <4>2. jobs[n.elem].request # c
        BY <2>4, <4>1 DEF JobParts, NewClients
      <4>3. handed \in [Clients -> SUBSET Nat]
        BY DEF Typed, TypeOK, ClientType
      <4> QED
        BY <4>1, <4>2, <4>3 DEF FetchBlock
    <3> QED
      BY <3>1, WorkersHandOut
  <2>5. mpc = "insert" => cur \in Clients
    BY DEF Typed, NodesWritten
  <2> QED
    BY <1>1, <1>3, <2>2, <2>3, <2>4, <2>5 DEF JobParts, NewClients
<1> QED
  BY <1>4, <1>5, <1>6 DEF JobParts

\* Workers record no overwritten slot.
LEMMA WorkersRecordNoRace ==
    ASSUME NEW w \in Workers, WorkerStep(w) \/ SpuriousWake(w)
    PROVE  slotRaced' = slotRaced
BY DEF WorkerStep, SpuriousWake, Exit, NoRefresh, CopyHeap, SetMaxJobId,
   FetchBlock, ClaimBlock, DropJob, EnterJob, LeaveJob, ReadRecipient, MarkDone,
   NotifyRecipient, CachePush, CachePushRaced, NothingLeft, StopWaiting,
   DecideToYield, Yield, Awake, histVars

\* An overwritten slot is never forgotten.
LEMMA SlotRaceStays ==
    ASSUME [Next]_vars, slotRaced
    PROVE  slotRaced'
<1>1. CASE Arrival \/ Shutdown
  BY <1>1 DEF Arrival, Shutdown, SubmitMiss, SubmitHit, Cancel, Close, CloseWake,
     JoinAndDestroy, histVars
<1>2. CASE Submit
  BY <1>2 DEF Submit, InsertGrow, InsertUnseen, InsertSeen, InsertRest, CleanupKeep,
     CleanupRemove, Publish, histVars
<1>3. CASE \E w \in Workers : WorkerStep(w) \/ SpuriousWake(w)
  BY <1>3, WorkersRecordNoRace
<1>4. CASE UNCHANGED vars
  BY <1>4 DEF vars, histVars
<1> QED
  BY <1>1, <1>2, <1>3, <1>4 DEF Next, Stopped

\* Every action keeps what is known of the slots' jobs, unless it overwrites a
\* slot under a worker.
LEMMA StepJobInv ==
    Typed /\ SlotInv /\ KnowInv /\ KeptInv /\ JobInv /\ [Next]_vars => JobInv'
<1> SUFFICES ASSUME Typed, SlotInv, KnowInv, KeptInv, JobInv, [Next]_vars, ~slotRaced'
             PROVE  JobParts'
  BY DEF JobInv
<1>0. Typed'
  BY StepTyped
<1>1. JobParts \/ slotRaced
  BY DEF JobInv
<1>2. ~slotRaced /\ mpc # "tear" /\ ~ \E late \in SUBSET Fields : InsertSeen(late)
  BY SlotRaceStays DEF KeptInv, InsertSeen
<1>3. JobParts
  BY <1>1, <1>2
<1>4. CASE Arrival
  BY <1>0, <1>3, <1>4, ClientsKeepJobs, CancellingKeepsJobs DEF Arrival
<1>5. CASE Submit
  <2>1. ~InsertRest
    BY <1>2 DEF InsertRest
  <2> QED
    BY <1>2, <1>3, <1>5, <2>1, ClientsKeepJobs, WritingKeepsJobs,
       PublishingKeepsJobs DEF Submit
<1>6. CASE Shutdown
  BY <1>3, <1>6, ClientsKeepJobs DEF Shutdown
<1>7. CASE \E w \in Workers : WorkerStep(w) \/ SpuriousWake(w)
  BY <1>0, <1>3, <1>7, WorkingKeepsJobs
<1>8. CASE UNCHANGED vars
  BY <1>3, <1>8 DEF vars, baseVars, listVars, heapVars, mainVars, workVars,
     clientVars, histVars, JobParts, IdsOld, OneJobEach, NewClients, New,
     HandedBehind, Slots, Written
<1> QED
  BY <1>4, <1>5, <1>6, <1>7, <1>8 DEF Next, Stopped

----------------------------------------------------------------------------
(* The blocks of a range. *)

\* Division rounds down.
LEMMA Division ==
    ASSUME NEW a \in Nat, NEW n \in Nat \ {0}
    PROVE  /\ a \div n \in Nat
           /\ (a \div n) * n <= a
           /\ a < (a \div n) * n + n
OBVIOUS

\* Consecutive multiples are apart.
LEMMA MultiplesApart ==
    ASSUME NEW a \in Nat, NEW b \in Nat, a < b, NEW n \in Nat
    PROVE  a * n + n <= b * n
OBVIOUS

\* block_count is rounded up: the blocks reach the end of the range, the last
\* of them starts before it, and when the end is not the first value of a
\* block they reach beyond it.
LEMMA BlocksReachEnd ==
    ASSUME NEW c \in Clients
    PROVE  LET d == Request[c].end - Request[c].start
               k == BlockCount(c)
           IN  /\ d \in Nat /\ k \in Nat
               /\ k * BLOCK_SIZE >= d
               /\ k # 0 => (k - 1) * BLOCK_SIZE < d
               /\ d % BLOCK_SIZE # 0 => k * BLOCK_SIZE > d
<1> DEFINE d == Request[c].end - Request[c].start
<1> DEFINE n == BLOCK_SIZE
<1> DEFINE k == BlockCount(c)
<1>1. d \in Nat /\ n \in Nat \ {0}
  BY RequestFields, SizeAssumption
<1>2. k = (d + n - 1) \div n
  BY DEF BlockCount
<1> HIDE DEF d, n, k
<1>3. k \in Nat /\ k * n <= d + n - 1 /\ d + n - 1 < k * n + n
  BY <1>1, <1>2, Division
<1>4. k * n >= d
  BY <1>1, <1>3
<1>5. (k - 1) * n = k * n - n
  BY <1>1, <1>3
<1>6. (k - 1) * n < d
  BY <1>1, <1>3, <1>5
<1>7. ASSUME k * n = d PROVE d % n = 0
  <2>1. k \in Nat /\ 0 \in 0 .. n - 1 /\ d = k * n + 0
    BY <1>1, <1>3, <1>7
  <2> QED
    BY <1>1, <2>1
<1>8. d % n # 0 => k * n > d
  BY <1>1, <1>3, <1>4, <1>7
<1> QED
  BY <1>1, <1>3, <1>4, <1>6, <1>8 DEF d, n, k

\* No range is a multiple of the block size.  The block after the last one of
\* such a range holds its last value but does not count as one of its blocks.
RangesUnaligned ==
    \A c \in Clients : (Request[c].end - Request[c].start) % BLOCK_SIZE # 0

\* Then the blocks of the range are the ones that block_count counts.
LEMMA RangeBlocksCounted ==
    ASSUME RangesUnaligned, NEW c \in Clients
    PROVE  RangeBlocks(c) \subseteq 0 .. BlockCount(c) - 1
<1> DEFINE d == Request[c].end - Request[c].start
<1> DEFINE k == BlockCount(c)
<1>1. d \in Nat /\ k \in Nat /\ k * BLOCK_SIZE > d
  BY BlocksReachEnd DEF RangesUnaligned
<1>2. ASSUME NEW b \in RangeBlocks(c) PROVE b \in 0 .. k /\ b * BLOCK_SIZE <= d
  <2>1. b \in 0 .. k /\ Request[c].start + b * BLOCK_SIZE <= Request[c].end
    BY <1>2 DEF RangeBlocks
  <2>2. b * BLOCK_SIZE \in Nat /\ k * BLOCK_SIZE \in Nat
    BY <1>1, <2>1, SizeAssumption
  <2> QED
    BY <2>1, <2>2, RequestFields
<1> HIDE DEF d
<1>3. \A b \in RangeBlocks(c) : b # k
  BY <1>1, <1>2, SizeAssumption
<1> QED
  BY <1>1, <1>2, <1>3

\* scheduler_priority_schedule hands no block of a range out twice: neither to
\* two workers nor, after the job has been copied, dropped, cancelled or marked
\* as done, to the same one.
THEOREM BlocksOnce ==
    ASSUME RangesUnaligned
    PROVE  Spec => BlocksHandedOnce
<1> DEFINE Inv == Typed /\ SlotInv /\ KnowInv /\ KeptInv /\ JobInv
<1>1. Init => Inv
  BY InitTyped, InitSlotInv, InitKnowInv, InitKeptInv, InitJobInv
<1>2. Inv /\ [Next]_vars => Inv'
  BY StepTyped, StepSlotInv, StepKnowInv, StepKeptInv, StepJobInv
<1> DEFINE Once(w) ==
        pc[w] = "pick" /\ pc'[w] = "claimed" /\ ~slotRaced =>
            LET c == jobs[task'[w].node.elem].request
                b == task'[w].block_idx
            IN  b \in RangeBlocks(c) => b \notin handed[c]
<1>3. ASSUME Inv, [Next]_vars, NEW w \in Workers
      PROVE  Once(w)
  <2> SUFFICES ASSUME pc[w] = "pick", pc'[w] = "claimed", ~slotRaced
               PROVE  LET c == jobs[task'[w].node.elem].request
                          b == task'[w].block_idx
                      IN  b \in RangeBlocks(c) => b \notin handed[c]
    OBVIOUS
  <2>1. \E n \in local_jobs[w] : FetchBlock(w, n)
    <3>1. ~(Arrival \/ Submit \/ Shutdown)
      BY <1>3, MainLeavesWorkers DEF WorkersStill
    <3>2. ~ UNCHANGED vars
      BY DEF vars, workVars
    <3>3. PICK v \in Workers : WorkerStep(v) \/ SpuriousWake(v)
      BY <1>3, <3>1, <3>2 DEF Next, Stopped
    <3>4. v = w
      BY <1>3, <3>3, OneWorkerMoves
    <3>5. pc \in [Workers -> Labels]
      BY <1>3 DEF Typed, TypeOK, WorkType
    <3> QED
      BY <3>3, <3>4, <3>5 DEF WorkerStep, SpuriousWake, Goto, Exit, NoRefresh,
         CopyHeap, SetMaxJobId, ClaimBlock, DropJob, EnterJob, LeaveJob,
         ReadRecipient, MarkDone, NotifyRecipient, CachePush, CachePushRaced,
         NothingLeft, StopWaiting, DecideToYield, Yield, Awake
  <2> PICK n \in local_jobs[w] : FetchBlock(w, n)
    BY <2>1
  <2>2. task'[w].node = n /\ task'[w].block_idx = jobs[n.elem].block_idx
    BY <1>3 DEF FetchBlock, Typed, TypeOK, WorkType, Tasks
  <2>3. n.elem \in Slots /\ Written(n.elem) /\ jobs[n.elem].request \in Clients
    BY <1>3 DEF Typed, NodesWritten, Written, Slots
  <2>4. jobs[n.elem].block_idx \in Nat
    BY <1>3, <2>3 DEF Typed, TypeOK, ListType, Jobs, Slots
  <2> DEFINE c == jobs[n.elem].request
  <2> DEFINE b == jobs[n.elem].block_idx
  <2>5. b \in RangeBlocks(c) => b < BlockCount(c)
    BY <2>3, <2>4, RangeBlocksCounted, BlockCountType
  <2>6. b \in handed[c] => b < b \/ b >= BlockCount(c)
    BY <1>3, <2>3 DEF JobInv, JobParts, HandedBehind, OneJobEach
  <2>7. BlockCount(c) \in Nat
    BY <2>3, BlockCountType
  <2> HIDE DEF b, c
  <2>8. b \in RangeBlocks(c) => b \notin handed[c]
    BY <2>4, <2>5, <2>6, <2>7 DEF b
  <2> QED
    BY <2>2, <2>8 DEF b, c
<1>4. Inv /\ [Next]_vars => [\A w \in Workers : Once(w)]_vars
  BY <1>3
<1> QED
  BY <1>1, <1>2, <1>4, PTL DEF Spec, BlocksHandedOnce

----------------------------------------------------------------------------
(* The hashes and the answers.                                              *)

Client(w) == jobs[task[w].node.elem].request

\* The hash a worker has cached is the one of the job whose id it remembers.
HashCached(w) ==
    \A i \in Slots : Written(i) /\ jobs[i].id = prev_job[w] =>
        target_hash[w] = Request[jobs[i].request].hash

\* What a worker searches, and the answer it carries, belong to the client of
\* the job it works on.
AnswerCarried(w) ==
    /\ pc[w] \in {"enter", "search", "mark", "notify"} =>
         target_hash[w] = Request[Client(w)].hash
    /\ pc[w] \in {"mark", "notify"} =>
         task[w].recipient = Client(w) /\ task[w].answer # NoAnswer
    /\ pc[w] \in {"mark", "notify", "cache"} => task[w].answer = target_hash[w]

EntriesRight ==
    ~ringRaced => \A entry \in tree \cup pending \cup racing : entry.key = entry.value

SentRight ==
    ~ringRaced => \A c \in Clients : sent[c] \in {NoAnswer, Request[c].hash}

HashParts ==
    /\ \A w \in Workers : HashCached(w) /\ AnswerCarried(w)
    /\ EntriesRight
    /\ SentRight

HashInv == ~slotRaced => HashParts

\* At the start nothing is cached, searched or sent.
LEMMA InitHashInv == Init => HashInv
<1> SUFFICES ASSUME Init PROVE HashParts
  BY DEF HashInv
<1>1. \A i \in Slots : jobs[i].id = 0
  BY DEF Init, Slots, ZeroJob
<1>2. \A w \in Workers : prev_job[w] = -1 /\ pc[w] = "loop"
  BY DEF Init, NoJobId
<1>3. \A w \in Workers : HashCached(w) /\ AnswerCarried(w)
  BY <1>1, <1>2 DEF HashCached, AnswerCarried
<1>4. EntriesRight /\ SentRight
  BY DEF EntriesRight, SentRight, Init, BaseInit
<1> QED
  BY <1>3, <1>4 DEF HashParts

\* The node of a worker's task is the node of a job, in a slot that main does
\* not write.
LEMMA WorkingOnJob ==
    ASSUME Typed, KeptInv, JobParts, NEW w \in Workers, Working(w)
    PROVE  /\ task[w].node \in local_jobs[w]
           /\ task[w].node.elem \in Slots
           /\ Written(task[w].node.elem)
           /\ Client(w) \in Clients
           /\ jobs[task[w].node.elem].id <= job_id
<1>1. task[w].node \in local_jobs[w]
  BY DEF KeptInv
<1> QED
  BY <1>1 DEF Typed, NodesWritten, Written, Slots, Client, JobParts, IdsOld

\* Writing a slot touches no job that a worker works on or remembers.
LEMMA WritingKeepsHashes ==
    ASSUME Typed, SlotInv, KeptInv, JobParts, HashParts, InsertGrow \/ InsertUnseen
    PROVE  HashParts'
<1> DEFINE s == slot'
<1>1. /\ WritesSlot(s) /\ cur \in Clients /\ job_id \in Nat
      /\ UNCHANGED <<ringRaced, sent, tree, pending, racing, pc>>
      /\ UNCHANGED <<local_jobs, prev_job, target_hash, task>>
  BY InsertWritesSlot
<1>2. EntriesRight' /\ SentRight'
  BY <1>1 DEF HashParts, EntriesRight, SentRight
<1>3. ASSUME NEW w \in Workers
      PROVE  HashCached(w)' /\ AnswerCarried(w)'
  <2>1. prev_job[w] \in Int /\ prev_job[w] <= job_id
    BY DEF Typed, TypeOK, WorkType, NoJobId, JobParts, IdsOld
  <2>2. ASSUME NEW i \in Slots', Written(i)', jobs'[i].id = prev_job[w]
        PROVE  target_hash[w] = Request[jobs'[i].request].hash
    <3>1. CASE i = s
      <4>1. jobs'[i].id = job_id + 1
        BY <1>1, <3>1 DEF WritesSlot, NewJob
      <4> QED
        BY <1>1, <2>1, <2>2, <4>1
    <3>2. CASE i # s
      <4>1. cap \in Nat /\ cap' \in Nat /\ cap' >= cap /\ i \in 0 .. cap' - 1
        BY <1>1 DEF WritesSlot, Slots
      <4>2. i \in Slots \/ i \in cap .. cap' - 1
        BY <4>1, GrownSlots DEF Slots
      <4>3. jobs'[i] # ZeroJob
        BY <2>2, RequestAssumption DEF Written, ZeroJob
      <4>4. i \in Slots /\ jobs'[i] = jobs[i]
        BY <1>1, <3>2, <4>2, <4>3 DEF WritesSlot
      <4>5. Written(i)
        BY <2>2, <4>4 DEF Written, Slots
      <4> QED
        BY <2>2, <4>4, <4>5 DEF HashParts, HashCached
    <3> QED
      BY <3>1, <3>2
  <2>3. HashCached(w)'
    BY <1>1, <2>2 DEF HashCached
  <2>4. Working(w) => Client(w)' = Client(w)
    <3> SUFFICES ASSUME Working(w) PROVE Client(w)' = Client(w)
      OBVIOUS
    <3>1. task[w].node \in local_jobs[w] /\ task[w].node.elem \in Slots
      BY WorkingOnJob
    <3> QED
      BY <1>1, <3>1 DEF WritesSlot, Client
  <2>5. AnswerCarried(w)'
    BY <1>1, <2>4 DEF HashParts, AnswerCarried, Working
  <2> QED
    BY <2>3, <2>5
<1> QED
  BY <1>2, <1>3 DEF HashParts

\* Nothing else that main does changes a client's hash, or adds to the cache.
LEMMA MainKeepsHashes ==
    ASSUME Typed, KeptInv, JobParts, HashParts, WorkersStill, cap' = cap,
           \A i \in Slots : JobKept(i)
    PROVE  \A w \in Workers : HashCached(w)' /\ AnswerCarried(w)'
<1> SUFFICES ASSUME NEW w \in Workers PROVE HashCached(w)' /\ AnswerCarried(w)'
  OBVIOUS
<1>1. HashCached(w)'
  BY DEF HashParts, HashCached, WorkersStill, JobKept, Slots, Written
<1>2. Working(w) => Client(w)' = Client(w)
  BY WorkingOnJob DEF JobKept, Client, WorkersStill
<1>3. AnswerCarried(w)'
  BY <1>2 DEF HashParts, AnswerCarried, Working, WorkersStill
<1> QED
  BY <1>1, <1>3

\* The requests, which are answered from the cache when they can.
LEMMA ClientsKeepAnswers ==
    ASSUME Typed, HashParts,
           \/ \E c \in Clients : SubmitMiss(c)
           \/ \E c \in Clients : \E entry \in tree \cup pending : SubmitHit(c, entry)
           \/ Close \/ CloseWake \/ JoinAndDestroy \/ Publish
           \/ \E n \in todo : CleanupKeep(n)
           \/ \E n \in todo : \E skipped \in SUBSET todo, again \in SUBSET jobs_w :
                CleanupRemove(n, skipped, again)
           \/ \E n \in jobs_r : Cancel(n)
    PROVE  EntriesRight' /\ SentRight'
<1>1. CASE \E c \in Clients : SubmitMiss(c)
  BY <1>1 DEF SubmitMiss, MissCache, ProcessPending, HashParts, EntriesRight, SentRight,
     histVars
<1>2. CASE \E c \in Clients : \E entry \in tree \cup pending : SubmitHit(c, entry)
  <2> PICK c \in Clients, entry \in tree \cup pending : SubmitHit(c, entry)
    BY <1>2
  <2>1. /\ sent' = [sent EXCEPT ![c] = entry.value] /\ entry.key = Request[c].hash
        /\ tree' = tree \cup pending /\ pending' = {} /\ racing' = racing
        /\ ringRaced' = ringRaced
    BY DEF SubmitHit, AnswerFromCache, ProcessPending, histVars
  <2>2. EntriesRight'
    BY <2>1 DEF HashParts, EntriesRight
  <2>3. ~ringRaced => entry.value = Request[c].hash
    BY <2>1 DEF HashParts, EntriesRight
  <2>4. sent \in [Clients -> Nat]
    BY DEF Typed, TypeOK, ClientType
  <2>5. SentRight'
    BY <2>1, <2>3, <2>4 DEF HashParts, SentRight
  <2> QED
    BY <2>2, <2>5
<1>3. CASE ~ \/ \E c \in Clients : SubmitMiss(c)
             \/ \E c \in Clients : \E entry \in tree \cup pending : SubmitHit(c, entry)
  <2>1. UNCHANGED <<tree, pending, racing, ringRaced, sent>>
    BY <1>3 DEF Close, CloseWake, JoinAndDestroy, Publish, CleanupKeep, CleanupRemove,
       Cancel, cacheVars, clientVars, histVars
  <2> QED
    BY <2>1 DEF HashParts, EntriesRight, SentRight
<1> QED
  BY <1>1, <1>2, <1>3

\* A worker caches the hash of the job it claims a block of, unless it has
\* cached the hash of that very job before.
LEMMA ClaimingCachesHash ==
    ASSUME Typed, KeptInv, JobParts, HashParts, NEW w \in Workers, ClaimBlock(w)
    PROVE  /\ HashCached(w)'
           /\ target_hash'[w] = Request[Client(w)].hash
<1> DEFINE e == task[w].node.elem
<1>1. /\ e \in Slots /\ Written(e)
  BY WorkingOnJob DEF ClaimBlock, Working
<1>2. /\ prev_job' = [prev_job EXCEPT ![w] = jobs[e].id]
      /\ target_hash' = IF prev_job[w] # jobs[e].id
                        THEN [target_hash EXCEPT ![w] = Request[jobs[e].request].hash]
                        ELSE target_hash
      /\ jobs' = jobs /\ cap' = cap
  BY DEF ClaimBlock, listVars
<1>3. prev_job \in [Workers -> Nat \cup {NoJobId}] /\ target_hash \in [Workers -> Nat]
  BY DEF Typed, TypeOK, WorkType
<1>4. target_hash'[w] = Request[jobs[e].request].hash
  BY <1>1, <1>2, <1>3 DEF HashParts, HashCached
<1>5. prev_job'[w] = jobs[e].id
  BY <1>2, <1>3
<1> HIDE DEF e
<1>6. HashCached(w)'
  BY <1>1, <1>2, <1>4, <1>5 DEF HashCached, Slots, Written, JobParts, OneJobEach
<1> QED
  BY <1>4, <1>6 DEF Client, e

\* The search returns the hash it looks for, or nothing.
LEMMA ReverseFinds ==
    ASSUME NEW a, NEW b, NEW h, Reverse(a, b, h) # NoAnswer
    PROVE  Reverse(a, b, h) = h /\ h \in Searched(a, b)
BY DEF Reverse

\* From the claim to the notification the answer stays the one of the client.
LEMMA WorkerCarriesAnswer ==
    ASSUME Typed, KeptInv, JobParts, HashParts,
           NEW w \in Workers, WorkerStep(w) \/ SpuriousWake(w)
    PROVE  AnswerCarried(w)'
<1> USE DEF Goto
<1>0. /\ pc \in [Workers -> Labels] /\ task \in [Workers -> Tasks]
      /\ target_hash \in [Workers -> Nat]
  BY DEF Typed, TypeOK, WorkType
<1>1. CASE Exit(w) \/ NoRefresh(w) \/ CopyHeap(w) \/ SetMaxJobId(w)
           \/ (\E n \in local_jobs[w] : FetchBlock(w, n)) \/ DropJob(w)
           \/ NothingLeft(w) \/ StopWaiting(w) \/ DecideToYield(w) \/ Yield(w)
           \/ Awake(w) \/ SpuriousWake(w)
  <2>1. pc'[w] \notin {"enter", "search", "mark", "notify", "cache"}
    BY <1>0, <1>1 DEF Exit, NoRefresh, CopyHeap, SetMaxJobId, FetchBlock, DropJob,
       NothingLeft, StopWaiting, DecideToYield, Yield, Awake, SpuriousWake
  <2> QED
    BY <2>1 DEF AnswerCarried
<1>2. CASE \/ LeaveJob(w) \/ CachePush(w)
           \/ \E lost \in SUBSET racing : \E k, e \in racing :
                CachePushRaced(w, lost, k, e)
  <2>1. pc'[w] = "loop"
    BY <1>0, <1>2 DEF LeaveJob, CachePush, CachePushRaced
  <2> QED
    BY <2>1 DEF AnswerCarried
<1>3. CASE ClaimBlock(w)
  <2>1. pc'[w] = "enter" /\ task'[w].node = task[w].node /\ jobs' = jobs
    BY <1>0, <1>3 DEF ClaimBlock, listVars, Tasks
  <2>2. Client(w)' = Client(w)
    BY <2>1 DEF Client
  <2> QED
    BY <1>3, <2>1, <2>2, ClaimingCachesHash DEF AnswerCarried
<1>4. ASSUME Working(w), task'[w].node = task[w].node
      PROVE  Client(w)' = Client(w)
  BY <1>4, WorkingOnJob, WorkersKeepJobs DEF Client, JobKept
<1>5. CASE EnterJob(w)
  <2>1. /\ pc[w] = "enter" /\ pc'[w] = "search" /\ task' = task
        /\ target_hash' = target_hash
    BY <1>0, <1>5 DEF EnterJob
  <2> QED
    BY <1>4, <2>1 DEF AnswerCarried, HashParts, Working
<1>6. CASE ReadRecipient(w)
  <2>1. /\ pc[w] = "search" /\ pc'[w] = "mark" /\ target_hash' = target_hash
        /\ task'[w].node = task[w].node /\ task'[w].answer = Found(w)
        /\ task'[w].recipient = jobs[task[w].node.elem].recipient
        /\ Found(w) # NoAnswer
    BY <1>0, <1>6 DEF ReadRecipient, Tasks
  <2>2. Found(w) = target_hash[w]
    BY <2>1, ReverseFinds DEF Found
  <2>3. jobs[task[w].node.elem].recipient = Client(w)
    BY <2>1, WorkingOnJob DEF Working, JobParts, OneJobEach, Client
  <2> QED
    BY <1>4, <2>1, <2>2, <2>3 DEF AnswerCarried, HashParts, Working
<1>7. CASE MarkDone(w)
  <2>1. /\ pc[w] = "mark" /\ pc'[w] = "notify" /\ task' = task
        /\ target_hash' = target_hash
    BY <1>0, <1>7 DEF MarkDone
  <2> QED
    BY <1>4, <2>1 DEF AnswerCarried, HashParts, Working
<1>8. CASE NotifyRecipient(w)
  <2>1. /\ pc[w] = "notify" /\ pc'[w] = "cache" /\ task' = task
        /\ target_hash' = target_hash
    BY <1>0, <1>8 DEF NotifyRecipient
  <2> QED
    BY <2>1 DEF AnswerCarried, HashParts
<1> QED
  BY <1>1, <1>2, <1>3, <1>5, <1>6, <1>7, <1>8 DEF WorkerStep

\* What a worker sends and pushes is right, as long as no two pushes overlap.
LEMMA WorkersAnswerRight ==
    ASSUME Typed, KeptInv, JobParts, HashParts,
           NEW w \in Workers, WorkerStep(w) \/ SpuriousWake(w)
    PROVE  EntriesRight' /\ SentRight'
<1>1. CASE NotifyRecipient(w)
  <2>1. /\ pc[w] = "notify" /\ Notify(task[w].recipient, task[w].answer)
        /\ racing' = racing \cup {Entry(w)}
        /\ UNCHANGED <<tree, pending, ringRaced>>
    BY <1>1 DEF NotifyRecipient
  <2>2. /\ task[w].recipient = Client(w) /\ task[w].answer = target_hash[w]
        /\ target_hash[w] = Request[Client(w)].hash
    BY <2>1 DEF HashParts, AnswerCarried
  <2>3. Entry(w).key = Entry(w).value
    BY <2>2 DEF Entry
  <2>4. EntriesRight'
    BY <2>1, <2>3 DEF HashParts, EntriesRight
  <2>5. \/ sent' = sent
        \/ sent' = [sent EXCEPT ![Client(w)] = Request[Client(w)].hash]
    BY <2>1, <2>2 DEF Notify
  <2>6. sent \in [Clients -> Nat]
    BY DEF Typed, TypeOK, ClientType
  <2>7. SentRight'
    BY <2>1, <2>5, <2>6 DEF HashParts, SentRight
  <2> QED
    BY <2>4, <2>7
<1>2. CASE CachePush(w)
  <2>1. /\ pc[w] = "cache" /\ pending' = pending \cup {Entry(w)}
        /\ racing' \in {{}, racing} /\ tree' = tree /\ sent' = sent
        /\ ringRaced' = ringRaced
    BY <1>2 DEF CachePush, Push, clientVars, histVars
  <2>2. Entry(w).key = Entry(w).value
    BY <2>1 DEF Entry, HashParts, AnswerCarried
  <2> QED
    BY <2>1, <2>2 DEF HashParts, EntriesRight, SentRight
<1>3. CASE \E lost \in SUBSET racing : \E k, e \in racing :
             CachePushRaced(w, lost, k, e)
  BY <1>3 DEF CachePushRaced, PushRaced, EntriesRight, SentRight
<1>4. CASE UNCHANGED <<tree, pending, racing, ringRaced, sent>>
  BY <1>4 DEF HashParts, EntriesRight, SentRight
<1> QED
  BY <1>1, <1>2, <1>3, <1>4 DEF WorkerStep, SpuriousWake, Exit, NoRefresh, CopyHeap,
     SetMaxJobId, FetchBlock, ClaimBlock, DropJob, EnterJob, LeaveJob, ReadRecipient,
     MarkDone, NothingLeft, StopWaiting, DecideToYield, Yield, Awake, cacheVars,
     clientVars, histVars

\* A worker's step keeps hashes and answers right.
LEMMA WorkingKeepsHashes ==
    ASSUME Typed, KeptInv, JobParts, HashParts,
           NEW w \in Workers, WorkerStep(w) \/ SpuriousWake(w)
    PROVE  HashParts'
<1>1. EntriesRight' /\ SentRight'
  BY WorkersAnswerRight
<1>2. /\ cap' = cap
      /\ \A i \in Slots : /\ jobs'[i].request = jobs[i].request
                          /\ jobs'[i].id = jobs[i].id
                          /\ Written(i)' <=> Written(i)
  BY WorkersLeaveSlots, WorkersKeepJobs DEF JobKept, Slots, Written
<1>3. ASSUME NEW v \in Workers
      PROVE  HashCached(v)' /\ AnswerCarried(v)'
  <2>1. CASE v = w
    <3>1. AnswerCarried(v)'
      BY <2>1, WorkerCarriesAnswer
    <3>2. CASE ClaimBlock(w)
      BY <2>1, <3>1, <3>2, ClaimingCachesHash
    <3>3. CASE ~ClaimBlock(w)
      <4>1. prev_job'[v] = prev_job[v] /\ target_hash'[v] = target_hash[v]
        BY <2>1, <3>3, OwnLocals
      <4>2. HashCached(v)'
        BY <1>2, <4>1 DEF HashParts, HashCached, Slots
      <4> QED
        BY <3>1, <4>2
    <3> QED
      BY <3>2, <3>3
  <2>2. CASE v # w
    <3>1. /\ pc'[v] = pc[v] /\ task'[v] = task[v]
          /\ prev_job'[v] = prev_job[v] /\ target_hash'[v] = target_hash[v]
      BY <2>2, OneWorkerMoves
    <3>2. HashCached(v)'
      BY <1>2, <3>1 DEF HashParts, HashCached, Slots
    <3>3. Working(v) => Client(v)' = Client(v)
      BY <1>2, <3>1, WorkingOnJob DEF Client
    <3>4. AnswerCarried(v)'
      BY <3>1, <3>3 DEF HashParts, AnswerCarried, Working
    <3> QED
      BY <3>2, <3>4
  <2> QED
    BY <2>1, <2>2
<1> QED
  BY <1>1, <1>3 DEF HashParts

\* The steps of main that write no slot keep hashes and answers right.
LEMMA OtherMainKeepsHashes ==
    ASSUME Typed, KeptInv, JobParts, HashParts,
           \/ Arrival \/ Shutdown \/ Publish
           \/ \E n \in todo : CleanupKeep(n)
           \/ \E n \in todo : \E skipped \in SUBSET todo, again \in SUBSET jobs_w :
                CleanupRemove(n, skipped, again)
    PROVE  HashParts'
<1>1. EntriesRight' /\ SentRight'
  BY ClientsKeepAnswers DEF Arrival, Shutdown
<1>2. WorkersStill
  BY MainLeavesWorkers DEF Submit
<1>3. cap' = cap /\ \A i \in Slots : JobKept(i)
  <2>1. CASE \E n \in jobs_r : Cancel(n)
    BY <2>1, CancelKeepsJobs DEF Cancel, JobKept
  <2>2. CASE ~ \E n \in jobs_r : Cancel(n)
    BY <2>2, MainKeepsJobs DEF Arrival, Shutdown, JobKept
  <2> QED
    BY <2>1, <2>2
<1>4. \A w \in Workers : HashCached(w)' /\ AnswerCarried(w)'
  BY <1>2, <1>3, MainKeepsHashes DEF JobKept
<1> QED
  BY <1>1, <1>4 DEF HashParts

\* Every action keeps hashes and answers right, unless it overwrites a slot
\* under a worker.
LEMMA StepHashInv ==
    Typed /\ SlotInv /\ KeptInv /\ JobInv /\ HashInv /\ [Next]_vars => HashInv'
<1> SUFFICES ASSUME Typed, SlotInv, KeptInv, JobInv, HashInv, [Next]_vars, ~slotRaced'
             PROVE  HashParts'
  BY DEF HashInv
<1>1. ~slotRaced /\ ~InsertRest /\ ~ \E late \in SUBSET Fields : InsertSeen(late)
  BY SlotRaceStays DEF KeptInv, InsertSeen, InsertRest
<1>2. JobParts /\ HashParts
  BY <1>1 DEF JobInv, HashInv
<1>3. CASE Arrival \/ Shutdown
  BY <1>2, <1>3, OtherMainKeepsHashes
<1>4. CASE Submit
  BY <1>1, <1>2, <1>4, OtherMainKeepsHashes, WritingKeepsHashes DEF Submit
<1>5. CASE \E w \in Workers : WorkerStep(w) \/ SpuriousWake(w)
  BY <1>2, <1>5, WorkingKeepsHashes
<1>6. CASE UNCHANGED vars
  BY <1>2, <1>6 DEF vars, listVars, workVars, cacheVars, clientVars, histVars,
     HashParts, HashCached, AnswerCarried, EntriesRight, SentRight, Client, Slots, Written
<1> QED
  BY <1>3, <1>4, <1>5, <1>6 DEF Next, Stopped

\* No client is ever sent anything but the preimage of its hash: not the answer
\* of another client, not the hash a worker cached for an earlier job, and not
\* a wrong entry of the answer cache.
THEOREM AnswersRight == Spec => []AnswersAreRight
<1> DEFINE Inv == Typed /\ SlotInv /\ KnowInv /\ KeptInv /\ JobInv /\ HashInv
<1>1. Init => Inv
  BY InitTyped, InitSlotInv, InitKnowInv, InitKeptInv, InitJobInv, InitHashInv
<1>2. Inv /\ [Next]_vars => Inv'
  BY StepTyped, StepSlotInv, StepKnowInv, StepKeptInv, StepJobInv, StepHashInv
<1>3. Inv => AnswersAreRight
  BY DEF HashInv, HashParts, SentRight, AnswersAreRight
<1> QED
  BY <1>1, <1>2, <1>3, PTL DEF Spec

----------------------------------------------------------------------------
(* Sleeping workers.                                                        *)

\* With the futex waker the word is set by the first wakeup and stays set.
FutexInv ==
    /\ waker_type = "FUTEX" /\ waker \in Nat
    /\ job_id > 0 \/ mpc \in {"join", "stopped"} => waker # 0

\* With the futex waker no worker sleeps through a job or through the shutdown.
\* (With the condition variable one may: the run priority_lost_wakeup.)
THEOREM NobodyStranded ==
    ASSUME WakerTypes = {"FUTEX"}
    PROVE  Spec => []NoWorkerStranded
<1> DEFINE Inv == Typed /\ FutexInv
<1>1. Init => Inv
  BY InitTyped DEF Init, BaseInit, FutexInv
<1>2. Typed /\ FutexInv /\ [Next]_vars => FutexInv'
  <2> SUFFICES ASSUME Typed, FutexInv, [Next]_vars PROVE FutexInv'
    OBVIOUS
  <2>1. job_id \in Nat
    BY DEF Typed, TypeOK, BaseType
  <2>2. CASE Publish \/ CloseWake
    BY <2>2 DEF Publish, CloseWake, WakeWorkers, FutexInv
  <2>3. CASE Arrival \/ JoinAndDestroy
    BY <2>3 DEF Arrival, JoinAndDestroy, SubmitMiss, SubmitHit, Cancel, Close, FutexInv,
       baseVars, mainVars
  <2>4. CASE Submit /\ ~Publish
    BY <2>4 DEF Submit, InsertGrow, InsertUnseen, InsertSeen, InsertRest, StartCleanup,
       CleanupKeep, CleanupRemove, FutexInv, baseVars, mainVars
  <2>5. CASE \E w \in Workers : WorkerStep(w) \/ SpuriousWake(w)
    <3> PICK w \in Workers : WorkerStep(w) \/ SpuriousWake(w)
      BY <2>5
    <3>1. mpc' = mpc /\ job_id' = job_id
      BY WorkersLeaveSlots
    <3>2. waker' = waker /\ waker_type' = waker_type
      BY DEF WorkerStep, SpuriousWake, Exit, NoRefresh, CopyHeap, SetMaxJobId,
         FetchBlock, ClaimBlock, DropJob, EnterJob, LeaveJob, ReadRecipient, MarkDone,
         NotifyRecipient, CachePush, CachePushRaced, NothingLeft, StopWaiting,
         DecideToYield, Yield, Awake, baseVars, FutexInv
    <3> QED
      BY <3>1, <3>2 DEF FutexInv
  <2>6. CASE UNCHANGED vars
    BY <2>6 DEF vars, baseVars, mainVars, FutexInv
  <2> QED
    BY <2>2, <2>3, <2>4, <2>5, <2>6 DEF Next, Shutdown, Stopped
<1>3. Inv /\ [Next]_vars => Inv'
  BY <1>2, StepTyped
<1>4. Inv => NoWorkerStranded
  <2> SUFFICES ASSUME Inv, NEW w \in Workers, Stranded(w) PROVE FALSE
    BY DEF NoWorkerStranded
  <2>1. prev_max[w] \in Nat /\ job_id \in Nat
    BY DEF Typed, TypeOK, WorkType, BaseType
  <2>2. job_id > 0 \/ mpc = "join"
    BY <2>1 DEF Stranded
  <2> QED
    BY <2>2 DEF FutexInv, Stranded, SeesWake, SeesWakeFrom
<1> QED
  BY <1>1, <1>3, <1>4, PTL DEF Spec

----------------------------------------------------------------------------
(* The recipients and the reference counts: a client is answered once, the *)
(* count of a job is the number of its users, and the cleanup deletes only *)
(* jobs without blocks to hand out.                                        *)
(*                                                                         *)
(* The invariant says who carries which block: the blocks that two workers *)
(* hold are different, and the block with the answer of a client that has  *)
(* been answered is in nobody's hands.  The hypotheses are about the       *)
(* requests and the sizes: whole groups of lanes fit into a block, the     *)
(* block after the last one does not hold the answer (AnswersCounted), and *)
(* the reference count can count all the workers.                          *)

(* The search of a block. *)

FirstOf(c, b) == Request[c].start + b * BLOCK_SIZE

LastOf(c, b) ==
    LET last == FirstOf(c, b) + BLOCK_SIZE - 1
    IN  IF Request[c].end < last THEN Request[c].end ELSE last

SearchedIn(c, b) == Searched(FirstOf(c, b), LastOf(c, b))

\* A block of whole groups of lanes.
LanesFit == BLOCK_SIZE % LANES = 0

\* The block after the last one, which can be claimed as well, does not hold
\* the answer.
AnswersCounted ==
    \A c \in Clients : Request[c].hash \notin SearchedIn(c, BlockCount(c))

\* One of the blocks that block_count counts holds the answer.
HoldsAnswer(c, b) ==
    b \in 0 .. BlockCount(c) - 1 /\ Request[c].hash \in SearchedIn(c, b)

\* AnswersCounted follows when no range ends with a whole block and no hash is
\* that of a value behind its range.
LEMMA UnalignedAnswersCounted ==
    ASSUME RangesUnaligned, \A c \in Clients : Request[c].hash <= Request[c].end
    PROVE  AnswersCounted
<1> SUFFICES ASSUME NEW c \in Clients
             PROVE  Request[c].hash \notin SearchedIn(c, BlockCount(c))
  BY DEF AnswersCounted
<1> DEFINE k == BlockCount(c)
<1> DEFINE f == FirstOf(c, k)
<1>1. /\ Request[c].start \in Nat /\ Request[c].end \in Nat /\ k \in Nat
      /\ k * BLOCK_SIZE > Request[c].end - Request[c].start
  BY RequestFields, BlocksReachEnd DEF RangesUnaligned
<1>2. f \in Nat /\ f > Request[c].end
  <2>1. k * BLOCK_SIZE \in Nat
    BY <1>1, SizeAssumption
  <2> QED
    BY <1>1, <2>1 DEF FirstOf
<1> HIDE DEF f
<1>3. \A x \in SearchedIn(c, k) : f <= x
  BY <1>2 DEF SearchedIn, Searched, f
<1>4. Request[c].hash \in Nat /\ Request[c].hash <= Request[c].end
  BY RequestFields
<1> QED
  BY <1>1, <1>2, <1>3, <1>4

\* As many whole groups as a block of n values needs have at most n lanes.
LEMMA GroupsFit ==
    ASSUME NEW n \in Nat \ {0}, NEW l \in Nat \ {0}, n % l = 0,
           NEW e \in 0 .. n - 1
    PROVE  (e \div l + 1) * l <= n
<1> DEFINE m == n \div l
<1> DEFINE k == e \div l
<1>1. m \in Nat /\ k \in Nat /\ k * l <= e
  BY Division
<1>2. n = m * l
  <2>1. m * l <= n /\ n < m * l + l
    BY Division
  <2> DEFINE r == n - m * l
  <2>2. r \in 0 .. l - 1 /\ n = l * m + r
    BY <1>1, <2>1
  <2> HIDE DEF m, r
  <2>3. n % l = r
    BY <1>1, <2>2
  <2> QED
    BY <1>1, <2>2, <2>3
<1> HIDE DEF m, k
<1>3. k < m
  <2> SUFFICES ASSUME m <= k PROVE FALSE
    BY <1>1
  <2>1. m * l <= k * l
    BY <1>1
  <2> QED
    BY <1>1, <1>2, <2>1
<1>4. (k + 1) * l <= m * l
  BY <1>1, <1>3
<1> QED
  BY <1>2, <1>4 DEF k

\* The search of a counted block stays inside the block.
LEMMA SearchInBlock ==
    ASSUME LanesFit, NEW c \in Clients, NEW b \in 0 .. BlockCount(c) - 1
    PROVE  SearchedIn(c, b) \subseteq FirstOf(c, b) .. FirstOf(c, b) + BLOCK_SIZE - 1
<1> DEFINE n == BLOCK_SIZE
<1> DEFINE f == FirstOf(c, b)
<1> DEFINE l == LastOf(c, b)
<1> DEFINE k == BlockCount(c)
<1> DEFINE d == Request[c].end - Request[c].start
<1>1. n \in Nat \ {0} /\ LANES \in Nat \ {0} /\ n % LANES = 0
  BY SizeAssumption, LanesAssumption DEF LanesFit
<1>2. /\ Request[c].start \in Nat /\ Request[c].end \in Nat /\ d \in Nat
      /\ k \in Nat /\ (k # 0 => (k - 1) * n < d) /\ b \in 0 .. k - 1
  BY RequestFields, BlocksReachEnd
<1>3. b * n <= (k - 1) * n
  <2>1. b \in Nat /\ k - 1 \in Nat /\ b <= k - 1
    BY <1>2
  <2> HIDE DEF n, k
  <2>2. b = k - 1 \/ b < k - 1
    BY <2>1
  <2>3. b < k - 1 => b * n + n <= (k - 1) * n
    BY <1>1, <2>1, MultiplesApart
  <2>4. b * n \in Nat /\ (k - 1) * n \in Nat
    BY <1>1, <2>1
  <2> QED
    BY <1>1, <2>1, <2>2, <2>3, <2>4
<1>4. b * n \in Nat /\ b * n < d
  <2>1. b * n \in Nat /\ (k - 1) * n \in Nat
    BY <1>1, <1>2
  <2> QED
    BY <1>2, <1>3, <2>1
<1>5. f \in Nat /\ f < Request[c].end
  BY <1>2, <1>4 DEF FirstOf
<1>6. l \in Nat /\ f <= l /\ l - f \in 0 .. n - 1
  BY <1>1, <1>2, <1>5 DEF LastOf
<1> HIDE DEF f, l, n, k, d
<1>7. ((l - f) \div LANES + 1) * LANES <= n
  BY <1>1, <1>6, GroupsFit
<1>8. (l - f) \div LANES \in Nat
  BY <1>1, <1>6
<1>9. Searched(f, l) = f .. f + ((l - f) \div LANES + 1) * LANES - 1
  BY <1>5, <1>6 DEF Searched
<1>10. ((l - f) \div LANES + 1) * LANES \in Nat
  BY <1>1, <1>8
<1>11. Searched(f, l) \subseteq f .. f + n - 1
  BY <1>1, <1>5, <1>7, <1>9, <1>10
<1> QED
  BY <1>11 DEF f, l, n, SearchedIn

\* So only one of the counted blocks can hold the answer.
LEMMA AnswerInOneBlock ==
    ASSUME LanesFit, NEW c \in Clients, NEW a, NEW b,
           HoldsAnswer(c, a), HoldsAnswer(c, b)
    PROVE  a = b
<1>1. /\ a \in 0 .. BlockCount(c) - 1 /\ b \in 0 .. BlockCount(c) - 1
      /\ a \in Nat /\ b \in Nat
  BY BlockCountType DEF HoldsAnswer
<1>2. /\ Request[c].hash \in FirstOf(c, a) .. FirstOf(c, a) + BLOCK_SIZE - 1
      /\ Request[c].hash \in FirstOf(c, b) .. FirstOf(c, b) + BLOCK_SIZE - 1
  BY <1>1, SearchInBlock DEF HoldsAnswer
<1>3. ASSUME NEW x \in Nat, NEW y \in Nat, x < y,
             Request[c].hash \in FirstOf(c, x) .. FirstOf(c, x) + BLOCK_SIZE - 1,
             Request[c].hash \in FirstOf(c, y) .. FirstOf(c, y) + BLOCK_SIZE - 1
      PROVE  FALSE
  <2>1. x * BLOCK_SIZE + BLOCK_SIZE <= y * BLOCK_SIZE
    BY <1>3, SizeAssumption, MultiplesApart
  <2>2. x * BLOCK_SIZE \in Nat /\ y * BLOCK_SIZE \in Nat
    BY SizeAssumption
  <2> QED
    BY <1>3, <2>1, <2>2, RequestFields, SizeAssumption DEF FirstOf
<1> QED
  BY <1>1, <1>2, <1>3

----------------------------------------------------------------------------
(* Who carries which block. *)

\* A worker that works has been handed its block, and searches it.
BlockCarried(w) ==
    /\ Working(w) => task[w].block_idx \in handed[Client(w)]
    /\ pc[w] \in {"enter", "search"} =>
         /\ task[w].block_idx <= BlockCount(Client(w))
         /\ task[w].start = FirstOf(Client(w), task[w].block_idx)
         /\ task[w].end = LastOf(Client(w), task[w].block_idx)
    /\ pc[w] \in {"mark", "notify"} => HoldsAnswer(Client(w), task[w].block_idx)

\* Two workers carry different blocks of a job, except for the one after the
\* last, which may be handed out again.
CarriedOnce ==
    \A v, w \in Workers :
        /\ Working(v) /\ Working(w)
        /\ task[v].node.elem = task[w].node.elem
        /\ task[v].block_idx = task[w].block_idx
        /\ task[v].block_idx < BlockCount(Client(v))
        => v = w

\* Nobody carries block b of the job in slot i.
NotCarried(i, b) ==
    \A w \in Workers : Working(w) /\ task[w].node.elem = i => task[w].block_idx # b

\* The client of a job waits, or it has been answered and the block with the
\* answer has been handed out and is in nobody's hands any more.
Served(i) ==
    LET c == jobs[i].request
    IN  \/ recipient[c] = "live" /\ sent[c] = NoAnswer
        \/ /\ recipient[c] = "freed" /\ sent[c] # NoAnswer
           /\ \E b \in handed[c] : HoldsAnswer(c, b) /\ NotCarried(i, b)

FreshRecipients ==
    /\ \A c \in Clients : recipient[c] = "none" => sent[c] = NoAnswer
    /\ mpc = "insert" => recipient[cur] = "live" /\ sent[cur] = NoAnswer

CarryParts ==
    /\ \A w \in Workers : BlockCarried(w)
    /\ CarriedOnce
    /\ \A i \in Slots : Written(i) => Served(i)
    /\ FreshRecipients
    /\ ~usedFreed

CarryInv == ~slotRaced => CarryParts

\* At the start nothing is carried and nobody is answered.
LEMMA InitCarryInv == Init => CarryInv
<1> SUFFICES ASSUME Init PROVE CarryParts
  BY DEF CarryInv
<1>1. \A w \in Workers : pc[w] = "loop"
  BY DEF Init
<1>2. \A i \in Slots : ~Written(i)
  BY RequestAssumption DEF Init, Slots, ZeroJob, Written
<1>3. FreshRecipients /\ ~usedFreed
  BY DEF Init, BaseInit, FreshRecipients
<1>4. (\A w \in Workers : BlockCarried(w)) /\ CarriedOnce
  BY <1>1 DEF BlockCarried, CarriedOnce, Working
<1> QED
  BY <1>2, <1>3, <1>4 DEF CarryParts

\* A step that leaves the tasks alone, and the jobs they belong to, leaves the
\* carried blocks alone.
LEMMA MainLeavesBlocks ==
    ASSUME (\A w \in Workers : BlockCarried(w)) /\ CarriedOnce,
           WorkersStill, handed' = handed,
           \A w \in Workers : Working(w) => Client(w)' = Client(w)
    PROVE  /\ (\A w \in Workers : BlockCarried(w)') /\ CarriedOnce'
           /\ \A i, b : NotCarried(i, b) => NotCarried(i, b)'
<1>1. \A w \in Workers : /\ Working(w)' => Working(w)
                         /\ pc'[w] \in {"enter", "search", "mark", "notify"} =>
                              pc'[w] = pc[w]
                         /\ task'[w] = task[w]
  BY DEF WorkersStill, Working
<1>2. ASSUME NEW w \in Workers PROVE BlockCarried(w)'
  BY <1>1 DEF BlockCarried, Working
<1>3. CarriedOnce'
  BY <1>1 DEF CarriedOnce
<1>4. \A i, b : NotCarried(i, b) => NotCarried(i, b)'
  BY <1>1 DEF NotCarried
<1> QED
  BY <1>2, <1>3, <1>4

\* A new job is written to a slot without workers, for a client that waits.
LEMMA WritingKeepsCarried ==
    ASSUME Typed, SlotInv, KeptInv, JobParts, CarryParts, InsertGrow \/ InsertUnseen
    PROVE  CarryParts'
<1> DEFINE s == slot'
<1>1. /\ WritesSlot(s) /\ cur \in Clients
      /\ UNCHANGED <<handed, recipient, sent, pc, usedFreed>>
      /\ UNCHANGED <<local_jobs, prev_max, prev_job, target_hash, task>>
  BY InsertWritesSlot
<1>2. WorkersStill
  BY <1>1 DEF WorkersStill
<1>3. ASSUME NEW w \in Workers, Working(w)
      PROVE  task[w].node.elem # s /\ Client(w)' = Client(w)
  <2>1. task[w].node \in local_jobs[w] /\ task[w].node.elem \in Slots
    BY <1>3, WorkingOnJob
  <2> QED
    BY <1>1, <2>1 DEF WritesSlot, Client
<1>4. /\ (\A w \in Workers : BlockCarried(w)') /\ CarriedOnce'
      /\ \A i, b : NotCarried(i, b) => NotCarried(i, b)'
  BY <1>1, <1>2, <1>3, MainLeavesBlocks DEF CarryParts
<1>5. FreshRecipients'
  BY <1>1 DEF CarryParts, FreshRecipients, WritesSlot
<1>6. ASSUME NEW i \in Slots', Written(i)' PROVE Served(i)'
  <2>1. CASE i = s
    <3>1. jobs'[i].request = cur
      BY <1>1, <2>1 DEF WritesSlot, NewJob
    <3> QED
      BY <1>1, <3>1 DEF Served, CarryParts, FreshRecipients, WritesSlot
  <2>2. CASE i # s
    <3>1. cap \in Nat /\ cap' \in Nat /\ cap' >= cap /\ i \in 0 .. cap' - 1
      BY <1>1 DEF WritesSlot, Slots
    <3>2. i \in Slots \/ i \in cap .. cap' - 1
      BY <3>1, GrownSlots DEF Slots
    <3>3. jobs'[i] # ZeroJob
      BY <1>6, RequestAssumption DEF Written, ZeroJob
    <3>4. i \in Slots /\ jobs'[i] = jobs[i]
      BY <1>1, <2>2, <3>2, <3>3 DEF WritesSlot
    <3>5. Served(i)
      BY <1>6, <3>4 DEF Written, Slots, CarryParts
    <3> QED
      BY <1>1, <1>4, <3>4, <3>5 DEF Served
  <2> QED
    BY <2>1, <2>2
<1> QED
  BY <1>1, <1>4, <1>5, <1>6 DEF CarryParts

\* The other steps of main leave the slots to their clients ...
LEMMA MainLeavesRequests ==
    ASSUME Typed,
           \/ Arrival \/ Shutdown \/ Publish
           \/ \E n \in todo : CleanupKeep(n)
           \/ \E n \in todo : \E skipped \in SUBSET todo, again \in SUBSET jobs_w :
                CleanupRemove(n, skipped, again)
    PROVE  /\ cap' = cap
           /\ \A i \in Slots : jobs'[i].request = jobs[i].request
           /\ \A i : Written(i)' <=> Written(i)
<1>1. CASE \E n \in jobs_r : Cancel(n)
  <2>1. cap' = cap /\ \A i \in Slots : jobs'[i].request = jobs[i].request
    BY <1>1, CancelKeepsJobs DEF Cancel, JobKept
  <2> QED
    BY <2>1 DEF Slots, Written
<1>2. CASE ~ \E n \in jobs_r : Cancel(n)
  BY <1>2, MainKeepsJobs DEF Arrival, Shutdown, Written
<1> QED
  BY <1>1, <1>2

\* ... and answer or enter only clients without a job.
LEMMA MainServesNew ==
    ASSUME Typed, CarryParts,
           \/ Arrival \/ Shutdown \/ Publish
           \/ \E n \in todo : CleanupKeep(n)
           \/ \E n \in todo : \E skipped \in SUBSET todo, again \in SUBSET jobs_w :
                CleanupRemove(n, skipped, again)
    PROVE  /\ \A c \in Clients : ~New(c) => recipient'[c] = recipient[c] /\ sent'[c] = sent[c]
           /\ FreshRecipients'
           /\ usedFreed' = usedFreed
<1>1. recipient \in [Clients -> {"none", "live", "freed"}] /\ sent \in [Clients -> Nat]
  BY DEF Typed, TypeOK, ClientType
<1>2. CASE \E c \in Clients : SubmitMiss(c)
  <2> PICK c \in Clients : SubmitMiss(c)
    BY <1>2
  <2>1. /\ recipient[c] = "none" /\ recipient' = [recipient EXCEPT ![c] = "live"]
        /\ sent' = sent /\ cur' = c /\ usedFreed' = usedFreed
    BY DEF SubmitMiss, MissCache, histVars
  <2> QED
    BY <1>1, <2>1 DEF New, FreshRecipients, CarryParts
<1>3. CASE \E c \in Clients : \E entry \in tree \cup pending : SubmitHit(c, entry)
  <2> PICK c \in Clients, entry \in tree \cup pending : SubmitHit(c, entry)
    BY <1>3
  <2>1. /\ recipient[c] = "none" /\ recipient' = [recipient EXCEPT ![c] = "freed"]
        /\ sent' = [sent EXCEPT ![c] = entry.value] /\ mpc' = "idle"
        /\ usedFreed' = usedFreed
    BY DEF SubmitHit, AnswerFromCache, mainVars, histVars
  <2> QED
    BY <1>1, <2>1 DEF New, FreshRecipients, CarryParts
<1>4. CASE ~ \/ \E c \in Clients : SubmitMiss(c)
             \/ \E c \in Clients : \E entry \in tree \cup pending : SubmitHit(c, entry)
  <2>1. /\ recipient' = recipient /\ sent' = sent /\ mpc' # "insert"
        /\ usedFreed' = usedFreed
    BY <1>4 DEF Arrival, Shutdown, Cancel, Close, CloseWake, JoinAndDestroy, CleanupKeep,
       CleanupRemove, Publish, clientVars, mainVars, histVars
  <2> QED
    BY <2>1 DEF FreshRecipients, CarryParts
<1> QED
  BY <1>2, <1>3, <1>4

\* Hence they keep the blocks in the right hands.
LEMMA MainKeepsCarried ==
    ASSUME Typed, KeptInv, JobParts, CarryParts,
           \/ Arrival \/ Shutdown \/ Publish
           \/ \E n \in todo : CleanupKeep(n)
           \/ \E n \in todo : \E skipped \in SUBSET todo, again \in SUBSET jobs_w :
                CleanupRemove(n, skipped, again)
    PROVE  CarryParts'
<1>1. WorkersStill /\ handed' = handed
  BY MainLeavesWorkers DEF Submit
<1>2. /\ cap' = cap /\ \A i \in Slots : jobs'[i].request = jobs[i].request
      /\ \A i : Written(i)' <=> Written(i)
  BY MainLeavesRequests
<1>3. \A w \in Workers : Working(w) => Client(w)' = Client(w)
  BY <1>1, <1>2, WorkingOnJob DEF Client, WorkersStill
<1>4. /\ (\A w \in Workers : BlockCarried(w)') /\ CarriedOnce'
      /\ \A i, b : NotCarried(i, b) => NotCarried(i, b)'
  BY <1>1, <1>3, MainLeavesBlocks DEF CarryParts
<1>5. /\ \A c \in Clients : ~New(c) => recipient'[c] = recipient[c] /\ sent'[c] = sent[c]
      /\ FreshRecipients' /\ usedFreed' = usedFreed
  BY MainServesNew
<1>6. ASSUME NEW i \in Slots, Written(i) PROVE Served(i)'
  <2>1. jobs[i].request \in Clients /\ ~New(jobs[i].request)
    BY <1>6 DEF JobParts, NewClients, Written
  <2>2. Served(i)
    BY <1>6 DEF CarryParts
  <2> QED
    BY <1>1, <1>2, <1>4, <1>5, <2>1, <2>2 DEF Served
<1> QED
  BY <1>2, <1>4, <1>5, <1>6 DEF CarryParts, Slots, Written

\* A worker that works after its step has claimed a new block or goes on with
\* the one it had.
LEMMA OwnBlock ==
    ASSUME Typed, NEW w \in Workers, WorkerStep(w) \/ SpuriousWake(w)
    PROVE  \/ \E n \in local_jobs[w] : FetchBlock(w, n)
           \/ /\ Working(w) /\ Working(w)' /\ task'[w].node = task[w].node
              /\ task'[w].block_idx = task[w].block_idx
           \/ ~Working(w)'
<1> USE DEF Typed, TypeOK, WorkType, Goto, Working
<1>1. CASE Exit(w) \/ NoRefresh(w) \/ CopyHeap(w) \/ SetMaxJobId(w) \/ DropJob(w)
  BY <1>1 DEF Exit, NoRefresh, CopyHeap, SetMaxJobId, DropJob
<1>2. CASE ClaimBlock(w)
  BY <1>2 DEF ClaimBlock, Tasks
<1>3. CASE EnterJob(w) \/ LeaveJob(w) \/ MarkDone(w)
  BY <1>3 DEF EnterJob, LeaveJob, MarkDone
<1>4. CASE ReadRecipient(w)
  BY <1>4 DEF ReadRecipient, Tasks
<1>5. CASE \/ NotifyRecipient(w) \/ CachePush(w)
           \/ \E lost \in SUBSET racing : \E k, e \in racing :
                CachePushRaced(w, lost, k, e)
  BY <1>5 DEF NotifyRecipient, CachePush, CachePushRaced
<1>6. CASE NothingLeft(w) \/ StopWaiting(w) \/ DecideToYield(w) \/ Yield(w)
           \/ Awake(w) \/ SpuriousWake(w)
  BY <1>6 DEF NothingLeft, StopWaiting, DecideToYield, Yield, Awake, SpuriousWake
<1> QED
  BY <1>1, <1>2, <1>3, <1>4, <1>5, <1>6 DEF WorkerStep

\* What the claim of a block of job n hands out.
LEMMA Fetched ==
    ASSUME Typed, NEW w \in Workers, NEW n \in local_jobs[w], FetchBlock(w, n)
    PROVE  /\ n.elem \in Slots /\ Written(n.elem)
           /\ jobs[n.elem].request \in Clients
           /\ jobs[n.elem].block_idx \in Nat /\ jobs[n.elem].block_count \in Nat
           /\ pc[w] = "pick" /\ pc'[w] = "claimed"
           /\ task'[w].node = n /\ task'[w].block_idx = jobs[n.elem].block_idx
           /\ handed' = [handed EXCEPT ![jobs[n.elem].request] =
                            @ \cup {jobs[n.elem].block_idx}]
<1>1. /\ pc \in [Workers -> Labels] /\ task \in [Workers -> Tasks]
      /\ jobs \in [Slots -> Jobs]
  BY DEF Typed, TypeOK, WorkType, ListType, Slots
<1>2. n.elem \in Slots /\ Written(n.elem) /\ jobs[n.elem].request \in Clients
  BY DEF Typed, NodesWritten, Written, Slots
<1>3. task'[w].node = n /\ task'[w].block_idx = jobs[n.elem].block_idx
  BY <1>1 DEF FetchBlock, Tasks
<1>4. pc[w] = "pick" /\ pc'[w] = "claimed"
  BY <1>1 DEF FetchBlock, Goto
<1>5. jobs[n.elem].block_idx \in Nat /\ jobs[n.elem].block_count \in Nat
  BY <1>1, <1>2 DEF Jobs
<1> QED
  BY <1>2, <1>3, <1>4, <1>5 DEF FetchBlock

\* What has been handed out stays handed out.
LEMMA HandedGrows ==
    ASSUME Typed, NEW w \in Workers, WorkerStep(w) \/ SpuriousWake(w)
    PROVE  \A c \in Clients : handed[c] \subseteq handed'[c]
<1>1. handed \in [Clients -> SUBSET Nat]
  BY DEF Typed, TypeOK, ClientType
<1>2. CASE \E n \in local_jobs[w] : FetchBlock(w, n)
  <2> PICK n \in local_jobs[w] : FetchBlock(w, n)
    BY <1>2
  <2> QED
    BY <1>1, Fetched
<1> QED
  BY <1>2, WorkersHandOut

\* The client of a worker's task and of a slot stay the same.
LEMMA ClientsStay ==
    ASSUME Typed, KeptInv, JobParts, NEW w \in Workers, WorkerStep(w) \/ SpuriousWake(w)
    PROVE  /\ cap' = cap
           /\ \A i \in Slots : /\ jobs'[i].request = jobs[i].request
                               /\ jobs'[i].block_count = jobs[i].block_count
                               /\ Written(i)' <=> Written(i)
           /\ \A v \in Workers : Working(v) /\ task'[v].node = task[v].node =>
                Client(v)' = Client(v)
<1>1. /\ cap' = cap
      /\ \A i \in Slots : /\ jobs'[i].request = jobs[i].request
                          /\ jobs'[i].block_count = jobs[i].block_count
  BY WorkersLeaveSlots, WorkersKeepJobs DEF JobKept
<1>2. \A v \in Workers : Working(v) /\ task'[v].node = task[v].node =>
        Client(v)' = Client(v)
  BY <1>1, WorkingOnJob DEF Client
<1> QED
  BY <1>1, <1>2 DEF Written, Slots

\* The block a worker claims is in nobody's hands, when it is one of those that
\* block_count counts.
LEMMA FetchedBlockFree ==
    ASSUME Typed, KeptInv, JobParts, CarryParts,
           NEW w \in Workers, NEW n \in local_jobs[w], FetchBlock(w, n),
           NEW b \in handed[jobs[n.elem].request],
           b < BlockCount(jobs[n.elem].request)
    PROVE  jobs[n.elem].block_idx # b
<1>1. n.elem \in Slots /\ Written(n.elem) /\ jobs[n.elem].block_idx \in Nat
  BY Fetched
<1>2. jobs[n.elem].block_count = BlockCount(jobs[n.elem].request)
  BY <1>1 DEF JobParts, OneJobEach
<1>3. b < jobs[n.elem].block_idx \/ b >= jobs[n.elem].block_count
  BY <1>1 DEF JobParts, HandedBehind
<1>4. b \in Nat /\ BlockCount(jobs[n.elem].request) \in Nat
  BY Fetched, BlockCountType DEF Typed, TypeOK, ClientType
<1> QED
  BY <1>1, <1>2, <1>3, <1>4

\* What the worker itself carries after its step.
LEMMA OwnBlockCarried ==
    ASSUME Typed, KeptInv, JobParts, HashParts, CarryParts, AnswersCounted,
           NEW w \in Workers, WorkerStep(w) \/ SpuriousWake(w)
    PROVE  BlockCarried(w)'
<1> USE DEF Goto
<1>0. /\ pc \in [Workers -> Labels] /\ task \in [Workers -> Tasks]
      /\ handed \in [Clients -> SUBSET Nat]
  BY DEF Typed, TypeOK, WorkType, ClientType
<1>1. CASE Exit(w) \/ NoRefresh(w) \/ CopyHeap(w) \/ SetMaxJobId(w) \/ DropJob(w)
           \/ LeaveJob(w) \/ NotifyRecipient(w) \/ CachePush(w)
           \/ (\E lost \in SUBSET racing : \E k, e \in racing :
                 CachePushRaced(w, lost, k, e))
           \/ NothingLeft(w) \/ StopWaiting(w) \/ DecideToYield(w) \/ Yield(w)
           \/ Awake(w) \/ SpuriousWake(w)
  <2>1. ~Working(w)'
    BY <1>0, <1>1 DEF Exit, NoRefresh, CopyHeap, SetMaxJobId, DropJob, LeaveJob,
       NotifyRecipient, CachePush, CachePushRaced, NothingLeft, StopWaiting,
       DecideToYield, Yield, Awake, SpuriousWake, Working
  <2> QED
    BY <2>1 DEF BlockCarried, Working
<1>2. CASE \E n \in local_jobs[w] : FetchBlock(w, n)
  <2> PICK n \in local_jobs[w] : FetchBlock(w, n)
    BY <1>2
  <2>1. /\ pc'[w] = "claimed" /\ task'[w].node = n
        /\ task'[w].block_idx = jobs[n.elem].block_idx
        /\ n.elem \in Slots /\ jobs[n.elem].request \in Clients
        /\ handed' = [handed EXCEPT ![jobs[n.elem].request] =
                         @ \cup {jobs[n.elem].block_idx}]
    BY Fetched
  <2>2. Client(w)' = jobs[n.elem].request
    BY <2>1, ClientsStay DEF Client
  <2>3. task'[w].block_idx \in handed'[jobs[n.elem].request]
    BY <1>0, <2>1
  <2> QED
    BY <2>1, <2>2, <2>3 DEF BlockCarried
<1>3. Working(w) => Client(w) \in Clients
  BY WorkingOnJob
<1>4. CASE ClaimBlock(w)
  <2> DEFINE j == jobs[task[w].node.elem]
  <2> DEFINE b == task[w].block_idx
  <2>1. /\ pc[w] = "claimed" /\ pc'[w] = "enter" /\ b <= j.block_count
        /\ jobs' = jobs /\ handed' = handed
        /\ task' = [task EXCEPT ![w].start = FirstOf(Client(w), b),
                                ![w].end = LastOf(Client(w), b)]
    BY <1>0, <1>4 DEF ClaimBlock, listVars, histVars, FirstOf, LastOf, Client
  <2>2. /\ task'[w].node = task[w].node /\ task'[w].block_idx = b
        /\ task'[w].start = FirstOf(Client(w), b)
        /\ task'[w].end = LastOf(Client(w), b)
    BY <1>0, <2>1 DEF Tasks
  <2>3. Client(w)' = Client(w)
    BY <2>1, <2>2 DEF Client
  <2>4. j.block_count = BlockCount(Client(w))
    BY <2>1, WorkingOnJob DEF Working, JobParts, OneJobEach, Client
  <2>5. b \in handed[Client(w)]
    BY <2>1 DEF Working, CarryParts, BlockCarried
  <2> QED
    BY <2>1, <2>2, <2>3, <2>4, <2>5 DEF BlockCarried
<1>5. CASE EnterJob(w) \/ MarkDone(w)
  <2>1. /\ task' = task /\ handed' = handed
        /\ \/ pc[w] = "enter" /\ pc'[w] = "search"
           \/ pc[w] = "mark" /\ pc'[w] = "notify"
    BY <1>0, <1>5 DEF EnterJob, MarkDone, histVars
  <2>2. Client(w)' = Client(w)
    BY <2>1, ClientsStay DEF Working
  <2> QED
    BY <2>1, <2>2 DEF BlockCarried, CarryParts, Working
<1>6. CASE ReadRecipient(w)
  <2>1. /\ pc[w] = "search" /\ pc'[w] = "mark" /\ handed' = handed
        /\ task'[w].node = task[w].node /\ task'[w].block_idx = task[w].block_idx
        /\ Found(w) # NoAnswer
    BY <1>0, <1>6 DEF ReadRecipient, Tasks, histVars
  <2>2. Client(w)' = Client(w) /\ Client(w) \in Clients
    BY <1>3, <2>1, ClientsStay DEF Working
  <2>3. /\ task[w].block_idx \in handed[Client(w)]
        /\ task[w].block_idx <= BlockCount(Client(w))
        /\ task[w].start = FirstOf(Client(w), task[w].block_idx)
        /\ task[w].end = LastOf(Client(w), task[w].block_idx)
    BY <2>1 DEF CarryParts, BlockCarried, Working
  <2>4. target_hash[w] = Request[Client(w)].hash
    BY <2>1 DEF HashParts, AnswerCarried
  <2>5. Request[Client(w)].hash \in SearchedIn(Client(w), task[w].block_idx)
    BY <2>1, <2>3, <2>4, ReverseFinds DEF Found, SearchedIn
  <2>6. task[w].block_idx \in Nat /\ BlockCount(Client(w)) \in Nat
    BY <1>0, <2>2, BlockCountType DEF Tasks
  <2>7. task[w].block_idx # BlockCount(Client(w))
    BY <2>2, <2>5 DEF AnswersCounted
  <2>8. HoldsAnswer(Client(w), task[w].block_idx)
    BY <2>3, <2>5, <2>6, <2>7 DEF HoldsAnswer
  <2> QED
    BY <2>1, <2>2, <2>3, <2>8 DEF BlockCarried
<1> QED
  BY <1>1, <1>2, <1>4, <1>5, <1>6 DEF WorkerStep

\* The worker that notifies a client holds the block with the answer, so the
\* client has not been answered before.
LEMMA NotifiedIsLive ==
    ASSUME Typed, KeptInv, JobParts, HashParts, CarryParts, LanesFit,
           NEW w \in Workers, NotifyRecipient(w)
    PROVE  /\ task[w].recipient = Client(w) /\ Client(w) \in Clients
           /\ recipient[Client(w)] = "live"
           /\ task[w].answer # NoAnswer
           /\ recipient' = [recipient EXCEPT ![Client(w)] = "freed"]
           /\ sent' = [sent EXCEPT ![Client(w)] = task[w].answer]
           /\ usedFreed' = usedFreed
<1> DEFINE c == Client(w)
<1> DEFINE e == task[w].node.elem
<1>1. /\ pc[w] = "notify" /\ Notify(task[w].recipient, task[w].answer)
  BY DEF NotifyRecipient
<1>2. /\ task[w].recipient = c /\ task[w].answer # NoAnswer
  BY <1>1 DEF HashParts, AnswerCarried
<1>3. e \in Slots /\ Written(e) /\ c \in Clients /\ c = jobs[e].request
  BY <1>1, WorkingOnJob DEF Working, Client
<1>4. HoldsAnswer(c, task[w].block_idx)
  BY <1>1 DEF CarryParts, BlockCarried
<1>5. Served(e)
  BY <1>3 DEF CarryParts
<1>6. ASSUME NEW b, HoldsAnswer(c, b), NotCarried(e, b) PROVE FALSE
  <2>1. b = task[w].block_idx
    BY <1>3, <1>4, <1>6, AnswerInOneBlock
  <2> QED
    BY <1>1, <1>6, <2>1 DEF NotCarried, Working
<1>7. recipient[c] = "live"
  BY <1>3, <1>5, <1>6 DEF Served
<1> QED
  BY <1>1, <1>2, <1>3, <1>7 DEF Notify

\* No step of a worker makes two workers carry one block.
LEMMA WorkersCarryOnce ==
    ASSUME Typed, KeptInv, JobParts, CarryParts,
           NEW w \in Workers, WorkerStep(w) \/ SpuriousWake(w)
    PROVE  CarriedOnce'
<1> SUFFICES ASSUME NEW u \in Workers, NEW v \in Workers, u # v,
                    Working(u)', Working(v)',
                    task'[u].node.elem = task'[v].node.elem,
                    task'[u].block_idx = task'[v].block_idx,
                    task'[u].block_idx < BlockCount(Client(u)')
             PROVE  FALSE
  BY DEF CarriedOnce
<1>1. ASSUME NEW x \in Workers, x # w
      PROVE  /\ Working(x)' <=> Working(x)
             /\ task'[x] = task[x]
  BY <1>1, OneWorkerMoves DEF Working
<1>2. CASE u # w /\ v # w
  <2>1. Client(u)' = Client(u)
    BY <1>1, <1>2, ClientsStay
  <2> QED
    BY <1>1, <1>2, <2>1 DEF CarryParts, CarriedOnce
<1>3. Client(u)' = Client(v)'
  BY DEF Client
<1>4. ASSUME NEW x \in Workers, x # w, Working(w)', Working(x)',
             task'[w].node.elem = task'[x].node.elem,
             task'[w].block_idx = task'[x].block_idx,
             task'[x].block_idx < BlockCount(Client(x)')
      PROVE  FALSE
  <2>1. Working(x) /\ task'[x] = task[x] /\ Client(x)' = Client(x)
    BY <1>1, <1>4, ClientsStay
  <2>2. CASE \E n \in local_jobs[w] : FetchBlock(w, n)
    <3> PICK n \in local_jobs[w] : FetchBlock(w, n)
      BY <2>2
    <3>1. task'[w].node = n /\ task'[w].block_idx = jobs[n.elem].block_idx
      BY Fetched
    <3>2. Client(x) = jobs[n.elem].request
      BY <1>4, <2>1, <3>1 DEF Client
    <3>3. task[x].block_idx \in handed[jobs[n.elem].request]
      BY <2>1, <3>2 DEF CarryParts, BlockCarried
    <3>4. task[x].block_idx < BlockCount(jobs[n.elem].request)
      BY <1>4, <2>1, <3>2
    <3> QED
      BY <1>4, <2>1, <3>1, <3>3, <3>4, FetchedBlockFree
  <2>3. CASE ~ \E n \in local_jobs[w] : FetchBlock(w, n)
    <3>1. /\ Working(w) /\ task'[w].node = task[w].node
          /\ task'[w].block_idx = task[w].block_idx
      BY <1>4, <2>3, OwnBlock
    <3> QED
      BY <1>4, <2>1, <3>1 DEF CarryParts, CarriedOnce
  <2> QED
    BY <2>2, <2>3
<1> QED
  BY <1>2, <1>3, <1>4

\* No step of a worker takes up the block with the answer of a client that has
\* been answered; the notification lets go of it.
LEMMA WorkersServe ==
    ASSUME Typed, KeptInv, JobParts, HashParts, CarryParts, LanesFit,
           NEW w \in Workers, WorkerStep(w) \/ SpuriousWake(w),
           NEW i \in Slots, Written(i)
    PROVE  Served(i)'
<1> DEFINE c == jobs[i].request
<1>1. /\ c \in Clients /\ c = jobs'[i].request /\ handed[c] \subseteq handed'[c]
      /\ recipient \in [Clients -> {"none", "live", "freed"}]
      /\ sent \in [Clients -> Nat]
  BY ClientsStay, HandedGrows DEF Written, Typed, TypeOK, ClientType
<1>2. Served(i)
  BY DEF CarryParts
<1>3. ASSUME NEW b \in handed[c], HoldsAnswer(c, b), NotCarried(i, b)
      PROVE  NotCarried(i, b)'
  <2> SUFFICES ASSUME NEW v \in Workers, Working(v)', task'[v].node.elem = i,
                      task'[v].block_idx = b
               PROVE  FALSE
    BY DEF NotCarried
  <2>1. CASE v = w /\ \E n \in local_jobs[w] : FetchBlock(w, n)
    <3> PICK n \in local_jobs[w] : FetchBlock(w, n)
      BY <2>1
    <3>1. n.elem = i /\ task'[w].block_idx = jobs[n.elem].block_idx
      BY <2>1, Fetched
    <3>2. b < BlockCount(c)
      BY <1>1, <1>3, BlockCountType DEF HoldsAnswer
    <3> QED
      BY <2>1, <3>1, <3>2, FetchedBlockFree
  <2>2. CASE v = w /\ ~ \E n \in local_jobs[w] : FetchBlock(w, n)
    BY <1>3, <2>2, OwnBlock DEF NotCarried
  <2>3. CASE v # w
    BY <1>3, <2>3, OneWorkerMoves DEF NotCarried, Working
  <2> QED
    BY <2>1, <2>2, <2>3
<1>4. CASE NotifyRecipient(w)
  <2> DEFINE e == task[w].node.elem
  <2>1. /\ Client(w) \in Clients /\ recipient[Client(w)] = "live"
        /\ task[w].answer # NoAnswer
        /\ recipient' = [recipient EXCEPT ![Client(w)] = "freed"]
        /\ sent' = [sent EXCEPT ![Client(w)] = task[w].answer]
    BY <1>4, NotifiedIsLive
  <2>2. pc[w] = "notify" /\ pc'[w] = "cache" /\ task' = task /\ handed' = handed
    BY <1>4 DEF NotifyRecipient, Goto, Typed, TypeOK, WorkType
  <2>3. Working(w) /\ ~Working(w)' /\ e \in Slots /\ Written(e)
    BY <2>2, WorkingOnJob DEF Working
  <2>4. CASE i = e
    <3>1. c = Client(w)
      BY <2>4 DEF Client
    <3>2. recipient'[c] = "freed" /\ sent'[c] # NoAnswer
      BY <1>1, <2>1, <3>1
    <3>3. /\ task[w].block_idx \in handed'[c]
          /\ HoldsAnswer(c, task[w].block_idx)
      BY <2>2, <2>3, <3>1 DEF CarryParts, BlockCarried
    <3>4. task[w].block_idx < BlockCount(c)
      BY <1>1, <3>3, BlockCountType DEF HoldsAnswer
    <3>5. NotCarried(i, task[w].block_idx)'
      <4> SUFFICES ASSUME NEW v \in Workers, Working(v)', task'[v].node.elem = i,
                          task'[v].block_idx = task[w].block_idx
                   PROVE  FALSE
        BY <2>2 DEF NotCarried
      <4>1. v # w
        BY <2>3
      <4>2. Working(v)
        BY <4>1, OneWorkerMoves DEF Working
      <4> QED
        BY <2>2, <2>3, <2>4, <3>1, <3>4, <4>1, <4>2 DEF CarryParts, CarriedOnce
    <3>6. \E b \in handed'[c] : HoldsAnswer(c, b) /\ NotCarried(i, b)'
      BY <2>2, <3>3, <3>5
    <3> QED
      BY <1>1, <3>2, <3>6 DEF Served
  <2>5. CASE i # e
    <3>1. c # Client(w)
      BY <2>3, <2>5 DEF Client, JobParts, OneJobEach
    <3>2. recipient'[c] = recipient[c] /\ sent'[c] = sent[c]
      BY <1>1, <2>1, <3>1
    <3> QED
      BY <1>1, <1>2, <1>3, <3>2 DEF Served
  <2> QED
    BY <2>4, <2>5
<1>5. CASE ~NotifyRecipient(w)
  <2>1. recipient' = recipient /\ sent' = sent
    BY <1>5, WorkersUseRecipients
  <2> QED
    BY <1>1, <1>2, <1>3, <2>1 DEF Served
<1> QED
  BY <1>4, <1>5

\* A worker's step keeps the blocks in the right hands.
LEMMA WorkingKeepsCarried ==
    ASSUME Typed, KeptInv, JobParts, HashParts, CarryParts, LanesFit, AnswersCounted,
           NEW w \in Workers, WorkerStep(w) \/ SpuriousWake(w)
    PROVE  CarryParts'
<1>1. ASSUME NEW v \in Workers PROVE BlockCarried(v)'
  <2>1. CASE v = w
    BY <2>1, OwnBlockCarried
  <2>2. CASE v # w
    <3>1. pc'[v] = pc[v] /\ task'[v] = task[v]
      BY <2>2, OneWorkerMoves
    <3>2. Working(v) => /\ Client(v)' = Client(v) /\ Client(v) \in Clients
                        /\ handed[Client(v)] \subseteq handed'[Client(v)]
      BY <3>1, ClientsStay, WorkingOnJob, HandedGrows
    <3> QED
      BY <3>1, <3>2 DEF CarryParts, BlockCarried, Working
  <2> QED
    BY <2>1, <2>2
<1>2. CarriedOnce'
  BY WorkersCarryOnce
<1>3. \A i \in Slots' : Written(i)' => Served(i)'
  <2>1. Slots' = Slots /\ \A i \in Slots : Written(i)' <=> Written(i)
    BY ClientsStay DEF Slots
  <2> QED
    BY <2>1, WorkersServe
<1>4. FreshRecipients' /\ usedFreed' = usedFreed
  <2>1. mpc' = mpc /\ cur' = cur /\ (mpc = "insert" => cur \in Clients)
    BY WorkersLeaveSlots DEF Typed, NodesWritten
  <2>2. CASE NotifyRecipient(w)
    <3>1. /\ Client(w) \in Clients /\ recipient[Client(w)] = "live"
          /\ recipient' = [recipient EXCEPT ![Client(w)] = "freed"]
          /\ sent' = [sent EXCEPT ![Client(w)] = task[w].answer]
          /\ usedFreed' = usedFreed
      BY <2>2, NotifiedIsLive
    <3>2. /\ recipient \in [Clients -> {"none", "live", "freed"}]
          /\ sent \in [Clients -> Nat]
      BY DEF Typed, TypeOK, ClientType
    <3>3. mpc = "insert" => Client(w) # cur
      <4>1. task[w].node.elem \in Slots
        BY <2>2, WorkingOnJob DEF NotifyRecipient, Working
      <4> QED
        BY <2>1, <4>1 DEF Client, JobParts, NewClients, New
    <3>4. \A d \in Clients : recipient'[d] = "none" => sent'[d] = NoAnswer
      BY <3>1, <3>2 DEF CarryParts, FreshRecipients
    <3>5. mpc = "insert" => recipient'[cur] = "live" /\ sent'[cur] = NoAnswer
      BY <2>1, <3>1, <3>2, <3>3 DEF CarryParts, FreshRecipients
    <3> QED
      BY <2>1, <3>1, <3>4, <3>5 DEF FreshRecipients
  <2>3. CASE ~NotifyRecipient(w)
    <3>1. recipient' = recipient /\ sent' = sent /\ usedFreed' = usedFreed
      BY <2>3, WorkersUseRecipients
    <3> QED
      BY <2>1, <3>1 DEF CarryParts, FreshRecipients
  <2> QED
    BY <2>2, <2>3
<1> QED
  BY <1>1, <1>2, <1>3, <1>4 DEF CarryParts

\* Every action keeps the blocks in the right hands, unless it overwrites a
\* slot under a worker.
LEMMA StepCarryInv ==
    ASSUME LanesFit, AnswersCounted
    PROVE  Typed /\ SlotInv /\ KeptInv /\ JobInv /\ HashInv /\ CarryInv /\ [Next]_vars
             => CarryInv'
<1> SUFFICES ASSUME Typed, SlotInv, KeptInv, JobInv, HashInv, CarryInv, [Next]_vars,
                    ~slotRaced'
             PROVE  CarryParts'
  BY DEF CarryInv
<1>1. ~slotRaced /\ ~InsertRest /\ ~ \E late \in SUBSET Fields : InsertSeen(late)
  BY SlotRaceStays DEF KeptInv, InsertSeen, InsertRest
<1>2. JobParts /\ HashParts /\ CarryParts
  BY <1>1 DEF JobInv, HashInv, CarryInv
<1>3. CASE Arrival \/ Shutdown
  BY <1>2, <1>3, MainKeepsCarried
<1>4. CASE Submit
  BY <1>1, <1>2, <1>4, MainKeepsCarried, WritingKeepsCarried DEF Submit
<1>5. CASE \E w \in Workers : WorkerStep(w) \/ SpuriousWake(w)
  BY <1>2, <1>5, WorkingKeepsCarried
<1>6. CASE UNCHANGED vars
  BY <1>2, <1>6 DEF vars, listVars, workVars, mainVars, clientVars, histVars, CarryParts,
     BlockCarried, CarriedOnce, Served, NotCarried, FreshRecipients, Client, Slots,
     Written, Working
<1> QED
  BY <1>3, <1>4, <1>5, <1>6 DEF Next, Stopped

----------------------------------------------------------------------------
(* The reference count of a slot is the number of workers inside its job,   *)
(* plus one for good when the job's client has been answered.               *)

\* The count has room for every worker and for the reference of the solver.
RefsFit == IsFiniteSet(Workers) /\ Cardinality(Workers) + 1 < RcModulus

\* The workers between entering and leaving the job of slot i.
WorkersIn(i) ==
    {w \in Workers : pc[w] \in {"search", "mark", "notify"} /\ task[w].node.elem = i}

Answered(i) == Written(i) /\ recipient[jobs[i].request] = "freed"

Counted(i) ==
    jobs[i].rc = Cardinality(WorkersIn(i)) + (IF Answered(i) THEN 1 ELSE 0)

RefInv == ~slotRaced => \A i \in Slots : Counted(i)

\* What adding and removing a worker does to the count of those inside.
LEMMA CountInside ==
    ASSUME RefsFit, NEW W \in SUBSET Workers
    PROVE  /\ Cardinality(W) \in Nat /\ Cardinality(W) <= Cardinality(Workers)
           /\ Cardinality(Workers) \in Nat
           /\ \A w \in Workers \ W : /\ Cardinality(W \cup {w}) = Cardinality(W) + 1
                                     /\ Cardinality(W) < Cardinality(Workers)
           /\ \A w \in W : /\ Cardinality(W \ {w}) = Cardinality(W) - 1
                           /\ Cardinality(W) >= 1
<1>1. IsFiniteSet(Workers) /\ IsFiniteSet(W) /\ Cardinality(W) <= Cardinality(Workers)
  BY FS_Subset DEF RefsFit
<1>2. Cardinality(W) \in Nat /\ Cardinality(Workers) \in Nat
  BY <1>1, FS_CardinalityType
<1>3. ASSUME NEW w \in Workers \ W
      PROVE  Cardinality(W \cup {w}) = Cardinality(W) + 1 /\ Cardinality(W) < Cardinality(Workers)
  <2>1. Cardinality(W \cup {w}) = Cardinality(W) + 1
    BY <1>1, <1>3, FS_AddElement
  <2>2. W \cup {w} \in SUBSET Workers
    BY <1>3
  <2>3. Cardinality(W \cup {w}) <= Cardinality(Workers)
    BY <1>1, <2>2, FS_Subset
  <2> QED
    BY <1>2, <2>1, <2>3
<1>4. ASSUME NEW w \in W
      PROVE  Cardinality(W \ {w}) = Cardinality(W) - 1 /\ Cardinality(W) >= 1
  <2>1. Cardinality(W \ {w}) = Cardinality(W) - 1
    BY <1>1, <1>4, FS_RemoveElement
  <2>2. IsFiniteSet(W \ {w})
    BY <1>1, FS_RemoveElement
  <2>3. Cardinality(W \ {w}) \in Nat
    BY <2>2, FS_CardinalityType
  <2> QED
    BY <1>2, <2>1, <2>3
<1> QED
  BY <1>1, <1>2, <1>3, <1>4

\* At the start no slot is counted.
LEMMA InitRefInv == RefsFit /\ Init => RefInv
<1> SUFFICES ASSUME Init, RefsFit, NEW i \in Slots PROVE Counted(i)
  BY DEF RefInv
<1>1. WorkersIn(i) = {} /\ jobs[i] = ZeroJob
  BY DEF Init, WorkersIn, Slots
<1>2. ~Answered(i) /\ jobs[i].rc = 0
  BY <1>1, RequestAssumption DEF Answered, Written, ZeroJob
<1> QED
  BY <1>1, <1>2, FS_EmptySet DEF Counted

\* A new job is counted zero times, and no worker is inside its slot.
LEMMA WritingKeepsRefs ==
    ASSUME Typed, SlotInv, KeptInv, JobParts, CarryParts, InsertGrow \/ InsertUnseen,
           \A i \in Slots : Counted(i)
    PROVE  \A i \in Slots' : Counted(i)'
<1> DEFINE s == slot'
<1>1. /\ WritesSlot(s) /\ cur \in Clients
      /\ UNCHANGED <<recipient, pc>> /\ UNCHANGED task /\ UNCHANGED local_jobs
  BY InsertWritesSlot
<1>2. \A i : WorkersIn(i)' = WorkersIn(i)
  BY <1>1 DEF WorkersIn
<1>3. ASSUME NEW i, i \notin Slots \/ i = s
      PROVE  WorkersIn(i) = {}
  <2> SUFFICES ASSUME NEW w \in Workers, pc[w] \in {"search", "mark", "notify"},
                      task[w].node.elem = i
               PROVE  FALSE
    BY DEF WorkersIn
  <2>1. task[w].node \in local_jobs[w] /\ task[w].node.elem \in Slots
    BY WorkingOnJob DEF Working
  <2> QED
    BY <1>1, <1>3, <2>1 DEF WritesSlot
<1> TAKE i \in Slots'
<1>4. cap \in Nat /\ cap' \in Nat /\ cap' >= cap /\ i \in 0 .. cap' - 1
  BY <1>1 DEF WritesSlot, Slots
<1>5. i \in Slots \/ (i \in cap .. cap' - 1 /\ i \notin Slots)
  BY <1>4, GrownSlots DEF Slots
<1>6. CASE i = s
  <2>1. jobs'[i].rc = 0 /\ jobs'[i].request = cur /\ recipient'[cur] = "live"
    BY <1>1, <1>6 DEF WritesSlot, NewJob, CarryParts, FreshRecipients
  <2>2. ~Answered(i)' /\ WorkersIn(i)' = {}
    BY <1>2, <1>3, <1>6, <2>1 DEF Answered
  <2> QED
    BY <2>1, <2>2, FS_EmptySet DEF Counted
<1>7. CASE i # s /\ i \in Slots
  <2>1. jobs'[i] = jobs[i] /\ (Written(i)' <=> Written(i))
    BY <1>1, <1>4, <1>7 DEF WritesSlot, Written, Slots
  <2>2. Answered(i)' <=> Answered(i)
    BY <1>1, <2>1 DEF Answered
  <2> QED
    BY <1>2, <1>7, <2>1, <2>2 DEF Counted
<1>8. CASE i # s /\ i \notin Slots
  <2>1. jobs'[i] = ZeroJob
    BY <1>1, <1>5, <1>8 DEF WritesSlot
  <2>2. jobs'[i].rc = 0 /\ ~Answered(i)' /\ WorkersIn(i)' = {}
    BY <1>2, <1>3, <1>8, <2>1, RequestAssumption DEF Answered, Written, ZeroJob
  <2> QED
    BY <2>2, FS_EmptySet DEF Counted
<1> QED
  BY <1>6, <1>7, <1>8

\* The other steps of main count nothing, and answer only new clients.
LEMMA MainKeepsRefs ==
    ASSUME Typed, JobParts, CarryParts, \A i \in Slots : Counted(i),
           \/ Arrival \/ Shutdown \/ Publish
           \/ \E n \in todo : CleanupKeep(n)
           \/ \E n \in todo : \E skipped \in SUBSET todo, again \in SUBSET jobs_w :
                CleanupRemove(n, skipped, again)
    PROVE  \A i \in Slots' : Counted(i)'
<1>1. WorkersStill
  BY MainLeavesWorkers DEF Submit
<1>2. \A i : WorkersIn(i)' = WorkersIn(i)
  BY <1>1 DEF WorkersStill, WorkersIn
<1>3. \A i \in Slots : jobs'[i].rc = jobs[i].rc
  <2>1. CASE \E n \in jobs_r : Cancel(n)
    <3> PICK n \in jobs_r : Cancel(n)
      BY <2>1
    <3>1. n.elem \in Slots /\ jobs \in [Slots -> Jobs]
      BY DEF Typed, TypeOK, ListType, NodesWritten, Written, Slots
    <3>2. jobs' = [jobs EXCEPT ![n.elem].block_idx = jobs[n.elem].block_count]
      BY DEF Cancel, MarkAsDone
    <3> QED
      BY <3>1, <3>2 DEF Jobs
  <2>2. CASE ~ \E n \in jobs_r : Cancel(n)
    BY <2>2, MainKeepsJobs DEF Arrival, Shutdown
  <2> QED
    BY <2>1, <2>2
<1>4. ASSUME NEW i \in Slots PROVE Answered(i)' <=> Answered(i)
  <2>1. jobs'[i].request = jobs[i].request /\ (Written(i)' <=> Written(i))
    BY MainLeavesRequests
  <2>2. Written(i) => recipient'[jobs[i].request] = recipient[jobs[i].request]
    BY MainServesNew DEF JobParts, NewClients, Written
  <2> QED
    BY <2>1, <2>2 DEF Answered
<1>5. Slots' = Slots
  BY MainLeavesRequests DEF Slots
<1> QED
  BY <1>2, <1>3, <1>4, <1>5 DEF Counted

\* A worker that enters its job is counted, and the count has room for it.
LEMMA EnteringCounts ==
    ASSUME Typed, KeptInv, JobParts, RefsFit, \A i \in Slots : Counted(i),
           NEW w \in Workers, EnterJob(w), NEW i \in Slots
    PROVE  Counted(i)'
<1> DEFINE e == task[w].node.elem
<1>1. /\ pc[w] = "enter" /\ pc' = [pc EXCEPT ![w] = "search"] /\ task' = task
      /\ jobs' = [jobs EXCEPT ![e].rc = (jobs[e].rc + 1) % RcModulus]
      /\ recipient' = recipient /\ cap' = cap
  BY DEF EnterJob, Goto, clientVars
<1>2. pc \in [Workers -> Labels] /\ jobs \in [Slots -> Jobs] /\ e \in Slots
  BY <1>1, WorkingOnJob DEF Working, Typed, TypeOK, WorkType, ListType, Slots
<1>3. \A k \in Slots : Answered(k)' <=> Answered(k)
  <2>1. \A k \in Slots : jobs'[k].request = jobs[k].request /\ (Written(k)' <=> Written(k))
    BY ClientsStay DEF WorkerStep
  <2> QED
    BY <1>1, <2>1 DEF Answered
<1>4. CASE i = e
  <2>1. w \notin WorkersIn(i) /\ WorkersIn(i)' = WorkersIn(i) \cup {w}
    BY <1>1, <1>2, <1>4 DEF WorkersIn
  <2>2. /\ Cardinality(WorkersIn(i)') = Cardinality(WorkersIn(i)) + 1
        /\ Cardinality(WorkersIn(i)) \in Nat /\ Cardinality(Workers) \in Nat
        /\ Cardinality(WorkersIn(i)) < Cardinality(Workers)
    <3>1. WorkersIn(i) \in SUBSET Workers
      BY DEF WorkersIn
    <3> QED
      BY <2>1, <3>1, CountInside
  <2>3. jobs[i].rc = Cardinality(WorkersIn(i)) + (IF Answered(i) THEN 1 ELSE 0)
    BY DEF Counted
  <2>4. (jobs[i].rc + 1) % RcModulus = jobs[i].rc + 1
    <3>1. jobs[i].rc \in Nat /\ jobs[i].rc + 1 < RcModulus /\ RcModulus \in Nat
      BY <2>2, <2>3, SizeAssumption DEF RefsFit
    <3> QED
      BY <3>1
  <2>5. jobs'[i].rc = jobs[i].rc + 1
    BY <1>1, <1>2, <1>4, <2>4 DEF Jobs
  <2> QED
    BY <1>3, <2>2, <2>3, <2>5 DEF Counted
<1>5. CASE i # e
  <2>1. WorkersIn(i)' = WorkersIn(i) /\ jobs'[i] = jobs[i]
    BY <1>1, <1>2, <1>5 DEF WorkersIn
  <2> QED
    BY <1>3, <2>1 DEF Counted
<1> QED
  BY <1>4, <1>5

\* A worker that leaves its job without an answer is no longer counted.
LEMMA LeavingCounts ==
    ASSUME Typed, KeptInv, JobParts, RefsFit, \A i \in Slots : Counted(i),
           NEW w \in Workers, LeaveJob(w), NEW i \in Slots
    PROVE  Counted(i)'
<1> DEFINE e == task[w].node.elem
<1>1. /\ pc[w] = "search" /\ pc' = [pc EXCEPT ![w] = "loop"]
      /\ task' = [task EXCEPT ![w] = NoTask]
      /\ jobs' = [jobs EXCEPT ![e].rc = (jobs[e].rc - 1) % RcModulus]
      /\ recipient' = recipient /\ cap' = cap
  BY DEF LeaveJob, Goto, clientVars
<1>2. /\ pc \in [Workers -> Labels] /\ task \in [Workers -> Tasks]
      /\ jobs \in [Slots -> Jobs] /\ e \in Slots
  BY <1>1, WorkingOnJob DEF Working, Typed, TypeOK, WorkType, ListType, Slots
<1>3. \A k \in Slots : Answered(k)' <=> Answered(k)
  <2>1. \A k \in Slots : jobs'[k].request = jobs[k].request /\ (Written(k)' <=> Written(k))
    BY ClientsStay DEF WorkerStep
  <2> QED
    BY <1>1, <2>1 DEF Answered
<1>4. CASE i = e
  <2>1. w \in WorkersIn(i) /\ WorkersIn(i)' = WorkersIn(i) \ {w}
    BY <1>1, <1>2, <1>4 DEF WorkersIn
  <2>2. /\ Cardinality(WorkersIn(i)') = Cardinality(WorkersIn(i)) - 1
        /\ Cardinality(WorkersIn(i)) \in Nat /\ Cardinality(Workers) \in Nat
        /\ Cardinality(WorkersIn(i)) >= 1
        /\ Cardinality(WorkersIn(i)) <= Cardinality(Workers)
    <3>1. WorkersIn(i) \in SUBSET Workers
      BY DEF WorkersIn
    <3> QED
      BY <2>1, <3>1, CountInside
  <2>3. jobs[i].rc = Cardinality(WorkersIn(i)) + (IF Answered(i) THEN 1 ELSE 0)
    BY DEF Counted
  <2>4. (jobs[i].rc - 1) % RcModulus = jobs[i].rc - 1
    <3>1. jobs[i].rc - 1 \in Nat /\ jobs[i].rc - 1 < RcModulus /\ RcModulus \in Nat
      BY <2>2, <2>3, SizeAssumption DEF RefsFit
    <3> QED
      BY <3>1
  <2>5. jobs'[i].rc = jobs[i].rc - 1
    BY <1>1, <1>2, <1>4, <2>4 DEF Jobs
  <2> QED
    BY <1>3, <2>2, <2>3, <2>5 DEF Counted
<1>5. CASE i # e
  <2>1. WorkersIn(i)' = WorkersIn(i) /\ jobs'[i] = jobs[i]
    BY <1>1, <1>2, <1>5 DEF WorkersIn
  <2> QED
    BY <1>3, <2>1 DEF Counted
<1> QED
  BY <1>4, <1>5

\* A worker that notifies leaves its job as well, and the client it answers
\* takes its place in the count.
LEMMA NotifyingCounts ==
    ASSUME Typed, KeptInv, JobParts, HashParts, CarryParts, LanesFit, RefsFit,
           \A i \in Slots : Counted(i),
           NEW w \in Workers, NotifyRecipient(w), NEW i \in Slots
    PROVE  Counted(i)'
<1> DEFINE e == task[w].node.elem
<1>1. /\ pc[w] = "notify" /\ pc' = [pc EXCEPT ![w] = "cache"] /\ task' = task
      /\ jobs' = jobs /\ cap' = cap
  BY DEF NotifyRecipient, Goto, listVars
<1>2. pc \in [Workers -> Labels] /\ e \in Slots /\ Written(e)
  BY <1>1, WorkingOnJob DEF Working, Typed, TypeOK, WorkType
<1>3. /\ Client(w) \in Clients /\ recipient[Client(w)] = "live"
      /\ recipient' = [recipient EXCEPT ![Client(w)] = "freed"]
      /\ recipient \in [Clients -> {"none", "live", "freed"}]
  BY NotifiedIsLive DEF Typed, TypeOK, ClientType
<1>4. Written(i)' <=> Written(i)
  BY <1>1 DEF Written
<1>5. CASE i = e
  <2>1. w \in WorkersIn(i) /\ WorkersIn(i)' = WorkersIn(i) \ {w}
    BY <1>1, <1>2, <1>5 DEF WorkersIn
  <2>2. /\ Cardinality(WorkersIn(i)') = Cardinality(WorkersIn(i)) - 1
        /\ Cardinality(WorkersIn(i)) \in Nat
    <3>1. WorkersIn(i) \in SUBSET Workers
      BY DEF WorkersIn
    <3> QED
      BY <2>1, <3>1, CountInside
  <2>3. ~Answered(i) /\ Answered(i)'
    BY <1>1, <1>2, <1>3, <1>4, <1>5 DEF Answered, Client
  <2> QED
    BY <1>1, <2>2, <2>3 DEF Counted
<1>6. CASE i # e
  <2>1. WorkersIn(i)' = WorkersIn(i)
    BY <1>1, <1>2, <1>6 DEF WorkersIn
  <2>2. Written(i) => jobs[i].request # Client(w)
    BY <1>2, <1>6 DEF JobParts, OneJobEach, Client
  <2>3. Answered(i)' <=> Answered(i)
    BY <1>1, <1>3, <1>4, <2>2 DEF Answered, Written
  <2> QED
    BY <1>1, <2>1, <2>3 DEF Counted
<1> QED
  BY <1>5, <1>6

\* The other steps of a worker happen wholly inside or wholly outside a job.
LEMMA OthersCountSame ==
    ASSUME Typed, NEW w \in Workers, WorkerStep(w) \/ SpuriousWake(w),
           ~EnterJob(w), ~LeaveJob(w), ~NotifyRecipient(w)
    PROVE  /\ \A i : WorkersIn(i)' = WorkersIn(i)
           /\ \A i \in Slots : jobs'[i].rc = jobs[i].rc
<1>1. /\ pc \in [Workers -> Labels] /\ task \in [Workers -> Tasks]
      /\ jobs \in [Slots -> Jobs]
  BY DEF Typed, TypeOK, WorkType, ListType, Slots
<1>2. \/ pc[w] \notin {"search", "mark", "notify"} /\ pc'[w] \notin {"search", "mark", "notify"}
      \/ /\ pc[w] \in {"search", "mark", "notify"} /\ pc'[w] \in {"search", "mark", "notify"}
         /\ task'[w].node = task[w].node
  <2>1. CASE ReadRecipient(w) \/ MarkDone(w)
    BY <1>1, <2>1 DEF ReadRecipient, MarkDone, Goto, Tasks
  <2>2. CASE ~(ReadRecipient(w) \/ MarkDone(w))
    BY <1>1, <2>2 DEF WorkerStep, SpuriousWake, Exit, NoRefresh, CopyHeap, SetMaxJobId,
       FetchBlock, ClaimBlock, DropJob, CachePush, CachePushRaced, NothingLeft,
       StopWaiting, DecideToYield, Yield, Awake, Goto
  <2> QED
    BY <2>1, <2>2
<1>3. \A v \in Workers : v # w => pc'[v] = pc[v] /\ task'[v] = task[v]
  BY OneWorkerMoves
<1>4. \A i : WorkersIn(i)' = WorkersIn(i)
  BY <1>2, <1>3 DEF WorkersIn
<1>5. ASSUME NEW i \in Slots PROVE jobs'[i].rc = jobs[i].rc
  <2>1. CASE jobs' = jobs
    BY <2>1
  <2>2. ASSUME NEW e, NEW k, jobs' = [jobs EXCEPT ![e].block_idx = k]
        PROVE  jobs'[i].rc = jobs[i].rc
    <3>1. jobs'[i] = jobs[i] \/ jobs'[i] = [jobs[i] EXCEPT !.block_idx = k]
      BY <1>1, <2>2
    <3> QED
      BY <1>1, <3>1 DEF Jobs
  <2>3. CASE \E n \in local_jobs[w] : FetchBlock(w, n)
    BY <2>2, <2>3 DEF FetchBlock
  <2>4. CASE MarkDone(w)
    <3>1. jobs' = [jobs EXCEPT ![task[w].node.elem].block_idx =
                      jobs[task[w].node.elem].block_count]
      BY <2>4 DEF MarkDone, MarkAsDone
    <3> QED
      BY <2>2, <3>1
  <2> QED
    BY <2>1, <2>3, <2>4 DEF WorkerStep, SpuriousWake, Exit, NoRefresh, CopyHeap,
       SetMaxJobId, ClaimBlock, DropJob, ReadRecipient, CachePush, CachePushRaced,
       NothingLeft, StopWaiting, DecideToYield, Yield, Awake, listVars
<1> QED
  BY <1>4, <1>5

\* Every action keeps the counts, unless it overwrites a slot under a worker.
LEMMA StepRefInv ==
    ASSUME LanesFit, RefsFit
    PROVE  /\ Typed /\ SlotInv /\ KeptInv /\ JobInv /\ HashInv /\ CarryInv
           /\ RefInv /\ [Next]_vars
           => RefInv'
<1> SUFFICES ASSUME Typed, SlotInv, KeptInv, JobInv, HashInv, CarryInv, RefInv,
                    [Next]_vars, ~slotRaced'
             PROVE  \A i \in Slots' : Counted(i)'
  BY DEF RefInv
<1>1. ~slotRaced /\ ~InsertRest /\ ~ \E late \in SUBSET Fields : InsertSeen(late)
  BY SlotRaceStays DEF KeptInv, InsertSeen, InsertRest
<1>2. JobParts /\ HashParts /\ CarryParts /\ \A i \in Slots : Counted(i)
  BY <1>1 DEF JobInv, HashInv, CarryInv, RefInv
<1>3. CASE Arrival \/ Shutdown
  BY <1>2, <1>3, MainKeepsRefs
<1>4. CASE Submit
  BY <1>1, <1>2, <1>4, MainKeepsRefs, WritingKeepsRefs DEF Submit
<1>5. CASE \E w \in Workers : WorkerStep(w) \/ SpuriousWake(w)
  <2> PICK w \in Workers : WorkerStep(w) \/ SpuriousWake(w)
    BY <1>5
  <2>1. /\ Slots' = Slots /\ \A i \in Slots : /\ jobs'[i].request = jobs[i].request
                                              /\ Written(i)' <=> Written(i)
    BY <1>2, ClientsStay DEF Slots
  <2>2. CASE EnterJob(w) \/ LeaveJob(w)
    BY <1>2, <2>1, <2>2, EnteringCounts, LeavingCounts
  <2>3. CASE NotifyRecipient(w)
    BY <1>2, <2>1, <2>3, NotifyingCounts
  <2>4. CASE ~EnterJob(w) /\ ~LeaveJob(w) /\ ~NotifyRecipient(w)
    <3>1. recipient' = recipient
      BY <2>4, WorkersUseRecipients
    <3>2. \A i \in Slots : Answered(i)' <=> Answered(i)
      BY <2>1, <3>1 DEF Answered
    <3> QED
      BY <1>2, <2>1, <2>4, <3>2, OthersCountSame DEF Counted
  <2> QED
    BY <2>2, <2>3, <2>4
<1>6. CASE UNCHANGED vars
  BY <1>2, <1>6 DEF vars, listVars, workVars, clientVars, Slots, Counted, Answered,
     Written, WorkersIn
<1> QED
  BY <1>3, <1>4, <1>5, <1>6 DEF Next, Stopped

----------------------------------------------------------------------------
(* As long as a job is neither answered nor cancelled, its block index has   *)
(* passed only blocks that were handed out.                                  *)

\* The index of the job in slot i is still the one the claims have left.
Counting(i) ==
    /\ Written(i) /\ jobs[i].request \notin Cancellable
    /\ recipient[jobs[i].request] = "live"
    /\ \A w \in Workers : ~(pc[w] = "notify" /\ task[w].node.elem = i)

HandedUpTo(i) ==
    Counting(i) =>
        \A b \in Nat : b < jobs[i].block_idx => b \in handed[jobs[i].request]

HandInv == ~slotRaced => \A i \in Slots : HandedUpTo(i)

\* At the start there is no job.
LEMMA InitHandInv == Init => HandInv
<1> SUFFICES ASSUME Init, NEW i \in Slots PROVE ~Counting(i)
  BY DEF HandInv, HandedUpTo
<1> QED
  BY RequestAssumption DEF Init, Slots, ZeroJob, Counting, Written

\* A new job has an index of zero.
LEMMA WritingHandsNone ==
    ASSUME Typed, SlotInv, InsertGrow \/ InsertUnseen, \A i \in Slots : HandedUpTo(i)
    PROVE  \A i \in Slots' : HandedUpTo(i)'
<1> DEFINE s == slot'
<1>1. /\ WritesSlot(s) /\ UNCHANGED <<recipient, pc, handed>> /\ UNCHANGED task
  BY InsertWritesSlot
<1> SUFFICES ASSUME NEW i \in Slots', Counting(i)'
             PROVE  \A b \in Nat : b < jobs'[i].block_idx => b \in handed'[jobs'[i].request]
  BY DEF HandedUpTo
<1>2. cap \in Nat /\ cap' \in Nat /\ cap' >= cap /\ i \in 0 .. cap' - 1
  BY <1>1 DEF WritesSlot, Slots
<1>3. i \in Slots \/ i \in cap .. cap' - 1
  BY <1>2, GrownSlots DEF Slots
<1>4. jobs'[i] # ZeroJob
  BY RequestAssumption DEF Counting, Written, ZeroJob
<1>5. CASE i = s
  <2>1. jobs'[i].block_idx = 0
    BY <1>1, <1>5 DEF WritesSlot, NewJob
  <2> QED
    BY <2>1
<1>6. CASE i # s
  <2>1. i \in Slots /\ jobs'[i] = jobs[i]
    BY <1>1, <1>3, <1>4, <1>6 DEF WritesSlot
  <2>2. Counting(i)
    BY <1>1, <2>1 DEF Counting, Written, Slots
  <2> QED
    BY <1>1, <2>1, <2>2 DEF HandedUpTo
<1> QED
  BY <1>5, <1>6

\* The other steps of main move only the index of a job that may be cancelled.
LEMMA MainHandsNone ==
    ASSUME Typed, JobParts, CarryParts, \A i \in Slots : HandedUpTo(i),
           \/ Arrival \/ Shutdown \/ Publish
           \/ \E n \in todo : CleanupKeep(n)
           \/ \E n \in todo : \E skipped \in SUBSET todo, again \in SUBSET jobs_w :
                CleanupRemove(n, skipped, again)
    PROVE  \A i \in Slots' : HandedUpTo(i)'
<1>1. WorkersStill /\ handed' = handed /\ Slots' = Slots
  BY MainLeavesWorkers, MainLeavesRequests DEF Submit, Slots
<1> SUFFICES ASSUME NEW i \in Slots, Counting(i)'
             PROVE  \A b \in Nat : b < jobs'[i].block_idx => b \in handed'[jobs'[i].request]
  BY <1>1 DEF HandedUpTo
<1>2. jobs'[i].request = jobs[i].request /\ Written(i)
  BY MainLeavesRequests DEF Counting
<1>3. Counting(i)
  <2>1. recipient'[jobs[i].request] = recipient[jobs[i].request]
    BY <1>2, MainServesNew DEF JobParts, NewClients, Written
  <2> QED
    BY <1>1, <1>2, <2>1 DEF Counting, WorkersStill
<1>4. jobs'[i].block_idx = jobs[i].block_idx
  <2>1. CASE \E n \in jobs_r : Cancel(n)
    <3> PICK n \in jobs_r : Cancel(n)
      BY <2>1
    <3>1. n.elem # i
      BY <1>3 DEF Cancel, Counting
    <3> QED
      BY <3>1 DEF Cancel, Typed, TypeOK, ListType, Slots
  <2>2. CASE ~ \E n \in jobs_r : Cancel(n)
    BY <2>2, MainKeepsJobs DEF Arrival, Shutdown
  <2> QED
    BY <2>1, <2>2
<1> QED
  BY <1>1, <1>2, <1>3, <1>4 DEF HandedUpTo

\* A worker moves the index past the block it claims, or marks a job as done
\* that it is about to answer.
LEMMA WorkersHandUpTo ==
    ASSUME Typed, KeptInv, JobParts, HashParts, CarryParts, LanesFit,
           NEW w \in Workers, WorkerStep(w) \/ SpuriousWake(w),
           \A i \in Slots : HandedUpTo(i)
    PROVE  \A i \in Slots' : HandedUpTo(i)'
<1>1. /\ Slots' = Slots
      /\ \A i \in Slots : jobs'[i].request = jobs[i].request /\ (Written(i)' <=> Written(i))
  BY ClientsStay DEF Slots
<1> SUFFICES ASSUME NEW i \in Slots, Counting(i)'
             PROVE  \A b \in Nat : b < jobs'[i].block_idx => b \in handed'[jobs'[i].request]
  BY <1>1 DEF HandedUpTo
<1> DEFINE c == jobs[i].request
<1>2. /\ pc \in [Workers -> Labels] /\ jobs \in [Slots -> Jobs] /\ jobs[i] \in Jobs
      /\ jobs'[i].request = c /\ c \in Clients /\ handed[c] \subseteq handed'[c]
  BY <1>1, HandedGrows DEF Typed, TypeOK, WorkType, ListType, Slots, Counting, Written
<1>3. Counting(i)
  <2>1. recipient[c] = "live"
    <3>1. CASE NotifyRecipient(w)
      BY <1>1, <1>2, <3>1, NotifiedIsLive DEF Counting, Typed, TypeOK, ClientType
    <3>2. CASE ~NotifyRecipient(w)
      BY <1>1, <3>2, WorkersUseRecipients DEF Counting
    <3> QED
      BY <3>1, <3>2
  <2>2. ASSUME NEW v \in Workers, pc[v] = "notify", task[v].node.elem = i PROVE FALSE
    <3>1. CASE v = w
      <4>1. NotifyRecipient(w)
        BY <2>2, <3>1 DEF WorkerStep, SpuriousWake, Exit, NoRefresh, CopyHeap, SetMaxJobId,
           FetchBlock, ClaimBlock, DropJob, EnterJob, LeaveJob, ReadRecipient, MarkDone,
           CachePush, CachePushRaced, NothingLeft, StopWaiting, DecideToYield, Yield, Awake
      <4>2. recipient'[c] = "freed"
        BY <1>2, <2>2, <3>1, <4>1, NotifiedIsLive DEF Client, Typed, TypeOK, ClientType
      <4> QED
        BY <1>1, <4>2 DEF Counting
    <3>2. CASE v # w
      BY <2>2, <3>2, OneWorkerMoves DEF Counting
    <3> QED
      BY <3>1, <3>2
  <2> QED
    BY <1>1, <2>1, <2>2 DEF Counting
<1>4. \A b \in Nat : b < jobs[i].block_idx => b \in handed[c]
  BY <1>3 DEF HandedUpTo
<1>5. CASE jobs'[i].block_idx = jobs[i].block_idx
  BY <1>2, <1>4, <1>5
<1>6. CASE \E n \in local_jobs[w] : FetchBlock(w, n)
  <2> PICK n \in local_jobs[w] : FetchBlock(w, n)
    BY <1>6
  <2>1. n.elem \in Slots /\ jobs' = [jobs EXCEPT ![n.elem].block_idx = jobs[n.elem].block_idx + 1]
    BY Fetched DEF FetchBlock
  <2>2. CASE n.elem = i
    <3>1. jobs'[i].block_idx = jobs[i].block_idx + 1 /\ jobs[i].block_idx \in Nat
      BY <1>2, <2>1, <2>2 DEF Jobs
    <3>2. jobs[i].block_idx \in handed'[c]
      BY <1>2, <2>2, Fetched DEF Typed, TypeOK, ClientType
    <3>3. \A b \in Nat : b < jobs'[i].block_idx => b < jobs[i].block_idx \/ b = jobs[i].block_idx
      BY <3>1
    <3> QED
      BY <1>2, <1>4, <3>2, <3>3
  <2>3. CASE n.elem # i
    BY <1>2, <1>5, <2>1, <2>3
  <2> QED
    BY <2>2, <2>3
<1>7. CASE MarkDone(w)
  <2>1. pc'[w] = "notify" /\ task' = task /\ jobs' = [jobs EXCEPT ![task[w].node.elem] = MarkAsDone(@)]
    BY <1>2, <1>7 DEF MarkDone, Goto
  <2>2. task[w].node.elem # i
    BY <2>1 DEF Counting
  <2> QED
    BY <1>2, <1>5, <2>1, <2>2
<1>8. CASE EnterJob(w) \/ LeaveJob(w)
  <2>1. PICK e, k : jobs' = [jobs EXCEPT ![e].rc = k]
    BY <1>8 DEF EnterJob, LeaveJob
  <2>2. jobs'[i] = jobs[i] \/ jobs'[i] = [jobs[i] EXCEPT !.rc = k]
    BY <1>2, <2>1
  <2> QED
    BY <1>2, <1>5, <2>2 DEF Jobs
<1>9. CASE jobs' = jobs
  BY <1>5, <1>9
<1> QED
  BY <1>6, <1>7, <1>8, <1>9 DEF WorkerStep, SpuriousWake, Exit, NoRefresh, CopyHeap,
     SetMaxJobId, ClaimBlock, DropJob, ReadRecipient, NotifyRecipient, CachePush,
     CachePushRaced, NothingLeft, StopWaiting, DecideToYield, Yield, Awake, listVars

\* Every action keeps the indices honest, unless it overwrites a slot under a
\* worker.
LEMMA StepHandInv ==
    ASSUME LanesFit
    PROVE  /\ Typed /\ SlotInv /\ KeptInv /\ JobInv /\ HashInv /\ CarryInv
           /\ HandInv /\ [Next]_vars
           => HandInv'
<1> SUFFICES ASSUME Typed, SlotInv, KeptInv, JobInv, HashInv, CarryInv, HandInv,
                    [Next]_vars, ~slotRaced'
             PROVE  \A i \in Slots' : HandedUpTo(i)'
  BY DEF HandInv
<1>1. ~slotRaced /\ ~InsertRest /\ ~ \E late \in SUBSET Fields : InsertSeen(late)
  BY SlotRaceStays DEF KeptInv, InsertSeen, InsertRest
<1>2. JobParts /\ HashParts /\ CarryParts /\ \A i \in Slots : HandedUpTo(i)
  BY <1>1 DEF JobInv, HashInv, CarryInv, HandInv
<1>3. CASE Arrival \/ Shutdown
  BY <1>2, <1>3, MainHandsNone
<1>4. CASE Submit
  BY <1>1, <1>2, <1>4, MainHandsNone, WritingHandsNone DEF Submit
<1>5. CASE \E w \in Workers : WorkerStep(w) \/ SpuriousWake(w)
  BY <1>2, <1>5, WorkersHandUpTo
<1>6. CASE UNCHANGED vars
  BY <1>2, <1>6 DEF vars, listVars, workVars, clientVars, histVars, Slots, HandedUpTo,
     Counting, Written
<1> QED
  BY <1>3, <1>4, <1>5, <1>6 DEF Next, Stopped

----------------------------------------------------------------------------
\* All layers together.
Inv ==
    /\ Typed /\ SlotInv /\ KnowInv
    /\ KeptInv /\ JobInv /\ HashInv /\ CarryInv

\* The layers hold at the start.
LEMMA InitInv == Init => Inv
BY InitTyped, InitSlotInv, InitKnowInv, InitKeptInv, InitJobInv, InitHashInv,
   InitCarryInv DEF Inv

\* Every action keeps the layers.
LEMMA StepInv ==
    ASSUME LanesFit, AnswersCounted
    PROVE  Inv /\ [Next]_vars => Inv'
BY StepTyped, StepSlotInv, StepKnowInv, StepKeptInv, StepJobInv, StepHashInv,
   StepCarryInv DEF Inv

\* A recipient object is used once: no worker sends to a client whose recipient
\* has been closed and freed, however the blocks of the job are claimed and
\* whenever the job is marked as done.
THEOREM RecipientsUsedOnce ==
    ASSUME LanesFit, AnswersCounted
    PROVE  Spec => []RecipientUsedOnce
<1>1. Inv => RecipientUsedOnce
  BY DEF Inv, CarryInv, CarryParts, RecipientUsedOnce
<1> QED
  BY <1>1, InitInv, StepInv, PTL DEF Spec

\* The reference count of a published job is the number of the workers inside
\* it, and one more for good once its client has been answered.
THEOREM RefsAreHeld ==
    ASSUME LanesFit, AnswersCounted, RefsFit
    PROVE  Spec => []RefsHeld
<1>1. ASSUME Inv, RefInv PROVE RefsHeld
  <2> SUFFICES ASSUME ~slotRaced, NEW n \in jobs_r
               PROVE  jobs[n.elem].rc =
                        Cardinality({w \in Workers : Inside(w, n)})
                        + (IF sent[jobs[n.elem].request] = NoAnswer THEN 0 ELSE 1)
    BY DEF RefsHeld
  <2>1. n.elem \in Slots /\ Written(n.elem)
    BY <1>1 DEF Inv, Typed, NodesWritten, Written, Slots
  <2>2. {w \in Workers : Inside(w, n)} = WorkersIn(n.elem)
    BY DEF Inside, WorkersIn
  <2>3. Answered(n.elem) <=> sent[jobs[n.elem].request] # NoAnswer
    BY <1>1, <2>1 DEF Inv, CarryInv, CarryParts, Served, Answered
  <2> QED
    BY <1>1, <2>1, <2>2, <2>3 DEF RefInv, Counted
<1>2. Init => Inv /\ RefInv
  BY InitInv, InitRefInv
<1>3. Inv /\ RefInv /\ [Next]_vars => Inv' /\ RefInv'
  BY StepInv, StepRefInv DEF Inv
<1> QED
  BY <1>1, <1>2, <1>3, PTL DEF Spec

\* The cleanup deletes a job only when every block of its range has been handed
\* out or the job may have been cancelled.
THEOREM DeletedAfterHandout ==
    ASSUME RangesUnaligned, LanesFit, AnswersCounted, RefsFit
    PROVE  Spec => DeletedJobsWereHandedOut
<1> DEFINE All == Inv /\ RefInv /\ HandInv
<1> DEFINE HandedOut(n) ==
        mpc = "cleanup" /\ mpc' = "cleanup" /\ n \notin jobs_w' /\ ~slotRaced =>
            LET c == jobs[n.elem].request
            IN  RangeBlocks(c) \subseteq handed[c] \/ c \in Cancellable
<1>1. ASSUME All, [Next]_vars, NEW n \in jobs_w
      PROVE  HandedOut(n)
  <2> SUFFICES ASSUME mpc = "cleanup", mpc' = "cleanup", n \notin jobs_w', ~slotRaced,
                      jobs[n.elem].request \notin Cancellable
               PROVE  RangeBlocks(jobs[n.elem].request) \subseteq handed[jobs[n.elem].request]
    OBVIOUS
  <2> DEFINE i == n.elem
  <2> DEFINE c == jobs[i].request
  <2>1. Removable(n)
    <3>1. ~ \E w \in Workers : WorkerStep(w) \/ SpuriousWake(w)
      BY WorkersLeaveSlots
    <3>2. ~(Arrival \/ Shutdown)
      BY DEF Arrival, Shutdown, SubmitMiss, SubmitHit, Cancel, Close, CloseWake,
         JoinAndDestroy
    <3>3. ~ UNCHANGED vars
      BY DEF vars, heapVars
    <3>4. \E m \in todo : \E skipped \in SUBSET todo, again \in SUBSET jobs_w :
             CleanupRemove(m, skipped, again)
      BY <1>1, <3>1, <3>2, <3>3 DEF Next, Stopped, Submit, InsertGrow, InsertUnseen,
         InsertSeen, InsertRest, CleanupKeep, Publish, heapVars
    <3> QED
      BY <3>4 DEF CleanupRemove
  <2>2. /\ i \in Slots /\ Written(i) /\ c \in Clients
        /\ jobs[i] \in Jobs /\ jobs[i].block_count = BlockCount(c)
    BY <1>1 DEF Inv, Typed, TypeOK, ListType, NodesWritten, Written, Slots, JobInv,
       JobParts, OneJobEach
  <2>3. jobs[i].rc = 0 /\ jobs[i].block_idx >= BlockCount(c)
    BY <2>1, <2>2 DEF Removable, IsDone
  <2>4. WorkersIn(i) = {} /\ ~Answered(i)
    <3>1. Counted(i)
      BY <1>1, <2>2 DEF RefInv
    <3>2. WorkersIn(i) \in SUBSET Workers
      BY DEF WorkersIn
    <3>3. IsFiniteSet(WorkersIn(i)) /\ Cardinality(WorkersIn(i)) \in Nat
      BY <3>2, CountInside, FS_Subset DEF RefsFit
    <3>4. Cardinality(WorkersIn(i)) = 0 /\ ~Answered(i)
      BY <2>3, <3>1, <3>3 DEF Counted
    <3> QED
      BY <3>3, <3>4, FS_EmptySet
  <2>5. Counting(i)
    <3>1. recipient[c] = "live"
      BY <1>1, <2>2, <2>4 DEF Inv, CarryInv, CarryParts, Served, Answered
    <3> QED
      BY <2>2, <2>4, <3>1 DEF Counting, WorkersIn
  <2>6. \A b \in Nat : b < jobs[i].block_idx => b \in handed[c]
    BY <1>1, <2>2, <2>5 DEF HandInv, HandedUpTo
  <2>7. RangeBlocks(c) \subseteq 0 .. BlockCount(c) - 1
    BY <2>2, RangeBlocksCounted
  <2>8. BlockCount(c) \in Nat /\ jobs[i].block_idx \in Nat
    BY <2>2, BlockCountType DEF Jobs
  <2>9. \A b \in 0 .. BlockCount(c) - 1 : b \in Nat /\ b < jobs[i].block_idx
    BY <2>3, <2>8
  <2> QED
    BY <2>6, <2>7, <2>9
<1>2. Init => All
  BY InitInv, InitRefInv, InitHandInv
<1>3. All /\ [Next]_vars => All'
  BY StepInv, StepRefInv, StepHandInv DEF Inv
<1>4. All /\ [Next]_vars =>
        [\A n \in jobs_w : HandedOut(n)]_vars
  BY <1>1
<1> QED
  BY <1>2, <1>3, <1>4, PTL DEF Spec, DeletedJobsWereHandedOut

----------------------------------------------------------------------------
(* The read-write lock.  What the schedulers take for granted of rlock and *)
(* wlock holds of the lock of spin.c, for any finite set of threads and    *)
(* any mask that the number of threads does not reach.                     *)
(*                                                                         *)
(* MutualExclusion is not inductive: a thread about to exchange knows only *)
(* the value it loaded.  What makes the exchange safe is that the word     *)
(* counts the holders exactly (LockWord), so a word equal to a masked load *)
(* has no writer in it, and a word equal to 0 has nobody in it.            *)

\* The inductive invariant.
LockInv == LockTypeOK /\ LockWord /\ MutualExclusion

----------------------------------------------------------------------------
\* The readers are finitely many and fewer than the mask.
LEMMA ReaderCount ==
    /\ IsFiniteSet(Readers)
    /\ Cardinality(Readers) \in Nat
    /\ Cardinality(Readers) < WriterMask
<1>1. Readers \subseteq Threads
  BY DEF Readers
<1>2. IsFiniteSet(Readers) /\ Cardinality(Readers) <= Cardinality(Threads)
  BY <1>1, FS_Subset, ThreadsFinite
<1>3. Cardinality(Readers) \in Nat /\ Cardinality(Threads) \in Nat
  BY <1>2, FS_CardinalityType, ThreadsFinite
<1> QED
  BY <1>2, <1>3, MaskAssumption

\* A step that moves no thread into or out of a critical section changes
\* neither set of holders.
LEMMA HoldersUnchanged ==
    ASSUME NEW t \in Threads, NEW s, LockTypeOK,
           at[t] \notin {"reading", "writing"},
           s \notin {"reading", "writing"},
           at' = [at EXCEPT ![t] = s]
    PROVE  Readers' = Readers /\ Writers' = Writers
BY DEF Readers, Writers, LockTypeOK

\* A thread that starts to read is added to the readers.
LEMMA ReaderEnters ==
    ASSUME NEW t \in Threads, LockTypeOK, at[t] = "rdcas",
           at' = [at EXCEPT ![t] = "reading"]
    PROVE  /\ Readers' = Readers \cup {t}
           /\ Writers' = Writers
           /\ t \notin Readers
           /\ Cardinality(Readers') = Cardinality(Readers) + 1
<1>1. Readers' = Readers \cup {t} /\ Writers' = Writers /\ t \notin Readers
  BY DEF Readers, Writers, LockTypeOK
<1> QED
  BY <1>1, FS_AddElement, ReaderCount

\* A thread that stops reading is removed from the readers.
LEMMA ReaderLeaves ==
    ASSUME NEW t \in Threads, LockTypeOK, at[t] = "reading",
           at' = [at EXCEPT ![t] = "idle"]
    PROVE  /\ Readers' = Readers \ {t}
           /\ Writers' = Writers
           /\ t \in Readers
           /\ Cardinality(Readers') = Cardinality(Readers) - 1
<1>1. Readers' = Readers \ {t} /\ Writers' = Writers /\ t \in Readers
  BY DEF Readers, Writers, LockTypeOK
<1> QED
  BY <1>1, FS_RemoveElement, ReaderCount

\* With the word at 0 nobody is inside.
LEMMA ZeroIsFree ==
    ASSUME LockWord, lock = 0
    PROVE  Readers = {} /\ Writers = {}
<1>1. Cardinality(Readers) = 0 /\ Writers = {}
  BY ReaderCount, MaskAssumption DEF LockWord
<1> QED
  BY <1>1, ReaderCount, FS_EmptySet

----------------------------------------------------------------------------
\* At the start nobody is inside.
LEMMA LockBegins == LockInit => LockInv
<1> SUFFICES ASSUME LockInit PROVE LockInv
  OBVIOUS
<1>1. WriterMask \in Nat /\ WriterMask > 0
  BY MaskAssumption, FS_CardinalityType, ThreadsFinite
<1>2. Readers = {} /\ Writers = {}
  BY DEF LockInit, Readers, Writers
<1>3. LockTypeOK
  BY <1>1 DEF LockInit, LockTypeOK, Word
<1>4. LockWord
  BY <1>2, FS_EmptySet DEF LockInit, LockWord
<1> QED
  BY <1>2, <1>3, <1>4 DEF LockInv, MutualExclusion

\* Every step of the lock keeps the word equal to the count of its holders.
LEMMA LockStep ==
    ASSUME LockInv, NEW t \in Threads, Step(t)
    PROVE  LockInv'
<1> USE DEF LockInv
<1>m. WriterMask \in Nat /\ WriterMask > 0
  BY MaskAssumption, ReaderCount
<1>1. CASE RdLock(t) \/ RdCasFail(t) \/ WrLock(t)
  <2>1. LockTypeOK'
    BY <1>1 DEF RdLock, RdCasFail, WrLock, LockTypeOK
  <2>2. Readers' = Readers /\ Writers' = Writers
    <3>1. PICK s \in {"rdload", "wrcas"} : at' = [at EXCEPT ![t] = s]
      BY <1>1 DEF RdLock, RdCasFail, WrLock
    <3>2. at[t] \notin {"reading", "writing"}
      BY <1>1 DEF RdLock, RdCasFail, WrLock
    <3> QED
      BY <3>1, <3>2, HoldersUnchanged
  <2> QED
    BY <1>1, <2>1, <2>2 DEF LockWord, MutualExclusion, RdLock, RdCasFail, WrLock
<1>2. CASE RdLoad(t)
  <2>1. ReaderBits(lock) \in 0 .. WriterMask - 1
    BY <1>m DEF ReaderBits, LockTypeOK, Word
  <2>2. LockTypeOK'
    BY <1>2, <2>1 DEF RdLoad, LockTypeOK
  <2>3. Readers' = Readers /\ Writers' = Writers
    BY <1>2, HoldersUnchanged DEF RdLoad
  <2> QED
    BY <1>2, <2>2, <2>3 DEF RdLoad, LockWord, MutualExclusion
<1>3. CASE RdCasOk(t)
  <2>1. Writers = {}
    BY <1>3, ReaderCount, <1>m DEF RdCasOk, LockTypeOK, LockWord
  <2>2. /\ Writers' = Writers
        /\ Cardinality(Readers') = Cardinality(Readers) + 1
    BY <1>3, ReaderEnters DEF RdCasOk
  <2>3. LockTypeOK'
    BY <1>3, <1>m DEF RdCasOk, LockTypeOK, Word
  <2>4. LockWord'
    BY <1>3, <2>1, <2>2, ReaderCount DEF RdCasOk, LockWord
  <2> QED
    BY <2>1, <2>2, <2>3, <2>4 DEF MutualExclusion
<1>4. CASE RdUnlock(t)
  <2>1. /\ Readers' = Readers \ {t}
        /\ Writers' = Writers
        /\ t \in Readers
        /\ Cardinality(Readers') = Cardinality(Readers) - 1
    BY <1>4, ReaderLeaves DEF RdUnlock
  <2>2. Writers = {}
    BY <2>1 DEF MutualExclusion
  <2>3. lock = Cardinality(Readers) /\ lock > 0
    <3>1. Cardinality(Readers) # 0
      BY <2>1, ReaderCount, FS_EmptySet
    <3> QED
      BY <2>2, <3>1, ReaderCount DEF LockWord
  <2>4. lock' = lock - 1
    BY <1>4, <2>3, <1>m, ReaderCount DEF RdUnlock
  <2>5. LockTypeOK'
    BY <1>4, <2>3, <2>4, <1>m DEF RdUnlock, LockTypeOK, Word
  <2> QED
    BY <2>1, <2>2, <2>3, <2>4, <2>5 DEF LockWord, MutualExclusion
<1>5. CASE WrCas(t)
  <2>1. Readers = {} /\ Writers = {}
    BY <1>5, ZeroIsFree DEF WrCas
  <2>2. Readers' = {} /\ Writers' = {t}
    BY <1>5, <2>1 DEF WrCas, Readers, Writers, LockTypeOK
  <2>3. LockTypeOK'
    BY <1>5, <1>m DEF WrCas, LockTypeOK, Word
  <2>4. LockWord'
    BY <1>5, <1>m, <2>2, FS_EmptySet DEF WrCas, LockWord
  <2> QED
    BY <2>2, <2>3, <2>4 DEF MutualExclusion
<1>6. CASE WrUnlock(t)
  <2>1. Writers = {t} /\ Readers = {}
    BY <1>6 DEF WrUnlock, Writers, MutualExclusion
  <2>2. Readers' = {} /\ Writers' = {}
    BY <1>6, <2>1 DEF WrUnlock, Readers, Writers, LockTypeOK
  <2>3. lock = WriterMask
    BY <2>1, <1>m, FS_EmptySet DEF LockWord
  <2>4. lock' = 0
    BY <1>6, <2>3, <1>m DEF WrUnlock, ReaderBits
  <2>5. LockTypeOK'
    BY <1>6, <2>4, <1>m DEF WrUnlock, LockTypeOK, Word
  <2> QED
    BY <2>2, <2>4, <2>5, FS_EmptySet DEF LockWord, MutualExclusion
<1> QED
  BY <1>1, <1>2, <1>3, <1>4, <1>5, <1>6 DEF Step

\* The lock word, the program counters and the loaded values keep their
\* types, the word counts the holders exactly, and holders exclude each
\* other, in every behaviour of the lock.
THEOREM LockInvariance == LockSpec => []LockInv
<1>1. LockInv /\ [LockNext]_lockVars => LockInv'
  <2>1. ASSUME LockInv, LockNext PROVE LockInv'
    BY <2>1, LockStep DEF LockNext
  <2>2. ASSUME LockInv, UNCHANGED lockVars PROVE LockInv'
    BY <2>2 DEF lockVars, LockInv, LockTypeOK, LockWord, MutualExclusion, Readers, Writers
  <2> QED
    BY <2>1, <2>2
<1> QED
  BY LockBegins, <1>1, PTL DEF LockSpec

\* spin.c: a writer is never inside with a reader or with another writer.
THEOREM LockExcludes == LockSpec => []MutualExclusion
BY LockInvariance, PTL DEF LockInv

\* spin.c: the word of the lock is the number of readers inside, plus the
\* writer bit when a writer is inside.
THEOREM LockWordCounts == LockSpec => []LockWord
BY LockInvariance, PTL DEF LockInv

----------------------------------------------------------------------------
\* Every step of the lock is a step of the abstract lock or changes nothing it shows.
LEMMA LockStepRefines ==
    ASSUME LockInv, NEW t \in Threads, Step(t)
    PROVE  Abstract!Next \/ UNCHANGED <<Readers, Writers>>
<1> USE DEF LockInv
<1>1. CASE RdLock(t) \/ RdCasFail(t) \/ WrLock(t) \/ RdLoad(t)
  <2>1. PICK s \in {"rdload", "rdcas", "wrcas"} : at' = [at EXCEPT ![t] = s]
    BY <1>1 DEF RdLock, RdCasFail, WrLock, RdLoad
  <2>2. at[t] \notin {"reading", "writing"}
    BY <1>1 DEF RdLock, RdCasFail, WrLock, RdLoad
  <2> QED
    BY <2>1, <2>2, HoldersUnchanged
<1>2. CASE RdCasOk(t)
  <2>1. Writers = {}
    BY <1>2, ReaderCount, MaskAssumption DEF RdCasOk, LockTypeOK, LockWord
  <2>2. Abstract!AcquireRead(t)
    BY <1>2, <2>1, ReaderEnters DEF RdCasOk, Abstract!AcquireRead
  <2> QED
    BY <2>2 DEF Abstract!Next
<1>3. CASE RdUnlock(t)
  <2>1. Abstract!ReleaseRead(t)
    BY <1>3, ReaderLeaves DEF RdUnlock, Abstract!ReleaseRead
  <2> QED
    BY <2>1 DEF Abstract!Next
<1>4. CASE WrCas(t)
  <2>1. Readers = {} /\ Writers = {}
    BY <1>4, ZeroIsFree DEF WrCas
  <2>2. Readers' = {} /\ Writers' = {t}
    BY <1>4, <2>1 DEF WrCas, Readers, Writers, LockTypeOK
  <2>3. Abstract!AcquireWrite(t)
    BY <2>1, <2>2 DEF Abstract!AcquireWrite
  <2> QED
    BY <2>3 DEF Abstract!Next
<1>5. CASE WrUnlock(t)
  <2>1. Readers' = Readers /\ Writers' = Writers \ {t} /\ t \in Writers
    BY <1>5 DEF WrUnlock, Readers, Writers, LockTypeOK
  <2>2. Abstract!ReleaseWrite(t)
    BY <2>1 DEF Abstract!ReleaseWrite
  <2> QED
    BY <2>2 DEF Abstract!Next
<1> QED
  BY <1>1, <1>2, <1>3, <1>4, <1>5 DEF Step

\* spin.c implements the abstract read-write lock that the schedulers are
\* written against.
THEOREM LockRefinesSpec == LockSpec => RefinesRWLock
<1>1. LockInit => Abstract!Init
  BY DEF LockInit, Readers, Writers, Abstract!Init
<1>2. LockInv /\ [LockNext]_lockVars => [Abstract!Next]_(Abstract!lockVars)
  <2>1. ASSUME LockInv, LockNext PROVE [Abstract!Next]_(Abstract!lockVars)
    BY <2>1, LockStepRefines DEF LockNext, Abstract!lockVars
  <2>2. ASSUME UNCHANGED lockVars PROVE [Abstract!Next]_(Abstract!lockVars)
    BY <2>2 DEF lockVars, Readers, Writers, Abstract!lockVars
  <2> QED
    BY <2>1, <2>2
<1> QED
  BY <1>1, <1>2, LockInvariance, PTL DEF LockSpec, RefinesRWLock, Abstract!Spec
=============================================================================
