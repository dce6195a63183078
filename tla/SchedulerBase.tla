---------------------------- MODULE SchedulerBase ----------------------------
(***************************************************************************)
(* scheduler/scheduler.c, cache.c and the call of REVERSE_FUNC: what the   *)
(* three schedulers share.  SchedulerBase has no next-state relation; the  *)
(* schedulers extend it, and their actions contain the operators below.    *)
(*                                                                         *)
(* Abstractions: a hash is its (unique) preimage; a recipient is the       *)
(* client it answers; the pending ring of the cache is the set of entries  *)
(* in it (PendingRing has a ring by its loads and stores).                 *)
(***************************************************************************)
EXTENDS Integers, Sequences, FiniteSets

CONSTANTS
    Workers,
    Clients,        \* one request each
    Request,        \* Request[c]: [start, end, hash, priority]
    LANES,          \* candidates REVERSE_FUNC hashes at once, 4 in the code
    WakerTypes,     \* the builds considered, by SCHEDULER_WAKER_TYPE
    NoClient        \* a NULL recipient

Requests == [start : Nat, end : Nat, hash : Nat, priority : Nat]

ASSUME RequestAssumption ==
    /\ Request \in [Clients -> Requests]
    /\ \A c \in Clients : Request[c].start <= Request[c].end
    /\ NoClient \notin Clients

ASSUME LanesAssumption == LANES \in Nat \ {0}

ASSUME WakerAssumption == WakerTypes \subseteq {"SPIN", "FUTEX", "PTHREAD"}

NoAnswer == 0   \* SCHEDULER_NO_ANSWER_SENTINEL

VARIABLES
    (* struct SchedulerBase *)
    waker_type, waker, running, job_id,
    (* where each worker is *)
    pc,
    (* the cache: its tree, its pending ring and the pushes in flight *)
    tree, pending, racing,
    (* the clients: their recipient object and the answer sent to them *)
    recipient, sent,
    (* history: have two pushes overlapped; has a freed recipient been used *)
    ringRaced, usedFreed

baseVars   == <<waker_type, waker, running, job_id>>
cacheVars  == <<tree, pending, racing>>
clientVars == <<recipient, sent>>

\* scheduler_base_init and cache_create.
BaseInit ==
    /\ waker_type \in WakerTypes
    /\ waker = 0
    /\ running = TRUE
    /\ job_id = 0
    /\ tree = {}
    /\ pending = {}
    /\ racing = {}
    /\ recipient = [c \in Clients |-> "none"]
    /\ sent = [c \in Clients |-> NoAnswer]
    /\ ringRaced = FALSE
    /\ usedFreed = FALSE

Goto(w, label) == pc' = [pc EXCEPT ![w] = label]

----------------------------------------------------------------------------
(* The search. *)

\* The candidates that REVERSE_FUNC hashes: whole groups of LANES, the first
\* one before `end` is looked at.
Searched(start, end) ==
    LET groups == IF end < start THEN 1 ELSE (end - start) \div LANES + 1
    IN  start .. start + groups * LANES - 1

Reverse(start, end, hash) ==
    IF hash \in Searched(start, end) THEN hash ELSE NoAnswer

----------------------------------------------------------------------------
(* scheduler_job_notify_recipient: send, close, free.  Using a recipient   *)
(* that is already freed is undefined; it is recorded and sends nothing.   *)

Notify(c, answer) ==
    IF recipient[c] = "live"
    THEN /\ sent' = [sent EXCEPT ![c] = answer]
         /\ recipient' = [recipient EXCEPT ![c] = "freed"]
         /\ UNCHANGED usedFreed
    ELSE /\ usedFreed' = TRUE
         /\ UNCHANGED <<sent, recipient>>

----------------------------------------------------------------------------
(* The wakers. *)

\* Mutant: futex_wake does not set the word before the system call.
WakeWorkersNoFlag ==
    /\ waker' = waker
    /\ pc' = pc

\* scheduler_wake_workers, for the three kinds of waker.
WakeWorkers ==
    /\ waker' = CASE waker_type = "SPIN"    -> 0
                  [] waker_type = "FUTEX"   -> 1
                  [] waker_type = "PTHREAD" -> waker
    /\ pc' = IF waker_type = "PTHREAD"
             THEN [w \in Workers |-> IF pc[w] = "asleep" THEN "wait" ELSE pc[w]]
             ELSE pc

\* What a worker looks at that spins from `position`, or waits on the futex.
SeesWakeFrom(position) ==
    \/ waker_type = "SPIN" /\ waker <= position
    \/ waker_type = "FUTEX" /\ waker # 0

----------------------------------------------------------------------------
(* The cache. *)

\* cache_process_pending: what the workers pushed goes to the tree.
ProcessPending ==
    /\ tree' = tree \cup pending
    /\ pending' = {}

Cached(hash) == \E entry \in tree \cup pending : entry.key = hash

\* A lookup after cache_process_pending finds an entry: it is sent at once.
AnswerFromCache(c, entry) ==
    /\ recipient[c] = "none"
    /\ entry \in tree \cup pending
    /\ entry.key = Request[c].hash
    /\ ProcessPending
    /\ sent' = [sent EXCEPT ![c] = entry.value]
    /\ recipient' = [recipient EXCEPT ![c] = "freed"]

\* The lookup finds nothing: the recipient waits for a worker.
MissCache(c) ==
    /\ recipient[c] = "none"
    /\ ~Cached(Request[c].hash)
    /\ ProcessPending
    /\ recipient' = [recipient EXCEPT ![c] = "live"]

OtherPushes(w) == {v \in Workers \ {w} : pc[v] = "cache"}

\* ringbuffer_push, alone, appends the entry.
Push(w, entry) ==
    /\ racing = {entry}
    /\ pending' = pending \cup {entry}
    /\ racing' = IF OtherPushes(w) = {} THEN {} ELSE racing

\* Two pushes that overlap write the same place and move the head from the
\* same value: entries are lost, and one may mix the key of one with the
\* value of the other.
PushRaced(w, entry, lost, k, v) ==
    /\ racing # {entry}
    /\ lost \subseteq racing
    /\ k \in racing
    /\ v \in racing
    /\ pending' = (pending \ lost) \cup {[key |-> k.key, value |-> v.value]}
    /\ racing' = IF OtherPushes(w) = {} THEN {} ELSE racing
    /\ ringRaced' = TRUE

\* cache_insert_pending, alone or together with the other pushes in flight.
InsertPending(w, entry) ==
    \/ Push(w, entry) /\ UNCHANGED ringRaced
    \/ \E lost \in SUBSET racing : \E k, v \in racing :
          PushRaced(w, entry, lost, k, v)

----------------------------------------------------------------------------
Entries == [key : Nat, value : Nat]

BaseType ==
    /\ waker_type \in WakerTypes /\ waker \in Nat
    /\ running \in BOOLEAN /\ job_id \in Nat

CacheType ==
    /\ tree \subseteq Entries
    /\ pending \subseteq Entries
    /\ racing \subseteq Entries

\* A request that has an answer in its range.  0 is the sentinel of "none".
Solvable(c) ==
    Request[c].hash \in (Request[c].start .. Request[c].end) \ {NoAnswer}
=============================================================================
