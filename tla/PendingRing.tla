----------------------------- MODULE PendingRing -----------------------------
(***************************************************************************)
(* bits/ringbuffer.h, by its loads and stores: the macros that push and    *)
(* pop, and the loop around pop that its two users write (cache.c and      *)
(* sched_rand.c), which empties the ring up to the head it saw first.      *)
(*                                                                         *)
(* One thread at a time pushes and one at a time pops; they run            *)
(* concurrently with each other.  Under that discipline the ring is a      *)
(* bounded queue (FifoSpec).                                               *)
(***************************************************************************)
EXTENDS Integers, Sequences

CONSTANTS
    Values,     \* what is pushed
    NoValue,    \* what calloc leaves in a place, and a local before its use
    Sizes       \* the sizes considered, ringbuffer_init's cap

\* What an instance owes.
RingAssumption == NoValue \notin Values /\ Sizes \subseteq Nat \ {0}

VARIABLES
    (* the struct *)
    size, data, head, tail,
    (* the producer: what it does next, its value *)
    ppc, put,
    (* the consumer: what it does next, the head at which it stops, the
       value it copied *)
    cpc, until, got,
    (* history: the values a full ring has dropped *)
    dropped

ringVars == <<size, data, head, tail, ppc, put, cpc, until, got, dropped>>

Init ==
    /\ size \in Sizes
    /\ data = [i \in 0 .. size - 1 |-> NoValue]
    /\ head = 0
    /\ tail = 0
    /\ ppc = "idle"
    /\ put = NoValue
    /\ cpc = "idle"
    /\ until = 0
    /\ got = NoValue
    /\ dropped = {}

After(i) == (i + 1) % size

Full == After(head) = tail

----------------------------------------------------------------------------
(* ringbuffer_push.  Nobody else moves the head. *)

\* A full ring drops the value, and nobody is told.
PushDropped(v) ==
    /\ ppc = "idle"
    /\ Full
    /\ dropped' = dropped \cup {v}
    /\ UNCHANGED <<size, data, head, tail, ppc, put, cpc, until, got>>

PushCheck(v) ==
    /\ ppc = "idle"
    /\ ~Full
    /\ put' = v
    /\ ppc' = "write"
    /\ UNCHANGED <<size, data, head, tail, cpc, until, got, dropped>>

\* Mutant: the value is written where the head will be.
PushWriteNext ==
    /\ ppc = "write"
    /\ data' = [data EXCEPT ![After(head)] = put]
    /\ ppc' = "publish"
    /\ UNCHANGED <<size, head, tail, put, cpc, until, got, dropped>>

PushWrite ==
    /\ ppc = "write"
    /\ data' = [data EXCEPT ![head] = put]
    /\ ppc' = "publish"
    /\ UNCHANGED <<size, head, tail, put, cpc, until, got, dropped>>

PushPublish ==
    /\ ppc = "publish"
    /\ head' = After(head)
    /\ put' = NoValue
    /\ ppc' = "idle"
    /\ UNCHANGED <<size, data, tail, cpc, until, got, dropped>>

----------------------------------------------------------------------------
(* The loop around ringbuffer_pop.  The test inside the macro, head # tail, *)
(* only repeats the one of the loop: nobody else moves the tail, and the    *)
(* head does not come back to it.                                           *)

DrainStart ==
    /\ cpc = "idle"
    /\ until' = head
    /\ cpc' = "drain"
    /\ UNCHANGED <<size, data, head, tail, ppc, put, got, dropped>>

PopRead ==
    /\ cpc = "drain"
    /\ until # tail
    /\ head # tail
    /\ got' = data[tail]
    /\ cpc' = "store"
    /\ UNCHANGED <<size, data, head, tail, ppc, put, until, dropped>>

PopStore ==
    /\ cpc = "store"
    /\ tail' = After(tail)
    /\ got' = NoValue
    /\ cpc' = "drain"
    /\ UNCHANGED <<size, data, head, ppc, put, until, dropped>>

DrainEnd ==
    /\ cpc = "drain"
    /\ until = tail
    /\ until' = 0
    /\ cpc' = "idle"
    /\ UNCHANGED <<size, data, head, tail, ppc, put, got, dropped>>

Producer == (\E v \in Values : PushDropped(v) \/ PushCheck(v)) \/ PushWrite \/ PushPublish

Consumer == DrainStart \/ PopRead \/ PopStore \/ DrainEnd

Next == Producer \/ Consumer

Spec == Init /\ [][Next]_ringVars

----------------------------------------------------------------------------
\* The number of values from the tail to the head.
Count == (head - tail) % size

\* The values a reader would pop, oldest first, without the one being popped.
Contents ==
    LET all == [i \in 1 .. Count |-> data[(tail + i - 1) % size]]
    IN  IF cpc = "store" THEN Tail(all) ELSE all

\* The ring is a queue of size - 1 places: values come out once, in the order
\* in which they went in, and only a ring whose places are all taken drops
\* one.  The head is stored after the value and the tail after the copy, so
\* that neither thread touches a place the other still uses.
Fifo == INSTANCE FifoSpec WITH
            capacity <- size - 1,
            queue    <- Contents,
            taken    <- got,
            refused  <- dropped

RefinesFifo == Fifo!Spec
=============================================================================
