------------------------- MODULE RandSchedulerProofs -------------------------
(***************************************************************************)
(* What holds of sched_rand.c for any workers, requests, sizes and wakers. *)
(* The ring of pending jobs is a queue: main pushes one job at a time, and *)
(* each drain is inside the mutex, which makes the workers one consumer;   *)
(* so the ring runs as PendingRing does.  A job is in one place, so no     *)
(* candidate is lost and only one that two tasks share is answered twice;  *)
(* and the cursor stays at a job of the list.                              *)
(***************************************************************************)
EXTENDS RandScheduler, FiniteSetTheorems, SequenceTheorems, WellFoundedInduction, TLAPS

(***************************************************************************)
(* The ring of pending jobs.  The ring of ringbuffer.h is a bounded queue,  *)
(* for every size and every set of clients: one thread pushes, one pops,    *)
(* and they overlap freely.                                                 *)
(***************************************************************************)

\* Remainders of what the macros add and subtract, without the operator.
LEMMA Remainders ==
    ASSUME NEW s \in Nat \ {0}, NEW x \in 0 .. s - 1
    PROVE  /\ x % s = x
           /\ (x + s) % s = x
           /\ (x - s) % s = x
  <1>1. x % s = x
    BY SMT
  <1>2. (x + s) % s = x
    BY SMT
  <1>3. (x - s) % s = x
    BY SMT
  <1> QED
    BY <1>1, <1>2, <1>3

\* The next place, and how far a place b lies behind a place a.
Next1(s, a) == IF a + 1 = s THEN 0 ELSE a + 1
Ahead(s, a, b) == IF a >= b THEN a - b ELSE a - b + s
Nth(s, a, k) == IF a + k < s THEN a + k ELSE a + k - s

\* ringbuffer_push and ringbuffer_pop move head and tail to the next place.
LEMMA NextPlace ==
    ASSUME NEW s \in Nat \ {0}, NEW a \in 0 .. s - 1
    PROVE  (a + 1) % s = Next1(s, a)
  <1>1. CASE a + 1 = s
    <2>1. (0 + s) % s = 0
      BY Remainders
    <2> QED
      BY <1>1, <2>1 DEF Next1
  <1>2. CASE a + 1 # s
    <2>1. (a + 1) % s = a + 1
      BY <1>2, Remainders
    <2> QED
      BY <1>2, <2>1 DEF Next1
  <1> QED
    BY <1>1, <1>2

\* How many places lie from the tail to the head.
LEMMA Distance ==
    ASSUME NEW s \in Nat \ {0}, NEW a \in 0 .. s - 1, NEW b \in 0 .. s - 1
    PROVE  (a - b) % s = Ahead(s, a, b)
  <1>1. CASE a >= b
    <2>1. (a - b) % s = a - b
      BY <1>1, Remainders
    <2> QED
      BY <1>1, <2>1 DEF Ahead
  <1>2. CASE ~(a >= b)
    <2> DEFINE x == a - b + s
    <2>1. x \in 0 .. s - 1
      BY <1>2
    <2>2. (x - s) % s = x
      BY <2>1, Remainders
    <2>3. x - s = a - b
      OBVIOUS
    <2> QED
      BY <1>2, <2>2, <2>3 DEF Ahead
  <1> QED
    BY <1>1, <1>2

\* The place that is k after another, around the array.
LEMMA NthPlace ==
    ASSUME NEW s \in Nat \ {0}, NEW a \in 0 .. s - 1, NEW k \in 0 .. s - 1
    PROVE  (a + k) % s = Nth(s, a, k)
  <1>1. CASE a + k < s
    <2>1. (a + k) % s = a + k
      BY <1>1, Remainders
    <2> QED
      BY <1>1, <2>1 DEF Nth
  <1>2. CASE ~(a + k < s)
    <2> DEFINE x == a + k - s
    <2>1. x \in 0 .. s - 1
      BY <1>2
    <2>2. (x + s) % s = x
      BY <2>1, Remainders
    <2>3. x + s = a + k
      OBVIOUS
    <2> QED
      BY <1>2, <2>2, <2>3 DEF Nth
  <1> QED
    BY <1>1, <1>2

\* Moving the tail towards a place brings it one closer, and the places from
\* the tail on keep their order.
LEMMA TailMoves ==
    ASSUME NEW s \in Nat \ {0}, NEW a \in 0 .. s - 1, NEW b \in 0 .. s - 1, a # b
    PROVE  /\ Ahead(s, a, b) \in 1 .. s - 1
           /\ Ahead(s, a, Next1(s, b)) = Ahead(s, a, b) - 1
           /\ \A k \in 0 .. s - 2 : Nth(s, Next1(s, b), k) = Nth(s, b, k + 1)
  <1>1. CASE b + 1 = s
    BY <1>1, SMT DEF Ahead, Next1, Nth
  <1>2. CASE b + 1 # s
    BY <1>2, SMT DEF Ahead, Next1, Nth
  <1> QED
    BY <1>1, <1>2

----------------------------------------------------------------------------
(* The inductive invariant. *)

RingPlaces == 0 .. size - 1

\* The types, the value in the producer's hands, ...
RingType ==
    /\ size \in Nat \ {0}
    /\ data \in [RingPlaces -> Clients \cup {NoClient}]
    /\ head \in RingPlaces /\ tail \in RingPlaces /\ until \in RingPlaces
    /\ ppc \in {"idle", "write", "publish"}
    /\ cpc \in {"idle", "drain", "store"}

\* ... a place that stays free for it and holds it before the head moves, ...
PushInv ==
    /\ ppc # "idle" => put \in Clients /\ ~Ring!Full
    /\ ppc = "publish" => data[head] = put

\* ... a consumer that stops at or before the head, ...
DrainInv ==
    /\ cpc # "idle" => Ahead(size, until, tail) <= Ahead(size, head, tail)
    /\ cpc = "store" => until # tail /\ got = data[tail]
    /\ cpc # "store" => got = NoClient

\* ... and nothing but values from the tail to the head.
StoredInv ==
    \A k \in RingPlaces : k < Ahead(size, head, tail) => data[Nth(size, tail, k)] \in Clients

RingInv == RingType /\ PushInv /\ DrainInv /\ StoredInv

\* The operators of the module at a state of the right type.
LEMMA RingOps ==
    ASSUME RingType
    PROVE  /\ \A i \in RingPlaces : Ring!After(i) = Next1(size, i) /\ Ring!After(i) \in RingPlaces
           /\ Ring!Full <=> Next1(size, head) = tail
           /\ Ring!Count = Ahead(size, head, tail)
           /\ \A k \in RingPlaces : (tail + k) % size = Nth(size, tail, k)
  <1> USE DEF RingType, RingPlaces
  <1>1. \A i \in RingPlaces : Ring!After(i) = Next1(size, i) /\ Ring!After(i) \in RingPlaces
    BY NextPlace DEF Ring!After, Next1
  <1>2. Ring!Count = Ahead(size, head, tail)
    BY Distance DEF Ring!Count
  <1>3. \A k \in RingPlaces : (tail + k) % size = Nth(size, tail, k)
    BY NthPlace
  <1> QED
    BY <1>1, <1>2, <1>3 DEF Ring!Full

\* ringbuffer_init leaves an empty ring.
LEMMA InitRing ==
    ASSUME Ring!RingAssumption, Ring!Init
    PROVE  RingInv
  <1> USE DEF Ring!RingAssumption, Ring!Init, RingPlaces
  <1>1. RingType
    BY DEF RingType
  <1>2. Ahead(size, head, tail) = 0
    BY DEF Ahead
  <1> QED
    BY <1>1, <1>2 DEF RingInv, PushInv, DrainInv, StoredInv

\* Each load and store of ringbuffer_push and of the loop around
\* ringbuffer_pop keeps the invariant.
LEMMA RingStep ==
    ASSUME Ring!RingAssumption, RingInv, [Ring!Next]_ringVars
    PROVE  RingInv'
  <1> USE DEF RingInv, RingType, RingPlaces
  <1>0. /\ \A i \in RingPlaces : Ring!After(i) = Next1(size, i) /\ Ring!After(i) \in RingPlaces
        /\ Ring!Full <=> Next1(size, head) = tail
    BY RingOps
  <1>1. ASSUME NEW v \in Clients, Ring!PushDropped(v) PROVE RingInv'
    BY <1>1 DEF Ring!PushDropped, PushInv, DrainInv, StoredInv, Ring!Full, Ring!After
  <1>2. ASSUME NEW v \in Clients, Ring!PushCheck(v) PROVE RingInv'
    BY <1>2 DEF Ring!PushCheck, PushInv, DrainInv, StoredInv, Ring!Full, Ring!After
  <1>3. CASE Ring!PushWrite
    <2>1. RingType'
      BY <1>3 DEF Ring!PushWrite, PushInv
    <2>2. PushInv'
      BY <1>3 DEF Ring!PushWrite, PushInv, Ring!Full, Ring!After
    <2>3. \A k \in RingPlaces :
             k < Ahead(size, head, tail) => Nth(size, tail, k) \in RingPlaces \ {head}
      BY DEF Ahead, Nth
    <2>4. DrainInv'
      BY <1>3 DEF Ring!PushWrite, DrainInv, Ahead
    <2>5. StoredInv'
      BY <1>3, <2>3 DEF Ring!PushWrite, StoredInv
    <2> QED
      BY <2>1, <2>2, <2>4, <2>5
  <1>4. CASE Ring!PushPublish
    <2> USE <1>4 DEF Ring!PushPublish
    <2>0. Next1(size, head) # tail
      BY <1>0 DEF PushInv
    <2>1. RingType'
      BY <1>0
    <2>2. PushInv'
      BY DEF PushInv
    <2>a. head' = Next1(size, head)
      BY <1>0
    <2>3. Ahead(size, head', tail) = Ahead(size, head, tail) + 1
      BY <2>0, <2>a DEF Ahead, Next1
    <2>4. DrainInv'
      BY <2>3 DEF DrainInv, Ahead
    <2>5. Nth(size, tail, Ahead(size, head, tail)) = head
      BY DEF Nth, Ahead
    <2>6. \A k \in RingPlaces :
             k < Ahead(size, head', tail) => data[Nth(size, tail, k)] \in Clients
      BY <2>3, <2>5 DEF StoredInv, PushInv, Ahead
    <2> QED
      BY <2>1, <2>2, <2>4, <2>6 DEF StoredInv
  <1>5. CASE Ring!DrainStart
    <2>1. DrainInv'
      BY <1>5 DEF Ring!DrainStart, DrainInv, Ahead
    <2> QED
      BY <1>5, <2>1 DEF Ring!DrainStart, PushInv, StoredInv, Ring!Full, Ring!After
  <1>6. CASE Ring!PopRead
    BY <1>6 DEF Ring!PopRead, PushInv, DrainInv, StoredInv, Ring!Full, Ring!After
  <1>7. CASE Ring!PopStore
    <2> USE <1>7 DEF Ring!PopStore
    <2>1. RingType'
      BY <1>0
    <2>2. until # tail /\ head # tail
      BY DEF DrainInv, Ahead
    <2>3. tail' = Next1(size, tail)
      BY <1>0
    <2>4. /\ Ahead(size, head, tail) \in 1 .. size - 1
          /\ Ahead(size, head, tail') = Ahead(size, head, tail) - 1
          /\ Ahead(size, until, tail') = Ahead(size, until, tail) - 1
          /\ \A k \in 0 .. size - 2 : Nth(size, tail', k) = Nth(size, tail, k + 1)
      BY <2>2, <2>3, TailMoves
    <2>8. DrainInv'
      BY <2>4 DEF DrainInv, Ahead
    <2>5. PushInv'
      <3>1. Next1(size, head) # tail => Next1(size, head) # Next1(size, tail)
        BY <2>2 DEF Next1
      <3>2. Ring!Full' <=> Next1(size, head) = tail'
        BY <1>0 DEF Ring!Full, Ring!After
      <3> QED
        BY <1>0, <3>1, <3>2 DEF PushInv
    <2>6. \A k \in RingPlaces :
             /\ k < Ahead(size, head, tail')
             => /\ k + 1 \in RingPlaces
                /\ k + 1 < Ahead(size, head, tail)
                /\ Nth(size, tail', k) = Nth(size, tail, k + 1)
      BY <2>4
    <2>7. StoredInv'
      BY <2>6 DEF StoredInv
    <2> QED
      BY <2>1, <2>5, <2>7, <2>8
  <1>8. CASE Ring!DrainEnd
    BY <1>8 DEF Ring!DrainEnd, PushInv, DrainInv, StoredInv, Ring!Full, Ring!After
  <1>9. CASE UNCHANGED ringVars
    BY <1>9 DEF ringVars, PushInv, DrainInv, StoredInv, Ring!Full, Ring!After
  <1> QED
    BY <1>1, <1>2, <1>3, <1>4, <1>5, <1>6, <1>7, <1>8, <1>9
       DEF Ring!Next, Ring!Producer, Ring!Consumer

----------------------------------------------------------------------------
(* The refinement. *)

\* The values from the tail to the head, as RingInv speaks of them.
From(s, h, t, d) == [i \in 1 .. Ahead(s, h, t) |-> d[Nth(s, t, i - 1)]]

\* The same list, written with the remainders of the macros.
LEMMA Listing ==
    ASSUME NEW s \in Nat \ {0}, NEW h \in 0 .. s - 1, NEW t \in 0 .. s - 1, NEW d
    PROVE  [i \in 1 .. (h - t) % s |-> d[(t + i - 1) % s]] = From(s, h, t, d)
  <1>1. (h - t) % s = Ahead(s, h, t) /\ Ahead(s, h, t) \in 0 .. s - 1
    BY Distance DEF Ahead
  <1>2. \A i \in 1 .. Ahead(s, h, t) : (t + i - 1) % s = Nth(s, t, i - 1)
    <2> TAKE i \in 1 .. Ahead(s, h, t)
    <2>1. i - 1 \in 0 .. s - 1 /\ t + i - 1 = t + (i - 1)
      BY <1>1
    <2> QED
      BY <2>1, NthPlace
  <1> QED
    BY <1>1, <1>2 DEF From

\* What is from the tail on is a sequence of values, and the abstract queue is
\* it, or its tail while its first value is being copied out.
LEMMA QueueIs ==
    ASSUME RingInv
    PROVE  /\ From(size, head, tail, data) \in Seq(Clients)
           /\ Len(From(size, head, tail, data)) = Ahead(size, head, tail)
           /\ Ring!Contents = IF cpc = "store" THEN Tail(From(size, head, tail, data))
                         ELSE From(size, head, tail, data)
  <1> USE DEF RingInv, RingType, RingPlaces
  <1>1. Ahead(size, head, tail) \in 0 .. size - 1
    BY DEF Ahead
  <1>2. \A i \in 1 .. Ahead(size, head, tail) :
           data[Nth(size, tail, i - 1)] \in Clients
    <2> TAKE i \in 1 .. Ahead(size, head, tail)
    <2>1. i - 1 \in RingPlaces /\ i - 1 < Ahead(size, head, tail)
      BY <1>1
    <2> QED
      BY <2>1 DEF StoredInv
  <1>3. From(size, head, tail, data) \in [1 .. Ahead(size, head, tail) -> Clients]
    BY <1>2 DEF From
  <1>4. Ring!Contents = IF cpc = "store" THEN Tail(From(size, head, tail, data))
                   ELSE From(size, head, tail, data)
    BY Listing DEF Ring!Contents, Ring!Count
  <1> QED
    BY <1>1, <1>3, <1>4

\* The same one step later.
LEMMA QueueIsNext ==
    ASSUME RingInv'
    PROVE  Ring!Contents' = IF cpc' = "store" THEN Tail(From(size', head', tail', data'))
                       ELSE From(size', head', tail', data')
  BY Listing DEF Ring!Contents, Ring!Count, RingInv, RingType, RingPlaces

\* An empty ring is an empty queue.
LEMMA InitRefines ==
    ASSUME Ring!RingAssumption, Ring!Init
    PROVE  Ring!Fifo!Init
  <1>1. RingInv
    BY InitRing
  <1>2. Ahead(size, head, tail) = 0
    BY DEF Ring!Init, Ring!RingAssumption, Ahead
  <1>3. Ring!Contents = From(size, head, tail, data)
    BY <1>1, QueueIs DEF Ring!Init
  <1>4. Ring!Contents = <<>>
    BY <1>2, <1>3 DEF From
  <1> QED
    BY <1>4 DEF Ring!Fifo!Init, Ring!Init, Ring!RingAssumption

\* The first element of a sequence, and the rest as a function.
LEMMA HeadAndTail ==
    ASSUME NEW V, NEW q \in Seq(V), Len(q) > 0
    PROVE  /\ Head(q) = q[1]
           /\ Tail(q) = [i \in 1 .. Len(q) - 1 |-> q[i + 1]]
  <1>0. q # <<>>
    OBVIOUS
  <1>1. /\ Head(q) = q[1]
        /\ Tail(q) \in Seq(V) /\ Len(Tail(q)) = Len(q) - 1
        /\ \A i \in 1 .. Len(Tail(q)) : Tail(q)[i] = q[i + 1]
    <2>1. /\ Tail(q) \in Seq(V) /\ Len(Tail(q)) = Len(q) - 1
          /\ \A i \in 1 .. Len(Tail(q)) : Tail(q)[i] = q[i + 1]
      BY <1>0, HeadTailProperties
    <2>2. Head(q) = q[1]
      OBVIOUS
    <2> QED
      BY <2>1, <2>2
  <1> DEFINE n == Len(q) - 1
             t == [i \in 1 .. n |-> q[i + 1]]
  <1>2. n \in Nat
    OBVIOUS
  <1>3. \A i \in 1 .. n : q[i + 1] \in V
    <2> TAKE i \in 1 .. n
    <2>1. i + 1 \in 1 .. Len(q)
      OBVIOUS
    <2> QED
      BY <2>1, ElementOfSeq
  <1>4. t \in [1 .. n -> V]
    BY <1>3
  <1>5. t \in Seq(V) /\ Len(t) = n
    <2> HIDE DEF n, t
    <2> QED
      BY <1>2, <1>4
  <1>6. \A i \in 1 .. Len(Tail(q)) : Tail(q)[i] = t[i]
    BY <1>1
  <1>7. Tail(q) = t
    <2> HIDE DEF t
    <2> QED
      BY <1>1, <1>5, <1>6, SeqEqual
  <1> QED
    BY <1>1, <1>7

\* What each step of ringbuffer_push and of the loop around ringbuffer_pop does
\* to the queue: only moving the head adds the value, and only the copy of a
\* value takes it out, before its place is free.
LEMMA QueueSteps ==
    ASSUME Ring!RingAssumption, RingInv, [Ring!Next]_ringVars
    PROVE  /\ Ring!Contents \in Seq(Clients)
           /\ cpc = "store" => got \in Clients
           /\ cpc # "store" => got = NoClient
           /\ Ring!PushPublish => put \in Clients /\ Ring!Contents' = Append(Ring!Contents, put)
           /\ Ring!PopRead => /\ Ring!Contents # <<>>
                         /\ got = NoClient
                         /\ got' = Head(Ring!Contents)
                         /\ Ring!Contents' = Tail(Ring!Contents)
           /\ Ring!PushPublish \/ Ring!PopRead \/ Ring!Contents' = Ring!Contents
  <1> DEFINE all == From(size, head, tail, data)
  <1>a. /\ all \in Seq(Clients)
        /\ Len(all) = Ahead(size, head, tail)
        /\ Ring!Contents = IF cpc = "store" THEN Tail(all) ELSE all
    BY QueueIs
  <1>b. RingInv'
    BY RingStep
  <1>c. Ring!Contents' = IF cpc' = "store" THEN Tail(all') ELSE all'
    BY <1>b, QueueIsNext
  <1>d. /\ \A i \in RingPlaces : Ring!After(i) = Next1(size, i) /\ Ring!After(i) \in RingPlaces
        /\ Ring!Full <=> Next1(size, head) = tail
    BY RingOps DEF RingInv
  <1>e. /\ size \in Nat \ {0} /\ head \in RingPlaces /\ tail \in RingPlaces
        /\ until \in RingPlaces
    BY DEF RingInv, RingType
  <1>f. cpc = "store" => Len(all) > 0 /\ got \in Clients /\ got # NoClient
    <2> HAVE cpc = "store"
    <2>1. until # tail /\ got = data[tail]
      BY DEF RingInv, DrainInv
    <2>2. Len(all) > 0
      BY <1>a, <1>e, <2>1 DEF RingInv, DrainInv, Ahead, RingPlaces
    <2>3. Nth(size, tail, 0) = tail
      BY <1>e DEF Nth, RingPlaces
    <2>4. data[tail] \in Clients
      BY <1>a, <1>e, <2>2, <2>3 DEF RingInv, StoredInv, RingPlaces
    <2> QED
      BY <2>1, <2>2, <2>4 DEF Ring!RingAssumption
  <1>g. cpc # "store" => got = NoClient
    BY DEF RingInv, DrainInv
  <1>h. Ring!Contents \in Seq(Clients)
    <2>1. CASE cpc = "store"
      <3>1. Tail(all) \in Seq(Clients)
        BY <1>a, <1>f, <2>1
      <3> QED
        BY <1>a, <2>1, <3>1
    <2>2. CASE cpc # "store"
      BY <1>a, <2>2
    <2> QED
      BY <2>1, <2>2
  <1>1. ASSUME NEW v \in Clients, Ring!PushDropped(v) PROVE Ring!Contents' = Ring!Contents
    BY <1>1, <1>a, <1>c DEF Ring!PushDropped
  <1>2. ASSUME NEW v \in Clients, Ring!PushCheck(v) PROVE Ring!Contents' = Ring!Contents
    BY <1>2, <1>a, <1>c DEF Ring!PushCheck
  <1>3. ASSUME Ring!PushWrite PROVE Ring!Contents' = Ring!Contents
    <2>1. \A k \in RingPlaces : k < Ahead(size, head, tail) => Nth(size, tail, k) # head
      BY <1>e DEF Ahead, Nth, RingPlaces
    <2>2. \A i \in 1 .. Ahead(size, head, tail) : Nth(size, tail, i - 1) # head
      BY <1>e, <2>1 DEF Ahead, RingPlaces
    <2>3. all' = all
      BY <1>3, <1>e, <2>2 DEF Ring!PushWrite, From, RingInv, RingType, Ahead, Nth, RingPlaces
    <2> QED
      BY <1>3, <1>a, <1>c, <2>3 DEF Ring!PushWrite
  <1>4. ASSUME Ring!PushPublish
        PROVE  put \in Clients /\ Ring!Contents' = Append(Ring!Contents, put)
    <2> USE <1>4 DEF Ring!PushPublish
    <2>1. put \in Clients /\ data[head] = put /\ Next1(size, head) # tail
      BY <1>d DEF RingInv, PushInv
    <2>2. Ahead(size, head', tail) = Ahead(size, head, tail) + 1
      BY <1>d, <1>e, <2>1 DEF Ahead, Next1, RingPlaces
    <2>3. Nth(size, tail, Ahead(size, head, tail)) = head
      BY <1>e DEF Nth, Ahead, RingPlaces
    <2>4. all' = Append(all, put)
      BY <1>a, <1>e, <2>1, <2>2, <2>3 DEF From, Ahead, RingPlaces
    <2> QED
      BY <1>a, <1>c, <1>f, <2>1, <2>4
  <1>5. ASSUME Ring!DrainStart PROVE Ring!Contents' = Ring!Contents
    BY <1>5, <1>a, <1>c DEF Ring!DrainStart
  <1>6. ASSUME Ring!PopRead
        PROVE  /\ Ring!Contents # <<>>
               /\ got = NoClient
               /\ got' = Head(Ring!Contents)
               /\ Ring!Contents' = Tail(Ring!Contents)
    <2> USE <1>6 DEF Ring!PopRead
    <2>1. got = NoClient /\ Ring!Contents = all /\ Len(all) > 0
      BY <1>a, <1>e DEF RingInv, DrainInv, Ahead, RingPlaces
    <2>2. Head(all) = data[tail]
      <3>1. Nth(size, tail, 1 - 1) = tail /\ 1 \in 1 .. Ahead(size, head, tail)
        BY <1>a, <1>e, <2>1 DEF Nth, RingPlaces, Ahead
      <3>2. all[1] = data[tail]
        BY <3>1 DEF From
      <3> QED
        BY <1>a, <2>1, <3>2, HeadAndTail
    <2>3. Ring!Contents' = Tail(Ring!Contents)
      BY <1>c, <2>1
    <2> QED
      BY <1>a, <2>1, <2>2, <2>3
  <1>7. ASSUME Ring!PopStore PROVE Ring!Contents' = Ring!Contents
    <2> USE <1>7 DEF Ring!PopStore
    <2>1. Ring!Contents = Tail(all) /\ Len(all) > 0
      BY <1>a, <1>f
    <2>2. head # tail
      BY <1>a, <1>e, <2>1 DEF Ahead, RingPlaces
    <2>3. tail' = Next1(size, tail)
      BY <1>d, <1>e
    <2>4. /\ Ahead(size, head, tail) \in 1 .. size - 1
          /\ Ahead(size, head, tail') = Ahead(size, head, tail) - 1
          /\ \A k \in 0 .. size - 2 : Nth(size, tail', k) = Nth(size, tail, k + 1)
      BY <1>e, <2>2, <2>3, TailMoves DEF RingPlaces
    <2>5. all' = Tail(all)
      <3>1. all' = [i \in 1 .. Len(all) - 1 |-> data[Nth(size, tail', i - 1)]]
        BY <1>a, <2>4 DEF From
      <3>2. \A i \in 1 .. Len(all) - 1 :
               data[Nth(size, tail', i - 1)] = all[i + 1]
        <4> TAKE i \in 1 .. Len(all) - 1
        <4>1. i - 1 \in 0 .. size - 2 /\ i + 1 \in 1 .. Ahead(size, head, tail)
              /\ (i - 1) + 1 = (i + 1) - 1
          BY <1>a, <1>e, <2>4
        <4> QED
          BY <2>4, <4>1 DEF From
      <3>3. Tail(all) = [i \in 1 .. Len(all) - 1 |-> all[i + 1]]
        BY <1>a, <2>1, HeadAndTail
      <3> QED
        BY <3>1, <3>2, <3>3
    <2> QED
      BY <1>c, <2>1, <2>5
  <1>8. ASSUME Ring!DrainEnd PROVE Ring!Contents' = Ring!Contents
    BY <1>8, <1>a, <1>c DEF Ring!DrainEnd
  <1>9. ASSUME UNCHANGED ringVars PROVE Ring!Contents' = Ring!Contents
    BY <1>9, <1>a, <1>c DEF ringVars
  <1>10. Ring!PushPublish \/ Ring!PopRead \/ Ring!Contents' = Ring!Contents
    BY <1>1, <1>2, <1>3, <1>5, <1>7, <1>8, <1>9 DEF Ring!Next, Ring!Producer, Ring!Consumer
  <1> QED
    BY <1>4, <1>6, <1>10, <1>f, <1>g, <1>h

\* How many places of the queue are taken, by the head and the tail.
LEMMA PlacesTaken ==
    ASSUME Ring!RingAssumption, RingInv
    PROVE  Ring!Fifo!Places = Ahead(size, head, tail)
  <1> DEFINE all == From(size, head, tail, data)
  <1>a. /\ all \in Seq(Clients)
        /\ Len(all) = Ahead(size, head, tail)
        /\ Ring!Contents = IF cpc = "store" THEN Tail(all) ELSE all
    BY QueueIs
  <1>1. CASE cpc = "store"
    <2>1. until # tail /\ got = data[tail]
      BY <1>1 DEF RingInv, DrainInv
    <2>2. Len(all) \in Nat \ {0}
      BY <1>a, <1>1, <2>1 DEF RingInv, RingType, DrainInv, Ahead, RingPlaces
    <2>3. Nth(size, tail, 0) = tail /\ 0 \in RingPlaces
      BY DEF Nth, RingPlaces, RingInv, RingType
    <2>4. got # NoClient
      BY <1>a, <2>1, <2>2, <2>3 DEF RingInv, StoredInv, Ring!RingAssumption
    <2>5. Ring!Contents = Tail(all) /\ Len(Tail(all)) = Len(all) - 1
      BY <1>a, <1>1, <2>2
    <2> QED
      BY <1>a, <2>2, <2>4, <2>5 DEF Ring!Fifo!Places
  <1>2. CASE cpc # "store"
    <2>1. Ring!Contents = all /\ got = NoClient
      BY <1>a, <1>2 DEF RingInv, DrainInv
    <2>2. Len(all) \in Nat
      BY <1>a
    <2> QED
      BY <1>a, <2>1, <2>2 DEF Ring!Fifo!Places
  <1> QED
    BY <1>1, <1>2

\* Every step of ringbuffer_push and of the loop around ringbuffer_pop is a
\* step of the queue or leaves it as it is.
LEMMA StepRefines ==
    ASSUME Ring!RingAssumption, RingInv, [Ring!Next]_ringVars
    PROVE  [Ring!Fifo!Next]_<<size - 1, Ring!Contents, got, dropped>>
  <1> DEFINE same == UNCHANGED <<size - 1, Ring!Contents, got, dropped>>
  <1>a. /\ cpc = "store" => got \in Clients
        /\ Ring!PushPublish => put \in Clients /\ Ring!Contents' = Append(Ring!Contents, put)
        /\ Ring!PopRead => /\ Ring!Contents # <<>>
                      /\ got = NoClient
                      /\ got' = Head(Ring!Contents)
                      /\ Ring!Contents' = Tail(Ring!Contents)
        /\ Ring!PushPublish \/ Ring!PopRead \/ Ring!Contents' = Ring!Contents
    BY QueueSteps
  <1>b. Ring!Fifo!Places = Ahead(size, head, tail)
    BY PlacesTaken
  <1>c. Ring!Full <=> Next1(size, head) = tail
    BY RingOps DEF RingInv
  <1>d. size \in Nat \ {0} /\ head \in RingPlaces /\ tail \in RingPlaces
    BY DEF RingInv, RingType
  <1>1. ASSUME NEW v \in Clients, Ring!PushDropped(v) PROVE Ring!Fifo!Refuse(v)
    <2>1. Ring!Contents' = Ring!Contents
      BY <1>1, <1>a DEF Ring!PushDropped, Ring!PushPublish, Ring!PopRead
    <2>2. Ring!Fifo!Places = size - 1
      BY <1>1, <1>b, <1>c, <1>d DEF Ring!PushDropped, Next1, Ahead, RingPlaces
    <2> QED
      BY <1>1, <2>1, <2>2 DEF Ring!PushDropped, Ring!Fifo!Refuse
  <1>2. ASSUME NEW v \in Clients, Ring!PushCheck(v) PROVE same
    BY <1>2, <1>a DEF Ring!PushCheck, Ring!PushPublish, Ring!PopRead
  <1>3. CASE Ring!PushWrite
    BY <1>3, <1>a DEF Ring!PushWrite, Ring!PushPublish, Ring!PopRead
  <1>4. CASE Ring!PushPublish
    <2>1. Next1(size, head) # tail
      BY <1>4, <1>c DEF Ring!PushPublish, RingInv, PushInv
    <2>2. Ring!Fifo!Places < size - 1
      BY <1>b, <1>d, <2>1 DEF Ahead, Next1, RingPlaces
    <2>3. Ring!Fifo!Put(put)
      BY <1>4, <1>a, <2>2 DEF Ring!PushPublish, Ring!Fifo!Put
    <2> QED
      BY <1>4, <1>a, <2>3 DEF Ring!Fifo!Next
  <1>5. CASE Ring!DrainStart
    BY <1>5, <1>a DEF Ring!DrainStart, Ring!PushPublish, Ring!PopRead
  <1>6. CASE Ring!PopRead
    BY <1>6, <1>a DEF Ring!PopRead, Ring!Fifo!Next, Ring!Fifo!Take
  <1>7. CASE Ring!PopStore
    <2>1. Ring!Contents' = Ring!Contents
      BY <1>7, <1>a, <1>d DEF Ring!PopStore, Ring!PushPublish, Ring!PopRead
    <2>2. got # NoClient
      BY <1>7, <1>a DEF Ring!PopStore, Ring!RingAssumption
    <2> QED
      BY <1>7, <2>1, <2>2 DEF Ring!PopStore, Ring!Fifo!Next, Ring!Fifo!Release
  <1>8. CASE Ring!DrainEnd
    BY <1>8, <1>a DEF Ring!DrainEnd, Ring!PushPublish, Ring!PopRead
  <1>9. CASE UNCHANGED ringVars
    <2>1. Ring!Contents' = Ring!Contents
      BY <1>9 DEF ringVars, Ring!Contents, Ring!Count
    <2> QED
      BY <1>9, <2>1 DEF ringVars
  <1> QED
    BY <1>1, <1>2, <1>3, <1>4, <1>5, <1>6, <1>7, <1>8, <1>9
       DEF Ring!Next, Ring!Producer, Ring!Consumer, Ring!Fifo!Next

\* ringbuffer_push, and the loop around ringbuffer_pop, of any size and for any
\* values: whatever the two threads interleave, values come out once and in
\* order, and only a full ring drops one.
THEOREM RingIsAQueue ==
    ASSUME Ring!RingAssumption
    PROVE  Ring!Spec => Ring!RefinesFifo
  <1>1. Ring!Init => RingInv
    BY InitRing
  <1>2. RingInv /\ [Ring!Next]_ringVars => RingInv'
    BY RingStep
  <1>3. Ring!Init => Ring!Fifo!Init
    BY InitRefines
  <1>4. RingInv /\ [Ring!Next]_ringVars
        => [Ring!Fifo!Next]_<<size - 1, Ring!Contents, got, dropped>>
    BY StepRefines
  <1> QED
    BY <1>1, <1>2, <1>3, <1>4, PTL
       DEF Ring!Spec, Ring!RefinesFifo, Ring!Fifo!Spec, Ring!ringVars, ringVars

----------------------------------------------------------------------------
(* The scheduler around the ring. *)

\* Main pushes only jobs of clients.
SubmitsClient == mpc = "push" => cur \in Clients

\* scheduler_rand_create leaves main with nothing to push.
LEMMA SubmitsInit == Init => SubmitsClient
  BY DEF Init, SubmitsClient

\* scheduler_rand_submit takes the job it pushes from a client's request, and
\* the workers leave main alone.
LEMMA SubmitsStep == SubmitsClient /\ [Next]_vars => SubmitsClient'
  <1> SUFFICES ASSUME SubmitsClient, [Next]_vars PROVE SubmitsClient'
    OBVIOUS
  <1> USE DEF SubmitsClient
  <1>1. CASE Arrival
    BY <1>1 DEF Arrival, SubmitMiss, SubmitHit, Close, mainVars
  <1>2. CASE Submit
    BY <1>2 DEF Submit, PushFull, PushJob, PublishJob, Wake, mainVars
  <1>3. CASE Shutdown
    BY <1>3 DEF Shutdown, CloseWake, JoinAndDestroy
  <1>4. ASSUME NEW w \in Workers, WorkerStep(w) \/ SpuriousWake(w)
        PROVE  UNCHANGED mainVars
    BY <1>4
       DEF WorkerStep, SpuriousWake, Exit, TakeLock, PopPending,
           AppendPending, DrainDone, Schedule, StopWaiting, DecideToYield,
           Yield, Awake, SearchFailed, SearchFound, Cancel, NotifyRecipient,
           CachePush
  <1>5. CASE Stopped \/ UNCHANGED vars
    BY <1>5 DEF Stopped, vars, mainVars
  <1> QED
    BY <1>1, <1>2, <1>3, <1>4, <1>5 DEF Next, mainVars

\* Only the push of scheduler_rand_submit and the drain that begins a critical
\* section of scheduler_rand_schedule touch the ring, one step of it at a time.
LEMMA RingSteps == SubmitsClient /\ [Next]_vars => [Ring!Next]_ringVars
  <1> SUFFICES ASSUME SubmitsClient, [Next]_vars PROVE Ring!Next \/ UNCHANGED ringVars
    OBVIOUS
  <1>1. CASE Arrival
    BY <1>1 DEF Arrival, SubmitMiss, SubmitHit, Close, ringVars
  <1>2. CASE Submit
    BY <1>2
       DEF Submit, PushFull, PushJob, PublishJob, Wake, SubmitsClient,
           Ring!Next, Ring!Producer
  <1>3. CASE Shutdown
    BY <1>3 DEF Shutdown, CloseWake, JoinAndDestroy
  <1>4. ASSUME NEW w \in Workers, WorkerStep(w) \/ SpuriousWake(w)
        PROVE  Ring!Next \/ UNCHANGED ringVars
    BY <1>4
       DEF WorkerStep, SpuriousWake, Exit, TakeLock, PopPending,
           AppendPending, DrainDone, Schedule, StopWaiting, DecideToYield,
           Yield, Awake, SearchFailed, SearchFound, Cancel, NotifyRecipient,
           CachePush, Ring!Next, Ring!Consumer
  <1>5. CASE Stopped \/ UNCHANGED vars
    BY <1>5 DEF Stopped, vars, ringVars
  <1> QED
    BY <1>1, <1>2, <1>3, <1>4, <1>5 DEF Next

----------------------------------------------------------------------------
\* Pending jobs reach the list of sched_rand.c once, in the order of their
\* submission, and only a full ring drops one, whatever main and the workers
\* interleave.
THEOREM PendingJobsQueued == Spec => PendingIsAQueue
  <1>1. Init => SubmitsClient /\ Ring!Init
    BY SubmitsInit DEF Init
  <1>2. SubmitsClient /\ [Next]_vars => SubmitsClient'
    BY SubmitsStep
  <1>3. SubmitsClient /\ [Next]_vars => [Ring!Next]_ringVars
    BY RingSteps
  <1>4. Ring!RingAssumption
    BY RequestAssumption, RandAssumption DEF Ring!RingAssumption
  <1>5. Ring!Spec => Ring!RefinesFifo
    BY <1>4, RingIsAQueue
  <1>6. Ring!Init /\ [][Ring!Next]_ringVars => PendingIsAQueue
    BY <1>5 DEF Ring!Spec, Ring!ringVars, ringVars, PendingIsAQueue
  <1> QED
    BY <1>1, <1>2, <1>3, <1>6, PTL DEF Spec
----------------------------------------------------------------------------
(* What the list, the ring and the workers hold.                           *)

\* The elements of a sequence; is each of them there once?
Elements(q) == {q[i] : i \in DOMAIN q}
Distinct(q) == \A i, j \in DOMAIN q : q[i] = q[j] => i = j

\* The jobs in the list, and the clients whose jobs are in the ring.
Listed == Elements(jobs)
Queued == Elements(Ring!Contents)

\* The job of a client is on its way to the list.
Pushing(c) == mpc = "push" /\ cur = c
Coming(c) == Pushing(c) \/ c \in Queued \/ got = c

Busy == {"search", "cancel", "notify", "cache"}

\* The types, ...
Types ==
    /\ jobs \in Seq(JobType)
    /\ task_idx \in Nat
    /\ recipient \in [Clients -> {"none", "live", "freed"}]
    /\ pc \in [Workers -> Labels]
    /\ task \in [Workers -> Tasks]
    /\ handed \in [Clients -> SUBSET Nat]
    /\ \A w \in Workers : pc[w] \in Busy => task[w].client \in Clients

\* ... one holder of the mutex, who picks from a list that is not empty, ...
LockInv ==
    /\ \A w, v \in Workers :
          pc[w] \in {"drain", "pick"} /\ pc[v] \in {"drain", "pick"} => w = v
    /\ \A w \in Workers : pc[w] = "pick" => jobs # <<>>

\* ... main, pushing the job of the client it submits, ...
SubmitInv ==
    /\ mpc \in {"push", "wake"} => cur \in Clients
    /\ ppc # "idle" => mpc = "push" /\ put = cur

\* ... and one job per client at most, once the client has sent its request.
OneEach(list) == \A i, j \in DOMAIN list : list[i].client = list[j].client => i = j

PlaceInv ==
    /\ OneEach(jobs)
    /\ Distinct(Ring!Contents)
    /\ \A job \in Listed : ~Coming(job.client)
    /\ \A c \in Queued : got # c /\ ~Pushing(c)
    /\ mpc = "push" => got # cur
    /\ \A c \in Clients :
          recipient[c] = "none" =>
             /\ ~Coming(c)
             /\ \A job \in Listed : job.client # c
             /\ \A w \in Workers : pc[w] \in Busy => task[w].client # c

\* The places and the types, which all the rest needs.
Places == Types /\ LockInv /\ SubmitsClient /\ SubmitInv /\ RingInv /\ PlaceInv

\* A job starts before its end, ...
StartInv == \A job \in Listed : job.start <= Request[job.client].end

\* ... and the candidates from there on are all that is left of it: each one is
\* handed out or remains.
Remains(c, v) ==
    Coming(c) \/ \E job \in Listed : job.client = c /\ job.start <= v

RestInv ==
    \A c \in Clients :
        recipient[c] # "none" /\ c \notin dropped /\ ~Solved(c) =>
            \A v \in Request[c].start .. Request[c].end :
                v \in handed[c] \/ Remains(c, v)

\* A job starts at the first value of a block.
BlockInv ==
    \A job \in Listed :
        LET d == job.start - Request[job.client].start
        IN  d >= 0 /\ d % BLOCK_SIZE = 0

\* The hash of a client is found by a worker, or is still to be searched for.
Finds(w, c) ==
    /\ pc[w] \in {"search", "cancel", "notify"}
    /\ task[w].client = c
    /\ Request[c].hash \in Searched(task[w].start, task[w].end)

ToFind(c) == Request[c].start <= Request[c].hash /\ Remains(c, Request[c].hash)

OnceInv ==
    /\ \A w \in Workers :
          pc[w] \in {"cancel", "notify"} => Finds(w, task[w].client)
    /\ \A c \in Clients : Request[c].hash \notin Seam(c) =>
          /\ \A w, v \in Workers : Finds(w, c) /\ Finds(v, c) => w = v
          /\ (\E w \in Workers : Finds(w, c)) => recipient[c] # "freed"
          /\ (\E w \in Workers : Finds(w, c)) \/ recipient[c] = "freed" => ~ToFind(c)


----------------------------------------------------------------------------
(* Sequences, as the list and the ring change. *)

\* ringbuffer_push and scheduler_rand_push_job: one more at the end.
LEMMA AppendElements ==
    ASSUME NEW S, NEW q \in Seq(S), NEW e \in S
    PROVE  /\ Append(q, e) \in Seq(S)
           /\ Elements(Append(q, e)) = Elements(q) \cup {e}
           /\ Distinct(q) /\ e \notin Elements(q) => Distinct(Append(q, e))
  <1> DEFINE r == Append(q, e)
  <1>1. /\ r \in Seq(S) /\ Len(r) = Len(q) + 1
        /\ \A i \in 1 .. Len(q) : r[i] = q[i]
        /\ r[Len(q) + 1] = e
    OBVIOUS
  <1>2. DOMAIN q = 1 .. Len(q) /\ DOMAIN r = 1 .. Len(q) + 1 /\ Len(q) \in Nat
    BY <1>1
  <1> HIDE DEF r
  <1>3. 1 .. Len(q) + 1 = (1 .. Len(q)) \cup {Len(q) + 1}
    BY <1>2
  <1>4. Elements(r) = Elements(q) \cup {e}
    BY <1>1, <1>2, <1>3 DEF Elements
  <1>5. Distinct(q) /\ e \notin Elements(q) => Distinct(r)
    BY <1>1, <1>2, <1>3 DEF Elements, Distinct
  <1> QED
    BY <1>1, <1>4, <1>5 DEF r

\* ringbuffer_pop: the oldest leaves.
LEMMA TailElements ==
    ASSUME NEW S, NEW q \in Seq(S), q # <<>>, Distinct(q)
    PROVE  /\ Head(q) \in Elements(q)
           /\ Elements(Tail(q)) = Elements(q) \ {Head(q)}
           /\ Distinct(Tail(q))
  <1> DEFINE r == Tail(q)
  <1>1. /\ r \in Seq(S) /\ Len(r) = Len(q) - 1
        /\ \A i \in 1 .. Len(q) - 1 : r[i] = q[i + 1]
        /\ Head(q) = q[1]
        /\ Len(q) \in Nat \ {0}
    OBVIOUS
  <1>2. DOMAIN q = 1 .. Len(q) /\ DOMAIN r = 1 .. Len(q) - 1
    BY <1>1
  <1>a. Tail(q) = r
    OBVIOUS
  <1> HIDE DEF r
  <1>3. ASSUME NEW i \in 1 .. Len(q), i # 1
        PROVE  i - 1 \in 1 .. Len(q) - 1 /\ r[i - 1] = q[i]
    BY <1>1, <1>3
  <1>4. Elements(r) \subseteq Elements(q) \ {q[1]}
    BY <1>1, <1>2 DEF Elements, Distinct
  <1>5. Elements(q) \ {q[1]} \subseteq Elements(r)
    <2> SUFFICES ASSUME NEW x \in Elements(q), x # q[1] PROVE x \in Elements(r)
      OBVIOUS
    <2>1. PICK i \in 1 .. Len(q) : x = q[i]
      BY <1>2 DEF Elements
    <2> QED
      BY <1>2, <1>3, <2>1 DEF Elements
  <1>6. Distinct(r)
    BY <1>1, <1>2 DEF Distinct
  <1>7. Head(q) \in Elements(q)
    BY <1>1, <1>2 DEF Elements
  <1>8. Elements(r) = Elements(q) \ {Head(q)}
    BY <1>1, <1>4, <1>5
  <1> QED
    BY <1>6, <1>7, <1>8 DEF r

\* scheduler_rand_remove_swap_job: the last element replaces the one removed.
LEMMA SwapElements ==
    ASSUME NEW S, NEW q \in Seq(S), NEW i \in DOMAIN q
    PROVE  LET r == SubSeq([q EXCEPT ![i] = q[Len(q)]], 1, Len(q) - 1)
           IN  /\ r \in Seq(S)
               /\ Len(r) = Len(q) - 1
               /\ \A k \in 1 .. Len(q) - 1 : r[k] = IF k = i THEN q[Len(q)] ELSE q[k]
  <1> DEFINE n == Len(q)
             p == [q EXCEPT ![i] = q[n]]
             r == SubSeq(p, 1, n - 1)
  <1>1. n \in Nat /\ DOMAIN q = 1 .. n /\ q \in [1 .. n -> S] /\ n \in 1 .. n
    OBVIOUS
  <1>2. p \in [1 .. n -> S] /\ \A k \in 1 .. n : p[k] = IF k = i THEN q[n] ELSE q[k]
    BY <1>1
  <1> HIDE DEF n, p
  <1>3. p \in Seq(S) /\ Len(p) = n
    BY <1>1, <1>2
  <1>4. r \in Seq(S) /\ Len(r) = n - 1 /\ \A k \in 1 .. n - 1 : r[k] = p[k]
    BY <1>1, <1>3
  <1> QED
    BY <1>1, <1>2, <1>4 DEF n, p
----------------------------------------------------------------------------
(* What a step does to the ring and to the list. *)

\* The ring's invariant holds on, and a step of the scheduler that does not
\* move the head or copy a value out leaves the queue alone.
LEMMA RingChanges ==
    ASSUME RingInv, SubmitsClient, [Next]_vars
    PROVE  /\ RingInv'
           /\ Ring!Contents \in Seq(Clients)
           /\ cpc = "store" => got \in Clients
           /\ cpc # "store" => got = NoClient
           /\ Ring!PushPublish =>
                 put \in Clients /\ Ring!Contents' = Append(Ring!Contents, put)
           /\ Ring!PopRead => /\ Ring!Contents # <<>>
                              /\ got' = Head(Ring!Contents)
                              /\ Ring!Contents' = Tail(Ring!Contents)
           /\ Ring!PushPublish \/ Ring!PopRead \/ Ring!Contents' = Ring!Contents
  <1>1. Ring!RingAssumption
    BY RequestAssumption, RandAssumption DEF Ring!RingAssumption
  <1>2. [Ring!Next]_ringVars
    BY RingSteps
  <1>3. RingInv'
    BY <1>1, <1>2, RingStep
  <1> QED
    BY <1>1, <1>2, <1>3, QueueSteps

\* The same for the set of clients in the ring.
LEMMA QueuedChanges ==
    ASSUME RingInv, SubmitsClient, [Next]_vars, Distinct(Ring!Contents)
    PROVE  /\ Ring!PushPublish =>
                 /\ put \in Clients
                 /\ Queued' = Queued \cup {put}
                 /\ put \notin Queued => Distinct(Ring!Contents)'
           /\ Ring!PopRead => /\ got' \in Queued
                              /\ Queued' = Queued \ {got'}
                              /\ Distinct(Ring!Contents)'
           /\ \/ Ring!PushPublish
              \/ Ring!PopRead
              \/ Queued' = Queued /\ Distinct(Ring!Contents)'
           /\ Queued \subseteq Clients
  <1> DEFINE q == Ring!Contents
             q1 == Ring!Contents'
  <1>1. /\ q \in Seq(Clients)
        /\ Ring!PushPublish => put \in Clients /\ q1 = Append(q, put)
        /\ Ring!PopRead => q # <<>> /\ got' = Head(q) /\ q1 = Tail(q)
        /\ Ring!PushPublish \/ Ring!PopRead \/ q1 = q
    BY RingChanges
  <1>2. /\ Queued = Elements(q) /\ Queued' = Elements(q1)
        /\ Distinct(Ring!Contents)' <=> Distinct(q1)
        /\ Distinct(q)
    BY DEF Queued, Elements, Distinct
  <1> HIDE DEF q, q1
  <1>3. Elements(q) \subseteq Clients
    BY <1>1 DEF Elements
  <1>4. Ring!PushPublish =>
           /\ Elements(q1) = Elements(q) \cup {put}
           /\ put \notin Elements(q) => Distinct(q1)
    <2> HAVE Ring!PushPublish
    <2>1. q \in Seq(Clients) /\ put \in Clients /\ q1 = Append(q, put)
      BY <1>1
    <2>2. /\ Elements(Append(q, put)) = Elements(q) \cup {put}
          /\ Distinct(q) /\ put \notin Elements(q) => Distinct(Append(q, put))
      BY <2>1, AppendElements
    <2> QED
      BY <1>2, <2>1, <2>2
  <1>5. Ring!PopRead => /\ got' \in Elements(q)
                        /\ Elements(q1) = Elements(q) \ {got'}
                        /\ Distinct(q1)
    BY <1>1, <1>2, TailElements
  <1> QED
    BY <1>1, <1>2, <1>3, <1>4, <1>5

\* scheduler_rand_push_job adds a job.
LEMMA ListedGrows ==
    ASSUME NEW list \in Seq(JobType), NEW job \in JobType, OneEach(list),
           \A j \in Elements(list) : j.client # job.client
    PROVE  /\ Append(list, job) \in Seq(JobType)
           /\ Elements(Append(list, job)) = Elements(list) \cup {job}
           /\ OneEach(Append(list, job))
  <1> DEFINE r == Append(list, job)
  <1>1. /\ r \in Seq(JobType)
        /\ Elements(r) = Elements(list) \cup {job}
    BY AppendElements
  <1>2. /\ Len(r) = Len(list) + 1 /\ Len(list) \in Nat
        /\ \A i \in 1 .. Len(list) : r[i] = list[i]
        /\ r[Len(list) + 1] = job
        /\ DOMAIN list = 1 .. Len(list)
        /\ DOMAIN r = 1 .. Len(list) + 1
    OBVIOUS
  <1> HIDE DEF r
  <1>3. \A i \in 1 .. Len(list) : list[i].client # job.client
    BY <1>2 DEF Elements
  <1>4. OneEach(r)
    BY <1>2, <1>3 DEF OneEach
  <1> QED
    BY <1>1, <1>4 DEF r

\* scheduler_rand_remove_swap_job removes the job at its place and no other.
LEMMA ListedShrinks ==
    ASSUME jobs \in Seq(JobType), OneEach(jobs), NEW i \in DOMAIN jobs, RemoveSwap(i)
    PROVE  /\ jobs' \in Seq(JobType)
           /\ Listed' = Listed \ {jobs[i]}
           /\ OneEach(jobs)'
           /\ task_idx' = 0
  <1> DEFINE n == Len(jobs)
             r == SubSeq([jobs EXCEPT ![i] = jobs[n]], 1, n - 1)
  <1>1. /\ r \in Seq(JobType)
        /\ Len(r) = n - 1
        /\ \A k \in 1 .. n - 1 : r[k] = IF k = i THEN jobs[n] ELSE jobs[k]
    BY SwapElements
  <1>2. n \in Nat /\ DOMAIN jobs = 1 .. n /\ i \in 1 .. n
    OBVIOUS
  <1>3. jobs' = r /\ task_idx' = 0
    BY DEF RemoveSwap
  <1> HIDE DEF n, r
  <1>4. DOMAIN r = 1 .. n - 1
    BY <1>1, <1>2
  <1>5. \A j, k \in 1 .. n : jobs[j] = jobs[k] => j = k
    BY <1>2 DEF OneEach
  <1>6. Elements(r) \subseteq Elements(jobs) \ {jobs[i]}
    <2> SUFFICES ASSUME NEW k \in 1 .. n - 1
                 PROVE  r[k] \in Elements(jobs) \ {jobs[i]}
      BY <1>4 DEF Elements
    <2>1. CASE k = i
      BY <1>1, <1>2, <1>5, <2>1 DEF Elements
    <2>2. CASE k # i
      BY <1>1, <1>2, <1>5, <2>2 DEF Elements
    <2> QED
      BY <2>1, <2>2
  <1>7. Elements(jobs) \ {jobs[i]} \subseteq Elements(r)
    <2> SUFFICES ASSUME NEW j \in 1 .. n, jobs[j] # jobs[i]
                 PROVE  jobs[j] \in Elements(r)
      BY <1>2 DEF Elements
    <2>1. CASE j = n
      BY <1>1, <1>2, <1>4, <2>1 DEF Elements
    <2>2. CASE j # n
      BY <1>1, <1>2, <1>4, <2>2 DEF Elements
    <2> QED
      BY <2>1, <2>2
  <1>8. OneEach(r)
    <2> SUFFICES ASSUME NEW j \in 1 .. n - 1, NEW k \in 1 .. n - 1,
                        r[j].client = r[k].client
                 PROVE  j = k
      BY <1>4 DEF OneEach
    <2>1. \A x, y \in 1 .. n : jobs[x].client = jobs[y].client => x = y
      BY <1>2 DEF OneEach
    <2>2. /\ r[j] = jobs[IF j = i THEN n ELSE j]
          /\ r[k] = jobs[IF k = i THEN n ELSE k]
      BY <1>1
    <2> QED
      BY <1>2, <2>1, <2>2
  <1>9. Elements(r) = Elements(jobs) \ {jobs[i]}
    BY <1>6, <1>7
  <1>10. OneEach(jobs)'
    BY <1>3, <1>8 DEF OneEach
  <1> QED
    BY <1>1, <1>3, <1>9, <1>10 DEF Listed

\* A block is taken from a job that stays in the list.
LEMMA ListedMoves ==
    ASSUME jobs \in Seq(JobType), OneEach(jobs), NEW i \in DOMAIN jobs,
           NEW next \in Nat, jobs' = [jobs EXCEPT ![i].start = next]
    PROVE  /\ jobs' \in Seq(JobType)
           /\ Listed' = (Listed \ {jobs[i]}) \cup {[client |-> jobs[i].client, start |-> next]}
           /\ OneEach(jobs)'
  <1> DEFINE n == Len(jobs)
             after == [client |-> jobs[i].client, start |-> next]
  <1>1. n \in Nat /\ DOMAIN jobs = 1 .. n /\ i \in 1 .. n /\ jobs \in [1 .. n -> JobType]
    OBVIOUS
  <1>2. after \in JobType /\ [jobs[i] EXCEPT !.start = next] = after
    BY <1>1 DEF JobType
  <1>3. jobs' = [jobs EXCEPT ![i] = after]
    BY <1>2
  <1>4. after.client = jobs[i].client
    OBVIOUS
  <1> HIDE DEF n, after
  <1>5. /\ jobs' \in [1 .. n -> JobType]
        /\ \A k \in 1 .. n : jobs'[k] = IF k = i THEN after ELSE jobs[k]
    BY <1>1, <1>2, <1>3
  <1>6. jobs' \in Seq(JobType) /\ DOMAIN jobs' = 1 .. n
    BY <1>1, <1>5
  <1>7. \A j, k \in 1 .. n : jobs[j] = jobs[k] => j = k
    BY <1>1 DEF OneEach
  <1>8. OneEach(jobs)'
    BY <1>1, <1>4, <1>5, <1>6 DEF OneEach
  <1>9. Elements(jobs') = (Elements(jobs) \ {jobs[i]}) \cup {after}
    BY <1>1, <1>5, <1>6, <1>7 DEF Elements
  <1> QED
    BY <1>6, <1>8, <1>9 DEF Listed, after

\* Main leaves the list and the workers alone, but for waking them.
LEMMA MainMoves ==
    ASSUME pc \in [Workers -> Labels], Arrival \/ Submit \/ Shutdown
    PROVE  /\ UNCHANGED <<jobs, task_idx, task, handed, got>>
           /\ pc' \in [Workers -> Labels]
           /\ \A w \in Workers :
                 pc'[w] = pc[w] \/ (pc[w] = "asleep" /\ pc'[w] = "wait")
  <1>1. ASSUME WakeWorkers
        PROVE  /\ pc' \in [Workers -> Labels]
               /\ \A w \in Workers :
                     pc'[w] = pc[w] \/ (pc[w] = "asleep" /\ pc'[w] = "wait")
    BY <1>1 DEF WakeWorkers, Labels
  <1>2. CASE Arrival
    BY <1>2 DEF Arrival, SubmitMiss, SubmitHit, Close, listVars, workVars, ringVars
  <1>3. CASE Submit
    BY <1>3, <1>1
       DEF Submit, PushFull, PushJob, PublishJob, Wake, listVars, workVars,
           ringVars, Ring!PushDropped, Ring!PushCheck, Ring!PushWrite,
           Ring!PushPublish
  <1>4. CASE Shutdown
    BY <1>4, <1>1
       DEF Shutdown, CloseWake, JoinAndDestroy, listVars, workVars, ringVars
  <1> QED
    BY <1>2, <1>3, <1>4

\* A worker leaves main and the other workers alone, and the ring to which
\* main pushes.
LEMMA WorkerMoves ==
    ASSUME pc \in [Workers -> Labels], task \in [Workers -> Tasks],
           NEW w \in Workers, WorkerStep(w) \/ SpuriousWake(w)
    PROVE  /\ UNCHANGED <<mpc, cur, ppc, put, dropped>>
           /\ pc' \in [Workers -> Labels]
           /\ \A v \in Workers \ {w} : pc'[v] = pc[v] /\ task'[v] = task[v]
  <1> USE DEF mainVars, ringVars, workVars, Goto, Labels
  <1>1. ASSUME NEW offset, Schedule(w, offset)
        PROVE  /\ UNCHANGED <<mpc, cur, ppc, put, dropped>>
               /\ pc' \in [Workers -> Labels]
               /\ \A v \in Workers \ {w} : pc'[v] = pc[v] /\ task'[v] = task[v]
    BY <1>1 DEF Schedule
  <1>2. CASE DrainDone(w)
    BY <1>2 DEF DrainDone, Ring!DrainEnd
  <1>3. CASE TakeLock(w) \/ PopPending(w) \/ AppendPending(w) \/ Exit(w)
    BY <1>3
       DEF TakeLock, PopPending, AppendPending, Exit, Ring!DrainStart,
           Ring!PopRead, Ring!PopStore
  <1>4. CASE \/ StopWaiting(w) \/ DecideToYield(w) \/ Yield(w) \/ Awake(w)
             \/ SpuriousWake(w)
    BY <1>4 DEF StopWaiting, DecideToYield, Yield, Awake, SpuriousWake
  <1>5. CASE \/ SearchFailed(w) \/ SearchFound(w) \/ Cancel(w)
             \/ NotifyRecipient(w) \/ CachePush(w)
    BY <1>5 DEF SearchFailed, SearchFound, Cancel, NotifyRecipient, CachePush
  <1> QED
    BY <1>1, <1>2, <1>3, <1>4, <1>5 DEF WorkerStep

\* The fields of a request.
LEMMA RequestFields ==
    ASSUME NEW c \in Clients
    PROVE  /\ Request[c].start \in Nat
           /\ Request[c].end \in Nat
           /\ Request[c].hash \in Nat
           /\ Request[c].start <= Request[c].end
  BY RequestAssumption DEF Requests

\* NextStart never passes the end of the range.
LEMMA NextStartType ==
    ASSUME NEW job \in JobType
    PROVE  NextStart(job) \in Nat /\ NextStart(job) <= Request[job.client].end
  <1> DEFINE sum == job.start + BLOCK_SIZE
  <1>1. sum \in Nat /\ U64 \in Nat \ {0}
    BY RandAssumption DEF JobType
  <1> HIDE DEF sum
  <1>2. sum % U64 \in Nat
    BY <1>1
  <1>3. Request[job.client].end \in Nat
    BY RequestFields DEF JobType
  <1> QED
    BY <1>2, <1>3 DEF NextStart, sum

\* scheduler_rand_schedule takes a block of a job in the list, whose start
\* moves on, or that is removed when it was the last.
LEMMA Scheduled ==
    ASSUME Types, LockInv, NEW w \in Workers, NEW offset, Schedule(w, offset)
    PROVE  /\ pc[w] = "pick"
           /\ pc' = [pc EXCEPT ![w] = "search"]
           /\ task_idx' \in Nat
           /\ UNCHANGED <<recipient, mpc, cur, got, cpc, dropped, ppc, put>>
           /\ \E i \in DOMAIN jobs :
                 LET job  == jobs[i]
                     next == NextStart(job)
                 IN  /\ task' = [task EXCEPT ![w] =
                                   [client |-> job.client, start |-> job.start,
                                    end |-> next, answer |-> NoAnswer]]
                     /\ handed' = [handed EXCEPT ![job.client] =
                                     @ \cup Searched(job.start, next)]
                     /\ \/ /\ next = Request[job.client].end
                           /\ RemoveSwap(i)
                        \/ /\ next # Request[job.client].end
                           /\ jobs' = [jobs EXCEPT ![i].start = next]
  <1>1. pc[w] = "pick" /\ jobs # <<>>
    BY DEF Schedule, LockInv
  <1> DEFINE cursor == CursorAfter(offset)
  <1>2. cursor.task_idx \in 0 .. Len(jobs) - 1
    <2> DEFINE skipped == {k \in 0 .. Len(jobs) : Reach(k) < offset}
    <2>1. Len(jobs) \in Nat \ {0}
      BY <1>1 DEF Types
    <2>2. skipped \subseteq 0 .. Len(jobs) /\ IsFiniteSet(0 .. Len(jobs))
      BY <2>1, FS_Interval
    <2>3. Cardinality(skipped) \in Nat
      BY <2>2, FS_Subset, FS_CardinalityType
    <2> DEFINE k == Cardinality(skipped)
    <2>4. cursor.task_idx = (task_idx + k) % Len(jobs)
      BY DEF CursorAfter
    <2> HIDE DEF k, cursor, skipped
    <2>5. task_idx + k \in Nat
      BY <2>3 DEF Types, k
    <2> QED
      BY <2>1, <2>4, <2>5
  <1> DEFINE i == cursor.task_idx + 1
  <1>3. i \in DOMAIN jobs
    BY <1>1, <1>2 DEF Types
  <1> DEFINE job == jobs[i]
             next == NextStart(job)
  <1>4. /\ task' = [task EXCEPT ![w] =
                      [client |-> job.client, start |-> job.start,
                       end |-> next, answer |-> NoAnswer]]
        /\ handed' = [handed EXCEPT ![job.client] =
                        @ \cup Searched(job.start, next)]
        /\ IF next = Request[job.client].end
           THEN RemoveSwap(i)
           ELSE /\ jobs' = [jobs EXCEPT ![i].start = next]
                /\ task_idx' = cursor.task_idx
    BY DEF Schedule
  <1>5. task_idx' \in Nat
    BY <1>2, <1>4 DEF RemoveSwap
  <1>6. /\ pc' = [pc EXCEPT ![w] = "search"]
        /\ UNCHANGED <<recipient, mpc, cur, got, cpc, dropped, ppc, put>>
    BY DEF Schedule, Goto, clientVars, mainVars, ringVars
  <1> HIDE DEF i, job, next, cursor
  <1>7. \/ next = Request[job.client].end /\ RemoveSwap(i)
        \/ next # Request[job.client].end /\ jobs' = [jobs EXCEPT ![i].start = next]
    BY <1>4
  <1> QED
    BY <1>1, <1>3, <1>4, <1>5, <1>6, <1>7 DEF job, next

----------------------------------------------------------------------------
(* The search. *)

\* REVERSE_FUNC hashes the range of a task, and at most a group beyond it.
LEMMA SearchedRange ==
    ASSUME NEW s \in Nat, NEW e \in Nat
    PROVE  /\ Searched(s, e) \subseteq Nat
           /\ \A v \in Searched(s, e) : s <= v
           /\ s <= e => s .. e \subseteq Searched(s, e)
           /\ s <= e => \A v \in Searched(s, e) : v <= e + LANES - 1
  <1> DEFINE d == e - s
             k == d \div LANES
             groups == IF e < s THEN 1 ELSE k + 1
  <1>1. Searched(s, e) = s .. s + groups * LANES - 1
    BY DEF Searched
  <1>2. LANES \in Nat \ {0}
    BY LanesAssumption
  <1>3. ASSUME s <= e
        PROVE  /\ k \in Nat
               /\ k * LANES <= d
               /\ d < k * LANES + LANES
    BY <1>2, <1>3
  <1>4. ASSUME s <= e
        PROVE  groups * LANES <= d + LANES /\ d < groups * LANES /\ groups * LANES \in Nat
    <2>1. groups = k + 1
      BY <1>4
    <2> HIDE DEF k, groups, d
    <2>2. k \in Nat /\ k * LANES <= d /\ d < k * LANES + LANES
      BY <1>3, <1>4
    <2>3. (k + 1) * LANES = k * LANES + LANES /\ k * LANES \in Nat
      BY <1>2, <2>2
    <2>4. d \in Nat
      BY <1>4 DEF d
    <2> QED
      BY <1>2, <2>1, <2>2, <2>3, <2>4
  <1>5. groups * LANES \in Int
    <2>1. CASE s <= e
      BY <1>4, <2>1
    <2>2. CASE ~(s <= e)
      <3>1. groups = 1
        BY <2>2
      <3> QED
        BY <1>2, <3>1
    <2> QED
      BY <2>1, <2>2
  <1> DEFINE n == groups * LANES
  <1>6. n \in Int /\ (s <= e => n <= e - s + LANES /\ e - s < n)
    BY <1>4, <1>5
  <1>7. Searched(s, e) = s .. s + n - 1
    BY <1>1
  <1> HIDE DEF n
  <1> QED
    BY <1>2, <1>6, <1>7

\* What it returns is the hash it looks for, or the sentinel.
LEMMA ReverseType ==
    ASSUME NEW c \in Clients, NEW s, NEW e
    PROVE  /\ Reverse(s, e, Request[c].hash) \in Nat
           /\ Reverse(s, e, Request[c].hash) # NoAnswer =>
                 Request[c].hash \in Searched(s, e)
  BY RequestFields DEF Reverse, NoAnswer

----------------------------------------------------------------------------
(* The types hold. *)

\* scheduler_rand_create.
LEMMA InitTypes == Init => Types /\ LockInv /\ SubmitInv
  <1> SUFFICES ASSUME Init PROVE Types /\ LockInv /\ SubmitInv
    OBVIOUS
  <1>1. NoTask \in Tasks
    BY DEF NoTask, Tasks, NoAnswer
  <1> QED
    BY <1>1
       DEF Init, BaseInit, Ring!Init, Types, LockInv, SubmitInv, Busy, Labels

\* Main keeps the types: it only writes recipients.
LEMMA MainKeepsTypes ==
    ASSUME Types, Arrival \/ Submit \/ Shutdown
    PROVE  Types'
  <1>1. /\ UNCHANGED <<jobs, task_idx, task, handed>>
        /\ pc' \in [Workers -> Labels]
        /\ \A w \in Workers : pc'[w] = pc[w] \/ (pc[w] = "asleep" /\ pc'[w] = "wait")
    BY MainMoves DEF Types
  <1>2. recipient' \in [Clients -> {"none", "live", "freed"}]
    <2>1. CASE Arrival
      BY <2>1
         DEF Arrival, SubmitMiss, SubmitHit, Close, AnswerFromCache, MissCache,
             clientVars, Types
    <2>2. CASE Submit
      BY <2>2 DEF Submit, PushFull, PushJob, PublishJob, Wake, clientVars, Types
    <2>3. CASE Shutdown
      BY <2>3 DEF Shutdown, CloseWake, JoinAndDestroy, clientVars, Types
    <2> QED
      BY <2>1, <2>2, <2>3
  <1>3. \A w \in Workers : pc'[w] \in Busy => task'[w].client \in Clients
    BY <1>1 DEF Types, Busy
  <1> QED
    BY <1>1, <1>2, <1>3 DEF Types

\* Nor do the workers put anything else in the list or in a task.
LEMMA WorkersKeepTypes ==
    ASSUME Types, LockInv, RingInv, SubmitsClient, OneEach(jobs),
           NEW w \in Workers, WorkerStep(w) \/ SpuriousWake(w)
    PROVE  Types'
  <1> USE DEF Types
  <1>0. NoTask \in Tasks
    BY DEF NoTask, Tasks, NoAnswer
  <1>1. ASSUME NEW offset, Schedule(w, offset) PROVE Types'
    <2>1. /\ pc' = [pc EXCEPT ![w] = "search"] /\ task_idx' \in Nat
          /\ recipient' = recipient
      BY <1>1, Scheduled
    <2>2. PICK i \in DOMAIN jobs :
             /\ task' = [task EXCEPT ![w] =
                           [client |-> jobs[i].client, start |-> jobs[i].start,
                            end |-> NextStart(jobs[i]), answer |-> NoAnswer]]
             /\ handed' = [handed EXCEPT ![jobs[i].client] =
                             @ \cup Searched(jobs[i].start, NextStart(jobs[i]))]
             /\ \/ RemoveSwap(i)
                \/ jobs' = [jobs EXCEPT ![i].start = NextStart(jobs[i])]
      BY <1>1, Scheduled
    <2> DEFINE job == jobs[i]
               next == NextStart(job)
               new == [client |-> job.client, start |-> job.start,
                       end |-> next, answer |-> NoAnswer]
    <2>3. job \in JobType /\ job.client \in Clients /\ job.start \in Nat
      <3>1. job \in JobType
        OBVIOUS
      <3> QED
        BY <3>1 DEF JobType
    <2>4. next \in Nat
      BY <2>3, NextStartType
    <2>5. new \in Tasks /\ new.client \in Clients
      BY <2>3, <2>4 DEF Tasks, NoAnswer
    <2>6. Searched(job.start, next) \subseteq Nat
      BY <2>3, <2>4, SearchedRange
    <2>7. jobs' \in Seq(JobType)
      BY <2>2, <2>4, ListedShrinks, ListedMoves
    <2>8. task' = [task EXCEPT ![w] = new]
      BY <2>2
    <2>9. handed' = [handed EXCEPT ![job.client] = @ \cup Searched(job.start, next)]
      BY <2>2
    <2> HIDE DEF job, next, new
    <2>10. task' \in [Workers -> Tasks] /\ handed' \in [Clients -> SUBSET Nat]
      BY <2>3, <2>5, <2>6, <2>8, <2>9
    <2>11. pc' \in [Workers -> Labels]
           /\ \A v \in Workers : pc'[v] \in Busy => task'[v].client \in Clients
      BY <2>1, <2>5, <2>8 DEF Labels, Busy
    <2> QED
      BY <2>1, <2>7, <2>10, <2>11
  <1>2. CASE Exit(w) \/ TakeLock(w) \/ PopPending(w) \/ DrainDone(w)
    BY <1>2
       DEF Exit, TakeLock, PopPending, DrainDone, Goto, clientVars, listVars,
           workVars, Labels, Busy
  <1>3. CASE AppendPending(w)
    <2>0. [Next]_vars
      BY DEF Next
    <2>1. got \in Clients
      BY <1>3, <2>0, RingChanges DEF AppendPending, Ring!PopStore
    <2>2. NewJob(got) \in JobType
      BY <2>1, RequestFields DEF NewJob, JobType
    <2> QED
      BY <1>3, <2>2 DEF AppendPending, clientVars, workVars
  <1>4. CASE \/ StopWaiting(w) \/ DecideToYield(w) \/ Yield(w) \/ Awake(w)
             \/ SpuriousWake(w)
    BY <1>4
       DEF StopWaiting, DecideToYield, Yield, Awake, SpuriousWake, Goto,
           clientVars, listVars, workVars, Labels, Busy
  <1>5. CASE SearchFailed(w)
    BY <1>0, <1>5 DEF SearchFailed, Goto, clientVars, listVars, Labels, Busy
  <1>6. CASE SearchFound(w)
    <2>1. pc[w] = "search" /\ task[w].client \in Clients
      BY <1>6 DEF SearchFound, Busy
    <2>2. Found(w) \in Nat
      BY <2>1, ReverseType DEF Found
    <2>3. [task[w] EXCEPT !.answer = Found(w)] \in Tasks
          /\ [task[w] EXCEPT !.answer = Found(w)].client = task[w].client
      BY <2>2 DEF Tasks
    <2>4. /\ task' = [task EXCEPT ![w] = [task[w] EXCEPT !.answer = Found(w)]]
          /\ pc' = [pc EXCEPT ![w] = "cancel"]
          /\ UNCHANGED <<jobs, task_idx, recipient, handed>>
      BY <1>6 DEF SearchFound, Goto, clientVars, listVars
    <2> DEFINE new == [task[w] EXCEPT !.answer = Found(w)]
    <2> HIDE DEF new
    <2> QED
      BY <2>1, <2>3, <2>4 DEF Labels, Busy, new
  <1>7. CASE Cancel(w)
    <2>1. jobs' \in Seq(JobType) /\ task_idx' \in Nat
      BY <1>7, ListedShrinks DEF Cancel, listVars
    <2> QED
      BY <1>7, <2>1 DEF Cancel, Goto, clientVars, workVars, Labels, Busy
  <1>8. CASE NotifyRecipient(w)
    BY <1>8 DEF NotifyRecipient, Notify, Goto, listVars, workVars, Labels, Busy
  <1>9. CASE CachePush(w)
    BY <1>0, <1>9 DEF CachePush, Goto, clientVars, listVars, Labels, Busy
  <1> QED
    BY <1>1, <1>2, <1>3, <1>4, <1>5, <1>6, <1>7, <1>8, <1>9 DEF WorkerStep

\* The mutex keeps the list to one worker, and a worker that goes on to pick
\* has seen a job in it.
LEMMA StepLockInv == Types /\ LockInv /\ [Next]_vars => LockInv'
  <1> SUFFICES ASSUME Types, LockInv, [Next]_vars PROVE LockInv'
    OBVIOUS
  <1> USE DEF Types
  <1>1. ASSUME Arrival \/ Submit \/ Shutdown PROVE LockInv'
    BY <1>1, MainMoves DEF LockInv
  <1>2. ASSUME NEW w \in Workers, WorkerStep(w) \/ SpuriousWake(w) PROVE LockInv'
    <2>1. \A v \in Workers \ {w} : pc'[v] = pc[v]
      BY <1>2, WorkerMoves
    <2>2. CASE TakeLock(w)
      BY <2>2 DEF TakeLock, LockFree, Goto, listVars, LockInv
    <2>3. CASE DrainDone(w)
      BY <2>3 DEF DrainDone, Goto, listVars, LockInv
    <2>4. CASE PopPending(w)
      BY <2>4 DEF PopPending, listVars, LockInv
    <2>5. CASE AppendPending(w)
      <3>1. pc' = pc /\ pc[w] = "drain" /\ jobs' = Append(jobs, NewJob(got))
        BY <2>5 DEF AppendPending
      <3>2. \A v \in Workers : pc[v] # "pick"
        BY <3>1 DEF LockInv
      <3> QED
        BY <3>1, <3>2 DEF LockInv
    <2>6. ASSUME NEW offset, Schedule(w, offset) PROVE LockInv'
      BY <2>6, Scheduled DEF LockInv
    <2>7. CASE Cancel(w)
      BY <2>7 DEF Cancel, LockFree, Goto, LockInv
    <2>8. CASE \/ Exit(w) \/ StopWaiting(w) \/ DecideToYield(w) \/ Yield(w)
               \/ Awake(w) \/ SpuriousWake(w) \/ SearchFailed(w)
               \/ SearchFound(w) \/ NotifyRecipient(w) \/ CachePush(w)
      BY <2>8
         DEF Exit, StopWaiting, DecideToYield, Yield, Awake, SpuriousWake,
             SearchFailed, SearchFound, NotifyRecipient, CachePush, Goto,
             listVars, LockInv
    <2> QED
      BY <1>2, <2>2, <2>3, <2>4, <2>5, <2>6, <2>7, <2>8 DEF WorkerStep
  <1>3. CASE Stopped \/ UNCHANGED vars
    BY <1>3 DEF Stopped, vars, listVars, LockInv
  <1> QED
    BY <1>1, <1>2, <1>3 DEF Next

\* Main has one job in hand, from the ring's check to its publication.
LEMMA StepSubmitInv == Types /\ SubmitInv /\ [Next]_vars => SubmitInv'
  <1> SUFFICES ASSUME Types, SubmitInv, [Next]_vars PROVE SubmitInv'
    OBVIOUS
  <1> USE DEF SubmitInv
  <1>1. CASE Arrival
    BY <1>1 DEF Arrival, SubmitMiss, SubmitHit, Close, mainVars, ringVars
  <1>2. CASE Submit
    BY <1>2
       DEF Submit, PushFull, PushJob, PublishJob, Wake, mainVars, ringVars,
           Ring!PushDropped, Ring!PushCheck, Ring!PushWrite, Ring!PushPublish
  <1>3. CASE Shutdown
    BY <1>3 DEF Shutdown, CloseWake, JoinAndDestroy, ringVars
  <1>4. ASSUME NEW w \in Workers, WorkerStep(w) \/ SpuriousWake(w) PROVE SubmitInv'
    BY <1>4, WorkerMoves DEF Types
  <1>5. CASE Stopped \/ UNCHANGED vars
    BY <1>5 DEF Stopped, vars, mainVars, ringVars
  <1> QED
    BY <1>1, <1>2, <1>3, <1>4, <1>5 DEF Next

----------------------------------------------------------------------------
(* One job per client. *)

\* The list and the ring are empty at first.
LEMMA InitPlaceInv == Init => PlaceInv /\ RingInv
  <1> SUFFICES ASSUME Init PROVE PlaceInv /\ RingInv
    OBVIOUS
  <1>1. Ring!RingAssumption
    BY RequestAssumption, RandAssumption DEF Ring!RingAssumption
  <1>2. Ring!Init
    BY DEF Init
  <1>3. RingInv
    BY <1>1, <1>2, InitRing
  <1>4. Ring!Contents = <<>>
    BY <1>1, <1>2, InitRefines DEF Ring!Fifo!Init
  <1>5. jobs = <<>> /\ mpc = "idle" /\ got = NoClient
        /\ \A w \in Workers : pc[w] = "loop"
    BY DEF Init, Ring!Init
  <1>6. Queued = {} /\ Listed = {} /\ OneEach(jobs) /\ Distinct(Ring!Contents)
    BY <1>4, <1>5 DEF Queued, Listed, Elements, OneEach, Distinct
  <1>7. \A c \in Clients : ~Coming(c)
    BY <1>5, <1>6, RequestAssumption DEF Coming, Pushing
  <1> QED
    BY <1>3, <1>5, <1>6, <1>7 DEF PlaceInv, Busy

\* scheduler_rand_submit takes up a client that has no job yet, and moves its
\* job from its own hands to the ring.
LEMMA MainKeepsPlaces ==
    ASSUME Places, Arrival \/ Submit \/ Shutdown
    PROVE  PlaceInv'
  <1>0. [Next]_vars
    BY DEF Next
  <1>1. /\ UNCHANGED <<jobs, task, got>>
        /\ \A w \in Workers : pc'[w] \in Busy => pc[w] \in Busy
    BY MainMoves DEF Places, Types, Busy
  <1>2. Listed' = Listed /\ (OneEach(jobs)' <=> OneEach(jobs))
    BY <1>1 DEF Listed, OneEach
  <1>3. /\ Ring!PushPublish => /\ Queued' = Queued \cup {put}
                               /\ put \notin Queued => Distinct(Ring!Contents)'
        /\ Ring!PushPublish \/ Ring!PopRead \/ (Queued' = Queued /\ Distinct(Ring!Contents)')
        /\ Queued \subseteq Clients
    BY <1>0, QueuedChanges DEF Places, PlaceInv
  <1>4. ~Ring!PopRead
    BY DEF Arrival, Submit, Shutdown, SubmitMiss, SubmitHit, Close, PushFull,
           PushJob, PublishJob, Wake, CloseWake, JoinAndDestroy, ringVars,
           Ring!PopRead, Ring!PushDropped, Ring!PushCheck, Ring!PushWrite,
           Ring!PushPublish
  <1>5. Listed \subseteq JobType
    BY DEF Places, Types, Listed, Elements
  <1> USE DEF Places, PlaceInv
  <1>6. CASE PublishJob
    <2>1. /\ Ring!PushPublish /\ mpc = "push" /\ mpc' = "wake" /\ cur' = cur
          /\ recipient' = recipient /\ put = cur /\ cur \in Clients
      BY <1>6 DEF PublishJob, Ring!PushPublish, clientVars, SubmitInv
    <2>2. cur \notin Queued /\ got # cur
      BY <2>1 DEF Pushing
    <2>3. \A c : Coming(c)' <=> Coming(c)
      BY <1>1, <1>3, <2>1 DEF Coming, Pushing
    <2> QED
      BY <1>1, <1>2, <1>3, <2>1, <2>2, <2>3 DEF Pushing
  <1>7. ASSUME NEW c \in Clients, SubmitMiss(c) PROVE PlaceInv'
    <2>1. /\ mpc = "idle" /\ mpc' = "push" /\ cur' = c /\ recipient[c] = "none"
          /\ recipient' = [recipient EXCEPT ![c] = "live"]
          /\ Queued' = Queued /\ Distinct(Ring!Contents)'
      BY <1>3, <1>4, <1>7 DEF SubmitMiss, MissCache, Ring!PushPublish, ringVars
    <2>2. ~Coming(c) /\ \A job \in Listed : job.client # c
      BY <2>1
    <2>3. \A d : Coming(d)' <=> Coming(d) \/ d = c
      BY <1>1, <2>1 DEF Coming, Pushing
    <2>4. \A d \in Clients : recipient'[d] = "none" => recipient[d] = "none" /\ d # c
      BY <2>1 DEF Types
    <2> QED
      BY <1>1, <1>2, <2>1, <2>2, <2>3, <2>4 DEF Coming, Pushing
  <1>8. CASE PushJob
    <2>1. /\ Queued' = Queued /\ Distinct(Ring!Contents)'
          /\ UNCHANGED <<mpc, cur, recipient>>
      BY <1>3, <1>4, <1>8
         DEF PushJob, Ring!PushCheck, Ring!PushWrite, Ring!PushPublish,
             clientVars, mainVars
    <2>2. \A d : Coming(d)' <=> Coming(d)
      BY <1>1, <2>1 DEF Coming, Pushing
    <2> QED
      BY <1>1, <1>2, <2>1, <2>2 DEF Pushing
  <1>9. ASSUME Shutdown \/ Close \/ PushFull \/ Wake
               \/ \E c \in Clients : \E entry \in tree \cup pending : SubmitHit(c, entry)
        PROVE  PlaceInv'
    <2>1. /\ Queued' = Queued /\ Distinct(Ring!Contents)'
          /\ mpc' # "push"
      BY <1>3, <1>4, <1>9
         DEF Shutdown, CloseWake, JoinAndDestroy, Close, PushFull, Wake,
             SubmitHit, mainVars, ringVars, Ring!PushDropped, Ring!PushPublish
    <2>2. \A d \in Clients : recipient'[d] = "none" => recipient[d] = "none"
      BY <1>9
         DEF Shutdown, CloseWake, JoinAndDestroy, Close, PushFull, Wake,
             SubmitHit, AnswerFromCache, clientVars, Types
    <2>3. \A d : Coming(d)' => Coming(d)
      BY <1>1, <2>1 DEF Coming, Pushing
    <2> QED
      BY <1>1, <1>2, <2>1, <2>2, <2>3 DEF Pushing
  <1> QED
    BY <1>6, <1>7, <1>8, <1>9 DEF Arrival, Submit

\* A worker that has the mutex moves a job from the ring to the list; when the
\* last block of a job is taken, or its answer is found, the job leaves the list.
LEMMA WorkersKeepPlaces ==
    ASSUME Places, NEW w \in Workers, WorkerStep(w) \/ SpuriousWake(w)
    PROVE  PlaceInv'
  <1> USE DEF Places, PlaceInv
  <1>0. [Next]_vars
    BY DEF Next
  <1>1. /\ UNCHANGED <<mpc, cur, ppc>>
        /\ \A v \in Workers \ {w} : pc'[v] = pc[v] /\ task'[v] = task[v]
    BY WorkerMoves DEF Types
  <1>2. /\ Ring!PopRead => /\ got' \in Queued
                           /\ Queued' = Queued \ {got'}
                           /\ Distinct(Ring!Contents)'
        /\ Ring!PopRead \/ (Queued' = Queued /\ Distinct(Ring!Contents)')
        /\ Queued \subseteq Clients
    BY <1>0, <1>1, QueuedChanges DEF Ring!PushPublish
  <1>3. NoClient \notin Clients /\ Listed \subseteq JobType
    BY RequestAssumption DEF Types, Listed, Elements
  <1>4. CASE PopPending(w)
    <2>1. /\ Ring!PopRead /\ got' \in Queued /\ Queued' = Queued \ {got'}
          /\ UNCHANGED <<jobs, recipient, pc, task>>
      BY <1>2, <1>4 DEF PopPending, clientVars, listVars, workVars
    <2>2. Listed' = Listed /\ (OneEach(jobs)' <=> OneEach(jobs))
      BY <2>1 DEF Listed, OneEach
    <2>3. got = NoClient
      BY <2>1, <1>0, RingChanges DEF Ring!PopRead
    <2>4. \A c \in Clients : Coming(c)' <=> Coming(c)
      BY <1>1, <1>3, <2>1, <2>3 DEF Coming, Pushing
    <2>5. \A c \in Queued : ~Pushing(c)
      OBVIOUS
    <2>6. \A job \in Listed : job.client \in Clients
      BY <1>3 DEF JobType
    <2> QED
      BY <1>1, <1>2, <2>1, <2>2, <2>4, <2>5, <2>6 DEF Pushing
  <1>5. CASE AppendPending(w)
    <2>1. /\ Ring!PopStore /\ got' = NoClient /\ jobs' = Append(jobs, NewJob(got))
          /\ UNCHANGED <<recipient, pc, task>>
      BY <1>5 DEF AppendPending, Ring!PopStore, clientVars, workVars
    <2>2. got \in Clients /\ ~Ring!PopRead
      BY <1>0, <2>1, RingChanges DEF Ring!PopStore, Ring!PopRead
    <2>3. NewJob(got) \in JobType /\ NewJob(got).client = got
      BY <2>2, RequestFields DEF NewJob, JobType
    <2>4. \A job \in Listed : job.client # got
      BY DEF Coming
    <2>5. /\ Listed' = Listed \cup {NewJob(got)}
          /\ OneEach(jobs)'
      <3>1. /\ Elements(Append(jobs, NewJob(got))) = Elements(jobs) \cup {NewJob(got)}
            /\ OneEach(Append(jobs, NewJob(got)))
        BY <2>3, <2>4, ListedGrows DEF Types, Listed
      <3> QED
        BY <2>1, <3>1 DEF Listed, OneEach
    <2>6. \A c \in Clients : Coming(c)' <=> Coming(c) /\ c # got
      BY <1>1, <1>2, <1>3, <2>1, <2>2 DEF Coming, Pushing
    <2>7. recipient[got] # "none" /\ Coming(got)
      BY <2>2 DEF Coming
    <2>8. \A job \in Listed' : job.client \in Clients
      BY <1>3, <2>3, <2>5 DEF JobType
    <2>9. Queued' = Queued /\ Distinct(Ring!Contents)'
      BY <1>2, <2>2
    <2>10. \A job \in Listed' : ~Coming(job.client)'
      BY <2>3, <2>5, <2>6, <2>8
    <2>11. \A c \in Queued' : got' # c /\ ~Pushing(c)'
      BY <1>1, <1>2, <1>3, <2>1, <2>9 DEF Pushing
    <2>12. mpc' = "push" => got' # cur'
      BY <1>1, <1>3, <2>1 DEF SubmitInv
    <2>13. \A c \in Clients :
              recipient'[c] = "none" =>
                 /\ ~Coming(c)'
                 /\ \A job \in Listed' : job.client # c
                 /\ \A v \in Workers : pc'[v] \in Busy => task'[v].client # c
      BY <2>1, <2>3, <2>5, <2>6, <2>7
    <2> QED
      BY <2>5, <2>9, <2>10, <2>11, <2>12, <2>13
  <1>6. ASSUME ~PopPending(w), ~AppendPending(w)
        PROVE  got' = got /\ Queued' = Queued /\ Distinct(Ring!Contents)'
    <2>1. got' = got /\ ~Ring!PopRead
      BY <1>6
         DEF WorkerStep, SpuriousWake, Exit, TakeLock, DrainDone, Schedule,
             StopWaiting, DecideToYield, Yield, Awake, SearchFailed,
             SearchFound, Cancel, NotifyRecipient, CachePush, ringVars,
             Ring!DrainStart, Ring!DrainEnd, Ring!PopRead
    <2> QED
      BY <1>2, <2>1
  <1>7. ASSUME NEW offset, Schedule(w, offset) PROVE PlaceInv'
    <2>1. /\ pc[w] = "pick" /\ pc' = [pc EXCEPT ![w] = "search"]
          /\ recipient' = recipient
      BY <1>7, Scheduled
    <2>2. PICK i \in DOMAIN jobs :
             /\ task' = [task EXCEPT ![w] =
                           [client |-> jobs[i].client, start |-> jobs[i].start,
                            end |-> NextStart(jobs[i]), answer |-> NoAnswer]]
             /\ \/ RemoveSwap(i)
                \/ jobs' = [jobs EXCEPT ![i].start = NextStart(jobs[i])]
      BY <1>7, Scheduled
    <2> DEFINE job == jobs[i]
    <2>3. job \in JobType /\ job \in Listed
      BY DEF Types, Listed, Elements
    <2>4. NextStart(job) \in Nat
      BY <2>3, NextStartType
    <2>5. /\ OneEach(jobs)'
          /\ \/ Listed' = Listed \ {job}
             \/ Listed' = (Listed \ {job})
                          \cup {[client |-> job.client, start |-> NextStart(job)]}
      BY <2>2, <2>4, ListedShrinks, ListedMoves DEF Types
    <2>6. \A j \in Listed' : \E k \in Listed : j.client = k.client
      BY <2>3, <2>5
    <2>7. task'[w].client = job.client
      BY <2>2 DEF Types
    <2>8. got' = got /\ Queued' = Queued /\ Distinct(Ring!Contents)'
      BY <1>6, <2>1 DEF PopPending, AppendPending
    <2> HIDE DEF job
    <2>9. \A c : Coming(c)' <=> Coming(c)
      BY <1>1, <2>8 DEF Coming, Pushing
    <2>10. \A c \in Clients :
              recipient'[c] = "none" =>
                 /\ \A j \in Listed' : j.client # c
                 /\ \A v \in Workers : pc'[v] \in Busy => task'[v].client # c
      BY <1>1, <2>1, <2>3, <2>6, <2>7
    <2> QED
      BY <1>1, <2>1, <2>5, <2>6, <2>8, <2>9, <2>10 DEF Pushing
  <1>8. CASE Cancel(w)
    <2>1. /\ OneEach(jobs)' /\ Listed' \subseteq Listed
          /\ recipient' = recipient
          /\ pc[w] = "cancel" /\ task' = task
      BY <1>8, ListedShrinks
         DEF Cancel, clientVars, listVars, workVars, Types, Listed, OneEach
    <2>2. got' = got /\ Queued' = Queued /\ Distinct(Ring!Contents)'
      BY <1>6, <2>1 DEF PopPending, AppendPending
    <2>3. \A c : Coming(c)' <=> Coming(c)
      BY <1>1, <2>2 DEF Coming, Pushing
    <2>4. \A v \in Workers : pc'[v] \in Busy => pc[v] \in Busy
      BY <1>1, <2>1 DEF Busy
    <2> QED
      BY <1>1, <2>1, <2>2, <2>3, <2>4 DEF Pushing
  <1>9. ASSUME \/ Exit(w) \/ TakeLock(w) \/ DrainDone(w) \/ StopWaiting(w)
               \/ DecideToYield(w) \/ Yield(w) \/ Awake(w) \/ SpuriousWake(w)
               \/ SearchFailed(w) \/ SearchFound(w) \/ NotifyRecipient(w)
               \/ CachePush(w)
        PROVE  PlaceInv'
    <2>1. /\ jobs' = jobs
          /\ \A c \in Clients : recipient'[c] = "none" => recipient[c] = "none"
      BY <1>9
         DEF Exit, TakeLock, DrainDone, StopWaiting, DecideToYield, Yield,
             Awake, SpuriousWake, SearchFailed, SearchFound, NotifyRecipient,
             CachePush, Notify, clientVars, listVars, Types
    <2>2. /\ ~PopPending(w)
          /\ ~AppendPending(w)
      BY <1>9
         DEF PopPending, AppendPending, Ring!PopRead, Ring!PopStore, Exit,
             TakeLock, DrainDone, StopWaiting, DecideToYield, Yield, Awake,
             SpuriousWake, SearchFailed, SearchFound, NotifyRecipient,
             CachePush, Goto, Types, Ring!DrainStart, Ring!DrainEnd
    <2>3. pc'[w] \in Busy => pc[w] \in Busy /\ task'[w].client = task[w].client
      BY <1>9
         DEF Exit, TakeLock, DrainDone, StopWaiting, DecideToYield, Yield,
             Awake, SpuriousWake, SearchFailed, SearchFound, NotifyRecipient,
             CachePush, Goto, Types, Busy, workVars, Tasks
    <2>4. Listed' = Listed /\ (OneEach(jobs)' <=> OneEach(jobs))
      BY <2>1 DEF Listed, OneEach
    <2>5. got' = got /\ Queued' = Queued /\ Distinct(Ring!Contents)'
      BY <1>6, <2>2
    <2>6. \A c : Coming(c)' <=> Coming(c)
      BY <1>1, <2>5 DEF Coming, Pushing
    <2> QED
      BY <1>1, <2>1, <2>3, <2>4, <2>5, <2>6 DEF Pushing
  <1> QED
    BY <1>4, <1>5, <1>7, <1>8, <1>9 DEF WorkerStep

\* All of this holds at first ...
LEMMA InitPlaces == Init => Places
  BY InitTypes, SubmitsInit, InitPlaceInv DEF Places

\* ... and after every step.
LEMMA StepPlaces == Places /\ [Next]_vars => Places'
  <1> SUFFICES ASSUME Places, [Next]_vars PROVE Places'
    OBVIOUS
  <1>1. LockInv' /\ SubmitsClient' /\ SubmitInv' /\ RingInv'
    BY StepLockInv, SubmitsStep, StepSubmitInv, RingChanges DEF Places
  <1>2. CASE Arrival \/ Submit \/ Shutdown
    BY <1>1, <1>2, MainKeepsTypes, MainKeepsPlaces DEF Places
  <1>3. ASSUME NEW w \in Workers, WorkerStep(w) \/ SpuriousWake(w) PROVE Places'
    BY <1>1, <1>3, WorkersKeepTypes, WorkersKeepPlaces DEF Places, PlaceInv
  <1>4. CASE Stopped \/ UNCHANGED vars
    <2>1. UNCHANGED vars
      BY <1>4 DEF Stopped
    <2>2. Types'
      BY <2>1 DEF Places, Types, vars, clientVars, listVars, workVars
    <2>3. Ring!Contents' = Ring!Contents
      BY <2>1 DEF vars, ringVars, Ring!Contents, Ring!Count
    <2>4. PlaceInv'
      BY <2>1, <2>3
         DEF Places, PlaceInv, OneEach, Distinct, Listed, Queued, Elements,
             Coming, Pushing, vars, clientVars, listVars, ringVars, mainVars,
             workVars
    <2> QED
      BY <1>1, <2>2, <2>4 DEF Places
  <1> QED
    BY <1>2, <1>3, <1>4 DEF Next

----------------------------------------------------------------------------
(* The candidates. *)

\* A job begins to come when its client is taken up, and is no longer coming
\* when the ring drops it or it is in the list.
LEMMA ComingChanges ==
    ASSUME Places, [Next]_vars, NEW c \in Clients
    PROVE  /\ Coming(c)' => Coming(c) \/ SubmitMiss(c)
           /\ Coming(c) => \/ Coming(c)'
                           \/ PushFull /\ cur = c
                           \/ \E w \in Workers : AppendPending(w) /\ got = c
  <1> USE DEF Places, PlaceInv
  <1>1. /\ Ring!PushPublish => Queued' = Queued \cup {put}
        /\ Ring!PopRead => got' \in Queued /\ Queued' = Queued \ {got'}
        /\ Ring!PushPublish \/ Ring!PopRead \/ Queued' = Queued
    BY QueuedChanges
  <1>2. NoClient \notin Clients
    BY RequestAssumption
  <1>3. ASSUME Arrival \/ Submit \/ Shutdown
        PROVE  /\ Coming(c)' => Coming(c) \/ SubmitMiss(c)
               /\ Coming(c) => Coming(c)' \/ (PushFull /\ cur = c)
    <2>1. got' = got
      BY <1>3, MainMoves DEF Types
    <2>2. ~Ring!PopRead
      BY <1>3
         DEF Arrival, Submit, Shutdown, SubmitMiss, SubmitHit, Close, PushFull,
             PushJob, PublishJob, Wake, CloseWake, JoinAndDestroy, ringVars,
             Ring!PopRead, Ring!PushDropped, Ring!PushCheck, Ring!PushWrite,
             Ring!PushPublish
    <2>3. CASE PublishJob
      <3>1. /\ Ring!PushPublish /\ mpc = "push" /\ mpc' = "wake" /\ put = cur
        BY <2>3 DEF PublishJob, Ring!PushPublish, SubmitInv
      <3> QED
        BY <1>1, <2>1, <3>1 DEF Coming, Pushing
    <2>4. CASE ~PublishJob
      <3>1. Queued' = Queued
        BY <1>1, <1>3, <2>2, <2>4
           DEF Arrival, Submit, Shutdown, SubmitMiss, SubmitHit, Close,
               PushFull, PushJob, Wake, CloseWake, JoinAndDestroy, ringVars,
               Ring!PushDropped, Ring!PushCheck, Ring!PushWrite,
               Ring!PushPublish
      <3>2. /\ Pushing(c)' => Pushing(c) \/ SubmitMiss(c)
            /\ Pushing(c) => Pushing(c)' \/ (PushFull /\ cur = c)
        BY <1>3, <2>4
           DEF Arrival, Submit, Shutdown, SubmitMiss, SubmitHit, Close,
               PushFull, PushJob, Wake, CloseWake, JoinAndDestroy, mainVars,
               Pushing
      <3> QED
        BY <2>1, <3>1, <3>2 DEF Coming
    <2> QED
      BY <2>3, <2>4
  <1>4. ASSUME NEW w \in Workers, WorkerStep(w) \/ SpuriousWake(w)
        PROVE  /\ Coming(c)' => Coming(c)
               /\ Coming(c) => Coming(c)' \/ (AppendPending(w) /\ got = c)
    <2>1. UNCHANGED <<mpc, cur, ppc>>
      BY <1>4, WorkerMoves DEF Types
    <2>2. CASE PopPending(w)
      <3>1. Ring!PopRead
        BY <2>2 DEF PopPending
      <3>2. got = NoClient
        BY <3>1, RingChanges DEF Ring!PopRead
      <3> QED
        BY <1>1, <1>2, <2>1, <3>1, <3>2 DEF Coming, Pushing
    <2>3. CASE AppendPending(w)
      <3>1. got' = NoClient /\ ~Ring!PopRead
        BY <2>3 DEF AppendPending, Ring!PopStore, Ring!PopRead
      <3>2. Queued' = Queued
        BY <1>1, <2>1, <3>1 DEF Ring!PushPublish
      <3> QED
        BY <1>2, <2>1, <2>3, <3>1, <3>2 DEF Coming, Pushing
    <2>4. CASE ~PopPending(w) /\ ~AppendPending(w)
      <3>1. got' = got /\ ~Ring!PopRead
        BY <1>4, <2>4
           DEF WorkerStep, SpuriousWake, Exit, TakeLock, DrainDone, Schedule,
               StopWaiting, DecideToYield, Yield, Awake, SearchFailed,
               SearchFound, Cancel, NotifyRecipient, CachePush, ringVars,
               Ring!DrainStart, Ring!DrainEnd, Ring!PopRead
      <3>2. Queued' = Queued
        BY <1>1, <2>1, <3>1 DEF Ring!PushPublish
      <3> QED
        BY <2>1, <3>1, <3>2 DEF Coming, Pushing
    <2> QED
      BY <2>2, <2>3, <2>4
  <1>5. CASE Stopped \/ UNCHANGED vars
    <2>1. UNCHANGED vars
      BY <1>5 DEF Stopped
    <2>2. ~Ring!PushPublish /\ ~Ring!PopRead
      BY <2>1 DEF Ring!PushPublish, Ring!PopRead, vars, ringVars
    <2> QED
      BY <1>1, <2>1, <2>2 DEF Coming, Pushing, vars, ringVars, mainVars
  <1> QED
    BY <1>3, <1>4, <1>5 DEF Next

\* The list changes when a pending job is appended, when a block is taken, and
\* when a job is removed: by scheduler_rand_schedule or scheduler_rand_cancel.
LEMMA ListChanges ==
    ASSUME Places, [Next]_vars
    PROVE  \/ Listed' = Listed /\ UNCHANGED handed
           \/ \E w \in Workers :
                 /\ AppendPending(w) /\ got \in Clients
                 /\ Listed' = Listed \cup {NewJob(got)}
                 /\ UNCHANGED handed
           \/ \E w \in Workers : \E job \in Listed :
                 /\ pc[w] = "cancel" /\ pc' = [pc EXCEPT ![w] = "notify"]
                 /\ UNCHANGED <<task, handed, recipient>>
                 /\ job.client = task[w].client
                 /\ Listed' = Listed \ {job}
           \/ \E w \in Workers : \E job \in Listed :
                 /\ pc[w] = "pick" /\ pc' = [pc EXCEPT ![w] = "search"]
                 /\ UNCHANGED recipient
                 /\ task' = [task EXCEPT ![w] =
                               [client |-> job.client, start |-> job.start,
                                end |-> NextStart(job), answer |-> NoAnswer]]
                 /\ handed' = [handed EXCEPT ![job.client] =
                                 @ \cup Searched(job.start, NextStart(job))]
                 /\ \/ /\ NextStart(job) = Request[job.client].end
                       /\ Listed' = Listed \ {job}
                    \/ /\ NextStart(job) # Request[job.client].end
                       /\ Listed' = (Listed \ {job})
                            \cup {[client |-> job.client, start |-> NextStart(job)]}
  <1> USE DEF Places, PlaceInv
  <1>1. CASE Arrival \/ Submit \/ Shutdown
    BY <1>1, MainMoves DEF Types, Listed
  <1>2. ASSUME NEW w \in Workers, AppendPending(w)
        PROVE  /\ got \in Clients
               /\ Listed' = Listed \cup {NewJob(got)}
               /\ UNCHANGED handed
    <2>1. jobs' = Append(jobs, NewJob(got)) /\ UNCHANGED handed /\ cpc = "store"
      BY <1>2 DEF AppendPending, Ring!PopStore, workVars
    <2>2. got \in Clients
      BY <2>1, RingChanges
    <2>3. NewJob(got) \in JobType
      BY <2>2, RequestFields DEF NewJob, JobType
    <2>4. Elements(Append(jobs, NewJob(got))) = Elements(jobs) \cup {NewJob(got)}
      BY <2>3, AppendElements DEF Types
    <2> QED
      BY <2>1, <2>2, <2>4 DEF Listed
  <1>3. ASSUME NEW w \in Workers, Cancel(w)
        PROVE  /\ UNCHANGED handed
               /\ \/ Listed' = Listed
                  \/ \E job \in Listed :
                        /\ pc[w] = "cancel" /\ pc' = [pc EXCEPT ![w] = "notify"]
                        /\ UNCHANGED <<task, handed, recipient>>
                        /\ job.client = task[w].client
                        /\ Listed' = Listed \ {job}
    <2>1. /\ pc[w] = "cancel" /\ pc' = [pc EXCEPT ![w] = "notify"]
          /\ UNCHANGED <<task, handed, recipient>>
      BY <1>3 DEF Cancel, Goto, workVars, clientVars
    <2>2. CASE UNCHANGED listVars
      BY <2>1, <2>2 DEF listVars, Listed
    <2>3. CASE ~UNCHANGED listVars
      <3>1. PICK i \in DOMAIN jobs : jobs[i].client = task[w].client /\ RemoveSwap(i)
        BY <1>3, <2>3 DEF Cancel
      <3>2. Listed' = Listed \ {jobs[i]}
        BY <3>1, ListedShrinks DEF Types
      <3>3. jobs[i] \in Listed
        BY DEF Listed, Elements
      <3> QED
        BY <2>1, <3>1, <3>2, <3>3
    <2> QED
      BY <2>2, <2>3
  <1>4. ASSUME NEW w \in Workers, NEW offset, Schedule(w, offset)
        PROVE  \E job \in Listed :
                 /\ pc[w] = "pick" /\ pc' = [pc EXCEPT ![w] = "search"]
                 /\ UNCHANGED recipient
                 /\ task' = [task EXCEPT ![w] =
                               [client |-> job.client, start |-> job.start,
                                end |-> NextStart(job), answer |-> NoAnswer]]
                 /\ handed' = [handed EXCEPT ![job.client] =
                                 @ \cup Searched(job.start, NextStart(job))]
                 /\ \/ /\ NextStart(job) = Request[job.client].end
                       /\ Listed' = Listed \ {job}
                    \/ /\ NextStart(job) # Request[job.client].end
                       /\ Listed' = (Listed \ {job})
                            \cup {[client |-> job.client, start |-> NextStart(job)]}
    <2>1. /\ pc[w] = "pick" /\ pc' = [pc EXCEPT ![w] = "search"]
          /\ UNCHANGED recipient
      BY <1>4, Scheduled
    <2>2. PICK i \in DOMAIN jobs :
             /\ task' = [task EXCEPT ![w] =
                           [client |-> jobs[i].client, start |-> jobs[i].start,
                            end |-> NextStart(jobs[i]), answer |-> NoAnswer]]
             /\ handed' = [handed EXCEPT ![jobs[i].client] =
                             @ \cup Searched(jobs[i].start, NextStart(jobs[i]))]
             /\ \/ /\ NextStart(jobs[i]) = Request[jobs[i].client].end
                   /\ RemoveSwap(i)
                \/ /\ NextStart(jobs[i]) # Request[jobs[i].client].end
                   /\ jobs' = [jobs EXCEPT ![i].start = NextStart(jobs[i])]
      BY <1>4, Scheduled
    <2> DEFINE job == jobs[i]
    <2>3. job \in JobType /\ job \in Listed
      BY DEF Types, Listed, Elements
    <2>4. NextStart(job) \in Nat
      BY <2>3, NextStartType
    <2>5. RemoveSwap(i) => Listed' = Listed \ {job}
      BY ListedShrinks DEF Types
    <2>6. jobs' = [jobs EXCEPT ![i].start = NextStart(job)] =>
             Listed' = (Listed \ {job})
                       \cup {[client |-> job.client, start |-> NextStart(job)]}
      BY <2>4, ListedMoves DEF Types
    <2> QED
      BY <2>1, <2>2, <2>3, <2>5, <2>6
  <1>5. ASSUME NEW w \in Workers, WorkerStep(w) \/ SpuriousWake(w),
               ~AppendPending(w), ~Cancel(w),
               \A offset \in 0 .. priority_sum - 1 : ~Schedule(w, offset)
        PROVE  Listed' = Listed /\ UNCHANGED handed
    BY <1>5
       DEF WorkerStep, SpuriousWake, Exit, TakeLock, PopPending, DrainDone,
           StopWaiting, DecideToYield, Yield, Awake, SearchFailed,
           SearchFound, NotifyRecipient, CachePush, listVars, workVars, Listed
  <1>6. CASE Stopped \/ UNCHANGED vars
    BY <1>6 DEF Stopped, vars, listVars, workVars, Listed
  <1> QED
    BY <1>1, <1>2, <1>3, <1>4, <1>5, <1>6 DEF Next

\* No job starts after its end.
LEMMA StepStartInv == Places /\ StartInv /\ [Next]_vars => StartInv'
  <1> SUFFICES ASSUME Places, StartInv, [Next]_vars, NEW job \in Listed'
               PROVE  job.start <= Request[job.client].end
    BY DEF StartInv
  <1> USE DEF StartInv
  <1>1. Listed \subseteq JobType
    BY DEF Places, Types, Listed, Elements
  <1>2. \/ job \in Listed
        \/ got \in Clients /\ job = NewJob(got)
        \/ \E j \in Listed : job = [client |-> j.client, start |-> NextStart(j)]
    BY ListChanges
  <1>3. CASE got \in Clients /\ job = NewJob(got)
    BY <1>3, RequestFields DEF NewJob
  <1>4. CASE \E j \in Listed : job = [client |-> j.client, start |-> NextStart(j)]
    BY <1>1, <1>4, NextStartType
  <1> QED
    BY <1>2, <1>3, <1>4

\* An answered client stays answered.
LEMMA SolvedStays ==
    ASSUME Places, [Next]_vars, NEW c \in Clients
    PROVE  /\ Solved(c) => Solved(c)'
           /\ recipient'[c] # "none" => recipient[c] # "none" \/ Solved(c)' \/ SubmitMiss(c)
           /\ SubmitMiss(c) => Coming(c)'
  <1> USE DEF Places, PlaceInv, Types
  <1>1. CASE Arrival
    <2>1. pc' = pc /\ task' = task
      BY <1>1 DEF Arrival, SubmitMiss, SubmitHit, Close, workVars
    <2>2. ASSUME NEW d \in Clients, SubmitMiss(d)
          PROVE  /\ recipient' = [recipient EXCEPT ![d] = "live"]
                 /\ recipient[d] = "none" /\ Coming(d)'
      BY <2>2 DEF SubmitMiss, MissCache, Coming, Pushing
    <2>3. ASSUME NEW d \in Clients, NEW entry, SubmitHit(d, entry)
          PROVE  recipient' = [recipient EXCEPT ![d] = "freed"] /\ mpc' = "idle" /\ mpc = "idle"
      BY <2>3 DEF SubmitHit, AnswerFromCache, mainVars
    <2>4. CASE Close
      BY <2>1, <2>4 DEF Close, clientVars, Solved, SubmitMiss
    <2>5. ASSUME NEW d \in Clients, SubmitMiss(d)
          PROVE  /\ Solved(c) => Solved(c)'
                 /\ recipient'[c] # "none" =>
                       recipient[c] # "none" \/ Solved(c)' \/ SubmitMiss(c)
      BY <2>1, <2>2, <2>5 DEF Solved
    <2>6. ASSUME NEW d \in Clients, NEW entry, SubmitHit(d, entry)
          PROVE  /\ Solved(c) => Solved(c)'
                 /\ recipient'[c] # "none" =>
                       recipient[c] # "none" \/ Solved(c)' \/ SubmitMiss(c)
      BY <2>1, <2>3, <2>6 DEF Solved
    <2>7. SubmitMiss(c) => Coming(c)'
      BY <2>2
    <2> QED
      BY <1>1, <2>4, <2>5, <2>6, <2>7 DEF Arrival
  <1>2. ASSUME ~Arrival PROVE ~SubmitMiss(c)
    BY <1>2 DEF Arrival
  <1>3. CASE Submit \/ Shutdown
    <2>1. /\ task' = task /\ \A w \in Workers : pc[w] = "notify" => pc'[w] = "notify"
      BY <1>3, MainMoves
    <2>2. recipient' = recipient
      BY <1>3
         DEF Submit, Shutdown, PushFull, PushJob, PublishJob, Wake, CloseWake,
             JoinAndDestroy, clientVars
    <2>3. SubmitMiss(c) => Coming(c)'
      BY DEF SubmitMiss, Coming, Pushing
    <2> QED
      BY <2>1, <2>2, <2>3 DEF Solved
  <1>4. SubmitMiss(c) => Coming(c)'
    BY DEF SubmitMiss, Coming, Pushing
  <1>5. ASSUME NEW w \in Workers, NotifyRecipient(w)
        PROVE  /\ Solved(c) => Solved(c)'
               /\ recipient'[c] # "none" => recipient[c] # "none"
    <2> DEFINE d == task[w].client
    <2>1. /\ pc[w] = "notify" /\ task' = task /\ d \in Clients
          /\ recipient[d] # "none"
          /\ \A v \in Workers \ {w} : pc'[v] = pc[v]
      BY <1>5 DEF NotifyRecipient, workVars, Goto, Busy
    <2>2. recipient'[d] = "freed" /\ \A e \in Clients \ {d} : recipient'[e] = recipient[e]
      BY <1>5, <2>1 DEF NotifyRecipient, Notify
    <2> HIDE DEF d
    <2> QED
      BY <2>1, <2>2 DEF Solved, d
  <1>6. ASSUME NEW w \in Workers, WorkerStep(w) \/ SpuriousWake(w), ~NotifyRecipient(w)
        PROVE  /\ Solved(c) => Solved(c)'
               /\ recipient'[c] # "none" => recipient[c] # "none"
    <2>1. \A v \in Workers \ {w} : pc'[v] = pc[v] /\ task'[v] = task[v]
      BY <1>6, WorkerMoves
    <2>2. recipient' = recipient /\ pc[w] # "notify"
      BY <1>6
         DEF WorkerStep, SpuriousWake, Exit, TakeLock, PopPending,
             AppendPending, DrainDone, Schedule, StopWaiting, DecideToYield,
             Yield, Awake, SearchFailed, SearchFound, Cancel, CachePush,
             clientVars
    <2> QED
      BY <2>1, <2>2 DEF Solved
  <1>7. CASE Stopped \/ UNCHANGED vars
    <2>1. UNCHANGED <<recipient, pc, task>>
      BY <1>7 DEF Stopped, vars, clientVars, workVars
    <2> QED
      BY <1>4, <2>1 DEF Solved
  <1> QED
    BY <1>1, <1>3, <1>4, <1>5, <1>6, <1>7 DEF Next

\* A candidate that remains is handed out, remains, or is not wanted any more.
LEMMA NothingLost ==
    ASSUME Places, StartInv, [Next]_vars, NEW c \in Clients,
           NEW v \in Request[c].start .. Request[c].end,
           v \in handed[c] \/ Remains(c, v)
    PROVE  v \in handed'[c] \/ Remains(c, v)' \/ c \in dropped' \/ Solved(c)'
  <1> USE DEF Places, Types
  <1>0. Request[c].start \in Nat /\ Request[c].end \in Nat /\ v \in Nat
    BY RequestFields
  <1>1. Listed \subseteq JobType
    BY DEF Listed, Elements
  <1>2. CASE Coming(c)
    <2>1. \/ Coming(c)'
          \/ PushFull /\ cur = c
          \/ \E w \in Workers : AppendPending(w) /\ got = c
      BY <1>2, ComingChanges
    <2>2. PushFull /\ cur = c => c \in dropped'
      BY DEF PushFull, Ring!PushDropped
    <2>3. ASSUME NEW w \in Workers, AppendPending(w), got = c
          PROVE  Remains(c, v)'
      <3>1. jobs' = Append(jobs, NewJob(c))
        BY <2>3 DEF AppendPending
      <3>2. NewJob(c) \in JobType
        BY RequestFields DEF NewJob, JobType
      <3>3. Listed' = Listed \cup {NewJob(c)}
        <4>1. Elements(Append(jobs, NewJob(c))) = Elements(jobs) \cup {NewJob(c)}
          BY <3>2, AppendElements
        <4> QED
          BY <3>1, <4>1 DEF Listed
      <3>4. NewJob(c).client = c /\ NewJob(c).start <= v
        BY <1>0 DEF NewJob
      <3> QED
        BY <3>3, <3>4 DEF Remains
    <2> QED
      BY <2>1, <2>2, <2>3 DEF Remains
  <1>3. CASE v \in handed[c]
    <2>1. handed[c] \subseteq handed'[c]
      <3>1. ASSUME NEW d, NEW x, handed' = [handed EXCEPT ![d] = @ \cup x]
            PROVE  handed[c] \subseteq handed'[c]
        BY <3>1
      <3> QED
        BY <3>1, ListChanges
    <2> QED
      BY <1>3, <2>1
  <1>4. ASSUME NEW job \in Listed, job.client = c, job.start <= v
        PROVE  v \in handed'[c] \/ Remains(c, v)' \/ Solved(c)'
    <2>1. CASE job \in Listed'
      BY <1>4, <2>1 DEF Remains
    <2>2. CASE job \notin Listed'
      <3>1. CASE \E w \in Workers :
                    /\ pc[w] = "cancel" /\ pc' = [pc EXCEPT ![w] = "notify"]
                    /\ UNCHANGED <<task, handed, recipient>>
                    /\ job.client = task[w].client
        BY <1>4, <3>1 DEF Solved
      <3>2. CASE /\ handed' = [handed EXCEPT ![job.client] =
                                 @ \cup Searched(job.start, NextStart(job))]
                 /\ \/ NextStart(job) = Request[job.client].end
                    \/ [client |-> job.client, start |-> NextStart(job)] \in Listed'
        <4> DEFINE next == NextStart(job)
        <4>1. job.start \in Nat /\ next \in Nat /\ job \in JobType
          BY <1>1, NextStartType DEF JobType
        <4>2. handed'[c] = handed[c] \cup Searched(job.start, next)
          BY <1>4, <3>2
        <4>3. CASE next <= v /\ [client |-> job.client, start |-> next] \in Listed'
          BY <1>4, <4>3 DEF Remains
        <4>4. CASE v <= next
          BY <1>0, <1>4, <4>1, <4>2, <4>4, SearchedRange
        <4>5. \/ v <= next
              \/ next <= v /\ [client |-> job.client, start |-> next] \in Listed'
          BY <1>0, <1>4, <3>2, <4>1
        <4> QED
          BY <4>3, <4>4, <4>5
      <3>3. Listed' # Listed
        BY <2>2
      <3> QED
        BY <2>2, <3>1, <3>2, <3>3, ListChanges
    <2> QED
      BY <2>1, <2>2
  <1> QED
    BY <1>2, <1>3, <1>4 DEF Remains

\* So the candidates of a client are all accounted for.
LEMMA StepRestInv == Places /\ StartInv /\ RestInv /\ [Next]_vars => RestInv'
  <1> SUFFICES ASSUME Places, StartInv, RestInv, [Next]_vars, NEW c \in Clients,
                      recipient'[c] # "none", c \notin dropped', ~Solved(c)',
                      NEW v \in Request[c].start .. Request[c].end
               PROVE  v \in handed'[c] \/ Remains(c, v)'
    BY DEF RestInv
  <1>1. \/ recipient[c] # "none" /\ ~Solved(c)
        \/ Coming(c)'
    BY SolvedStays
  <1>2. c \notin dropped
    <2>1. dropped \subseteq dropped'
      BY DEF Next, Arrival, Submit, Shutdown, Stopped, SubmitMiss, SubmitHit,
             Close, PushFull, PushJob, PublishJob, Wake, CloseWake,
             JoinAndDestroy, WorkerStep, SpuriousWake, Exit, TakeLock,
             PopPending, AppendPending, DrainDone, Schedule, StopWaiting,
             DecideToYield, Yield, Awake, SearchFailed, SearchFound, Cancel,
             NotifyRecipient, CachePush, vars, ringVars, Ring!PushDropped,
             Ring!PushCheck, Ring!PushWrite, Ring!PushPublish,
             Ring!DrainStart, Ring!PopRead, Ring!PopStore, Ring!DrainEnd
    <2> QED
      BY <2>1
  <1>3. CASE recipient[c] # "none" /\ ~Solved(c)
    BY <1>2, <1>3, NothingLost DEF RestInv
  <1>4. CASE Coming(c)'
    BY <1>4 DEF Remains
  <1> QED
    BY <1>1, <1>3, <1>4

\* scheduler_rand_create has no jobs.
LEMMA InitRest == Init => StartInv /\ RestInv
  <1> SUFFICES ASSUME Init PROVE StartInv /\ RestInv
    OBVIOUS
  <1>1. Listed = {} /\ \A c \in Clients : recipient[c] = "none"
    BY DEF Init, BaseInit, Listed, Elements
  <1> QED
    BY <1>1 DEF StartInv, RestInv

\* Every candidate of a request, unless the ring dropped it, is handed to a
\* worker or still to be handed out, until an answer is found: moving pending
\* jobs to the list (scheduler_rand_schedule), removing a job by swapping it
\* with the last and cancelling lose no candidate.
THEOREM RangesAccounted == Spec => []RangeAccounted
  <1> DEFINE Inv == Places /\ StartInv /\ RestInv
  <1>1. Init => Inv
    BY InitPlaces, InitRest
  <1>2. Inv /\ [Next]_vars => Inv'
    BY StepPlaces, StepStartInv, StepRestInv
  <1>3. Inv => RangeAccounted
    <2> SUFFICES ASSUME Inv, NEW c \in Clients, recipient[c] # "none",
                        c \notin dropped, ~Solved(c),
                        NEW v \in Request[c].start .. Request[c].end
                 PROVE  v \in handed[c] \cup Left(c)
      BY DEF RangeAccounted
    <2>1. v \in handed[c] \/ Remains(c, v)
      BY DEF RestInv
    <2>2. CASE InRing(c) \/ cur = c
      BY <2>2 DEF Left
    <2>3. CASE ~(InRing(c) \/ cur = c)
      <3>1. ~Coming(c)
        BY <2>3 DEF Coming, Pushing, Queued, Elements, InRing
      <3>2. Left(c) = UNION {jobs[i].start .. Request[c].end :
                                i \in {k \in DOMAIN jobs : jobs[k].client = c}}
        BY <2>3 DEF Left
      <3>3. ASSUME NEW job \in Listed, job.client = c, job.start <= v
            PROVE  v \in Left(c)
        <4>1. PICK i \in DOMAIN jobs : job = jobs[i]
          BY DEF Listed, Elements
        <4>2. job \in JobType
          BY <4>1 DEF Places, Types
        <4>3. v \in job.start .. Request[c].end
          BY <3>3, <4>2, RequestFields DEF JobType
        <4> QED
          BY <3>2, <3>3, <4>1, <4>3
      <3> QED
        BY <2>1, <3>1, <3>3 DEF Remains
    <2> QED
      BY <2>2, <2>3
  <1> QED
    BY <1>1, <1>2, <1>3, PTL DEF Spec

----------------------------------------------------------------------------
(* The answers. *)

\* The uint64_t in which the start of a task is computed does not wrap.
RangesFit == \A c \in Clients : Request[c].end + BLOCK_SIZE < U64

\* A value that is a multiple of n, and the values after it.
LEMMA AfterMultiple ==
    ASSUME NEW d \in Nat, NEW n \in Nat \ {0}, d % n = 0, NEW r \in Nat
    PROVE  /\ (d + n) % n = 0
           /\ (d + r) % n <= r
  <1> DEFINE k == d \div n
             m == r \div n
             x == r % n
  <1>1. k \in Nat /\ d = k * n + 0
    OBVIOUS
  <1>2. m \in Nat /\ x \in 0 .. n - 1 /\ r = m * n + x
    OBVIOUS
  <1> HIDE DEF k, m, x
  <1>3. (d + n) % n = 0
    <2>1. d + n = (k + 1) * n + 0
      BY <1>1
    <2> QED
      BY <1>1, <2>1
  <1>4. (d + r) % n = x
    <2>1. d + r = (k + m) * n + x
      BY <1>1, <1>2
    <2> QED
      BY <1>1, <1>2, <2>1
  <1>5. x <= r
    <2>1. m * n \in Nat
      BY <1>2
    <2> QED
      BY <1>2, <2>1
  <1> QED
    BY <1>3, <1>4, <1>5

\* Without a wrap, the next task starts a block later or at the end.
LEMMA NextStartFits ==
    ASSUME RangesFit, NEW job \in JobType, job.start <= Request[job.client].end
    PROVE  /\ NextStart(job) # Request[job.client].end
                => NextStart(job) = job.start + BLOCK_SIZE
           /\ job.start <= NextStart(job)
  <1> DEFINE sum == job.start + BLOCK_SIZE
             end == Request[job.client].end
  <1>1. /\ sum \in Nat /\ U64 \in Nat \ {0} /\ BLOCK_SIZE \in Nat \ {0}
        /\ end \in Nat /\ job.start \in Nat /\ sum < U64
    BY RandAssumption, RequestFields DEF RangesFit, JobType
  <1>2. sum % U64 = sum
    <2> HIDE DEF sum
    <2> QED
      BY <1>1
  <1>3. NextStart(job) = IF end < sum THEN end ELSE sum
    BY <1>2 DEF NextStart
  <1> QED
    BY <1>1, <1>3

\* Every task starts a whole number of blocks after the first.
LEMMA StepBlockInv ==
    RangesFit /\ Places /\ StartInv /\ BlockInv /\ [Next]_vars => BlockInv'
  <1> SUFFICES ASSUME RangesFit, Places, StartInv, BlockInv, [Next]_vars,
                      NEW job \in Listed'
               PROVE  LET d == job.start - Request[job.client].start
                      IN  d >= 0 /\ d % BLOCK_SIZE = 0
    BY DEF BlockInv
  <1>1. Listed \subseteq JobType /\ BLOCK_SIZE \in Nat \ {0}
    BY RandAssumption DEF Places, Types, Listed, Elements
  <1>2. \/ job \in Listed
        \/ got \in Clients /\ job = NewJob(got)
        \/ \E j \in Listed : /\ job = [client |-> j.client, start |-> NextStart(j)]
                             /\ NextStart(j) # Request[j.client].end
    BY ListChanges
  <1>3. CASE job \in Listed
    BY <1>3 DEF BlockInv
  <1>4. CASE got \in Clients /\ job = NewJob(got)
    <2>1. job.start - Request[job.client].start = 0
      BY <1>4, RequestFields DEF NewJob
    <2> QED
      BY <1>1, <2>1
  <1>5. ASSUME NEW j \in Listed, job = [client |-> j.client, start |-> NextStart(j)],
               NextStart(j) # Request[j.client].end
        PROVE  LET d == job.start - Request[job.client].start
               IN  d >= 0 /\ d % BLOCK_SIZE = 0
    <2> DEFINE d == j.start - Request[j.client].start
    <2>1. /\ j.start \in Nat /\ Request[j.client].start \in Nat
          /\ d \in Nat /\ d % BLOCK_SIZE = 0
      BY <1>1, RequestFields DEF JobType, BlockInv
    <2>2. NextStart(j) = j.start + BLOCK_SIZE
      BY <1>1, <1>5, NextStartFits DEF StartInv
    <2>3. job.start - Request[job.client].start = d + BLOCK_SIZE
      BY <1>1, <1>5, <2>1, <2>2
    <2> HIDE DEF d
    <2>4. (d + BLOCK_SIZE) % BLOCK_SIZE = 0
      BY <1>1, <2>1, AfterMultiple
    <2> QED
      BY <1>1, <2>1, <2>3, <2>4
  <1> QED
    BY <1>2, <1>3, <1>4, <1>5

\* A hash that no two tasks share is found before the next task begins.
LEMMA FoundBeforeNext ==
    ASSUME RangesFit, Places, StartInv, BlockInv, NEW job \in Listed,
           Request[job.client].hash \notin Seam(job.client),
           NextStart(job) # Request[job.client].end,
           Request[job.client].hash \in Searched(job.start, NextStart(job))
    PROVE  ~(NextStart(job) <= Request[job.client].hash)
  <1> SUFFICES ASSUME NextStart(job) <= Request[job.client].hash PROVE FALSE
    OBVIOUS
  <1> DEFINE c == job.client
             hash == Request[c].hash
             next == NextStart(job)
             d == job.start - Request[c].start
             r == hash - next
  <1>1. job \in JobType
    BY DEF Places, Types, Listed, Elements
  <1>2. /\ c \in Clients /\ job.start \in Nat
        /\ Request[c].start \in Nat /\ Request[c].end \in Nat /\ hash \in Nat
        /\ BLOCK_SIZE \in Nat \ {0} /\ LANES \in Nat \ {0}
    BY <1>1, RequestFields, RandAssumption, LanesAssumption DEF JobType
  <1>3. next = job.start + BLOCK_SIZE /\ next <= Request[c].end
    BY <1>1, NextStartFits, NextStartType DEF StartInv
  <1>4. job.start <= next /\ next \in Nat
    BY <1>2, <1>3
  <1>5. hash <= next + LANES - 1
    BY <1>2, <1>4, SearchedRange
  <1>6. d \in Nat /\ d % BLOCK_SIZE = 0
    BY <1>2 DEF BlockInv
  <1>7. r \in Nat /\ r <= LANES - 1
    BY <1>2, <1>4, <1>5
  <1>8. hash - Request[c].start = (d + BLOCK_SIZE) + r
    BY <1>2, <1>3
  <1>9. hash \in Request[c].start + BLOCK_SIZE .. Request[c].end + LANES - 1
    BY <1>2, <1>3, <1>5, <1>6, <1>7
  <1>10. (hash - Request[c].start) % BLOCK_SIZE < LANES
    <2> HIDE DEF d, r, hash
    <2>1. (d + BLOCK_SIZE) \in Nat /\ (d + BLOCK_SIZE) % BLOCK_SIZE = 0
      BY <1>2, <1>6, AfterMultiple
    <2>2. ((d + BLOCK_SIZE) + r) % BLOCK_SIZE <= r
      BY <1>2, <1>7, <2>1, AfterMultiple
    <2>3. ((d + BLOCK_SIZE) + r) % BLOCK_SIZE \in Int
      BY <1>2, <1>7, <2>1
    <2> QED
      BY <1>2, <1>7, <1>8, <2>2, <2>3
  <1> QED
    BY <1>9, <1>10 DEF Seam

\* What remains of a request remained before, but for a request just taken up.
LEMMA RemainsChanges ==
    ASSUME RangesFit, Places, StartInv, [Next]_vars, NEW c \in Clients,
           NEW v \in Nat, Remains(c, v)'
    PROVE  Remains(c, v) \/ SubmitMiss(c)
  <1>1. Listed \subseteq JobType
    BY DEF Places, Types, Listed, Elements
  <1>2. CASE Coming(c)'
    BY <1>2, ComingChanges DEF Remains
  <1>3. ASSUME NEW job \in Listed', job.client = c, job.start <= v
        PROVE  Remains(c, v)
    <2>1. \/ job \in Listed
          \/ job = NewJob(got)
          \/ \E j \in Listed : job = [client |-> j.client, start |-> NextStart(j)]
      BY ListChanges
    <2>2. CASE job \in Listed
      BY <1>3, <2>2 DEF Remains
    <2>3. CASE job = NewJob(got)
      BY <1>3, <2>3 DEF NewJob, Remains, Coming
    <2>4. ASSUME NEW j \in Listed, job = [client |-> j.client, start |-> NextStart(j)]
          PROVE  Remains(c, v)
      <3>1. j \in JobType /\ j.start <= NextStart(j)
        BY <1>1, NextStartFits DEF StartInv
      <3>2. j.start \in Nat /\ NextStart(j) \in Nat
        BY <3>1, NextStartType DEF JobType
      <3>3. j.client = c /\ j.start <= v
        BY <1>3, <2>4, <3>1, <3>2
      <3> QED
        BY <3>3 DEF Remains
    <2> QED
      BY <2>1, <2>2, <2>3, <2>4
  <1> QED
    BY <1>2, <1>3 DEF Remains

\* A worker finds the hash of a client in the task it has just been given, or
\* found it before.
LEMMA FindsChanges ==
    ASSUME Places, [Next]_vars, NEW w \in Workers, NEW c \in Clients
    PROVE  /\ Finds(w, c)' =>
                 \/ Finds(w, c)
                 \/ pc[w] = "pick" /\ pc'[w] = "search" /\ task'[w].client = c
           /\ pc'[w] \in {"cancel", "notify"} =>
                 \/ pc[w] \in {"cancel", "notify"} /\ task'[w] = task[w]
                 \/ Finds(w, task[w].client)'
  <1> USE DEF Places, Types
  <1>1. CASE Arrival \/ Submit \/ Shutdown
    BY <1>1, MainMoves DEF Finds
  <1>2. ASSUME NEW v \in Workers, WorkerStep(v) \/ SpuriousWake(v), v # w
        PROVE  pc'[w] = pc[w] /\ task'[w] = task[w]
    BY <1>2, WorkerMoves
  <1>3. ASSUME NEW offset, Schedule(w, offset)
        PROVE  pc[w] = "pick" /\ pc'[w] = "search"
    BY <1>3, Scheduled
  <1>4. CASE SearchFound(w)
    <2>1. /\ pc[w] = "search" /\ pc'[w] = "cancel"
          /\ task' = [task EXCEPT ![w] = [task[w] EXCEPT !.answer = Found(w)]]
          /\ Found(w) # NoAnswer
      BY <1>4 DEF SearchFound, Goto
    <2> DEFINE after == [task[w] EXCEPT !.answer = Found(w)]
    <2>2. /\ after.client = task[w].client
          /\ after.start = task[w].start
          /\ after.end = task[w].end
      BY DEF Tasks
    <2>3. task'[w] = after
      BY <2>1
    <2> HIDE DEF after
    <2>4. task[w].client \in Clients
      BY <2>1 DEF Busy
    <2>5. Finds(w, task[w].client)
      BY <2>1, <2>4, ReverseType DEF Finds, Found
    <2>6. \A d : Finds(w, d)' <=> Finds(w, d)
      BY <2>1, <2>2, <2>3 DEF Finds
    <2> QED
      BY <2>2, <2>3, <2>5, <2>6
  <1>5. ASSUME \/ Exit(w) \/ TakeLock(w) \/ DrainDone(w) \/ StopWaiting(w)
               \/ DecideToYield(w) \/ Yield(w) \/ Awake(w) \/ SpuriousWake(w)
               \/ SearchFailed(w) \/ PopPending(w) \/ AppendPending(w)
               \/ CachePush(w) \/ NotifyRecipient(w)
        PROVE  pc'[w] \notin {"search", "cancel", "notify"}
    BY <1>5
       DEF Exit, TakeLock, DrainDone, StopWaiting, DecideToYield, Yield,
           Awake, SpuriousWake, SearchFailed, PopPending, AppendPending,
           CachePush, NotifyRecipient, Goto
  <1>6. CASE Cancel(w)
    BY <1>6 DEF Cancel, Goto, workVars, Finds
  <1>7. CASE Stopped \/ UNCHANGED vars
    BY <1>7 DEF Stopped, vars, workVars, Finds
  <1>8. ASSUME NEW offset, Schedule(w, offset)
        PROVE  Finds(w, c)' => task'[w].client = c
    BY DEF Finds
  <1> QED
    BY <1>1, <1>2, <1>3, <1>4, <1>5, <1>6, <1>7, <1>8
       DEF Next, WorkerStep, Finds

\* A recipient is freed by a hit in the cache, which the client did not wait
\* for, or by the worker that notifies it.
LEMMA FreedBy ==
    ASSUME Places, [Next]_vars, NEW c \in Clients, recipient'[c] = "freed"
    PROVE  \/ recipient[c] = "freed"
           \/ recipient[c] = "none" /\ ~SubmitMiss(c)
           \/ \E w \in Workers :
                 pc[w] = "notify" /\ task[w].client = c /\ pc'[w] = "cache"
  <1> USE DEF Places, Types
  <1>1. CASE Arrival
    BY <1>1
       DEF Arrival, SubmitMiss, SubmitHit, Close, AnswerFromCache, MissCache,
           clientVars
  <1>2. CASE Submit \/ Shutdown
    BY <1>2
       DEF Submit, Shutdown, PushFull, PushJob, PublishJob, Wake, CloseWake,
           JoinAndDestroy, clientVars
  <1>3. ASSUME NEW w \in Workers, NotifyRecipient(w)
        PROVE  \/ recipient[c] = "freed"
               \/ pc[w] = "notify" /\ task[w].client = c /\ pc'[w] = "cache"
    BY <1>3 DEF NotifyRecipient, Notify, Goto
  <1>4. ASSUME NEW w \in Workers, WorkerStep(w) \/ SpuriousWake(w), ~NotifyRecipient(w)
        PROVE  recipient' = recipient
    BY <1>4
       DEF WorkerStep, SpuriousWake, Exit, TakeLock, PopPending,
           AppendPending, DrainDone, Schedule, StopWaiting, DecideToYield,
           Yield, Awake, SearchFailed, SearchFound, Cancel, CachePush,
           clientVars
  <1>5. CASE Stopped \/ UNCHANGED vars
    BY <1>5 DEF Stopped, vars, clientVars
  <1> QED
    BY <1>1, <1>2, <1>3, <1>4, <1>5 DEF Next

\* A hash that no two tasks share: once a worker finds it, or the client is
\* answered, no further task holds it.
LEMMA StepOnceInv ==
    RangesFit /\ Places /\ StartInv /\ BlockInv /\ OnceInv /\ [Next]_vars => OnceInv'
  <1> SUFFICES ASSUME RangesFit, Places, StartInv, BlockInv, OnceInv, [Next]_vars
               PROVE  OnceInv'
    OBVIOUS
  <1> USE DEF OnceInv
  <1>1. ASSUME NEW w \in Workers, pc'[w] \in {"cancel", "notify"}
        PROVE  Finds(w, task[w].client)'
    <2>0. Places'
      BY StepPlaces
    <2>1. task'[w].client \in Clients
      BY <1>1, <2>0 DEF Places, Types, Busy
    <2>2. \/ pc[w] \in {"cancel", "notify"} /\ task'[w] = task[w]
          \/ Finds(w, task[w].client)'
      BY <1>1, <2>1, FindsChanges
    <2>3. CASE pc[w] \in {"cancel", "notify"} /\ task'[w] = task[w]
      BY <1>1, <2>3 DEF Finds
    <2> QED
      BY <2>2, <2>3
  <1>2. ASSUME NEW c \in Clients, Request[c].hash \notin Seam(c)
        PROVE  /\ \A w, v \in Workers : Finds(w, c)' /\ Finds(v, c)' => w = v
               /\ (\E w \in Workers : Finds(w, c)') => recipient'[c] # "freed"
               /\ (\E w \in Workers : Finds(w, c)') \/ recipient'[c] = "freed"
                     => ~ToFind(c)'
    <2> DEFINE hash == Request[c].hash
    <2>0. hash \in Nat
      BY RequestFields
    <2>1. /\ \A w, v \in Workers : Finds(w, c) /\ Finds(v, c) => w = v
          /\ (\E w \in Workers : Finds(w, c)) => recipient[c] # "freed"
          /\ (\E w \in Workers : Finds(w, c)) \/ recipient[c] = "freed" => ~ToFind(c)
      BY <1>2
    <2>2. ASSUME NEW w \in Workers, Finds(w, c) PROVE recipient[c] # "none"
      BY <2>2 DEF Finds, Busy, Places, PlaceInv
    <2>3. ToFind(c)' => ToFind(c) \/ SubmitMiss(c)
      BY <2>0, RemainsChanges DEF ToFind
    <2>4. SubmitMiss(c) => recipient[c] = "none"
      BY DEF SubmitMiss, MissCache
    <2>5. recipient[c] = "none" => ~ToFind(c)
      BY DEF ToFind, Remains, Places, PlaceInv
    <2>6. CASE \E w \in Workers : pc[w] = "pick" /\ pc'[w] = "search" /\ Finds(w, c)'
      <3>1. PICK w \in Workers : pc[w] = "pick" /\ pc'[w] = "search" /\ Finds(w, c)'
        BY <2>6
      <3>2. PICK job \in Listed :
               /\ pc' = [pc EXCEPT ![w] = "search"]
               /\ UNCHANGED recipient
               /\ task' = [task EXCEPT ![w] =
                             [client |-> job.client, start |-> job.start,
                              end |-> NextStart(job), answer |-> NoAnswer]]
               /\ \/ /\ NextStart(job) = Request[job.client].end
                     /\ Listed' = Listed \ {job}
                  \/ /\ NextStart(job) # Request[job.client].end
                     /\ Listed' = (Listed \ {job})
                          \cup {[client |-> job.client, start |-> NextStart(job)]}
        <4>1. PICK v \in Workers : WorkerStep(v) \/ SpuriousWake(v)
          BY <3>1, MainMoves
             DEF Next, Stopped, vars, Places, Types
        <4>2. v = w
          BY <3>1, <4>1, WorkerMoves DEF Places, Types
        <4>3. \E offset \in 0 .. priority_sum - 1 : Schedule(w, offset)
          BY <3>1, <4>1, <4>2
             DEF WorkerStep, SpuriousWake, Exit, TakeLock, PopPending,
                 AppendPending, DrainDone, StopWaiting, DecideToYield, Yield,
                 Awake, SearchFailed, SearchFound, Cancel, NotifyRecipient,
                 CachePush
        <4>4. PICK offset \in 0 .. priority_sum - 1 : Schedule(w, offset)
          BY <4>3
        <4>5. PICK i \in DOMAIN jobs :
                 /\ task' = [task EXCEPT ![w] =
                               [client |-> jobs[i].client, start |-> jobs[i].start,
                                end |-> NextStart(jobs[i]), answer |-> NoAnswer]]
                 /\ \/ /\ NextStart(jobs[i]) = Request[jobs[i].client].end
                       /\ RemoveSwap(i)
                    \/ /\ NextStart(jobs[i]) # Request[jobs[i].client].end
                       /\ jobs' = [jobs EXCEPT ![i].start = NextStart(jobs[i])]
          BY <4>4, Scheduled DEF Places
        <4> DEFINE job == jobs[i]
        <4>6. job \in JobType /\ job \in Listed
          BY DEF Places, Types, Listed, Elements
        <4>7. NextStart(job) \in Nat
          BY <4>6, NextStartType
        <4>8. RemoveSwap(i) => Listed' = Listed \ {job}
          BY ListedShrinks DEF Places, Types, PlaceInv
        <4>9. jobs' = [jobs EXCEPT ![i].start = NextStart(job)] =>
                 Listed' = (Listed \ {job})
                           \cup {[client |-> job.client, start |-> NextStart(job)]}
          BY <4>7, ListedMoves DEF Places, Types, PlaceInv
        <4>10. pc' = [pc EXCEPT ![w] = "search"] /\ UNCHANGED recipient
          BY <4>4, Scheduled DEF Places
        <4> QED
          BY <4>5, <4>6, <4>8, <4>9, <4>10
      <3> DEFINE next == NextStart(job)
      <3>3. /\ task'[w].client = job.client /\ task'[w].start = job.start
            /\ task'[w].end = next
            /\ \A v \in Workers \ {w} : pc'[v] = pc[v] /\ task'[v] = task[v]
        BY <3>2 DEF Places, Types
      <3>4. job.client = c /\ hash \in Searched(job.start, next)
        BY <3>1, <3>3 DEF Finds
      <3>5. /\ job \in JobType /\ job.start \in Nat /\ next \in Nat
            /\ Request[c].start \in Nat /\ job.start >= Request[c].start
        <4>1. job \in JobType
          BY DEF Places, Types, Listed, Elements
        <4>2. job.start \in Nat /\ Request[c].start \in Nat
          BY <4>1, RequestFields DEF JobType
        <4>3. job.start - Request[c].start >= 0
          BY <3>4 DEF BlockInv
        <4> QED
          BY <4>1, <4>2, <4>3, NextStartType
      <3>6. job.start <= hash
        BY <3>4, <3>5, SearchedRange
      <3>7. ToFind(c)
        BY <2>0, <3>4, <3>5, <3>6 DEF ToFind, Remains
      <3>8. ~\E v \in Workers : Finds(v, c)
        BY <2>1, <3>7
      <3>9. recipient'[c] # "freed"
        BY <2>1, <3>2, <3>7
      <3>10. \A v \in Workers : Finds(v, c)' => v = w
        BY <3>3, <3>8 DEF Finds
      <3>11. ~ToFind(c)'
        <4>1. ~Coming(c)
          BY <3>4 DEF Places, PlaceInv
        <4>2. ~SubmitMiss(c)
          BY <2>4, <2>5, <3>7
        <4>3. ~Coming(c)'
          BY <4>1, <4>2, ComingChanges
        <4>4. \A j \in Listed : j.client = c => j = job
          BY <3>4 DEF Places, PlaceInv, OneEach, Listed, Elements
        <4>5. next # Request[c].end => ~(next <= hash)
          BY <1>2, <3>4, FoundBeforeNext
        <4>6. \A j \in Listed' : j.client = c => ~(j.start <= hash)
          <5> SUFFICES ASSUME NEW j \in Listed', j.client = c PROVE ~(j.start <= hash)
            OBVIOUS
          <5>1. \/ j \in Listed \ {job}
                \/ /\ next # Request[job.client].end
                   /\ j = [client |-> job.client, start |-> next]
            BY <3>2
          <5>2. j \notin Listed \ {job}
            BY <4>4
          <5> QED
            BY <3>4, <4>5, <5>1, <5>2
        <4> QED
          BY <4>3, <4>6 DEF ToFind, Remains
      <3> QED
        BY <3>9, <3>10, <3>11
    <2>7. CASE ~\E w \in Workers : pc[w] = "pick" /\ pc'[w] = "search" /\ Finds(w, c)'
      <3>1. \A w \in Workers : Finds(w, c)' => Finds(w, c)
        BY <2>7, FindsChanges
      <3>2. ASSUME recipient'[c] = "freed"
            PROVE  \/ recipient[c] = "freed"
                   \/ recipient[c] = "none" /\ ~SubmitMiss(c)
                   \/ \E w \in Workers : Finds(w, c) /\ pc'[w] = "cache"
        <4>1. \A w \in Workers : pc[w] = "notify" => Finds(w, task[w].client)
          OBVIOUS
        <4> QED
          BY <3>2, <4>1, FreedBy
      <3>3. ASSUME NEW w \in Workers, Finds(w, c)' PROVE recipient'[c] # "freed"
        <4>1. Finds(w, c)
          BY <3>1, <3>3
        <4>2. pc'[w] # "cache"
          BY <3>3 DEF Finds
        <4> QED
          BY <2>1, <2>2, <3>2, <4>1, <4>2
      <3>4. ASSUME (\E w \in Workers : Finds(w, c)') \/ recipient'[c] = "freed"
            PROVE  ~ToFind(c)'
        <4>1. CASE (\E w \in Workers : Finds(w, c)) \/ recipient[c] = "freed"
          <5>1. ~ToFind(c) /\ recipient[c] # "none"
            BY <2>1, <2>2, <4>1
          <5> QED
            BY <2>3, <2>4, <5>1
        <4>2. CASE recipient[c] = "none" /\ ~SubmitMiss(c)
          BY <2>3, <2>5, <4>2
        <4> QED
          BY <3>1, <3>2, <3>4, <4>1, <4>2
      <3> QED
        BY <2>1, <3>1, <3>3, <3>4
    <2> QED
      BY <2>6, <2>7
  <1> QED
    BY <1>1, <1>2

\* scheduler_rand_create has no tasks and no answers.
LEMMA InitOnce == Init => BlockInv /\ OnceInv
  <1> SUFFICES ASSUME Init PROVE BlockInv /\ OnceInv
    OBVIOUS
  <1>1. /\ Listed = {} /\ \A c \in Clients : recipient[c] = "none"
        /\ \A w \in Workers : pc[w] = "loop"
    BY DEF Init, BaseInit, Listed, Elements
  <1> QED
    BY <1>1 DEF BlockInv, OnceInv, Finds

\* A client is answered by a second worker only with a value that two
\* consecutive tasks of scheduler_rand_schedule share: otherwise its recipient
\* is notified, closed and freed once.
THEOREM AnsweredTwiceAtSeam ==
    ASSUME RangesFit
    PROVE  Spec => []AnsweredTwiceOnlyAtSeam
  <1> DEFINE Inv == Places /\ StartInv /\ BlockInv /\ OnceInv
  <1>1. Init => Inv
    BY InitPlaces, InitRest, InitOnce
  <1>2. Inv /\ [Next]_vars => Inv'
    BY RangesFit, StepPlaces, StepStartInv, StepBlockInv, StepOnceInv
  <1>3. Inv => AnsweredTwiceOnlyAtSeam
    <2> SUFFICES ASSUME Inv, NEW w \in Workers, pc[w] = "notify",
                        \/ recipient[task[w].client] = "freed"
                        \/ \E v \in Workers \ {w} :
                              pc[v] = "notify" /\ task[v].client = task[w].client
                 PROVE  Request[task[w].client].hash \in Seam(task[w].client)
      BY DEF AnsweredTwiceOnlyAtSeam
    <2>1. task[w].client \in Clients
      BY DEF Places, Types, Busy
    <2>2. \A v \in Workers : pc[v] = "notify" => Finds(v, task[v].client)
      BY DEF OnceInv
    <2> QED
      BY <2>1, <2>2 DEF OnceInv
  <1> QED
    BY <1>1, <1>2, <1>3, PTL DEF Spec

----------------------------------------------------------------------------
(* The cursor.  PrioritySum and Reach are sums over the list; two facts     *)
(* about sums are all that is needed: there is one, and only one.           *)

\* The least of some numbers.
LEMMA Least ==
    ASSUME NEW S \in SUBSET Nat, S # {}
    PROVE  \E m \in S : \A k \in S : m <= k
  <1> DEFINE R == OpToRel(<, Nat)
  <1>1. IsWellFoundedOn(R, Nat) /\ \A x, y \in Nat : y < x => <<y, x>> \in R
    BY NatLessThanWellFounded DEF OpToRel
  <1> HIDE DEF R
  <1>2. PICK m \in S : \A k \in S : ~(<<k, m>> \in R)
    BY <1>1, WFMin
  <1>3. \A k \in S : m <= k
    <2> TAKE k \in S
    <2>1. m \in Nat /\ k \in Nat /\ ~(k < m)
      BY <1>1, <1>2
    <2> QED
      BY <2>1
  <1> QED
    BY <1>3

\* p has n natural numbers.
Numbers(p, n) == \A i \in 1 .. n : p[i] \in Nat

\* Each value of s is the one before it and one of p.
Sums(s, p, n) == \A i \in 1 .. n : s[i] = s[i - 1] + p[i]

\* s adds up the values of p, from b on, up to place n.
AddsUp(s, b, p, n) ==
    /\ s \in [0 .. n -> Int]
    /\ s[0] = b
    /\ Sums(s, p, n)

LEMMA SumsExist ==
    ASSUME NEW n \in Nat, NEW p, Numbers(p, n)
    PROVE  \E s : AddsUp(s, 0, p, n)
  <1> DEFINE S == {k \in 0 .. n : ~\E s : AddsUp(s, 0, p, k)}
  <1> SUFFICES ASSUME S # {} PROVE FALSE
    OBVIOUS
  <1>0. S \in SUBSET Nat
    OBVIOUS
  <1>1. PICK m \in S : \A k \in S : m <= k
    BY <1>0, Least
  <1>2. m \in 0 .. n /\ ~\E s : AddsUp(s, 0, p, m)
    OBVIOUS
  <1>3. CASE m = 0
    <2> DEFINE s == [i \in 0 .. 0 |-> 0]
    <2>1. AddsUp(s, 0, p, 0)
      BY DEF AddsUp, Sums
    <2> QED
      BY <1>2, <1>3, <2>1
  <1>4. CASE m # 0
    <2>1. m - 1 \in 0 .. n /\ ~(m <= m - 1)
      BY <1>2, <1>4
    <2>2. PICK s : AddsUp(s, 0, p, m - 1)
      BY <1>1, <2>1
    <2> DEFINE t == [i \in 0 .. m |-> IF i = m THEN s[m - 1] + p[m] ELSE s[i]]
    <2>3. /\ s \in [0 .. m - 1 -> Int] /\ s[0] = 0
          /\ \A i \in 1 .. m - 1 : s[i] = s[i - 1] + p[i]
          /\ m \in Nat \ {0} /\ p[m] \in Nat
      BY <1>2, <1>4, <2>2 DEF AddsUp, Sums, Numbers
    <2>4. t \in [0 .. m -> Int] /\ t[0] = 0
      BY <2>3
    <2>5. \A i \in 1 .. m : t[i] = t[i - 1] + p[i]
      BY <2>3
    <2> HIDE DEF t
    <2>6. AddsUp(t, 0, p, m)
      BY <2>4, <2>5 DEF AddsUp, Sums
    <2> QED
      BY <1>2, <2>6
  <1> QED
    BY <1>3, <1>4

LEMMA SumsAgree ==
    ASSUME NEW n \in Nat, NEW s, NEW t, NEW p, s[0] = t[0],
           Sums(s, p, n), Sums(t, p, n)
    PROVE  \A i \in 0 .. n : s[i] = t[i]
  <1> DEFINE S == {k \in 0 .. n : s[k] # t[k]}
  <1> SUFFICES ASSUME S # {} PROVE FALSE
    OBVIOUS
  <1>0. S \in SUBSET Nat
    OBVIOUS
  <1>1. PICK m \in S : \A k \in S : m <= k
    BY <1>0, Least
  <1>2. m \in 1 .. n /\ s[m] # t[m] /\ m - 1 \in 0 .. n /\ ~(m <= m - 1)
    OBVIOUS
  <1>3. s[m - 1] = t[m - 1]
    BY <1>1, <1>2
  <1> QED
    BY <1>2, <1>3 DEF Sums

\* What a sum of positive values grows to.
LEMMA SumsGrow ==
    ASSUME NEW n \in Nat, NEW s, NEW b, NEW p, AddsUp(s, b, p, n), Numbers(p, n)
    PROVE  \A i \in 0 .. n : \A j \in i .. n : s[i] <= s[j]
  <1> SUFFICES ASSUME NEW i \in 0 .. n PROVE \A j \in i .. n : s[i] <= s[j]
    OBVIOUS
  <1> DEFINE S == {j \in i .. n : ~(s[i] <= s[j])}
  <1> SUFFICES ASSUME S # {} PROVE FALSE
    OBVIOUS
  <1>0. S \in SUBSET Nat
    OBVIOUS
  <1>1. PICK m \in S : \A k \in S : m <= k
    BY <1>0, Least
  <1>2. m \in i .. n /\ ~(s[i] <= s[m]) /\ s[i] \in Int /\ s[m] \in Int
    BY DEF AddsUp, Sums
  <1>3. m # i
    BY <1>2
  <1>4. m - 1 \in i .. n /\ ~(m <= m - 1) /\ m \in 1 .. n
    BY <1>2, <1>3
  <1>5. s[i] <= s[m - 1] /\ s[m - 1] \in Int
    BY <1>1, <1>4 DEF AddsUp
  <1>6. s[m] = s[m - 1] + p[m] /\ p[m] \in Nat
    BY <1>4 DEF AddsUp, Sums, Numbers
  <1> QED
    BY <1>2, <1>5, <1>6

\* The priorities of a list, and their sum as PrioritySum has it.
Priorities(list) == [i \in 1 .. Len(list) |-> Priority(list[i].client)]

SumOf(list) ==
    LET sum[i \in 0 .. Len(list)] ==
            IF i = 0 THEN 0 ELSE sum[i - 1] + Priority(list[i].client)
    IN  sum[Len(list)]

LEMMA PrioritySumIs == PrioritySum = SumOf(jobs) /\ PrioritySum' = SumOf(jobs')
  BY DEF PrioritySum, SumOf

\* max(request->priority, 1)
LEMMA PriorityType ==
    ASSUME NEW c \in Clients
    PROVE  Priority(c) \in Nat \ {0}
  BY RequestAssumption DEF Requests, Priority

LEMMA PrioritiesType ==
    ASSUME NEW list \in Seq(JobType)
    PROVE  \A i \in 1 .. Len(list) : Priorities(list)[i] \in Nat \ {0}
  <1> SUFFICES ASSUME NEW i \in 1 .. Len(list)
               PROVE  Priority(list[i].client) \in Nat \ {0}
    BY DEF Priorities
  <1>1. list[i] \in JobType
    OBVIOUS
  <1> QED
    BY <1>1, PriorityType DEF JobType

\* Whatever adds up the priorities gives the sum.
LEMMA SumIs ==
    ASSUME NEW list \in Seq(JobType), NEW s,
           AddsUp(s, 0, Priorities(list), Len(list))
    PROVE  SumOf(list) = s[Len(list)]
  <1> DEFINE n == Len(list)
             p == Priorities(list)
             Eq(f) == f = [i \in 0 .. n |->
                             IF i = 0 THEN 0 ELSE f[i - 1] + Priority(list[i].client)]
             chosen == CHOOSE f : Eq(f)
  <1>1. n \in Nat /\ \A i \in 1 .. n : p[i] = Priority(list[i].client)
    BY DEF Priorities
  <1>2. SumOf(list) = chosen[n]
    BY DEF SumOf
  <1>3. s \in [0 .. n -> Int] /\ s[0] = 0 /\ \A i \in 1 .. n : s[i] = s[i - 1] + p[i]
    BY DEF AddsUp, Sums
  <1>4. Eq(s)
    <2> HIDE DEF p, n
    <2>1. \A i \in 0 .. n : s[i] = IF i = 0 THEN 0 ELSE s[i - 1] + Priority(list[i].client)
      BY <1>1, <1>3
    <2> QED
      BY <1>3, <2>1
  <1>5. Eq(chosen)
    BY <1>4
  <1>6. ASSUME NEW f, Eq(f) PROVE s[n] = f[n]
    <2>1. \A i \in 0 .. n : f[i] = IF i = 0 THEN 0
                                   ELSE f[i - 1] + Priority(list[i].client)
      BY <1>6
    <2> HIDE DEF p, n, Eq
    <2>2. s[0] = f[0] /\ Sums(f, p, n) /\ Sums(s, p, n) /\ n \in Nat
      BY <1>1, <1>3, <2>1 DEF Sums
    <2>3. \A i \in 0 .. n : s[i] = f[i]
      BY <2>2, SumsAgree
    <2> QED
      BY <1>1, <2>3
  <1> QED
    BY <1>2, <1>5, <1>6

\* Jobs of the same clients in the same order, and the sum is the same.
LEMMA SumOfSame ==
    ASSUME NEW a \in Seq(JobType), NEW b \in Seq(JobType), Len(b) = Len(a),
           \A i \in 1 .. Len(a) : b[i].client = a[i].client
    PROVE  SumOf(b) = SumOf(a)
  <1>1. Len(a) \in Nat
    OBVIOUS
  <1>2. Numbers(Priorities(a), Len(a))
    BY PrioritiesType DEF Numbers
  <1>3. PICK s : AddsUp(s, 0, Priorities(a), Len(a))
    BY <1>1, <1>2, SumsExist
  <1>4. Priorities(b) = Priorities(a)
    BY DEF Priorities
  <1> QED
    BY <1>3, <1>4, SumIs

\* scheduler_rand_push_job adds the priority of the new job, ...
LEMMA SumOfAppend ==
    ASSUME NEW list \in Seq(JobType), NEW job \in JobType
    PROVE  SumOf(Append(list, job)) = SumOf(list) + Priority(job.client)
  <1> DEFINE n == Len(list)
             p == Priorities(list)
             q == Priorities(Append(list, job))
             x == Priority(job.client)
  <1>1. n \in Nat /\ Append(list, job) \in Seq(JobType) /\ Len(Append(list, job)) = n + 1
    OBVIOUS
  <1>2. \A i \in 1 .. n : p[i] = Priority(list[i].client) /\ p[i] \in Nat
    BY PrioritiesType DEF Priorities
  <1>3. \A i \in 1 .. n + 1 : q[i] = IF i = n + 1 THEN x ELSE Priority(list[i].client)
    BY <1>1 DEF Priorities
  <1>4. x \in Nat
    BY PriorityType DEF JobType
  <1> HIDE DEF n, p, q, x
  <1>5. PICK s : AddsUp(s, 0, p, n)
    BY <1>1, <1>2, SumsExist DEF Numbers
  <1> DEFINE t == [i \in 0 .. n + 1 |-> IF i = n + 1 THEN s[n] + x ELSE s[i]]
  <1>6. /\ s \in [0 .. n -> Int] /\ s[0] = 0
        /\ \A i \in 1 .. n : s[i] = s[i - 1] + p[i]
    BY <1>5 DEF AddsUp, Sums
  <1>7. t \in [0 .. n + 1 -> Int] /\ t[0] = 0
    BY <1>1, <1>4, <1>6
  <1>8. \A i \in 1 .. n + 1 : t[i] = t[i - 1] + q[i]
    BY <1>1, <1>2, <1>3, <1>4, <1>6
  <1>9. t[n + 1] = s[n] + x
    BY <1>1
  <1> HIDE DEF t
  <1>10. AddsUp(t, 0, q, n + 1)
    BY <1>7, <1>8 DEF AddsUp, Sums
  <1>11. SumOf(Append(list, job)) = t[n + 1]
    BY <1>1, <1>10, SumIs DEF q
  <1>12. SumOf(list) = s[n]
    BY <1>5, SumIs DEF n, p
  <1> QED
    BY <1>9, <1>11, <1>12 DEF x

\* ... and scheduler_rand_remove_swap_job takes that of the removed one off,
\* wherever in the list it was.
LEMMA SumOfSwap ==
    ASSUME NEW list \in Seq(JobType), NEW i \in DOMAIN list
    PROVE  SumOf(SubSeq([list EXCEPT ![i] = list[Len(list)]], 1, Len(list) - 1))
           = SumOf(list) - Priority(list[i].client)
  <1> DEFINE n == Len(list)
             r == SubSeq([list EXCEPT ![i] = list[n]], 1, n - 1)
             p == Priorities(list)
             q == Priorities(r)
  <1>1. /\ n \in Nat /\ i \in 1 .. n
        /\ r \in Seq(JobType) /\ Len(r) = n - 1
        /\ \A k \in 1 .. n - 1 : r[k] = IF k = i THEN list[n] ELSE list[k]
    BY SwapElements
  <1> HIDE DEF r
  <1>2. \A k \in 1 .. n : p[k] = Priority(list[k].client) /\ p[k] \in Nat
    BY PrioritiesType DEF Priorities
  <1>3. \A k \in 1 .. n - 1 : q[k] = IF k = i THEN p[n] ELSE p[k]
    BY <1>1, <1>2 DEF Priorities
  <1> HIDE DEF n, p, q
  <1>4. PICK s : AddsUp(s, 0, p, n)
    BY <1>1, <1>2, SumsExist DEF Numbers
  <1>5. SumOf(list) = s[n] /\ p[i] = Priority(list[i].client)
    BY <1>1, <1>2, <1>4, SumIs DEF n, p
  <1> DEFINE t == [k \in 0 .. n - 1 |-> IF k < i THEN s[k] ELSE s[k] - p[i] + p[n]]
  <1>6. /\ s \in [0 .. n -> Int] /\ s[0] = 0
        /\ \A k \in 1 .. n : s[k] = s[k - 1] + p[k]
    BY <1>4 DEF AddsUp, Sums
  <1>7. p[i] \in Nat /\ p[n] \in Nat
    BY <1>1, <1>2
  <1>8. t \in [0 .. n - 1 -> Int] /\ t[0] = 0
    BY <1>1, <1>6, <1>7
  <1>9. \A k \in 1 .. n - 1 : t[k] = t[k - 1] + q[k]
    <2> SUFFICES ASSUME NEW k \in 1 .. n - 1 PROVE t[k] = t[k - 1] + q[k]
      OBVIOUS
    <2>0. /\ k - 1 \in 0 .. n - 1 /\ k \in 0 .. n - 1 /\ k \in 1 .. n
          /\ k \in Nat /\ i \in Nat /\ k \in 0 .. n /\ k - 1 \in 0 .. n
      BY <1>1
    <2>1. s[k] = s[k - 1] + p[k] /\ s[k] \in Int /\ s[k - 1] \in Int /\ p[k] \in Nat
      BY <1>2, <1>6, <2>0
    <2>2. /\ t[k] = IF k < i THEN s[k] ELSE s[k] - p[i] + p[n]
          /\ t[k - 1] = IF k - 1 < i THEN s[k - 1] ELSE s[k - 1] - p[i] + p[n]
          /\ q[k] = IF k = i THEN p[n] ELSE p[k]
      BY <1>3, <2>0
    <2> HIDE DEF t
    <2>3. CASE k = i
      BY <1>7, <2>0, <2>1, <2>2, <2>3
    <2>4. CASE k # i
      BY <1>7, <2>0, <2>1, <2>2, <2>4
    <2> QED
      BY <2>3, <2>4
  <1>10. t[n - 1] = s[n] - p[i]
    <2>1. t[n - 1] = IF n - 1 < i THEN s[n - 1] ELSE s[n - 1] - p[i] + p[n]
      BY <1>1
    <2>2. s[n] = s[n - 1] + p[n] /\ s[n - 1] \in Int /\ s[n] \in Int
      BY <1>1, <1>6
    <2> HIDE DEF t
    <2> QED
      BY <1>1, <1>7, <2>1, <2>2
  <1> HIDE DEF t
  <1>11. AddsUp(t, 0, q, n - 1)
    BY <1>8, <1>9 DEF AddsUp, Sums
  <1>12. SumOf(r) = t[n - 1]
    BY <1>1, <1>11, SumIs DEF q
  <1> QED
    BY <1>5, <1>10, <1>12 DEF r, n

\* Around the list once.
LEMMA WrapsOnce ==
    ASSUME NEW n \in Nat \ {0}, NEW t \in 0 .. n - 1
    PROVE  \A i \in 1 .. n : (t + i) % n = IF t + i < n THEN t + i ELSE t + i - n
  <1> SUFFICES ASSUME NEW i \in 1 .. n
               PROVE  (t + i) % n = IF t + i < n THEN t + i ELSE t + i - n
    OBVIOUS
  <1>1. CASE t + i < n
    BY <1>1
  <1>2. CASE ~(t + i < n)
    <2>1. (t + i - n) % n = t + i - n /\ t + i - n \in Nat
      BY <1>2
    <2>2. (t + i) % n = (t + i - n) % n
      BY <1>2
    <2> QED
      BY <1>2, <2>1, <2>2
  <1> QED
    BY <1>1, <1>2

\* The numbers of p from the one after place t on, around.
Around(q, p, t, n) ==
    \A i \in 1 .. n : q[i] = p[IF t + 1 + i <= n THEN t + 1 + i ELSE t + 1 + i - n]

\* Going around all of them adds the whole sum.
LEMMA SumAround ==
    ASSUME NEW n \in Nat \ {0}, NEW p, NEW q, NEW s, NEW t \in 0 .. n - 1, NEW b \in Int,
           Numbers(p, n), AddsUp(s, 0, p, n), Around(q, p, t, n)
    PROVE  \E r : AddsUp(r, b, q, n) /\ r[n] = b + s[n]
  <1> DEFINE r == [i \in 0 .. n |->
                      IF t + 1 + i <= n THEN b + s[t + 1 + i] - s[t + 1]
                      ELSE b + s[n] - s[t + 1] + s[t + 1 + i - n]]
  <1>1. /\ s \in [0 .. n -> Int] /\ s[0] = 0
        /\ \A i \in 1 .. n : s[i] = s[i - 1] + p[i]
    BY DEF AddsUp, Sums
  <1>2. t \in Nat /\ t + 1 \in 0 .. n /\ s[t + 1] \in Int /\ s[n] \in Int
    BY <1>1
  <1>3. r \in [0 .. n -> Int]
    <2> SUFFICES ASSUME NEW i \in 0 .. n
                 PROVE  (IF t + 1 + i <= n THEN b + s[t + 1 + i] - s[t + 1]
                         ELSE b + s[n] - s[t + 1] + s[t + 1 + i - n]) \in Int
      OBVIOUS
    <2>1. CASE t + 1 + i <= n
      <3>1. t + 1 + i \in 0 .. n
        BY <1>2, <2>1
      <3> QED
        BY <1>1, <1>2, <2>1, <3>1
    <2>2. CASE ~(t + 1 + i <= n)
      <3>1. t + 1 + i - n \in 0 .. n
        BY <1>2, <2>2
      <3> QED
        BY <1>1, <1>2, <2>2, <3>1
    <2> QED
      BY <2>1, <2>2
  <1>4. r[0] = b /\ r[n] = b + s[n]
    <2>1. r[0] = b + s[t + 1] - s[t + 1]
      BY <1>2
    <2>2. r[n] = b + s[n] - s[t + 1] + s[t + 1]
      BY <1>2
    <2> HIDE DEF r
    <2> QED
      BY <1>2, <2>1, <2>2
  <1>5. ASSUME NEW i \in 1 .. n PROVE r[i] = r[i - 1] + q[i]
    <2>1. /\ i \in 0 .. n /\ i - 1 \in 0 .. n /\ i \in Nat
          /\ q[i] = p[IF t + 1 + i <= n THEN t + 1 + i ELSE t + 1 + i - n]
      BY DEF Around
    <2>2. /\ r[i] = IF t + 1 + i <= n THEN b + s[t + 1 + i] - s[t + 1]
                    ELSE b + s[n] - s[t + 1] + s[t + 1 + i - n]
          /\ r[i - 1] = IF t + 1 + (i - 1) <= n THEN b + s[t + 1 + (i - 1)] - s[t + 1]
                        ELSE b + s[n] - s[t + 1] + s[t + 1 + (i - 1) - n]
      BY <2>1
    <2> HIDE DEF r
    <2>3. CASE t + 1 + i <= n
      <3> DEFINE j == t + 1 + i
      <3>1. j \in 1 .. n /\ j - 1 \in 0 .. n /\ t + 1 + (i - 1) = j - 1 /\ j - 1 <= n
        BY <1>2, <2>1, <2>3
      <3>2. s[j] = s[j - 1] + p[j] /\ s[j - 1] \in Int /\ p[j] \in Nat
        BY <1>1, <3>1 DEF Numbers
      <3>3. r[i] = b + s[j] - s[t + 1] /\ r[i - 1] = b + s[j - 1] - s[t + 1] /\ q[i] = p[j]
        BY <2>1, <2>2, <2>3, <3>1
      <3> QED
        BY <1>2, <3>2, <3>3
    <2>4. CASE t + 1 + i = n + 1
      <3>1. t + 1 + (i - 1) = n /\ t + 1 + i - n = 1
        BY <1>2, <2>1, <2>4
      <3>2. s[1] = 0 + p[1] /\ p[1] \in Nat
        BY <1>1 DEF Numbers
      <3>3. ~(t + 1 + i <= n)
        BY <2>4
      <3>4. r[i] = b + s[n] - s[t + 1] + s[1] /\ r[i - 1] = b + s[n] - s[t + 1] /\ q[i] = p[1]
        BY <2>1, <2>2, <3>1, <3>3
      <3> QED
        BY <1>2, <3>2, <3>4
    <2>5. CASE t + 1 + i > n + 1
      <3> DEFINE j == t + 1 + i - n
      <3>1. /\ j \in 1 .. n /\ j - 1 \in 0 .. n /\ t + 1 + (i - 1) - n = j - 1
            /\ ~(t + 1 + i <= n) /\ ~(t + 1 + (i - 1) <= n)
        BY <1>2, <2>1, <2>5
      <3>2. s[j] = s[j - 1] + p[j] /\ s[j - 1] \in Int /\ p[j] \in Nat
        BY <1>1, <3>1 DEF Numbers
      <3>3. /\ r[i] = b + s[n] - s[t + 1] + s[j]
            /\ r[i - 1] = b + s[n] - s[t + 1] + s[j - 1]
            /\ q[i] = p[j]
        BY <2>1, <2>2, <3>1
      <3> QED
        BY <1>2, <3>2, <3>3
    <2> QED
      BY <1>2, <2>1, <2>3, <2>4, <2>5
  <1> HIDE DEF r
  <1> QED
    BY <1>3, <1>4, <1>5 DEF AddsUp, Sums

\* The places of a growing sum that are below a value are the first ones.
LEMMA FirstPlaces ==
    ASSUME NEW n \in Nat, NEW r, NEW b, NEW q, AddsUp(r, b, q, n), Numbers(q, n),
           NEW x \in Int, x <= r[n]
    PROVE  LET below == {k \in 0 .. n : r[k] < x}
               m     == Cardinality(below)
           IN  /\ m \in 0 .. n
               /\ x <= r[m]
               /\ m # 0 => r[m - 1] < x
  <1> DEFINE below == {k \in 0 .. n : r[k] < x}
             S == {k \in 0 .. n : x <= r[k]}
  <1>1. r \in [0 .. n -> Int]
    BY DEF AddsUp
  <1>2. n \in S /\ S \in SUBSET Nat
    OBVIOUS
  <1>3. PICK m \in S : \A k \in S : m <= k
    BY <1>2, Least
  <1>4. m \in 0 .. n /\ x <= r[m]
    OBVIOUS
  <1>5. \A i \in 0 .. n : \A j \in i .. n : r[i] <= r[j]
    BY SumsGrow
  <1>6. ASSUME NEW k \in 0 .. n PROVE r[k] < x <=> k < m
    <2>1. r[k] \in Int /\ r[m] \in Int /\ k \in Int /\ m \in Int
      BY <1>1, <1>4
    <2>2. CASE k < m
      <3>1. ~(k \in S)
        BY <1>3, <2>1, <2>2
      <3> QED
        BY <2>1, <2>2, <3>1
    <2>3. CASE ~(k < m)
      <3>1. k \in m .. n
        BY <1>4, <2>3
      <3>2. r[m] <= r[k]
        BY <1>4, <1>5, <3>1
      <3> QED
        BY <1>4, <2>1, <2>3, <3>2
    <2> QED
      BY <2>2, <2>3
  <1>7. below = 0 .. m - 1
    BY <1>4, <1>6
  <1>8. Cardinality(0 .. m - 1) = m
    <2>1. m \in Nat
      BY <1>4
    <2>2. Cardinality(0 .. m - 1) = IF 0 > m - 1 THEN 0 ELSE (m - 1) - 0 + 1
      BY <2>1, FS_Interval
    <2> QED
      BY <2>1, <2>2
  <1>9. m # 0 => r[m - 1] < x
    BY <1>4, <1>6
  <1> QED
    BY <1>4, <1>7, <1>8, <1>9

----------------------------------------------------------------------------
(* The cursor is within the list, and within the job it is at. *)

\* The priorities of the jobs after the one under the cursor.
AfterCursor == [i \in 1 .. Len(jobs) |-> Priority(JobFromCursor(i).client)]

\* What the loop of scheduler_rand_schedule takes off the offset.
LEMMA ReachIs ==
    ASSUME jobs \in Seq(JobType), NEW r,
           AddsUp(r, Priority(JobFromCursor(0).client) - priority_idx,
                  AfterCursor, Len(jobs)),
           NEW k \in 0 .. Len(jobs)
    PROVE  Reach(k) = r[k]
  <1> DEFINE n == Len(jobs)
             P(i) == Priority(JobFromCursor(i).client)
             p == AfterCursor
             Eq(f) == f = [i \in 0 .. k |->
                             IF i = 0 THEN Priority(JobFromCursor(0).client) - priority_idx
                             ELSE f[i - 1] + Priority(JobFromCursor(i).client)]
             chosen == CHOOSE f : Eq(f)
             s == [i \in 0 .. k |-> r[i]]
  <1>1. /\ n \in Nat /\ k \in Nat /\ k <= n
        /\ \A i \in 1 .. n : p[i] = P(i)
    BY DEF AfterCursor
  <1>2. Reach(k) = chosen[k]
    BY DEF Reach
  <1>3. /\ r \in [0 .. n -> Int]
        /\ r[0] = P(0) - priority_idx
        /\ \A i \in 1 .. n : r[i] = r[i - 1] + p[i]
    BY DEF AddsUp, Sums
  <1>4. /\ s[0] = P(0) - priority_idx
        /\ \A i \in 1 .. k : s[i] = s[i - 1] + P(i)
        /\ s[k] = r[k]
    <2> HIDE DEF n, p, P
    <2>1. /\ \A i \in 0 .. k : s[i] = r[i]
          /\ 0 \in 0 .. k /\ k \in 0 .. k
      BY <1>1
    <2> HIDE DEF s
    <2>2. ASSUME NEW i \in 1 .. k PROVE s[i] = s[i - 1] + P(i)
      <3>1. i \in 0 .. k /\ i - 1 \in 0 .. k /\ i \in 1 .. n
        BY <1>1
      <3> QED
        BY <1>1, <1>3, <2>1, <3>1
    <2> QED
      BY <1>3, <2>1, <2>2
  <1>5. Eq(s)
    <2>1. \A i \in 0 .. k : s[i] = IF i = 0 THEN P(0) - priority_idx
                                   ELSE s[i - 1] + P(i)
      <3> HIDE DEF n, p, P, s
      <3> QED
        BY <1>1, <1>4
    <2>2. s = [i \in 0 .. k |-> s[i]]
      OBVIOUS
    <2> HIDE DEF s
    <2> QED
      BY <2>1, <2>2
  <1>6. Eq(chosen)
    BY <1>5
  <1> HIDE DEF s
  <1>7. ASSUME NEW f, Eq(f) PROVE s[k] = f[k]
    <2>1. \A i \in 0 .. k : f[i] = IF i = 0 THEN P(0) - priority_idx
                                   ELSE f[i - 1] + P(i)
      BY <1>7
    <2> DEFINE q == [i \in 1 .. k |-> P(i)]
    <2> HIDE DEF n, p, P, Eq
    <2>2. \A i \in 1 .. k : q[i] = P(i)
      OBVIOUS
    <2> HIDE DEF q
    <2>3. s[0] = f[0] /\ Sums(f, q, k) /\ Sums(s, q, k) /\ k \in Nat
      BY <1>1, <1>4, <2>1, <2>2 DEF Sums
    <2>4. \A i \in 0 .. k : s[i] = f[i]
      BY <2>3, SumsAgree
    <2> QED
      BY <1>1, <2>4
  <1> QED
    BY <1>2, <1>4, <1>6, <1>7

\* The random offset is smaller than the sum of the priorities, so the loop
\* stops before it is around the list, inside the job it stops at.
LEMMA CursorMoves ==
    ASSUME jobs \in Seq(JobType), task_idx \in 0 .. Len(jobs) - 1,
           priority_idx \in Nat,
           priority_idx <= Priority(jobs[task_idx + 1].client),
           NEW offset \in 0 .. SumOf(jobs) - 1
    PROVE  LET cursor == CursorAfter(offset)
           IN  /\ cursor.task_idx \in 0 .. Len(jobs) - 1
               /\ cursor.priority_idx \in Nat
               /\ cursor.priority_idx <= Priority(jobs[cursor.task_idx + 1].client)
  <1> DEFINE n == Len(jobs)
             t == task_idx
             p == Priorities(jobs)
             q == AfterCursor
             b == Priority(JobFromCursor(0).client) - priority_idx
             P(i) == Priority(JobFromCursor(i).client)
  <1>1. n \in Nat \ {0} /\ t \in 0 .. n - 1 /\ t \in Nat
    OBVIOUS
  <1>2. \A i \in 1 .. n : p[i] = Priority(jobs[i].client) /\ p[i] \in Nat
    BY PrioritiesType DEF Priorities
  <1>3. \A i \in 1 .. n : q[i] = P(i)
    BY DEF AfterCursor
  <1>4. \A i \in 0 .. n : JobFromCursor(i) = jobs[((t + i) % n) + 1]
    BY DEF JobFromCursor
  <1>5. (t + 0) % n = t
    BY <1>1
  <1>6. P(0) = p[t + 1] /\ P(0) = Priority(jobs[t + 1].client)
    BY <1>1, <1>2, <1>4, <1>5
  <1> HIDE DEF n, t, p, q, P
  <1>7. \A i \in 1 .. n : (t + i) % n = IF t + i < n THEN t + i ELSE t + i - n
    BY <1>1, WrapsOnce
  <1>8. Around(q, p, t, n)
    <2> SUFFICES ASSUME NEW i \in 1 .. n
                 PROVE  q[i] = p[IF t + 1 + i <= n THEN t + 1 + i ELSE t + 1 + i - n]
      BY DEF Around
    <2> DEFINE j == IF t + 1 + i <= n THEN t + 1 + i ELSE t + 1 + i - n
    <2>1. j \in 1 .. n /\ j = ((t + i) % n) + 1
      BY <1>1, <1>7
    <2> HIDE DEF j
    <2>2. q[i] = Priority(jobs[((t + i) % n) + 1].client)
      BY <1>3, <1>4 DEF P
    <2>3. q[i] = p[j]
      BY <1>2, <2>1, <2>2
    <2> QED
      BY <2>3 DEF j
  <1>9. Numbers(p, n) /\ Numbers(q, n)
    <2>1. Numbers(p, n)
      BY <1>2 DEF Numbers
    <2>2. ASSUME NEW i \in 1 .. n PROVE q[i] \in Nat
      <3> DEFINE j == IF t + 1 + i <= n THEN t + 1 + i ELSE t + 1 + i - n
      <3>1. j \in 1 .. n /\ q[i] = p[j]
        BY <1>1, <1>8 DEF Around
      <3> HIDE DEF j
      <3> QED
        BY <1>2, <3>1
    <2> QED
      BY <2>1, <2>2 DEF Numbers
  <1>10. PICK s : AddsUp(s, 0, p, n)
    BY <1>1, <1>9, SumsExist
  <1>11. SumOf(jobs) = s[n]
    BY <1>10, SumIs DEF n, p
  <1>12. b \in Int /\ b = P(0) - priority_idx /\ b >= 0 /\ P(0) \in Nat
    <2>1. P(0) \in Nat
      BY <1>1, <1>2, <1>6
    <2> QED
      BY <1>6, <2>1 DEF P, t
  <1> HIDE DEF b
  <1>13. PICK r : AddsUp(r, b, q, n) /\ r[n] = b + s[n]
    BY <1>1, <1>8, <1>9, <1>10, <1>12, SumAround
  <1>14. \A k \in 0 .. n : Reach(k) = r[k]
    BY <1>13, ReachIs DEF n, q, b
  <1>15. s[n] \in Int /\ offset \in Nat /\ offset < s[n] /\ offset <= r[n]
    <2>1. s[n] \in Int
      BY <1>1, <1>10 DEF AddsUp
    <2> QED
      BY <1>11, <1>12, <1>13, <2>1
  <1> DEFINE below == {k \in 0 .. n : r[k] < offset}
             m == Cardinality(below)
  <1>16. m \in 0 .. n /\ offset <= r[m] /\ (m # 0 => r[m - 1] < offset)
    <2>1. /\ n \in Nat /\ offset \in Int /\ offset <= r[n]
          /\ AddsUp(r, b, q, n) /\ Numbers(q, n)
      BY <1>1, <1>9, <1>13, <1>15
    <2> QED
      BY <2>1, FirstPlaces
  <1>17. {k \in 0 .. n : Reach(k) < offset} = below
    BY <1>14
  <1> HIDE DEF below, m
  <1> DEFINE cursor == CursorAfter(offset)
  <1>18. /\ cursor.task_idx = (t + m) % n
         /\ cursor.priority_idx = IF m = 0 THEN priority_idx + offset
                                  ELSE offset - Reach(m - 1)
    BY <1>17 DEF CursorAfter, m, n, t
  <1> HIDE DEF cursor
  <1>19. cursor.task_idx \in 0 .. n - 1
    BY <1>1, <1>16, <1>18
  <1>20. Priority(jobs[cursor.task_idx + 1].client) = P(m)
    BY <1>4, <1>16, <1>18 DEF P
  <1>21. cursor.priority_idx \in Nat /\ cursor.priority_idx <= P(m)
    <2>1. CASE m = 0
      <3>1. r[0] = b
        BY <1>13 DEF AddsUp
      <3> QED
        BY <1>12, <1>15, <1>16, <1>18, <2>1, <3>1
    <2>2. CASE m # 0
      <3>1. m \in 1 .. n /\ m - 1 \in 0 .. n
        BY <1>1, <1>16, <2>2
      <3>2. r[m] = r[m - 1] + q[m] /\ r[m - 1] \in Int /\ q[m] \in Nat /\ q[m] = P(m)
        BY <1>3, <1>9, <1>13, <3>1 DEF AddsUp, Sums, Numbers
      <3>3. cursor.priority_idx = offset - r[m - 1]
        BY <1>14, <1>18, <2>2, <3>1
      <3> QED
        BY <1>15, <1>16, <2>2, <3>2, <3>3
    <2> QED
      BY <2>1, <2>2
  <1> QED
    BY <1>19, <1>20, <1>21 DEF cursor, n

CursorInv == CursorInBounds /\ priority_idx \in Nat

\* Removing a job resets the cursor, which fits every list.
LEMMA CursorReset ==
    ASSUME jobs \in Seq(JobType), priority_sum = SumOf(jobs),
           NEW i \in DOMAIN jobs, RemoveSwap(i)
    PROVE  CursorInv'
  <1>1. /\ priority_sum' = SumOf(jobs) - Priority(jobs[i].client)
        /\ jobs' = SubSeq([jobs EXCEPT ![i] = jobs[Len(jobs)]], 1, Len(jobs) - 1)
        /\ task_idx' = 0 /\ priority_idx' = 0
    BY DEF RemoveSwap
  <1>2. priority_sum' = SumOf(jobs')
    BY <1>1, SumOfSwap
  <1>3. jobs' \in Seq(JobType)
    BY <1>1, SwapElements
  <1>4. CASE jobs' # <<>>
    <2>1. jobs'[1] \in JobType /\ 0 < Len(jobs')
      BY <1>3, <1>4
    <2>2. Priority(jobs'[1].client) \in Nat
      BY <2>1, PriorityType DEF JobType
    <2>3. task_idx' + 1 = 1 /\ jobs'[task_idx' + 1] = jobs'[1]
      BY <1>1
    <2>4. priority_idx' <= Priority(jobs'[task_idx' + 1].client)
      <3>1. Priority(jobs'[task_idx' + 1].client) \in Nat
        BY <2>2, <2>3, Zenon
      <3>2. priority_idx' = 0
        BY <1>1
      <3> QED
        BY <3>1, <3>2
    <2> QED
      BY <1>1, <1>2, <1>4, <2>1, <2>4, PrioritySumIs DEF CursorInv, CursorInBounds
  <1> QED
    BY <1>1, <1>2, <1>4, PrioritySumIs DEF CursorInv, CursorInBounds

\* A pending job that is moved to the list goes to its end.
LEMMA CursorAppend ==
    ASSUME Places, CursorInv, NEW w \in Workers, AppendPending(w), got \in Clients
    PROVE  CursorInv'
  <1> DEFINE job == NewJob(got)
  <1>1. /\ priority_sum' = priority_sum + Priority(got)
        /\ jobs' = Append(jobs, job)
        /\ UNCHANGED <<task_idx, priority_idx>>
    BY DEF AppendPending
  <1>2. job \in JobType /\ job.client = got /\ jobs \in Seq(JobType)
    BY RequestFields DEF NewJob, JobType, Places, Types
  <1> HIDE DEF job
  <1>3. priority_sum' = SumOf(jobs')
    BY <1>1, <1>2, SumOfAppend, PrioritySumIs DEF CursorInv, CursorInBounds
  <1>4. /\ Len(jobs') = Len(jobs) + 1 /\ jobs' # <<>> /\ Len(jobs) \in Nat
        /\ jobs'[Len(jobs) + 1] = job
        /\ \A k \in 1 .. Len(jobs) : jobs'[k] = jobs[k]
    BY <1>1, <1>2
  <1>5. task_idx \in Nat
    BY DEF Places, Types
  <1>6. CASE jobs = <<>>
    <2>1. task_idx = 0 /\ priority_idx = 0 /\ Len(jobs) = 0
      BY <1>6 DEF CursorInv, CursorInBounds
    <2>2. Priority(jobs'[task_idx' + 1].client) \in Nat
      BY <1>1, <1>2, <1>4, <2>1, PriorityType
    <2> QED
      BY <1>1, <1>3, <1>4, <2>1, <2>2, PrioritySumIs DEF CursorInv, CursorInBounds
  <1>7. CASE jobs # <<>>
    <2>1. task_idx < Len(jobs) /\ priority_idx <= Priority(jobs[task_idx + 1].client)
      BY <1>7 DEF CursorInv, CursorInBounds
    <2>2. jobs'[task_idx' + 1] = jobs[task_idx + 1]
      BY <1>1, <1>4, <1>5, <2>1
    <2>3. task_idx' < Len(jobs')
      BY <1>1, <1>4, <1>5, <2>1
    <2> QED
      BY <1>1, <1>3, <1>4, <2>1, <2>2, <2>3, PrioritySumIs
         DEF CursorInv, CursorInBounds
  <1> QED
    BY <1>6, <1>7

\* Taking the next block moves the cursor, or removes the job.
LEMMA CursorSchedule ==
    ASSUME Places, CursorInv, NEW w \in Workers,
           NEW offset \in 0 .. priority_sum - 1, Schedule(w, offset)
    PROVE  CursorInv'
  <1>1. /\ jobs \in Seq(JobType) /\ jobs # <<>> /\ task_idx \in Nat
        /\ priority_sum = SumOf(jobs)
        /\ task_idx < Len(jobs)
        /\ priority_idx \in Nat
        /\ priority_idx <= Priority(jobs[task_idx + 1].client)
    BY PrioritySumIs
       DEF Places, Types, LockInv, Schedule, CursorInv, CursorInBounds
  <1> DEFINE cursor == CursorAfter(offset)
  <1>2. /\ cursor.task_idx \in 0 .. Len(jobs) - 1
        /\ cursor.priority_idx \in Nat
        /\ cursor.priority_idx <= Priority(jobs[cursor.task_idx + 1].client)
    <2>1. task_idx \in 0 .. Len(jobs) - 1 /\ offset \in 0 .. SumOf(jobs) - 1
      BY <1>1
    <2> QED
      BY <1>1, <2>1, CursorMoves
  <1> DEFINE i    == cursor.task_idx + 1
             next == NextStart(jobs[i])
  <1>3. IF next = Request[jobs[i].client].end
        THEN RemoveSwap(i)
        ELSE /\ jobs' = [jobs EXCEPT ![i].start = next]
             /\ task_idx' = cursor.task_idx
             /\ priority_idx' = cursor.priority_idx
             /\ UNCHANGED priority_sum
    BY DEF Schedule
  <1>4. i \in DOMAIN jobs
    BY <1>1, <1>2
  <1>5. next \in Nat
    <2>1. jobs[i] \in JobType
      BY <1>1, <1>4
    <2> QED
      BY <2>1, NextStartType
  <1> HIDE DEF cursor, next
  <1>6. CASE RemoveSwap(i)
    BY <1>1, <1>4, <1>6, CursorReset
  <1>7. CASE /\ jobs' = [jobs EXCEPT ![i].start = next]
             /\ task_idx' = cursor.task_idx
             /\ priority_idx' = cursor.priority_idx
             /\ UNCHANGED priority_sum
    <2>1. /\ jobs' \in Seq(JobType) /\ Len(jobs') = Len(jobs) /\ jobs' # <<>>
          /\ \A k \in 1 .. Len(jobs) : jobs'[k].client = jobs[k].client
      <3> DEFINE after == [jobs[i] EXCEPT !.start = next]
      <3>1. jobs[i] \in JobType
        BY <1>1, <1>4
      <3>2. after \in JobType /\ after.client = jobs[i].client
        BY <1>5, <3>1 DEF JobType
      <3> HIDE DEF after
      <3>3. jobs' = [jobs EXCEPT ![i] = after]
        BY <1>7 DEF after
      <3> QED
        BY <1>1, <1>4, <3>2, <3>3
    <2>2. SumOf(jobs') = SumOf(jobs)
      <3>1. \A k \in 1 .. Len(jobs) : jobs'[k].client = jobs[k].client
        BY <2>1
      <3> QED
        BY <1>1, <2>1, <3>1, SumOfSame
    <2>3. jobs'[task_idx' + 1].client = jobs[i].client
      <3>1. i \in 1 .. Len(jobs) /\ task_idx' + 1 = i
        BY <1>1, <1>4, <1>7
      <3> HIDE DEF i
      <3> QED
        BY <2>1, <3>1
    <2>4. task_idx' < Len(jobs')
      BY <1>1, <1>2, <1>7, <2>1
    <2> QED
      BY <1>1, <1>2, <1>7, <2>1, <2>2, <2>3, <2>4, PrioritySumIs
         DEF CursorInv, CursorInBounds
  <1> QED
    BY <1>3, <1>6, <1>7

LEMMA StepCursorInv == Places /\ CursorInv /\ [Next]_vars => CursorInv'
  <1> SUFFICES ASSUME Places, CursorInv, [Next]_vars PROVE CursorInv'
    OBVIOUS
  <1>1. CASE UNCHANGED listVars
    BY <1>1, PrioritySumIs DEF listVars, CursorInv, CursorInBounds
  <1>2. ASSUME NEW w \in Workers, AppendPending(w) PROVE CursorInv'
    <2>1. cpc = "store"
      BY <1>2 DEF AppendPending, Ring!PopStore
    <2>2. got \in Clients
      BY <2>1, RingChanges DEF Places
    <2> QED
      BY <1>2, <2>2, CursorAppend
  <1>3. ASSUME NEW w \in Workers, Cancel(w), ~UNCHANGED listVars PROVE CursorInv'
    <2>1. PICK i \in DOMAIN jobs : RemoveSwap(i)
      BY <1>3 DEF Cancel
    <2> QED
      BY <2>1, CursorReset, PrioritySumIs
         DEF Places, Types, CursorInv, CursorInBounds
  <1>4. ASSUME NEW w \in Workers, NEW offset \in 0 .. priority_sum - 1,
               Schedule(w, offset)
        PROVE  CursorInv'
    BY <1>4, CursorSchedule
  <1>5. CASE Arrival \/ Submit \/ Shutdown \/ Stopped \/ UNCHANGED vars
    <2>1. UNCHANGED listVars
      BY <1>5
         DEF Arrival, Submit, Shutdown, Stopped, SubmitMiss, SubmitHit, Close,
             PushFull, PushJob, PublishJob, Wake, CloseWake, JoinAndDestroy, vars
    <2> QED
      BY <1>1, <2>1
  <1>6. ASSUME NEW w \in Workers, WorkerStep(w) \/ SpuriousWake(w),
               ~AppendPending(w), ~Cancel(w),
               \A offset \in 0 .. priority_sum - 1 : ~Schedule(w, offset)
        PROVE  UNCHANGED listVars
    BY <1>6
       DEF WorkerStep, SpuriousWake, Exit, TakeLock, PopPending, DrainDone,
           StopWaiting, DecideToYield, Yield, Awake, SearchFailed,
           SearchFound, NotifyRecipient, CachePush
  <1> QED
    BY <1>1, <1>2, <1>3, <1>4, <1>5, <1>6 DEF Next

\* scheduler_rand_create leaves an empty list.
LEMMA InitCursorInv == Init => CursorInv
  <1> SUFFICES ASSUME Init PROVE CursorInv
    OBVIOUS
  <1>1. jobs = <<>> /\ priority_sum = 0 /\ task_idx = 0 /\ priority_idx = 0
    BY DEF Init
  <1>2. SumOf(jobs) = 0
    <2> DEFINE s == [i \in 0 .. 0 |-> 0]
    <2>1. jobs \in Seq(JobType) /\ Len(jobs) = 0
      BY <1>1
    <2>2. AddsUp(s, 0, Priorities(jobs), 0) /\ s[0] = 0
      BY DEF AddsUp, Sums
    <2> HIDE DEF s
    <2>3. SumOf(jobs) = s[Len(jobs)]
      BY <2>1, <2>2, SumIs
    <2> QED
      BY <2>1, <2>2, <2>3
  <1> QED
    BY <1>1, <1>2, PrioritySumIs DEF CursorInv, CursorInBounds

\* The cursor of sched_rand.c is at a job of the list and within its priority,
\* and priority_sum, the modulus of the random offset, is the sum of the list's
\* priorities: whatever the workers and main interleave, the loop of
\* scheduler_rand_schedule stops at a job of the list.
THEOREM CursorStaysInBounds == Spec => []CursorInBounds
  <1> DEFINE Inv == Places /\ CursorInv
  <1>1. Init => Inv
    BY InitPlaces, InitCursorInv
  <1>2. Inv /\ [Next]_vars => Inv'
    BY StepPlaces, StepCursorInv
  <1>3. Inv => CursorInBounds
    BY DEF CursorInv
  <1> QED
    BY <1>1, <1>2, <1>3, PTL DEF Spec

=============================================================================
