------------------------------ MODULE FifoSpec ------------------------------
(***************************************************************************)
(* What a ring buffer with one producer and one consumer promises: a       *)
(* bounded queue.  A value leaves the queue in two steps, because its      *)
(* place is free again only after the consumer has copied it out; a value  *)
(* is refused only while every place is taken.                             *)
(***************************************************************************)
EXTENDS Naturals, Sequences

CONSTANTS Values, NoValue

VARIABLES
    capacity,   \* how many values there is a place for
    queue,      \* the values put and not yet taken, oldest first
    taken,      \* the value being taken, or NoValue
    refused     \* the values that were turned away

Places == Len(queue) + (IF taken = NoValue THEN 0 ELSE 1)

Init ==
    /\ capacity \in Nat
    /\ queue = <<>>
    /\ taken = NoValue
    /\ refused = {}

Put(v) ==
    /\ Places < capacity
    /\ queue' = Append(queue, v)
    /\ UNCHANGED <<capacity, taken, refused>>

Refuse(v) ==
    /\ Places = capacity
    /\ refused' = refused \cup {v}
    /\ UNCHANGED <<capacity, queue, taken>>

Take ==
    /\ taken = NoValue
    /\ queue # <<>>
    /\ taken' = Head(queue)
    /\ queue' = Tail(queue)
    /\ UNCHANGED <<capacity, refused>>

Release ==
    /\ taken # NoValue
    /\ taken' = NoValue
    /\ UNCHANGED <<capacity, queue, refused>>

Next ==
    \/ \E v \in Values : Put(v) \/ Refuse(v)
    \/ Take
    \/ Release

Spec == Init /\ [][Next]_<<capacity, queue, taken, refused>>
=============================================================================
