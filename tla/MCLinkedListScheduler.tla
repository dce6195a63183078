----------------------- MODULE MCLinkedListScheduler -----------------------
(* Instances of LinkedListScheduler for TLC. *)
EXTENDS LinkedListScheduler, TLC

CONSTANTS w1, w2, c1, c2, c3

TwoWorkers == {w1, w2}
ThreeClients == {c1, c2, c3}

Req(start, end, hash, priority) ==
    [start |-> start, end |-> end, hash |-> hash, priority |-> priority]

\* c1 and c2 ask for the same hash, in the second block of c1 and the first one
\* of c2; c3 is shorter than a block and has none.
ThreeRequests ==
    (c1 :> Req(1, 9, 7, 2)) @@ (c2 :> Req(6, 10, 7, 0))
        @@ (c3 :> Req(8, 10, 9, 1))
=============================================================================
