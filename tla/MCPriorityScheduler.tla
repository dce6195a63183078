------------------------ MODULE MCPriorityScheduler ------------------------
(* Instances of PriorityScheduler for TLC. *)
EXTENDS PriorityScheduler, TLC

CONSTANTS w1, w2, c1, c2, c3

OneWorker == {w1}
TwoWorkers == {w1, w2}
Symmetry == Permutations(TwoWorkers)

TwoClients == {c1, c2}
ThreeClients == {c1, c2, c3}

Req(start, end, hash, priority) ==
    [start |-> start, end |-> end, hash |-> hash, priority |-> priority]

\* Two blocks each (block size 2), the ranges overlap, both solvable.
TwoRequests ==
    (c1 :> Req(1, 4, 3, 1)) @@ (c2 :> Req(3, 6, 6, 1))

\* One block each; the second has no answer and may be cancelled, the third
\* asks again for the first one's hash.
ThreeRequests ==
    (c1 :> Req(1, 2, 2, 1)) @@ (c2 :> Req(1, 2, 9, 2)) @@ (c3 :> Req(1, 2, 2, 1))
SecondClient == {c2}

\* One block each, both solvable.
SmallRequests ==
    (c1 :> Req(1, 2, 2, 1)) @@ (c2 :> Req(2, 3, 3, 2))

\* One block each, only the first has an answer.
LiveRequests ==
    (c1 :> Req(1, 2, 2, 1)) @@ (c2 :> Req(1, 2, 9, 2))
=============================================================================
