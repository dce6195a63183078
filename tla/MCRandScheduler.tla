-------------------------- MODULE MCRandScheduler --------------------------
(* Instances of RandScheduler for TLC. *)
EXTENDS RandScheduler, TLC

CONSTANTS w1, w2, c1, c2

TwoWorkers == {w1, w2}
TwoClients == {c1, c2}

Req(start, end, hash, priority) ==
    [start |-> start, end |-> end, hash |-> hash, priority |-> priority]

\* Two tasks each, and one answer for both requests: the value that the tasks
\* of the first share, a value inside a task of the second.
TwoRequests ==
    (c1 :> Req(3, 11, 7, 2)) @@ (c2 :> Req(1, 9, 7, 0))
=============================================================================
