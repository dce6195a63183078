---------------------------- MODULE PriorityHeap ----------------------------
(***************************************************************************)
(* bits/priority_heap.c: the array heap of job indices, and the cleanup    *)
(* loop that scheduler_priority_submit runs over its array.  Positions     *)
(* count from 0 as in the code; Node(h, p) is the node at position p.      *)
(* Only one thread touches a heap, but jobs finish while it is cleaned up. *)
(***************************************************************************)
EXTENDS Naturals, Sequences, FiniteSets

CONSTANTS
    Elems,         \* the job indices
    Priorities,
    MaxPriority    \* UINT32_MAX

\* Priorities come from one byte of a request.
ASSUME PriorityAssumption ==
    /\ Priorities \subseteq Nat
    /\ MaxPriority \in Nat
    /\ \A p \in Priorities : p < MaxPriority

VARIABLES
    heap,      \* the array, heap->len nodes long
    looping,   \* whether the cleanup loop runs
    i,         \* its position
    finished   \* the jobs that are done and that no worker uses

vars == <<heap, looping, i, finished>>

Nodes == [elem : Elems, priority : Priorities]

Node(h, p) == h[p + 1]
NodesFrom(h, p) == {h[k] : k \in p + 1 .. Len(h)}

Swap(h, p, q) == [h EXCEPT ![p + 1] = Node(h, q), ![q + 1] = Node(h, p)]

Parent(p) == (p - 1) \div 2
Left(p) == 2 * p + 1
Right(p) == 2 * p + 2

\* One round of the loop of shift_up: the node at x.pos rises to its parent's
\* place, or the loop has stopped.
Rise(x) ==
    IF x.pos = 0 \/ Node(x.heap, x.pos).priority <= Node(x.heap, Parent(x.pos)).priority
    THEN x
    ELSE [heap |-> Swap(x.heap, x.pos, Parent(x.pos)), pos |-> Parent(x.pos)]

\* Every round but the last decreases the position: p rounds end the loop.
ShiftUp(h, p) ==
    LET round[k \in 0 .. p] ==
            IF k = 0 THEN [heap |-> h, pos |-> p] ELSE Rise(round[k - 1])
    IN  round[p].heap

\* The child, if any, that shift_down exchanges with position p: the left
\* one if it is larger, the right one if it is larger still.
LargerChild(h, p) ==
    LET bigger(q, r) ==
            IF r < Len(h) /\ Node(h, r).priority > Node(h, q).priority THEN r ELSE q
    IN  bigger(bigger(p, Left(p)), Right(p))

\* One round of the loop of shift_down.
Sink(x) ==
    LET child == LargerChild(x.heap, x.pos)
    IN  IF child = x.pos
        THEN x
        ELSE [heap |-> Swap(x.heap, x.pos, child), pos |-> child]

\* Every round but the last increases the position.
ShiftDown(h, p) ==
    LET round[k \in 0 .. Len(h)] ==
            IF k = 0 THEN [heap |-> h, pos |-> p] ELSE Sink(round[k - 1])
    IN  round[Len(h)].heap

Inserted(h, n) == ShiftUp(Append(h, n), Len(h))

\* Mutant: the last node is taken to the root but not shifted down.
ExtractedFlat(h) == SubSeq(Swap(h, 0, Len(h) - 1), 1, Len(h) - 1)

Extracted(h) == ShiftDown(SubSeq(Swap(h, 0, Len(h) - 1), 1, Len(h) - 1), 0)

\* Mutant: the node is not shifted up to the root before the root is popped.
RemovedInPlace(h, p) ==
    Extracted([h EXCEPT ![p + 1].priority = MaxPriority])

Removed(h, p) ==
    Extracted(ShiftUp([h EXCEPT ![p + 1].priority = MaxPriority], p))

----------------------------------------------------------------------------
Init ==
    /\ heap = <<>>
    /\ looping = FALSE
    /\ i = 0
    /\ finished = {}

Insert(n) ==
    /\ ~looping
    /\ \A k \in DOMAIN heap : heap[k].elem # n.elem
    /\ heap' = Inserted(heap, n)
    /\ finished' = finished \ {n.elem}
    /\ UNCHANGED <<looping, i>>

ExtractMax ==
    /\ ~looping
    /\ heap # <<>>
    /\ heap' = Extracted(heap)
    /\ UNCHANGED <<looping, i, finished>>

\* A job becomes done and unused, at any time.
Finish(e) ==
    /\ e \notin finished
    /\ \E k \in DOMAIN heap : heap[k].elem = e
    /\ finished' = finished \cup {e}
    /\ UNCHANGED <<heap, looping, i>>

StartCleanup ==
    /\ ~looping
    /\ looping' = TRUE
    /\ i' = 0
    /\ UNCHANGED <<heap, finished>>

CleanupKeep ==
    /\ looping
    /\ i < Len(heap)
    /\ Node(heap, i).elem \notin finished
    /\ i' = i + 1
    /\ UNCHANGED <<heap, looping, finished>>

\* Removal steps i back, so that the same position is looked at again.
CleanupRemove ==
    /\ looping
    /\ i < Len(heap)
    /\ Node(heap, i).elem \in finished
    /\ heap' = Removed(heap, i)
    /\ UNCHANGED <<looping, i, finished>>

EndCleanup ==
    /\ looping
    /\ i >= Len(heap)
    /\ looping' = FALSE
    /\ i' = 0
    /\ UNCHANGED <<heap, finished>>

Next ==
    \/ \E n \in Nodes : Insert(n)
    \/ ExtractMax
    \/ \E e \in Elems : Finish(e)
    \/ StartCleanup
    \/ CleanupKeep
    \/ CleanupRemove
    \/ EndCleanup

Spec == Init /\ [][Next]_vars

----------------------------------------------------------------------------
\* Every node of the array has at most the priority of its parent, after any
\* sequence of insertions, extractions and removals from the middle.
HeapOrdered ==
    \A p \in 1 .. Len(heap) - 1 :
        Node(heap, p).priority <= Node(heap, Parent(p)).priority

\* The array implements the set of nodes that PriorityScheduler works with:
\* extraction takes a node of maximal priority, no operation loses or
\* duplicates a node, and a removal in the loop skips at most one node and
\* revisits at most one.
Abstract == INSTANCE HeapSpec WITH
    content <- NodesFrom(heap, 0),
    todo <- IF looping THEN NodesFrom(heap, i) ELSE {}

RefinesHeap == Abstract!Spec
=============================================================================
