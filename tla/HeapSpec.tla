------------------------------ MODULE HeapSpec ------------------------------
(***************************************************************************)
(* What the schedulers rely on of the priority heap: a set of nodes from   *)
(* which a node of maximal priority is taken, and a cleanup that visits    *)
(* nodes one at a time and removes some of them.  A removal may make the   *)
(* loop skip one node it has not visited and visit one node again.  This   *)
(* is the heap of PriorityScheduler.                                       *)
(***************************************************************************)
EXTENDS FiniteSets, Naturals

CONSTANT Nodes

VARIABLES content, todo

heapVars == <<content, todo>>

Init == content = {} /\ todo = {}

Insert(n) ==
    /\ n \notin content
    /\ content' = content \cup {n}
    /\ UNCHANGED todo

ExtractMax(n) ==
    /\ n \in content
    /\ \A m \in content : m.priority <= n.priority
    /\ content' = content \ {n}
    /\ UNCHANGED todo

StartCleanup ==
    /\ todo = {}
    /\ todo' = content
    /\ UNCHANGED content

Keep(n) ==
    /\ n \in todo
    /\ todo' = todo \ {n}
    /\ UNCHANGED content

Remove(n, skipped, again) ==
    /\ n \in todo
    /\ skipped \subseteq todo \ {n}
    /\ again \subseteq content \ todo
    /\ Cardinality(skipped) <= 1
    /\ Cardinality(again) <= 1
    /\ content' = content \ {n}
    /\ todo' = (todo \ ({n} \cup skipped)) \cup again

Next ==
    \/ \E n \in Nodes : Insert(n)
    \/ \E n \in content : ExtractMax(n)
    \/ StartCleanup
    \/ \E n \in todo : Keep(n)
    \/ \E n \in todo : \E skipped \in SUBSET todo, again \in SUBSET content :
          Remove(n, skipped, again)

Spec == Init /\ [][Next]_heapVars
=============================================================================
