--------------------------- MODULE MCPageAllocator ---------------------------
(* Instances of PageAllocator for TLC: interchangeable threads. *)
EXTENDS PageAllocator, TLC

CONSTANTS t1, t2, t3

TwoThreads == {t1, t2}
ThreeThreads == {t1, t2, t3}
Symmetry == Permutations(Threads)
=============================================================================
