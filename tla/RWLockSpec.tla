----------------------------- MODULE RWLockSpec -----------------------------
(***************************************************************************)
(* What a read-write lock promises: any number of readers or one writer.   *)
(* The scheduler uses its two locks (rlock and wlock) as if they were this *)
(* specification; SpinRWLock is the compare-and-swap code that implements  *)
(* it.                                                                     *)
(***************************************************************************)
CONSTANT Threads

VARIABLES readers, writers

lockVars == <<readers, writers>>

Init ==
    /\ readers = {}
    /\ writers = {}

AcquireRead(t) ==
    /\ t \notin readers \cup writers
    /\ writers = {}
    /\ readers' = readers \cup {t}
    /\ UNCHANGED writers

ReleaseRead(t) ==
    /\ t \in readers
    /\ readers' = readers \ {t}
    /\ UNCHANGED writers

AcquireWrite(t) ==
    /\ readers = {}
    /\ writers = {}
    /\ writers' = {t}
    /\ UNCHANGED readers

ReleaseWrite(t) ==
    /\ t \in writers
    /\ writers' = writers \ {t}
    /\ UNCHANGED readers

Next ==
    \E t \in Threads :
        \/ AcquireRead(t)
        \/ ReleaseRead(t)
        \/ AcquireWrite(t)
        \/ ReleaseWrite(t)

Spec == Init /\ [][Next]_lockVars
=============================================================================
