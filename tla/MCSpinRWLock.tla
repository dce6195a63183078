---------------------------- MODULE MCSpinRWLock ----------------------------
(* Instance of SpinRWLock for TLC. *)
EXTENDS SpinRWLock

CONSTANTS t1, t2, t3

MCThreads == {t1, t2, t3}
=============================================================================
