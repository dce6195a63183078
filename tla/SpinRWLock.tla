----------------------------- MODULE SpinRWLock -----------------------------
(***************************************************************************)
(* bits/spin.c: the spinning read-write lock behind rlock and wlock.  The  *)
(* whole lock is one 32-bit word: the highest bit says that a writer holds *)
(* it, the other bits count the readers.  Each action is one atomic        *)
(* operation on that word.  (On x86 a weak compare-and-exchange fails only *)
(* when the values differ.)                                                *)
(* The names with `lock' or `Lock' in front leave the plain ones to a      *)
(* module that extends this one together with a scheduler.                 *)
(***************************************************************************)
EXTENDS Integers, FiniteSets

CONSTANTS
    Threads,     \* the threads that use the lock
    WriterMask   \* SPIN_RWLOCK_WRITER_MASK, 2^31 in the code

ASSUME ThreadsFinite == IsFiniteSet(Threads)

\* The reader count must not reach the writer bit.
ASSUME MaskAssumption ==
    /\ WriterMask \in Nat
    /\ Cardinality(Threads) < WriterMask

VARIABLES
    lock,   \* lock->lock
    at,     \* where each thread is in the four lock operations
    loaded  \* the local `e` of spin_rwlock_rdlock

lockVars == <<lock, at, loaded>>

Readers == {t \in Threads : at[t] = "reading"}
Writers == {t \in Threads : at[t] = "writing"}

Word == 0 .. 2 * WriterMask - 1

\* x & SPIN_RWLOCK_READER_MASK
ReaderBits(x) == x % WriterMask

LockInit ==
    /\ lock = 0
    /\ at = [t \in Threads |-> "idle"]
    /\ loaded = [t \in Threads |-> 0]

----------------------------------------------------------------------------
(* spin_rwlock_rdlock: load and mask, then try to add one reader. *)

RdLock(t) ==
    /\ at[t] = "idle"
    /\ at' = [at EXCEPT ![t] = "rdload"]
    /\ UNCHANGED <<lock, loaded>>

\* Mutant: the loaded word is not masked.
RdLoadUnmasked(t) ==
    /\ at[t] = "rdload"
    /\ loaded' = [loaded EXCEPT ![t] = lock]
    /\ at' = [at EXCEPT ![t] = "rdcas"]
    /\ UNCHANGED lock

RdLoad(t) ==
    /\ at[t] = "rdload"
    /\ loaded' = [loaded EXCEPT ![t] = ReaderBits(lock)]
    /\ at' = [at EXCEPT ![t] = "rdcas"]
    /\ UNCHANGED lock

RdCasOk(t) ==
    /\ at[t] = "rdcas"
    /\ lock = loaded[t]
    /\ lock' = loaded[t] + 1
    /\ at' = [at EXCEPT ![t] = "reading"]
    /\ UNCHANGED loaded

RdCasFail(t) ==
    /\ at[t] = "rdcas"
    /\ lock # loaded[t]
    /\ at' = [at EXCEPT ![t] = "rdload"]
    /\ UNCHANGED <<lock, loaded>>

RdUnlock(t) ==
    /\ at[t] = "reading"
    /\ lock' = (lock - 1) % (2 * WriterMask)
    /\ at' = [at EXCEPT ![t] = "idle"]
    /\ UNCHANGED loaded

----------------------------------------------------------------------------
(* spin_rwlock_wrlock spins on one compare-and-exchange from 0.  A failed  *)
(* attempt changes nothing, so only the successful one is an action.       *)

WrLock(t) ==
    /\ at[t] = "idle"
    /\ at' = [at EXCEPT ![t] = "wrcas"]
    /\ UNCHANGED <<lock, loaded>>

WrCas(t) ==
    /\ at[t] = "wrcas"
    /\ lock = 0
    /\ lock' = WriterMask
    /\ at' = [at EXCEPT ![t] = "writing"]
    /\ UNCHANGED loaded

\* Mutant: `lock & WRITER_MASK` instead of `& READER_MASK`.
WrUnlockWrongMask(t) ==
    /\ at[t] = "writing"
    /\ lock' = lock - ReaderBits(lock)
    /\ at' = [at EXCEPT ![t] = "idle"]
    /\ UNCHANGED loaded

WrUnlock(t) ==
    /\ at[t] = "writing"
    /\ lock' = ReaderBits(lock)
    /\ at' = [at EXCEPT ![t] = "idle"]
    /\ UNCHANGED loaded

----------------------------------------------------------------------------
Step(t) ==
    \/ RdLock(t)
    \/ RdLoad(t)
    \/ RdCasOk(t)
    \/ RdCasFail(t)
    \/ RdUnlock(t)
    \/ WrLock(t)
    \/ WrCas(t)
    \/ WrUnlock(t)

LockNext == \E t \in Threads : Step(t)

LockSpec == LockInit /\ [][LockNext]_lockVars

\* A thread inside an operation is a running thread of the process: it takes
\* its next step, and a holder's critical section ends.  Nothing makes an
\* idle thread ask for the lock.
LockFairness == \A t \in Threads : WF_lockVars(at[t] # "idle" /\ Step(t))

LockLiveSpec == LockSpec /\ LockFairness

----------------------------------------------------------------------------
LockTypeOK ==
    /\ lock \in Word
    /\ at \in [Threads ->
                 {"idle", "rdload", "rdcas", "reading", "wrcas", "writing"}]
    /\ loaded \in [Threads -> 0 .. WriterMask - 1]

\* The word always counts exactly the readers inside and flags exactly the
\* writer inside, whatever loads and failed exchanges are in flight.
LockWord ==
    lock = Cardinality(Readers) + (IF Writers = {} THEN 0 ELSE WriterMask)

\* Readers and a writer are never inside together, nor are two writers.
MutualExclusion ==
    /\ Writers # {} => Readers = {}
    /\ \A s, t \in Writers : s = t

\* The compare-and-swap loops implement the abstract read-write lock.
Abstract == INSTANCE RWLockSpec WITH readers <- Readers, writers <- Writers

RefinesRWLock == Abstract!Spec

\* The lock is never left in a state in which nobody can get in: while some
\* thread spins, some thread (perhaps another one) gets the lock.
SomeoneEnters ==
    (\E t \in Threads : at[t] \in {"rdload", "rdcas", "wrcas"})
        ~> (Readers \cup Writers # {})
=============================================================================
