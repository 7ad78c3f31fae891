------------------------------ MODULE SpinLock ------------------------------
(***************************************************************************)
(* The test-and-set lock of src/02_nonblocking_sync/tas-lock.c and the     *)
(* test-and-test-and-set lock of ttas-lock.c (lines 1-198), each with the  *)
(* benchmark loop acquire; var++; release.  lock_kind says which of the   *)
(* two programs runs; it is fixed for the run.                             *)
(*                                                                         *)
(* The back-off sleeps (nanosleep of a growing, randomised delay) and the  *)
(* pause loops only delay a thread; they change no shared state, so a      *)
(* thread that sleeps is a thread that has not yet taken its next step.   *)
(* The acquire/release orderings make every access to lock_taken and var  *)
(* appear in one order on x86, so the steps below are sequentially         *)
(* consistent.                                                             *)
(***************************************************************************)
EXTENDS Integers, FiniteSets

CONSTANTS
    Threads,          \* the POSIX threads started by main
    NUM_ITERATIONS,   \* acquisitions per thread
    LockKinds         \* programs to check: a subset of {"TAS", "TTAS"}

ASSUME /\ NUM_ITERATIONS \in Nat \ {0}
       /\ LockKinds \subseteq {"TAS", "TTAS"}

VARIABLES
    lock_kind,    \* "TAS" (tas-lock.c) or "TTAS" (ttas-lock.c)
    lock_taken,   \* the flag (atomic_flag / _Atomic uint8_t), as a boolean
    pc,           \* pc[t]: "idle", "test", "tas", "load", "store", "release", "done"
    i,            \* i[t]: iteration counter of thread_func
    tmp,          \* tmp[t]: the value of var loaded by var++
    var           \* uint32_t var

vars == <<lock_kind, lock_taken, pc, i, tmp, var>>

CriticalSection == {"load", "store", "release"}

\* Where an acquire starts, and where it goes back to after a failed
\* test-and-set.
TestFirst == lock_kind = "TTAS"
AcquireEntry == IF TestFirst THEN "test" ELSE "tas"

-----------------------------------------------------------------------------
\* TAS_init / TTAS_init and thread creation in main.
Init ==
    /\ lock_kind \in LockKinds
    /\ lock_taken = FALSE
    /\ pc = [t \in Threads |-> "idle"]
    /\ i = [t \in Threads |-> 0]
    /\ tmp = [t \in Threads |-> 0]
    /\ var = 0

\* thread_func calls the acquire function.
Begin(t) ==
    /\ pc[t] = "idle"
    /\ pc' = [pc EXCEPT ![t] = AcquireEntry]
    /\ UNCHANGED <<lock_kind, lock_taken, i, tmp, var>>

\* Fault variant: the result of the test-and-set is not looked at.
TestAndSetIgnoringResult(t) ==
    /\ pc[t] = "tas"
    /\ lock_taken' = TRUE
    /\ pc' = [pc EXCEPT ![t] = "load"]
    /\ UNCHANGED <<lock_kind, i, tmp, var>>

\* atomic_flag_test_and_set: the thread owns the lock if the flag was
\* clear; otherwise TAS sleeps and retries, TTAS goes back to reading.
TestAndSet(t) ==
    /\ pc[t] = "tas"
    /\ lock_taken' = TRUE
    /\ pc' = [pc EXCEPT ![t] = IF lock_taken THEN AcquireEntry ELSE "load"]
    /\ UNCHANGED <<lock_kind, i, tmp, var>>

\* Fault variant: the read loop waits while the flag is clear.
TestInverted(t) ==
    /\ pc[t] = "test"
    /\ pc' = [pc EXCEPT ![t] = IF lock_taken THEN "tas" ELSE "test"]
    /\ UNCHANGED <<lock_kind, lock_taken, i, tmp, var>>

\* TTAS: the pause loop and the back-off loop read the flag and try the
\* test-and-set only once it reads 0.
Test(t) ==
    /\ pc[t] = "test"
    /\ pc' = [pc EXCEPT ![t] = IF lock_taken THEN "test" ELSE "tas"]
    /\ UNCHANGED <<lock_kind, lock_taken, i, tmp, var>>

\* var++: load, then store.
Load(t) ==
    /\ pc[t] = "load"
    /\ tmp' = [tmp EXCEPT ![t] = var]
    /\ pc' = [pc EXCEPT ![t] = "store"]
    /\ UNCHANGED <<lock_kind, lock_taken, i, var>>

\* var stays far below 2^32 (NUM_THREADS * NUM_ITERATIONS increments).
Store(t) ==
    /\ pc[t] = "store"
    /\ var' = tmp[t] + 1
    /\ pc' = [pc EXCEPT ![t] = "release"]
    /\ UNCHANGED <<lock_kind, lock_taken, i, tmp>>

\* Fault variants: the release forgets to clear the flag; the loop runs
\* while i <= NUM_ITERATIONS.
ReleaseNoClear(t) ==
    /\ pc[t] = "release"
    /\ i' = [i EXCEPT ![t] = @ + 1]
    /\ pc' = [pc EXCEPT ![t] = IF i[t] + 1 < NUM_ITERATIONS THEN "idle" ELSE "done"]
    /\ UNCHANGED <<lock_kind, lock_taken, tmp, var>>
Release(t) ==
    /\ pc[t] = "release"
    /\ lock_taken' = FALSE
    /\ i' = [i EXCEPT ![t] = @ + 1]
    /\ pc' = [pc EXCEPT ![t] = IF i[t] + 1 < NUM_ITERATIONS THEN "idle" ELSE "done"]
    /\ UNCHANGED <<lock_kind, tmp, var>>

Step(t) ==
    \/ Begin(t) \/ TestAndSet(t) \/ Load(t) \/ Store(t) \/ Release(t)
    \/ TestFirst /\ Test(t)

Next == \E t \in Threads : Step(t)

\* Each thread is pinned to its own hardware thread and keeps running.
Spec == Init /\ [][Next]_vars /\ \A t \in Threads : WF_vars(Step(t))

-----------------------------------------------------------------------------
(* Properties *)

TypeOK ==
    /\ lock_kind \in LockKinds
    /\ lock_taken \in BOOLEAN
    /\ pc \in [Threads -> {"idle", "test", "tas", "load", "store", "release", "done"}]
    /\ i \in [Threads -> 0..NUM_ITERATIONS]
    /\ var \in 0..(NUM_ITERATIONS * Cardinality(Threads))

\* The lock implements Mutex: its holders are the threads that returned
\* from acquire and have not yet cleared the flag.
Mx == INSTANCE Mutex WITH holders <- {t \in Threads : pc[t] \in CriticalSection}
ImplementsMutex == Mx!Spec

\* The count main prints once every thread is joined is exact.
NoLostUpdate ==
    (\A t \in Threads : pc[t] = "done")
        => var = NUM_ITERATIONS * Cardinality(Threads)

\* Neither lock is fair, but it never blocks everyone: while a thread is
\* trying to acquire, some thread eventually gets the lock.
DeadlockFree ==
    (\E t \in Threads : pc[t] \in {"test", "tas"})
        ~> (\E t \in Threads : pc[t] = "load")

=============================================================================
