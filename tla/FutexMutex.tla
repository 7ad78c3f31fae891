----------------------------- MODULE FutexMutex -----------------------------
(***************************************************************************)
(* The three-state futex mutex of src/02_nonblocking_sync/futex.c, of      *)
(* src/unnamed/part_006 and of src/01_pthreads_sync/erm_futex.c, with its  *)
(* benchmark loop lock; check; var++; unlock.  The three differ in the     *)
(* values of the states and in what unlock subtracts: futex.c and part_006 *)
(* use 0/1/2 and subtract 1; erm_futex.c uses 0x800/0x1000/0x2000 and      *)
(* subtracts 0x800.                                                        *)
(*                                                                         *)
(* The kernel side: FUTEX_WAIT compares the word with M_LOCKD_WQ and puts  *)
(* the thread to sleep in one atomic step, or returns at once when they    *)
(* differ; FUTEX_WAKE wakes one sleeping thread, if any.  The benchmark    *)
(* sends no signals, so there are no EINTR returns.  The program checked  *)
(* is chosen at Init from Builds and fixed for the run.                    *)
(***************************************************************************)
EXTENDS Integers, FiniteSets

CONSTANTS
    Threads, NUM_ITERATIONS,
    Builds      \* the programs: records of the enum of mutex states
                \* (ULOCKD, LOCKD, LOCKD_WQ), what unlock's fetch_sub
                \* subtracts (SUB) and whether the word is 4-byte aligned

ASSUME /\ NUM_ITERATIONS \in Nat \ {0}
       /\ \A b \in Builds : {b.ULOCKD, b.LOCKD, b.LOCKD_WQ, b.SUB} \subseteq Int
                          /\ b.aligned \in BOOLEAN

VARIABLES
    build,      \* the program that runs
    mutex,      \* the futex word
    waitq,      \* threads asleep in FUTEX_WAIT on it
    pc,         \* pc[t]
    c,          \* c[t]: lock's local `status` / `c`
    i,          \* i[t]: iteration counter of thread_func
    tmp,        \* tmp[t]: the value of var loaded by var++
    var,        \* uint32_t var
    printed     \* the "invalid" message of thread_func was printed

vars == <<build, mutex, waitq, pc, c, i, tmp, var, printed>>

M_ULOCKD   == build.ULOCKD
M_LOCKD    == build.LOCKD
M_LOCKD_WQ == build.LOCKD_WQ
UNLOCK_SUB == build.SUB

\* futex(2) fails with EINVAL on a word that is not 4-byte aligned: then
\* FUTEX_WAIT returns at once and FUTEX_WAKE wakes nobody.  erm_futex.c
\* places its word at byte 62 of a 64-aligned buffer (line 123).
FutexAligned == build.aligned

CriticalSection == {"check", "load", "store", "unlock"}
LockStates == {M_ULOCKD, M_LOCKD, M_LOCKD_WQ}

-----------------------------------------------------------------------------
Init ==
    /\ build \in Builds
    /\ mutex = M_ULOCKD
    /\ waitq = {}
    /\ pc = [t \in Threads |-> "cas"]
    /\ c = [t \in Threads |-> M_ULOCKD]
    /\ i = [t \in Threads |-> 0]
    /\ tmp = [t \in Threads |-> 0]
    /\ var = 0
    /\ printed = FALSE

\* Fault variant: the fast path enters without looking at the result.
FastPathNoCheck(t) ==
    /\ pc[t] = "cas"
    /\ mutex' = IF mutex = M_ULOCKD THEN M_LOCKD ELSE mutex
    /\ c' = [c EXCEPT ![t] = mutex]
    /\ pc' = [pc EXCEPT ![t] = "check"]
    /\ UNCHANGED <<build, waitq, i, tmp, var, printed>>

\* lock (1): compare-and-swap M_ULOCKD -> M_LOCKD.  On failure a thread
\* that did not see M_LOCKD_WQ marks the lock contended first.
FastPath(t) ==
    /\ pc[t] = "cas"
    /\ mutex' = IF mutex = M_ULOCKD THEN M_LOCKD ELSE mutex
    /\ c' = [c EXCEPT ![t] = mutex]
    /\ pc' = [pc EXCEPT ![t] = CASE mutex = M_ULOCKD   -> "check"
                                 [] mutex = M_LOCKD_WQ -> "wait"
                                 [] OTHER              -> "mark"]
    /\ UNCHANGED <<build, waitq, i, tmp, var, printed>>

\* lock (2) and the exchange in the wait loop: swap in M_LOCKD_WQ; the
\* thread owns the lock if the old value was M_ULOCKD, else it waits.
Exchange(t) ==
    /\ pc[t] \in {"mark", "retry"}
    /\ mutex' = M_LOCKD_WQ
    /\ c' = [c EXCEPT ![t] = mutex]
    /\ pc' = [pc EXCEPT ![t] = IF mutex = M_ULOCKD THEN "check" ELSE "wait"]
    /\ UNCHANGED <<build, waitq, i, tmp, var, printed>>

\* futex(mutex, FUTEX_WAIT, M_LOCKD_WQ): sleep if the word still holds
\* M_LOCKD_WQ, else return at once (EAGAIN, or EINVAL on a misaligned
\* word) and retry the exchange.
FutexWait(t) ==
    /\ pc[t] = "wait"
    /\ IF FutexAligned /\ mutex = M_LOCKD_WQ
       THEN /\ waitq' = waitq \cup {t}
            /\ pc' = [pc EXCEPT ![t] = "asleep"]
       ELSE /\ pc' = [pc EXCEPT ![t] = "retry"]
            /\ UNCHANGED waitq
    /\ UNCHANGED <<build, mutex, c, i, tmp, var, printed>>

\* thread_func's check of the word inside the critical section.
Check(t) ==
    /\ pc[t] = "check"
    /\ printed' = (printed \/ mutex \notin LockStates)
    /\ pc' = [pc EXCEPT ![t] = "load"]
    /\ UNCHANGED <<build, mutex, waitq, c, i, tmp, var>>

\* var++: load, then store (var stays far below 2^32).
Load(t) ==
    /\ pc[t] = "load"
    /\ tmp' = [tmp EXCEPT ![t] = var]
    /\ pc' = [pc EXCEPT ![t] = "store"]
    /\ UNCHANGED <<build, mutex, waitq, c, i, var, printed>>

Store(t) ==
    /\ pc[t] = "store"
    /\ var' = tmp[t] + 1
    /\ pc' = [pc EXCEPT ![t] = "unlock"]
    /\ UNCHANGED <<build, mutex, waitq, c, i, tmp, printed>>

\* Fault variant: the loop runs while i <= NUM_ITERATIONS.
NextIterationOffByOne(t, woken) ==
    /\ i' = [i EXCEPT ![t] = @ + 1]
    /\ pc' = [u \in Threads |->
                IF u = t THEN IF i[t] + 1 <= NUM_ITERATIONS THEN "cas" ELSE "done"
                ELSE IF u \in woken THEN "retry" ELSE pc[u]]

\* The next turn of thread_func's loop for t; the threads in woken return
\* from FUTEX_WAIT at the same step.
NextIteration(t, woken) ==
    /\ i' = [i EXCEPT ![t] = @ + 1]
    /\ pc' = [u \in Threads |->
                IF u = t THEN IF i[t] + 1 < NUM_ITERATIONS THEN "cas" ELSE "done"
                ELSE IF u \in woken THEN "retry" ELSE pc[u]]

\* unlock: fetch_sub; if the old value was M_LOCKD nobody waited and the
\* lock is free; otherwise store M_ULOCKD and wake a waiter.
Unlock(t) ==
    /\ pc[t] = "unlock"
    /\ mutex' = mutex - UNLOCK_SUB
    /\ IF mutex = M_LOCKD
       THEN NextIteration(t, {})
       ELSE /\ pc' = [pc EXCEPT ![t] = "release"] /\ UNCHANGED i
    /\ UNCHANGED <<build, waitq, c, tmp, var, printed>>

\* Fault variant: the store of M_ULOCKD is left out.
ReleaseNoStore(t) ==
    /\ pc[t] = "release"
    /\ pc' = [pc EXCEPT ![t] = "wake"]
    /\ UNCHANGED <<build, mutex, waitq, c, i, tmp, var, printed>>

ReleaseStore(t) ==
    /\ pc[t] = "release"
    /\ mutex' = M_ULOCKD
    /\ pc' = [pc EXCEPT ![t] = "wake"]
    /\ UNCHANGED <<build, waitq, c, i, tmp, var, printed>>

\* Fault variant: FUTEX_WAKE is left out.
WakeNobody(t) ==
    /\ pc[t] = "wake"
    /\ NextIteration(t, {})
    /\ UNCHANGED <<build, mutex, waitq, c, tmp, var, printed>>

\* futex(mutex, FUTEX_WAKE, 1): one sleeper, if any, returns from its
\* FUTEX_WAIT and retries the exchange.
Wake(t) ==
    /\ pc[t] = "wake"
    /\ \/ /\ waitq = {}
          /\ NextIteration(t, {})
          /\ UNCHANGED waitq
       \/ \E w \in waitq :
          /\ waitq' = waitq \ {w}
          /\ NextIteration(t, {w})
    /\ UNCHANGED <<build, mutex, c, tmp, var, printed>>

Step(t) ==
    \/ FastPath(t) \/ Exchange(t) \/ FutexWait(t) \/ Check(t) \/ Load(t)
    \/ Store(t) \/ Unlock(t) \/ ReleaseStore(t) \/ Wake(t)

Next == \E t \in Threads : Step(t)

\* Every thread that is not asleep in the kernel keeps running.
Spec == Init /\ [][Next]_vars /\ \A t \in Threads : WF_vars(Step(t))

-----------------------------------------------------------------------------
(* Properties *)

TypeOK ==
    /\ build \in Builds
    /\ mutex \in LockStates \cup {M_LOCKD_WQ - UNLOCK_SUB}
    /\ waitq \subseteq Threads
    /\ pc \in [Threads -> {"cas", "mark", "wait", "asleep", "retry", "check",
                           "load", "store", "unlock", "release", "wake", "done"}]
    /\ i \in [Threads -> 0..NUM_ITERATIONS]
    /\ var \in 0..(NUM_ITERATIONS * Cardinality(Threads))
    /\ printed \in BOOLEAN

\* The lock implements Mutex: the holders are the threads from the return
\* of lock to unlock's fetch_sub.
Mx == INSTANCE Mutex WITH holders <- {t \in Threads : pc[t] \in CriticalSection}
ImplementsMutex == Mx!Spec

\* The count main prints is exact, and the check inside the critical
\* section never sees a word outside the enum.
NoLostUpdate ==
    /\ (\A t \in Threads : pc[t] = "done") => var = NUM_ITERATIONS * Cardinality(Threads)
    /\ ~printed

\* No lost wake-up: a thread asleep in FUTEX_WAIT is eventually woken by
\* some unlock, however the fast path and the exchanges interleave.
NoLostWakeup == \A t \in Threads : pc[t] = "asleep" ~> pc[t] # "asleep"

\* No thread waits forever, asleep or retrying: every thread completes its
\* NUM_ITERATIONS and main can join them.
AllFinish == <>(\A t \in Threads : pc[t] = "done")

=============================================================================
