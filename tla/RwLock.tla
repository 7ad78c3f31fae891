------------------------------- MODULE RwLock -------------------------------
(***************************************************************************)
(* The reader-writer lock benchmark of src/unnamed/part_005: writers add   *)
(* ONE_INCREMENT to var under pthread_rwlock_wrlock, readers copy var      *)
(* under pthread_rwlock_rdlock and loop (with a back-off) until the copy  *)
(* is the final total; main joins every thread and prints the result.     *)
(*                                                                         *)
(* The lock is PTHREAD_RWLOCK_INITIALIZER, glibc's default kind, which     *)
(* prefers readers: rdlock is granted whenever no writer holds the lock,   *)
(* waiting writers or not; wrlock only when nobody holds it.  `+=` on var  *)
(* is a load and a store.  None of the lock calls can fail here (no       *)
(* recursion, no destroyed lock), so their error exits are not reachable. *)
(***************************************************************************)
EXTENDS Integers, FiniteSets

CONSTANTS
    Writers, Readers,
    NUM_ITERATIONS,   \* sections per writer
    ONE_INCREMENT     \* what a writer adds

ASSUME NUM_ITERATIONS \in Nat \ {0} /\ ONE_INCREMENT \in Nat \ {0}

VARIABLES
    rwlock,       \* [rd: the readers holding it, wr: the writers holding it]
    var,          \* main's var
    wpc, i, tmp,  \* per writer: pc, loop counter, the loaded var
    rpc, copy,    \* per reader: pc and args->copy
    exitStatus    \* "running" or "success"

vars == <<rwlock, var, wpc, i, tmp, rpc, copy, exitStatus>>

Total == Cardinality(Writers) * NUM_ITERATIONS * ONE_INCREMENT
\* From the return of wrlock to the unlock (lines 48-58).
WriteSection == {"load", "store", "unlock"}

\* main (lines 116-188): var = 0, the lock initialised, copy = 0, every
\* thread started.
Init ==
    /\ rwlock = [rd |-> {}, wr |-> {}]
    /\ var = 0
    /\ wpc = [w \in Writers |-> "lock"] /\ i = [w \in Writers |-> 0]
    /\ tmp = [w \in Writers |-> 0]
    /\ rpc = [r \in Readers |-> "lock"] /\ copy = [r \in Readers |-> 0]
    /\ exitStatus = "running"

ReaderVars == <<rpc, copy>>

\* A mutant: wrlock that waits for the readers only.
wrlockIgnoringWriters(w) ==
    /\ wpc[w] = "lock" /\ rwlock.rd = {}
    /\ rwlock' = [rwlock EXCEPT !.wr = @ \cup {w}]
    /\ wpc' = [wpc EXCEPT ![w] = "load"]
    /\ UNCHANGED <<var, i, tmp, ReaderVars, exitStatus>>

\* pthread_rwlock_wrlock (line 48): exclusive, once nobody holds the lock.
wrlock(w) ==
    /\ wpc[w] = "lock" /\ rwlock.rd = {} /\ rwlock.wr = {}
    /\ rwlock' = [rwlock EXCEPT !.wr = @ \cup {w}]
    /\ wpc' = [wpc EXCEPT ![w] = "load"]
    /\ UNCHANGED <<var, i, tmp, ReaderVars, exitStatus>>

\* *(args->var) += ONE_INCREMENT (line 55): the load ...
WriterLoad(w) ==
    /\ wpc[w] = "load"
    /\ tmp' = [tmp EXCEPT ![w] = var] /\ wpc' = [wpc EXCEPT ![w] = "store"]
    /\ UNCHANGED <<rwlock, var, i, ReaderVars, exitStatus>>

\* ... and the store.
WriterStore(w) ==
    /\ wpc[w] = "store"
    /\ var' = tmp[w] + ONE_INCREMENT /\ wpc' = [wpc EXCEPT ![w] = "unlock"]
    /\ UNCHANGED <<rwlock, i, tmp, ReaderVars, exitStatus>>

\* pthread_rwlock_unlock (line 58) and the for loop's ++i and test
\* (line 45).
WriterUnlock(w) ==
    /\ wpc[w] = "unlock"
    /\ rwlock' = [rwlock EXCEPT !.wr = @ \ {w}]
    /\ i' = [i EXCEPT ![w] = @ + 1]
    /\ wpc' = [wpc EXCEPT ![w] = IF i[w] + 1 < NUM_ITERATIONS THEN "lock" ELSE "done"]
    /\ UNCHANGED <<var, tmp, ReaderVars, exitStatus>>

\* pthread_rwlock_rdlock (line 79): shared, whenever no writer holds it.
rdlock(r) ==
    /\ rpc[r] = "lock" /\ rwlock.wr = {}
    /\ rwlock' = [rwlock EXCEPT !.rd = @ \cup {r}]
    /\ rpc' = [rpc EXCEPT ![r] = "read"]
    /\ UNCHANGED <<var, wpc, i, tmp, copy, exitStatus>>

\* args->copy = *args->var (line 86), one 64-bit load.
ReaderCopy(r) ==
    /\ rpc[r] = "read"
    /\ copy' = [copy EXCEPT ![r] = var] /\ rpc' = [rpc EXCEPT ![r] = "unlock"]
    /\ UNCHANGED <<rwlock, var, wpc, i, tmp, exitStatus>>

\* pthread_rwlock_unlock (line 89), the nanosleep back-off (lines 97-101)
\* and the loop test (line 103): done only on the final total.
ReaderUnlock(r) ==
    /\ rpc[r] = "unlock"
    /\ rwlock' = [rwlock EXCEPT !.rd = @ \ {r}]
    /\ rpc' = [rpc EXCEPT ![r] = IF copy[r] = Total THEN "done" ELSE "lock"]
    /\ UNCHANGED <<var, wpc, i, tmp, copy, exitStatus>>

Writer(w) == wrlock(w) \/ WriterLoad(w) \/ WriterStore(w) \/ WriterUnlock(w)
Reader(r) == rdlock(r) \/ ReaderCopy(r) \/ ReaderUnlock(r)

\* Lines 190-216: every thread joined; the result printed, the lock
\* destroyed, EXIT_SUCCESS.
MainJoin ==
    /\ exitStatus = "running"
    /\ \A w \in Writers : wpc[w] = "done"
    /\ \A r \in Readers : rpc[r] = "done"
    /\ exitStatus' = "success"
    /\ UNCHANGED <<rwlock, var, wpc, i, tmp, ReaderVars>>

Next == \/ \E w \in Writers : Writer(w)
        \/ \E r \in Readers : Reader(r)
        \/ MainJoin

\* Every thread runs on its own hardware thread and is weakly fair; a
\* writer's wrlock is enabled only while no reader holds the lock, so
\* weak fairness does not make it happen.
Spec == /\ Init /\ [][Next]_vars
        /\ \A w \in Writers : WF_vars(Writer(w))
        /\ \A r \in Readers : WF_vars(Reader(r))
        /\ WF_vars(MainJoin)

-----------------------------------------------------------------------------
TypeOK ==
    /\ rwlock \in [rd : SUBSET Readers, wr : SUBSET Writers]
    /\ var \in 0..Total
    /\ wpc \in [Writers -> {"lock", "load", "store", "unlock", "done"}]
    /\ i \in [Writers -> 0..NUM_ITERATIONS] /\ tmp \in [Writers -> 0..Total]
    /\ rpc \in [Readers -> {"lock", "read", "unlock", "done"}]
    /\ copy \in [Readers -> 0..Total]
    /\ exitStatus \in {"running", "success"}

\* Once the writers are done, every reader eventually copies the final
\* total and leaves its loop (line 103), and main returns.
ReadersFinish ==
    (\A w \in Writers : wpc[w] = "done") ~> (exitStatus = "success")

=============================================================================
