------------------------------- MODULE Mutex -------------------------------
(***************************************************************************)
(* What every lock of the benchmarks (tas-lock.c, ttas-lock.c,            *)
(* ticket-lock.c, futex.c, erm_futex.c) promises: a thread that has asked  *)
(* for the lock may be granted it only while nobody holds it, and only    *)
(* the holder releases it.  The set of holders has at most one member by   *)
(* construction; a lock whose mapping ever puts two threads in it does not *)
(* implement this module.                                                  *)
(***************************************************************************)
CONSTANT Threads

VARIABLE holders   \* the threads inside the critical section

Init == holders = {}

Grant(t) ==
    /\ holders = {}
    /\ holders' = {t}

Free(t) ==
    /\ holders = {t}
    /\ holders' = {}

Next == \E t \in Threads : Grant(t) \/ Free(t)

Spec == Init /\ [][Next]_holders

=============================================================================
