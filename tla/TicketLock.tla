----------------------------- MODULE TicketLock -----------------------------
(***************************************************************************)
(* The ticket lock of src/02_nonblocking_sync/ticket-lock.c and the        *)
(* benchmark that uses it: each of the threads runs NUM_ITERATIONS times   *)
(* acquire; var++; release.                                                *)
(*                                                                         *)
(* next_ticket and now_serving are _Atomic uint16_t, so they count modulo  *)
(* 2^16; TicketLock_acquire keeps its ticket in a `short`, the signed      *)
(* 16-bit conversion of the fetched value, and compares it with the        *)
(* unsigned now_serving after both are promoted to int.  var++ is a load   *)
(* and a store, two steps, so a broken lock loses increments.              *)
(*                                                                         *)
(* Init is the lock after StartTicket completed acquisitions (all threads  *)
(* outside it): TicketLock_init gives StartTicket = 0, and every value up  *)
(* to 2^16 - 1 is reached by a long enough run.                            *)
(***************************************************************************)
EXTENDS Integers, FiniteSets

CONSTANTS
    Threads,          \* the POSIX threads started by main
    NUM_ITERATIONS,   \* acquisitions per thread
    Width,            \* bits of the ticket counters (uint16_t / short)
    StartTicket       \* acquisitions completed before the modelled ones

ASSUME /\ NUM_ITERATIONS \in Nat \ {0}
       /\ Width \in Nat \ {0, 1}
       /\ StartTicket \in 0..(2^Width - 1)

Modulus == 2^Width

\* uint16_t -> short on the two's complement target.
ToShort(x) == IF x >= 2^(Width - 1) THEN x - Modulus ELSE x

VARIABLES
    next_ticket,
    now_serving,
    ticket,     \* ticket[t]: the local `const short ticket`
    pc,         \* pc[t]: "idle", "wait", "load", "store", "release", "done"
    i,          \* i[t]: iteration counter of thread_func
    tmp,        \* tmp[t]: the value of var loaded by var++
    var         \* uint32_t var

vars == <<next_ticket, now_serving, ticket, pc, i, tmp, var>>

CriticalSection == {"load", "store", "release"}

-----------------------------------------------------------------------------
\* TicketLock_init (lines 42-46), moved forward by StartTicket acquisitions;
\* threads created by main (lines 109-166) and entering thread_func.
Init ==
    /\ next_ticket = StartTicket
    /\ now_serving = StartTicket
    /\ ticket = [t \in Threads |-> 0]
    /\ pc = [t \in Threads |-> "idle"]
    /\ i = [t \in Threads |-> 0]
    /\ tmp = [t \in Threads |-> 0]
    /\ var = 0

\* Line 51: take a ticket with fetch_add and convert it to short.
TakeTicket(t) ==
    /\ pc[t] = "idle"
    /\ ticket' = [ticket EXCEPT ![t] = ToShort(next_ticket)]
    /\ next_ticket' = (next_ticket + 1) % Modulus
    /\ pc' = [pc EXCEPT ![t] = "wait"]
    /\ UNCHANGED <<now_serving, i, tmp, var>>

\* Fault variant: the sched_yield loop is dropped, so the thread goes in
\* once the bounded pause loop runs out.
EnterAfterSpin(t) ==
    /\ pc[t] = "wait"
    /\ pc' = [pc EXCEPT ![t] = "load"]
    /\ UNCHANGED <<next_ticket, now_serving, ticket, i, tmp, var>>

\* Lines 54-62: the pause loop and then the sched_yield loop both spin
\* while now_serving != ticket (compared as int); the thread passes only
\* when they are equal.
Enter(t) ==
    /\ pc[t] = "wait"
    /\ now_serving = ticket[t]
    /\ pc' = [pc EXCEPT ![t] = "load"]
    /\ UNCHANGED <<next_ticket, now_serving, ticket, i, tmp, var>>

\* Line 93, var++: load, then store.
Load(t) ==
    /\ pc[t] = "load"
    /\ tmp' = [tmp EXCEPT ![t] = var]
    /\ pc' = [pc EXCEPT ![t] = "store"]
    /\ UNCHANGED <<next_ticket, now_serving, ticket, i, var>>

\* var never comes near 2^32 (it counts at most NUM_THREADS *
\* NUM_ITERATIONS increments), so the store is left unwrapped.
Store(t) ==
    /\ pc[t] = "store"
    /\ var' = tmp[t] + 1
    /\ pc' = [pc EXCEPT ![t] = "release"]
    /\ UNCHANGED <<next_ticket, now_serving, ticket, i, tmp>>

ReleaseWrongCounter(t) ==
    /\ pc[t] = "release"
    /\ next_ticket' = (next_ticket + 1) % Modulus
    /\ i' = [i EXCEPT ![t] = @ + 1]
    /\ pc' = [pc EXCEPT ![t] = IF i[t] + 1 < NUM_ITERATIONS THEN "idle" ELSE "done"]
    /\ UNCHANGED <<now_serving, ticket, tmp, var>>

\* TicketLock_release (lines 65-68) and the loop of thread_func (88-96).
Release(t) ==
    /\ pc[t] = "release"
    /\ now_serving' = (now_serving + 1) % Modulus
    /\ i' = [i EXCEPT ![t] = @ + 1]
    /\ pc' = [pc EXCEPT ![t] = IF i[t] + 1 < NUM_ITERATIONS THEN "idle" ELSE "done"]
    /\ UNCHANGED <<next_ticket, ticket, tmp, var>>

Step(t) == TakeTicket(t) \/ Enter(t) \/ Load(t) \/ Store(t) \/ Release(t)

Next == \E t \in Threads : Step(t)

\* Every thread keeps being scheduled (one thread per hardware thread,
\* pinned by main); a waiting thread rereads now_serving forever.
Spec == Init /\ [][Next]_vars /\ \A t \in Threads : WF_vars(Step(t))

-----------------------------------------------------------------------------
(* Properties *)

TypeOK ==
    /\ next_ticket \in 0..(Modulus - 1)
    /\ now_serving \in 0..(Modulus - 1)
    /\ ticket \in [Threads -> -(2^(Width - 1))..(2^(Width - 1) - 1)]
    /\ pc \in [Threads -> {"idle", "wait", "load", "store", "release", "done"}]
    /\ i \in [Threads -> 0..NUM_ITERATIONS]
    /\ var \in 0..(NUM_ITERATIONS * Cardinality(Threads))

\* The lock implements Mutex: the threads between a successful wait
\* (lines 54-62) and TicketLock_release are its holders.
Mx == INSTANCE Mutex WITH holders <- {t \in Threads : pc[t] \in CriticalSection}
ImplementsMutex == Mx!Spec

\* The result main prints (line 180) counts every increment: once all
\* threads are done, var = NUM_THREADS * NUM_ITERATIONS.
NoLostUpdate ==
    (\A t \in Threads : pc[t] = "done")
        => var = NUM_ITERATIONS * Cardinality(Threads)

\* FIFO fairness, the point of a ticket lock: every thread that has taken
\* a ticket eventually enters the critical section.
StarvationFree ==
    \A t \in Threads : pc[t] = "wait" ~> pc[t] = "load"

=============================================================================
