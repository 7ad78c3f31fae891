------------------------------ MODULE MC_Locks ------------------------------
(***************************************************************************)
(* The lock benchmarks of src/02_nonblocking_sync (ticket-lock.c,          *)
(* tas-lock.c, ttas-lock.c, futex.c), of part_006 and erm_futex.c, and     *)
(* the seqlock of src/03_readers_writers/seqlock.c and the SPSC ring of    *)
(* src/03_circular_buffer/circular-buffer.c, checked in one run:           *)
(* Init picks the program (prog) and, within it, the variant its module   *)
(* offers; the steps are that module's steps and the variables of the     *)
(* other programs stay at rest.  Each behaviour is a behaviour of exactly *)
(* one of TicketLock, SpinLock, FutexMutex, SeqLock and SpscRing, and each *)
(* property is that module's property, for the behaviours of its program. *)
(* The locks run three threads of two iterations each; the ticket lock    *)
(* starts fresh (TicketLock_init).  The seqlock has one writer t1 (with  *)
(* a second, a writer can hang: see seqlock_writer_hang) and two readers  *)
(* t2 and t3.                                                              *)
(* The ring has 2 slots, 3-bit indices and 10 elements, so head and tail  *)
(* wrap from 7 to 0 mid-run, under both builds.  The rwlock benchmark of  *)
(* part_005 (RwLock) runs two writers t1 and t2 of two sections each and  *)
(* two readers r1 and r2.                                                  *)
(***************************************************************************)
EXTENDS Integers

VARIABLES
    prog,                              \* "ticket", "spin", "futex", "seqlock", "ring" or "rwlock"
    next_ticket, now_serving, ticket,  \* TicketLock only
    lock_kind, lock_taken,             \* SpinLock only
    build,                             \* FutexMutex's word encoding, SpscRing's build
    mutex, waitq, c, printed,          \* FutexMutex only
    pc, i, tmp, var,                   \* the thread_func of the three above
    seqlock, low, high, wpc, seq0, current, wi,   \* SeqLock only
    rpc, rseq0, rlow, rhigh, copy,
    exitStatus,                        \* SeqLock and SpscRing
    data, head, tail, cached_head, cached_tail, ppc, cpc,   \* SpscRing only
    snd_i, rcv_i, p_tail, c_head, elem, p_retry, c_retry,
    rwlock, rw_var, rw_wpc, rw_i, rw_tmp, rw_rpc, rw_copy, rw_exit   \* RwLock only

MC_Threads == {"t1", "t2", "t3"}
MC_Iterations == 2
SeqWriters == {"t1"}
SeqReaders == {"t2", "t3"}
Drepper == [ULOCKD |-> 0, LOCKD |-> 1, LOCKD_WQ |-> 2, SUB |-> 1, aligned |-> TRUE]
Erm == [ULOCKD |-> 2048, LOCKD |-> 4096, LOCKD_WQ |-> 8192, SUB |-> 2048, aligned |-> FALSE]

Ticket == INSTANCE TicketLock
              WITH Threads <- MC_Threads, NUM_ITERATIONS <- MC_Iterations,
                   Width <- 16, StartTicket <- 0
Spin == INSTANCE SpinLock
            WITH Threads <- MC_Threads, NUM_ITERATIONS <- MC_Iterations,
                 LockKinds <- {"TAS", "TTAS"}
Futex == INSTANCE FutexMutex
             WITH Threads <- MC_Threads, NUM_ITERATIONS <- MC_Iterations,
                  Builds <- {Drepper, Erm}
Seq == INSTANCE SeqLock
           WITH Writers <- SeqWriters, Readers <- SeqReaders,
                NUM_ITERATIONS <- MC_Iterations, ONE_INCREMENT <- 1,
                HalfBase <- 2, Seq0Garbage <- {0}
RwWriters == {"t1", "t2"}
RwReaders == {"r1", "r2"}
Rw == INSTANCE RwLock
          WITH Writers <- RwWriters, Readers <- RwReaders,
               NUM_ITERATIONS <- MC_Iterations, ONE_INCREMENT <- 1,
               var <- rw_var, wpc <- rw_wpc, i <- rw_i, tmp <- rw_tmp,
               rpc <- rw_rpc, copy <- rw_copy, exitStatus <- rw_exit
Ring == INSTANCE SpscRing
            WITH QUEUE_SIZE <- 2, NUM_ITERATIONS <- 10, NUM_RETRIES <- 2,
                 Width <- 3, Builds <- {"simple", "cached"}

ticketVars == <<next_ticket, now_serving, ticket>>
spinVars   == <<lock_kind, lock_taken>>
futexVars  == <<mutex, waitq, c, printed>>
lockVars   == <<pc, i, tmp, var>>
seqVars    == <<seqlock, low, high, wpc, seq0, current, wi, rpc, rseq0, rlow,
                rhigh, copy>>
ringVars   == <<data, head, tail, cached_head, cached_tail, ppc, cpc, snd_i,
                rcv_i, p_tail, c_head, elem, p_retry, c_retry>>
rwVars     == <<rwlock, rw_var, rw_wpc, rw_i, rw_tmp, rw_rpc, rw_copy, rw_exit>>
vars == <<prog, build, exitStatus, ticketVars, spinVars, futexVars, lockVars,
          seqVars, ringVars, rwVars>>

\* The variables of a program that does not run.
TicketAtRest == next_ticket = 0 /\ now_serving = 0 /\ ticket = [t \in MC_Threads |-> 0]
SpinAtRest   == lock_kind = "TAS" /\ lock_taken = FALSE
FutexAtRest  == /\ mutex = 0 /\ waitq = {}
                /\ c = [t \in MC_Threads |-> 0] /\ printed = FALSE
LocksAtRest  == /\ pc = [t \in MC_Threads |-> "done"] /\ i = [t \in MC_Threads |-> 0]
                /\ tmp = [t \in MC_Threads |-> 0] /\ var = 0
SeqAtRest    == /\ seqlock = 0 /\ low = 0 /\ high = 0
                /\ wpc = [w \in SeqWriters |-> "done"] /\ seq0 = [w \in SeqWriters |-> 0]
                /\ current = seq0 /\ wi = seq0
                /\ rpc = [r \in SeqReaders |-> "done"] /\ copy = [r \in SeqReaders |-> 0]
                /\ rseq0 = copy /\ rlow = copy /\ rhigh = copy
RingAtRest   == /\ data = [s \in 0..1 |-> 0] /\ head = 0 /\ tail = 0
                /\ cached_head = 0 /\ cached_tail = 0 /\ ppc = "done" /\ cpc = "done"
                /\ snd_i = 0 /\ rcv_i = 0 /\ p_tail = 0 /\ c_head = 0 /\ elem = 0
                /\ p_retry = 0 /\ c_retry = 0
RwAtRest     == /\ rwlock = [rd |-> {}, wr |-> {}] /\ rw_var = 0
                /\ rw_wpc = [w \in RwWriters |-> "done"] /\ rw_i = [w \in RwWriters |-> 0]
                /\ rw_tmp = rw_i /\ rw_rpc = [r \in RwReaders |-> "done"]
                /\ rw_copy = [r \in RwReaders |-> 0] /\ rw_exit = "running"
\* build and exitStatus belong to two programs each.
Unshared     == build = Drepper /\ exitStatus = "running"

Init ==
    \/ prog = "ticket"  /\ Ticket!Init /\ SpinAtRest /\ FutexAtRest /\ SeqAtRest
                        /\ RingAtRest /\ RwAtRest /\ Unshared
    \/ prog = "spin"    /\ Spin!Init   /\ TicketAtRest /\ FutexAtRest /\ SeqAtRest
                        /\ RingAtRest /\ RwAtRest /\ Unshared
    \/ prog = "futex"   /\ Futex!Init  /\ TicketAtRest /\ SpinAtRest /\ SeqAtRest
                        /\ RingAtRest /\ RwAtRest /\ exitStatus = "running"
    \/ prog = "seqlock" /\ Seq!Init    /\ TicketAtRest /\ SpinAtRest /\ FutexAtRest
                        /\ LocksAtRest /\ RingAtRest /\ RwAtRest /\ build = Drepper
    \/ prog = "ring"    /\ Ring!Init   /\ TicketAtRest /\ SpinAtRest /\ FutexAtRest
                        /\ LocksAtRest /\ SeqAtRest /\ RwAtRest
    \/ prog = "rwlock"  /\ Rw!Init     /\ TicketAtRest /\ SpinAtRest /\ FutexAtRest
                        /\ LocksAtRest /\ SeqAtRest /\ RingAtRest /\ Unshared

TicketStep(t) == prog = "ticket" /\ Ticket!Step(t) /\ UNCHANGED <<prog, build, exitStatus, spinVars, futexVars, seqVars, ringVars, rwVars>>
SpinStep(t)   == prog = "spin"   /\ Spin!Step(t)   /\ UNCHANGED <<prog, build, exitStatus, ticketVars, futexVars, seqVars, ringVars, rwVars>>
FutexStep(t)  == prog = "futex"  /\ Futex!Step(t)  /\ UNCHANGED <<prog, exitStatus, ticketVars, spinVars, seqVars, ringVars, rwVars>>
SeqOther      == <<prog, build, ticketVars, spinVars, futexVars, lockVars, ringVars, rwVars>>
SeqWriter(w)  == prog = "seqlock" /\ Seq!Writer(w) /\ UNCHANGED SeqOther
SeqReader(r)  == prog = "seqlock" /\ Seq!Reader(r) /\ UNCHANGED SeqOther
SeqJoin       == prog = "seqlock" /\ Seq!MainJoin  /\ UNCHANGED SeqOther
RingOther     == <<prog, ticketVars, spinVars, futexVars, lockVars, seqVars, rwVars>>
RingProducer  == prog = "ring" /\ Ring!Producer /\ UNCHANGED RingOther
RingConsumer  == prog = "ring" /\ Ring!Consumer /\ UNCHANGED RingOther
RingJoin      == prog = "ring" /\ Ring!MainJoin /\ UNCHANGED RingOther
RwOther       == <<prog, build, exitStatus, ticketVars, spinVars, futexVars, lockVars,
                   seqVars, ringVars>>
RwWriter(w)   == prog = "rwlock" /\ Rw!Writer(w) /\ UNCHANGED RwOther
RwReader(r)   == prog = "rwlock" /\ Rw!Reader(r) /\ UNCHANGED RwOther
RwJoin        == prog = "rwlock" /\ Rw!MainJoin  /\ UNCHANGED RwOther

Next == \/ \E t \in MC_Threads : TicketStep(t) \/ SpinStep(t) \/ FutexStep(t)
        \/ \E w \in SeqWriters : SeqWriter(w)
        \/ \E r \in SeqReaders : SeqReader(r)
        \/ SeqJoin
        \/ RingProducer \/ RingConsumer \/ RingJoin
        \/ \E w \in RwWriters : RwWriter(w)
        \/ \E r \in RwReaders : RwReader(r)
        \/ RwJoin

\* Each module's fairness: every thread's step is weakly fair, and so is
\* main's join.  prog never changes, so in a behaviour only the running
\* program's disjunct of ThreadStep(t) or MainJoin can be enabled, and
\* weak fairness of the disjunction is that program's own weak fairness.
ThreadStep(t) ==
    \/ t \in MC_Threads /\ (TicketStep(t) \/ SpinStep(t) \/ FutexStep(t))
    \/ t \in SeqWriters /\ SeqWriter(t)
    \/ t \in SeqReaders /\ SeqReader(t)
    \/ t \in RwWriters /\ RwWriter(t)
    \/ t \in RwReaders /\ RwReader(t)
MainJoin == SeqJoin \/ RingJoin \/ RwJoin

Spec == /\ Init /\ [][Next]_vars
        /\ \A t \in MC_Threads \cup RwReaders : WF_vars(ThreadStep(t))
        /\ WF_vars(RingProducer) /\ WF_vars(RingConsumer) /\ WF_vars(MainJoin)

-----------------------------------------------------------------------------
(* Properties: each module's, for the behaviours of its program. *)

TypeOK ==
    CASE prog = "ticket"  -> Ticket!TypeOK
      [] prog = "spin"    -> Spin!TypeOK
      [] prog = "futex"   -> Futex!TypeOK
      [] prog = "seqlock" -> Seq!TypeOK
      [] prog = "ring"    -> Ring!TypeOK
      [] prog = "rwlock"  -> Rw!TypeOK

\* The count main prints is exact (and futex.c's check never fires); for
\* the seqlock, the 64-bit value holds every writer's increment once main
\* has joined the threads (the rwlock's count is what ReadersFinish waits for).
NoLostUpdate ==
    CASE prog = "ticket"  -> Ticket!NoLostUpdate
      [] prog = "spin"    -> Spin!NoLostUpdate
      [] prog = "futex"   -> Futex!NoLostUpdate
      [] prog = "seqlock" -> exitStatus = "success" => Seq!Value(high, low) = Seq!Total
      [] prog = "ring"    -> TRUE
      [] prog = "rwlock"  -> TRUE

\* Every lock implements Mutex, with each module's mapping: the holders
\* are the threads between the return of acquire and the release (for the
\* seqlock, the writer between its CAS and its release store; for the
\* rwlock, the writers between wrlock and unlock).
Holders ==
    CASE prog = "seqlock" -> {w \in SeqWriters : wpc[w] \in Seq!WriteSection}
      [] prog = "ring"    -> {}
      [] prog = "rwlock"  -> {w \in RwWriters : rw_wpc[w] \in Rw!WriteSection}
      [] OTHER ->
           {t \in MC_Threads :
              pc[t] \in CASE prog = "ticket" -> Ticket!CriticalSection
                         [] prog = "spin"   -> Spin!CriticalSection
                         [] prog = "futex"  -> Futex!CriticalSection}
Mx == INSTANCE Mutex WITH Threads <- MC_Threads, holders <- Holders
ImplementsMutex == Mx!Spec

\* The ticket lock is FIFO-fair: a thread holding a ticket enters.
StarvationFree == prog = "ticket" => Ticket!StarvationFree

\* TAS and TTAS: some trying thread eventually gets the lock.
DeadlockFree == prog = "spin" => Spin!DeadlockFree

\* The futex mutex loses no wake-up, and every thread finishes.
NoLostWakeup == prog = "futex" => Futex!NoLostWakeup
AllFinish == prog = "futex" => Futex!AllFinish

\* A seqlock reader never keeps a value torn by the writer's two stores.
NoTornRead == Seq!NoTornRead

\* The ring's consumer receives 0, 1, 2, ... in order across the wrap of
\* head and tail (its own check at circular-buffer.c:221 never fires).
ElementsInOrder == prog = "ring" => Ring!ElementsInOrder

\* The slots head .. tail - 1 behave as a bounded FIFO (BoundedQueue): no
\* slot is overwritten before it is consumed or published before it is
\* written, under both builds and across the wrap.  While another program
\* runs, head = tail = 0 and the queue stays empty.
Queue == INSTANCE BoundedQueue
             WITH Capacity <- 2, Values <- 0..9, queue <- Ring!Published
ImplementsQueue == Queue!Spec

\* Both ring threads finish and main returns: neither keeps retrying
\* forever against a stale cached index.
AllDelivered == prog = "ring" => Ring!AllDelivered

\* rwlock: once both writers are done, the readers, which leave their loop
\* only on the exact final total, eventually see it, and main returns.
ReadersFinish == prog = "rwlock" => Rw!ReadersFinish

=============================================================================
