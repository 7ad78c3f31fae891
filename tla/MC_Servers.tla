----------------------------- MODULE MC_Servers -----------------------------
(***************************************************************************)
(* The epoll, the thread-per-connection and the sequential file-share    *)
(* servers in one harness.  Init picks the server; its steps are that     *)
(* server's steps, and the variables only the others have stay at rest.   *)
(* All share the kernel and clients of FileshareKernel and are checked    *)
(* against the one abstract FileshareService.  (The poll server, whose    *)
(* liveness check is the slowest, has a harness of its own.)              *)
(***************************************************************************)
EXTENDS FileshareKernel, FiniteSets

CONSTANT Progs   \* the servers of a run: a subset of {"epoll", "thread", "seq"}

VARIABLES
    prog,
    \* every server
    exitStatus, exitReason,
    \* epoll only
    pc, conns, num_active_clients, num_connected_clients, errno,
    accept_new_connections_prev, interest, events, event_i,
    \* thread server only
    mpc, client_i, join_i, clent_active, tpc, tconn,
    \* sequential server only: its pc, conn and client_i
    spc, sconn, sclient_i

Epoll  == INSTANCE EpollServer
Thread == INSTANCE ThreadServer
Sequential == INSTANCE SequentialServer WITH pc <- spc, conn <- sconn, client_i <- sclient_i

epollOnly  == <<pc, conns, num_active_clients, num_connected_clients, errno,
               accept_new_connections_prev, interest, events, event_i>>
threadOnly == <<mpc, client_i, join_i, clent_active, tpc, tconn>>
seqOnly    == <<spc, sconn, sclient_i>>
mvars == <<prog, exitStatus, exitReason, epollOnly, threadOnly, seqOnly, envVars>>

\* The values a server's variables keep while another server runs.
EpollAtRest  == pc = "top" /\ conns = [i \in Slots |-> [state |-> CONNECTION_EMPTY, fd |-> 0, offset |-> 0]]
                /\ num_active_clients = 0 /\ num_connected_clients = 0 /\ errno = "NONE"
                /\ accept_new_connections_prev = FALSE /\ interest = [t \in Epoll!Tags |-> NoFd]
                /\ events = <<>> /\ event_i = 1
ThreadAtRest == mpc = "top" /\ client_i = 0 /\ join_i = 0 /\ clent_active = [i \in Slots |-> FALSE]
                /\ tpc = [i \in Slots |-> "none"] /\ tconn = [i \in Slots |-> [fd |-> 0, offset |-> 0]]
SeqAtRest    == spc = "top" /\ sconn = Sequential!NoConn /\ sclient_i = 0

MCInit ==
    /\ prog \in Progs
    /\ CASE prog = "epoll"  -> Epoll!Init /\ ThreadAtRest /\ SeqAtRest
        [] prog = "thread" -> Thread!Init /\ EpollAtRest /\ SeqAtRest
        [] prog = "seq"    -> Sequential!Init /\ EpollAtRest /\ ThreadAtRest

\* A step of the chosen server or of its environment.
EpollStep(A)  == prog = "epoll"  /\ A /\ UNCHANGED <<prog, threadOnly, seqOnly>>
ThreadStep(A) == prog = "thread" /\ A /\ UNCHANGED <<prog, epollOnly, seqOnly>>
SeqStep(A)    == prog = "seq"    /\ A /\ UNCHANGED <<prog, epollOnly, threadOnly>>

MCNext == EpollStep(Epoll!Next) \/ ThreadStep(Thread!Next) \/ SeqStep(Sequential!Next)

\* Each server's own fairness (see EpollServer, ThreadServer and
\* SequentialServer).
MCFairness ==
    /\ WF_mvars(EpollStep(Epoll!LoopTop)) /\ WF_mvars(EpollStep(Epoll!EpollWait))
    /\ WF_mvars(EpollStep(Epoll!EventStep)) /\ WF_mvars(EpollStep(Epoll!EventsDone))
    /\ \A i \in Slots : SF_mvars(EpollStep(Epoll!WaitReportsOut(i)))
    /\ WF_mvars(ThreadStep(Thread!Main))
    /\ \A t \in Slots : WF_mvars(ThreadStep(Thread!Thread(t)))
    /\ WF_mvars(SeqStep(Sequential!Server))

MCSpec == MCInit /\ [][MCNext]_mvars /\ MCFairness

-----------------------------------------------------------------------------
(* Properties: each server's own, under the server that has it. *)

TypeOK ==
    /\ prog \in Progs
    /\ prog = "epoll"  => Epoll!TypeOK
    /\ prog = "thread" => Thread!TypeOK
    /\ prog = "seq"    => Sequential!TypeOK

\* The epoll server's table agrees with the kernel (see EpollServer):
\* counts, socket ownership and the interest list, across descriptor reuse.
TableMatchesKernel == prog = "epoll" => Epoll!TableMatchesKernel

\* The epoll server dies only of its environment (SIGINT in epoll_wait(),
\* an accept() failure), never of its own close()/epoll_ctl() bookkeeping.
NoBookkeepingFailure == prog = "epoll" => Epoll!NoBookkeepingFailure

\* EXIT_SUCCESS means every admitted client got header and file, unless a
\* reset or a signal cut its transfer.
ExitSuccessDelivered ==
    /\ prog = "epoll"  => Epoll!ExitSuccessDelivered
    /\ prog = "thread" => Thread!ExitSuccessDelivered

\* A thread writes only to its own client's socket while descriptor
\* numbers are closed and handed out again (ThreadServer).
SocketOwned == prog = "thread" => Thread!SocketOwned

\* The sequential server serves client i while its loop counter is i
\* and it is past accept(); the clients before it are done.
SeqSlotStatus(i) ==
    CASE i < sclient_i                              -> "done"
      [] i = sclient_i /\ spc \in {"size", "block"} -> "active"
      [] OTHER                                      -> "free"

\* Every server implements FileshareService, with each server's own
\* reading of a slot's status.
SlotStatus(i) ==
    CASE prog = "epoll"  -> Epoll!SlotStatus(i)
      [] prog = "thread" -> Thread!SlotStatus(i)
      [] prog = "seq"    -> SeqSlotStatus(i)

Service == INSTANCE FileshareService
    WITH Slots <- Slots, Stream <- Ideal,
         status <- [i \in Slots |-> SlotStatus(i)],
         received <- wire, outcome <- exitStatus

ImplementsService == Service!Spec

\* Every client the epoll server admitted is eventually finished, unless
\* the process ends.
AdmittedFinish == prog = "epoll" => Epoll!AdmittedFinish

\* Once the last admissible client is connected, the epoll server
\* eventually exits.
ExitsWhenDone == prog = "epoll" => Epoll!ExitsWhenDone

-----------------------------------------------------------------------------
\* Model values: two slots, three clients, a file of three bytes in blocks
\* of two behind a two-byte header, a descriptor for every slot.
MC_MaxConns   == 2
MC_MaxClients == 3
MC_ListenFd   == 3
MC_FileSize   == 3
MC_BlockSize  == 2
MC_HeaderLen  == 2
MC_Fds        == {4, 5}

=============================================================================
