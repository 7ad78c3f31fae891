----------------------------- MODULE EpollServer ----------------------------
(***************************************************************************)
(* The epoll()-driven file-share server: main() of src/unnamed/part_000    *)
(* (lines 67-236) with its epoll_ctl helpers (15-61), on the same          *)
(* protocol and kernel as PollServer.                                      *)
(*                                                                         *)
(* Unlike the poll variant, the interest list lives in the kernel: the     *)
(* listening socket is registered once before the loop and removed once,  *)
(* the first time admission stops; a connection socket is registered      *)
(* right after accept() and removed right before close().  epoll_wait()    *)
(* hands back a batch of ready events, which the loop then handles one by  *)
(* one (EventStep) in the order the kernel listed them.                    *)
(***************************************************************************)
EXTENDS FileshareKernel, FiniteSets, SequencesExt

Tags  == 0..MaxConns       \* event.data.u32: 0 is the listener, 1 + i slot i
NoTag == -1
EpollEvents == {"IN", "OUT", "HUP"}

VARIABLES
    pc,                     \* where the single server thread is
    exitStatus,             \* "running", "success" or "failure"
    exitReason,             \* which exit(EXIT_FAILURE) ended the process
    conns,                  \* FILESHARE_CONNECTION conns[max_conns]
    num_active_clients,
    num_connected_clients,
    accept_new_connections_prev,
    interest,               \* the epoll interest list: tag -> registered fd
    events,                 \* the batch epoll_wait() returned
    event_i,                \* the next event of the batch to handle
    errno

serverVars == <<pc, exitStatus, exitReason, conns, num_active_clients,
                num_connected_clients, accept_new_connections_prev,
                interest, events, event_i, errno>>
vars == <<serverVars, envVars>>

-----------------------------------------------------------------------------
\* Fault variant: admission without the max_conns bound.
EpollAcceptWithoutBound == ~received_sigint

\* Line 140.
accept_new_connections == num_connected_clients # MaxConns /\ ~received_sigint

\* exit(EXIT_FAILURE): the process ends where it stands.
Fatal(reason) ==
    /\ pc' = "exited"
    /\ exitStatus' = "failure"
    /\ exitReason' = reason

\* The tag of slot i (epoll_conn_wait_on_socket, line 43).
ConnTag(i) == 1 + i

\* Fault variants of retiring slot i: the slot is not marked
\* TRANSFER_FINISHED, or num_active_clients is not decremented.
RetireKeepState(i, c2) ==
    LET fd == conns[i].fd IN
    IF interest[ConnTag(i)] = NoFd
    THEN /\ Fatal("epoll_ctl")
         /\ UNCHANGED <<interest, fdOwner, conns, num_active_clients>>
    ELSE IF ~IsOpen(fd)
    THEN /\ Fatal("close")
         /\ interest' = [interest EXCEPT ![ConnTag(i)] = NoFd]
         /\ UNCHANGED <<fdOwner, conns, num_active_clients>>
    ELSE /\ interest' = [interest EXCEPT ![ConnTag(i)] = NoFd]
         /\ fdOwner' = [fdOwner EXCEPT ![fd] = NoSlot]
         /\ num_active_clients' = num_active_clients - 1
         /\ UNCHANGED <<conns, pc, exitStatus, exitReason>>
RetireWithoutDecrement(i, c2) ==
    LET fd == conns[i].fd IN
    IF interest[ConnTag(i)] = NoFd
    THEN /\ Fatal("epoll_ctl")
         /\ UNCHANGED <<interest, fdOwner, conns, num_active_clients>>
    ELSE IF ~IsOpen(fd)
    THEN /\ Fatal("close")
         /\ interest' = [interest EXCEPT ![ConnTag(i)] = NoFd]
         /\ UNCHANGED <<fdOwner, conns, num_active_clients>>
    ELSE /\ interest' = [interest EXCEPT ![ConnTag(i)] = NoFd]
         /\ fdOwner' = [fdOwner EXCEPT ![fd] = NoSlot]
         /\ conns' = [conns EXCEPT ![i] = c2]
         /\ UNCHANGED <<num_active_clients, pc, exitStatus, exitReason>>

(***************************************************************************)
(* Retiring slot i (lines 185-188 and 216-219): epoll_conn_stop_waiting_   *)
(* on_socket, then server_close_conn_socket, then the slot becomes c2      *)
(* (TRANSFER_FINISHED) and leaves the active count.  EPOLL_CTL_DEL of a    *)
(* descriptor not in the interest list, or close() of one not open, is     *)
(* fatal.                                                                  *)
(***************************************************************************)
Retire(i, c2) ==
    LET fd == conns[i].fd IN
    IF interest[ConnTag(i)] = NoFd
    THEN /\ Fatal("epoll_ctl")
         /\ UNCHANGED <<interest, fdOwner, conns, num_active_clients>>
    ELSE IF ~IsOpen(fd)
    THEN /\ Fatal("close")
         /\ interest' = [interest EXCEPT ![ConnTag(i)] = NoFd]
         /\ UNCHANGED <<fdOwner, conns, num_active_clients>>
    ELSE /\ interest' = [interest EXCEPT ![ConnTag(i)] = NoFd]
         /\ fdOwner' = [fdOwner EXCEPT ![fd] = NoSlot]
         /\ conns' = [conns EXCEPT ![i] = c2]
         /\ num_active_clients' = num_active_clients - 1
         /\ UNCHANGED <<pc, exitStatus, exitReason>>

\* The events epoll_wait() may report for a registered tag: EPOLLIN while
\* a connection is queued, EPOLLHUP (with EPOLLOUT) after a reset, and
\* EPOLLOUT or nothing on a live socket, depending on its reader.
PossibleEvents(t) ==
    IF t = 0 THEN IF backlog > 0 THEN {{"IN"}} ELSE {{}}
    ELSE IF IsReset(interest[t]) THEN {{"OUT", "HUP"}}
    ELSE {{}, {"OUT"}}

-----------------------------------------------------------------------------
\* Lines 84-135: calloc'ed slots, the listening socket registered with tag 0.
Init ==
    /\ pc = "top"
    /\ exitStatus = "running"
    /\ exitReason = "none"
    /\ conns = [i \in Slots |-> [state |-> CONNECTION_EMPTY, fd |-> 0, offset |-> 0]]
    /\ num_active_clients = 0
    /\ num_connected_clients = 0
    /\ accept_new_connections_prev = TRUE
    /\ interest = [t \in Tags |-> IF t = 0 THEN ListenFd ELSE NoFd]
    /\ events = <<>>
    /\ event_i = 1
    /\ errno = "NONE"
    /\ KernelInit

\* Lines 139-154: leave the loop when nobody is active and no client is
\* admitted any more; the first time admission stops, remove the
\* listening socket from the interest list.
LoopTop ==
    /\ pc = "top"
    /\ IF num_active_clients = 0 /\ ~accept_new_connections
       THEN /\ pc' = "exited"
            /\ exitStatus' = "success"
            /\ UNCHANGED <<exitReason, accept_new_connections_prev, interest>>
       ELSE /\ IF accept_new_connections_prev /\ ~accept_new_connections
               THEN /\ accept_new_connections_prev' = FALSE
                    /\ interest' = [interest EXCEPT ![0] = NoFd]
               ELSE UNCHANGED <<accept_new_connections_prev, interest>>
            /\ pc' = "wait"
            /\ UNCHANGED <<exitStatus, exitReason>>
    /\ UNCHANGED <<conns, num_active_clients, num_connected_clients, events,
                   event_i, errno, envVars>>

\* Lines 157-162: epoll_wait(epollfd, events, max_conns + 1, -1) blocks
\* until some registered descriptor is ready and lists the ready ones.
EpollWait ==
    /\ pc = "wait"
    /\ \E ev \in [{t \in Tags : interest[t] # NoFd} -> SUBSET EpollEvents] :
          /\ \A t \in DOMAIN ev : ev[t] \in PossibleEvents(t)
          /\ \E order \in SetToSeqs({t \in DOMAIN ev : ev[t] # {}}) :
                /\ order # <<>>
                /\ events' = [k \in DOMAIN order |-> [tag |-> order[k], ev |-> ev[order[k]]]]
    /\ event_i' = 1
    /\ pc' = "event"
    /\ UNCHANGED <<exitStatus, exitReason, conns, num_active_clients,
                   num_connected_clients, accept_new_connections_prev,
                   interest, errno, envVars>>

\* SIGINT while blocked in epoll_wait(): it returns -1 with EINTR, which
\* lines 158-162 treat as fatal.
EpollInterrupted ==
    /\ pc = "wait"
    /\ SignalsMayArrive
    /\ received_sigint' = TRUE
    /\ errno' = "EINTR"
    /\ Fatal("epoll_wait")
    /\ UNCHANGED <<conns, num_active_clients, num_connected_clients,
                   accept_new_connections_prev, interest, events, event_i,
                   backlog, arrived, fdOwner, peerReset, wire, cause>>

\* Lines 168-179: the listener's event.  server_accept_connection_request
\* fills slot num_connected_clients (its result is ignored), the slot is
\* marked SEND_FILE_SIZE and its socket registered with tag 1 + slot.
\* With no descriptor left accept() fails (EMFILE): fatal outside shutdown;
\* in shutdown the slot keeps client_sock_fd = -1, and epoll_ctl(ADD, -1)
\* then fails with EBADF, which is fatal.
AcceptEvent ==
    LET slot == num_connected_clients
        admit(fd) ==
            /\ conns' = [conns EXCEPT ![slot] = [@ EXCEPT !.fd = fd,
                                                      !.state = SEND_FILE_SIZE]]
            /\ interest' = [interest EXCEPT ![ConnTag(slot)] = fd]
            /\ num_connected_clients' = num_connected_clients + 1
            /\ num_active_clients' = num_active_clients + 1
            /\ UNCHANGED <<pc, exitStatus, exitReason>>
    IN
    IF slot \notin Slots
    THEN \* &conns[max_conns]: a write past the calloc'ed array
         /\ Fatal("heap_overflow")
         /\ UNCHANGED <<conns, num_active_clients, num_connected_clients,
                        interest, errno, backlog, fdOwner>>
    ELSE IF FreeFds # {}
    THEN /\ fdOwner' = [fdOwner EXCEPT ![Min(FreeFds)] = slot]
         /\ backlog' = backlog - 1
         /\ admit(Min(FreeFds))
         /\ UNCHANGED errno
    ELSE /\ UNCHANGED <<backlog, fdOwner, interest, num_active_clients,
                        num_connected_clients>>
         /\ IF received_sigint
            THEN /\ conns' = [conns EXCEPT ![slot] = [@ EXCEPT !.fd = NoFd,
                                                          !.state = SEND_FILE_SIZE]]
                 /\ errno' = "EBADF"
                 /\ Fatal("epoll_ctl")
            ELSE /\ errno' = "EMFILE"
                 /\ Fatal("accept")
                 /\ UNCHANGED conns

\* Lines 181-221: the event of slot i.  EPOLLHUP retires the slot; EPOLLOUT
\* runs the protocol step of its state and retires the slot when the step
\* fails or the transfer is complete.
ConnEvent(i, ev) ==
    LET c == conns[i] IN
    \/ /\ "HUP" \in ev
       /\ Retire(i, [c EXCEPT !.state = TRANSFER_FINISHED])
       /\ UNCHANGED <<errno, received_sigint, backlog, arrived, peerReset, wire, cause>>
    \/ /\ "HUP" \notin ev
       /\ "OUT" \in ev
       /\ IF c.state = CONNECTION_EMPTY
          THEN /\ Fatal("unexpected_state")
               /\ UNCHANGED <<conns, num_active_clients, interest, errno, envVars>>
          ELSE \E w \in Outcomes(c) :
                  LET e == ErrnoAfter(errno, w)
                      r == Advance(c, w, e)
                  IN  /\ errno' = e
                      /\ Transmit(c.fd, WriteStart(c), w)
                      /\ IF r.ok
                         THEN /\ conns' = [conns EXCEPT ![i] = r.conn]
                              /\ UNCHANGED <<pc, exitStatus, exitReason,
                                             num_active_clients, interest, fdOwner>>
                         ELSE Retire(i, [r.conn EXCEPT !.state = TRANSFER_FINISHED])
       /\ UNCHANGED <<backlog, arrived>>
    \/ /\ ev \cap {"HUP", "OUT"} = {}
       /\ UNCHANGED <<pc, exitStatus, exitReason, conns, num_active_clients,
                      interest, errno, envVars>>

\* One pass of the for loop of line 164.
EventStep ==
    /\ pc = "event"
    /\ event_i <= Len(events)
    /\ event_i' = event_i + 1
    /\ LET ev == events[event_i] IN
       IF ev.tag = 0
       THEN AcceptEvent /\ UNCHANGED <<received_sigint, arrived, peerReset, wire, cause>>
       ELSE ConnEvent(ev.tag - 1, ev.ev) /\ UNCHANGED num_connected_clients
    /\ UNCHANGED <<accept_new_connections_prev, events>>

\* The batch is handled: back to the top of while(true).
EventsDone ==
    /\ pc = "event"
    /\ event_i > Len(events)
    /\ pc' = "top"
    /\ UNCHANGED <<exitStatus, exitReason, conns, num_active_clients,
                   num_connected_clients, accept_new_connections_prev,
                   interest, events, event_i, errno, envVars>>

-----------------------------------------------------------------------------
\* The environment acts while the process runs.
Connect == exitStatus = "running" /\ ClientConnects /\ UNCHANGED serverVars
SigInt  == exitStatus = "running" /\ SigIntArrives /\ UNCHANGED serverVars
PeerReset(i) == exitStatus = "running" /\ ClientResets(i) /\ UNCHANGED serverVars

Server == LoopTop \/ EpollWait \/ EpollInterrupted \/ EventStep \/ EventsDone

Next == Server \/ Connect \/ SigInt \/ \E i \in Slots : PeerReset(i)

\* epoll_wait() reports EPOLLOUT for slot i.
WaitReportsOut(i) ==
    EpollWait /\ \E k \in DOMAIN events' : events'[k].tag = ConnTag(i)
                                         /\ "OUT" \in events'[k].ev

\* As for PollServer: the server thread runs whenever it is not blocked,
\* and a socket the server keeps waiting on is reported writable again
\* and again, because its client reads until it has the whole file.
Fairness ==
    /\ WF_vars(LoopTop) /\ WF_vars(EpollWait) /\ WF_vars(EventStep)
    /\ WF_vars(EventsDone)
    /\ \A i \in Slots : SF_vars(WaitReportsOut(i))

Spec == Init /\ [][Next]_vars /\ Fairness

-----------------------------------------------------------------------------
(* Properties *)

TypeOK ==
    /\ pc \in {"top", "wait", "event", "exited"}
    /\ exitStatus \in {"running", "success", "failure"}
    /\ conns \in [Slots -> [state : TransferStates,
                            fd : Fds \cup {0, NoFd},
                            offset : 0..FileSize]]
    /\ num_connected_clients \in 0..MaxConns
    /\ num_active_clients \in 0..num_connected_clients
    /\ accept_new_connections_prev \in BOOLEAN
    /\ interest \in [Tags -> Fds \cup {ListenFd, NoFd}]
    /\ events \in Seq([tag : Tags, ev : SUBSET EpollEvents])
    /\ event_i \in 1..(MaxConns + 2)
    /\ errno \in Errnos
    /\ KernelTypeOK

\* The connection table agrees with the kernel: num_active_clients counts
\* the admitted slots still being served, each of them owns its socket
\* and has it in the interest list under its own tag, and a finished slot
\* has neither an open socket nor an interest entry.  The listener stays
\* in the interest list exactly while accept_new_connections_prev holds.
TableMatchesKernel ==
    /\ num_active_clients =
          Cardinality({i \in 0..(num_connected_clients - 1) :
                          conns[i].state \in ActiveStates})
    /\ \A i \in 0..(num_connected_clients - 1) :
          /\ conns[i].state \in ActiveStates
                => /\ fdOwner[conns[i].fd] = i
                   /\ interest[ConnTag(i)] = conns[i].fd
          /\ conns[i].state = TRANSFER_FINISHED
                => /\ \A f \in Fds : fdOwner[f] # i
                   /\ interest[ConnTag(i)] = NoFd
    /\ (interest[0] = ListenFd) = accept_new_connections_prev

\* The server only dies of what its environment does (SIGINT in
\* epoll_wait(), an accept() failure), never of its own bookkeeping: no
\* epoll_ctl() or close() on a descriptor in the wrong state, no
\* CONNECTION_EMPTY slot with an event, no accept past the end of conns.
NoBookkeepingFailure ==
    exitStatus = "failure" => exitReason \in {"epoll_wait", "accept"}

\* When main() returns EXIT_SUCCESS every admitted client has the whole
\* header and file, unless a reset or a signal cut its transfer.
ExitSuccessDelivered ==
    exitStatus = "success" =>
        \A i \in 0..(num_connected_clients - 1) :
            wire[i] = Ideal \/ cause[i] # "none"

\* The server implements FileshareService.
SlotStatus(i) ==
    IF i >= num_connected_clients THEN "free"
    ELSE IF conns[i].state \in ActiveStates THEN "active" ELSE "done"

Service == INSTANCE FileshareService
    WITH Slots <- Slots, Stream <- Ideal,
         status <- [i \in Slots |-> SlotStatus(i)],
         received <- wire, outcome <- exitStatus

ImplementsService == Service!Spec

\* Every admitted client is eventually finished, unless the process ends.
AdmittedFinish ==
    \A i \in Slots :
        conns[i].state \in ActiveStates
            ~> (conns[i].state = TRANSFER_FINISHED \/ exitStatus # "running")

\* Once the last admissible client is connected the process eventually exits.
ExitsWhenDone ==
    (num_connected_clients = MaxConns) ~> (exitStatus # "running")

=============================================================================
