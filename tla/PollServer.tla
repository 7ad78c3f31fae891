----------------------------- MODULE PollServer -----------------------------
(***************************************************************************)
(* The poll()-driven file-share server: main() of                          *)
(* src/05_stream_mutliplexing/server/server-poll.c (lines 54-220), the     *)
(* pollfd helpers above it (14-48), and the calls of                       *)
(* server-common-multiplexing.h it makes (accept, close, SIGINT flag).    *)
(*                                                                         *)
(* One iteration of the while(true) loop is split where the environment   *)
(* can act in between: LoopTop (exit test and pollfd set-up), Poll (the    *)
(* blocking poll()), AcceptStep (the listening-socket check) and one       *)
(* ScanConn per connection slot.  The environment consists of clients      *)
(* connecting, clients resetting their connection, SIGINT, and the kernel  *)
(* readiness that poll() reports.                                          *)
(***************************************************************************)
EXTENDS FileshareKernel, FiniteSets, FiniteSetsExt

PollIdx == 0..MaxConns          \* pollfds[0] is the listener, 1 + i is slot i
PollEvents == {"IN", "OUT", "HUP", "NVAL"}

VARIABLES
    pc,                     \* where the single server thread is
    exitStatus,             \* "running", "success" or "failure"
    exitReason,             \* which exit(EXIT_FAILURE) ended the process
    conns,                  \* FILESHARE_CONNECTION conns[max_conns]
    num_active_clients,
    num_connected_clients,
    pollfds,                \* struct pollfd pollfds[max_conns + 1]
    conn_i,                 \* index of the processing loop (171-208)
    errno

serverVars == <<pc, exitStatus, exitReason, conns, num_active_clients,
                num_connected_clients, pollfds, conn_i, errno>>
vars       == <<serverVars, envVars>>

-----------------------------------------------------------------------------
\* Fault variant: admission without the max_conns bound.
AcceptWithoutBound == ~received_sigint

\* program_in_shutdown() and the admission test of line 114.
accept_new_connections == num_connected_clients # MaxConns /\ ~received_sigint

\* exit(EXIT_FAILURE): the process ends where it stands.
Fatal(reason) ==
    /\ pc' = "exited"
    /\ exitStatus' = "failure"
    /\ exitReason' = reason

\* Fault variant: a finished slot stays armed (the call to
\* poll_conn_do_not_wait_on_socket dropped).
SlotPollfdKeepFinished(i) ==
    IF conns[i].state \in ActiveStates \cup {TRANSFER_FINISHED}
    THEN [fd |-> conns[i].fd, events |-> {"OUT", "HUP"}, revents |-> {}]
    ELSE [fd |-> -1, events |-> {}, revents |-> {}]

\* The pollfd entry of slot i for the next poll() (lines 133-148 with the
\* helpers poll_conn_wait_on_socket / poll_conn_do_not_wait_on_socket).
SlotPollfd(i) ==
    IF conns[i].state \in ActiveStates
    THEN [fd |-> conns[i].fd, events |-> {"OUT", "HUP"}, revents |-> {}]
    ELSE [fd |-> -1, events |-> {}, revents |-> {}]

\* pollfds[0] (poll_server_wait_for_client / poll_server_do_not_wait_for_client).
ListenPollfd(accepting) ==
    IF accepting THEN [fd |-> ListenFd, events |-> {"IN"}, revents |-> {}]
                 ELSE [fd |-> -1, events |-> {}, revents |-> {}]

\* What poll() may report for one entry: POLLIN while a connection is queued,
\* POLLNVAL for a closed descriptor, POLLHUP (with POLLOUT) after a reset,
\* and POLLOUT or nothing on a live socket, depending on how fast its
\* client reads.  Negative descriptors are ignored.
PossibleRevents(p) ==
    IF p.fd < 0 THEN {{}}
    ELSE IF p.fd = ListenFd THEN IF backlog > 0 THEN {{"IN"}} ELSE {{}}
    ELSE IF ~IsOpen(p.fd) THEN {{"NVAL"}}
    ELSE IF IsReset(p.fd) THEN {{"OUT", "HUP"}}
    ELSE {{}, {"OUT"}}

\* Fault variant: the socket is closed but num_active_clients not decremented.
CloseWithoutDecrement(i, c2) ==
    LET fd == conns[i].fd IN
    IF IsOpen(fd)
    THEN /\ fdOwner' = [fdOwner EXCEPT ![fd] = NoSlot]
         /\ conns' = [conns EXCEPT ![i] = c2]
         /\ UNCHANGED <<num_active_clients, pc, exitStatus, exitReason>>
    ELSE /\ Fatal("close")
         /\ UNCHANGED <<fdOwner, conns, num_active_clients>>

\* server_close_conn_socket (lines 535-542) of slot i, then slot i becomes c2
\* and leaves the active count; close() of a descriptor that is not open
\* fails with EBADF and the process exits.
CloseConn(i, c2) ==
    LET fd == conns[i].fd IN
    IF IsOpen(fd)
    THEN /\ fdOwner' = [fdOwner EXCEPT ![fd] = NoSlot]
         /\ conns' = [conns EXCEPT ![i] = c2]
         /\ num_active_clients' = num_active_clients - 1
         /\ UNCHANGED <<pc, exitStatus, exitReason>>
    ELSE /\ Fatal("close")
         /\ UNCHANGED <<fdOwner, conns, num_active_clients>>

-----------------------------------------------------------------------------
Init ==
    /\ pc = "top"
    /\ exitStatus = "running"
    /\ exitReason = "none"
    \* calloc() zeroes the slots, then every state is CONNECTION_EMPTY
    /\ conns = [i \in Slots |-> [state |-> CONNECTION_EMPTY, fd |-> 0, offset |-> 0]]
    /\ num_active_clients = 0
    /\ num_connected_clients = 0
    /\ pollfds = [k \in PollIdx |-> [fd |-> 0, events |-> {}, revents |-> {}]]
    /\ conn_i = 0
    /\ errno = "NONE"
    /\ KernelInit

\* Lines 111-148: leave the loop when nobody is active and no client is
\* admitted any more (then close the listener and the file and return
\* EXIT_SUCCESS), else fill pollfds for the poll() of this iteration.
LoopTop ==
    /\ pc = "top"
    /\ IF num_active_clients = 0 /\ ~accept_new_connections
       THEN /\ pc' = "exited"
            /\ exitStatus' = "success"
            /\ UNCHANGED <<exitReason, pollfds>>
       ELSE IF \E i \in 0..(num_connected_clients - 1) :
                   conns[i].state = CONNECTION_EMPTY
       THEN /\ Fatal("unexpected_state")
            /\ UNCHANGED pollfds
       ELSE /\ pollfds' = [k \in PollIdx |->
                   IF k = 0 THEN ListenPollfd(accept_new_connections)
                   ELSE IF k - 1 < num_connected_clients THEN SlotPollfd(k - 1)
                   ELSE pollfds[k]]
            /\ pc' = "poll"
            /\ UNCHANGED <<exitStatus, exitReason>>
    /\ UNCHANGED <<conns, num_active_clients, num_connected_clients, conn_i,
                   errno, envVars>>

\* Lines 150-158: poll(pollfds, 1 + num_connected_clients, -1) blocks until
\* some entry is ready and fills revents of the first nfds entries.
Poll ==
    /\ pc = "poll"
    /\ LET nfds == 1 + num_connected_clients IN
       \E rv \in [0..(nfds - 1) -> SUBSET PollEvents] :
          /\ \A k \in DOMAIN rv : rv[k] \in PossibleRevents(pollfds[k])
          /\ \E k \in DOMAIN rv : rv[k] # {}
          /\ pollfds' = [k \in PollIdx |->
                            IF k < nfds THEN [pollfds[k] EXCEPT !.revents = rv[k]]
                                        ELSE pollfds[k]]
    /\ pc' = "accept"
    /\ UNCHANGED <<exitStatus, exitReason, conns, num_active_clients,
                   num_connected_clients, conn_i, errno, envVars>>

\* SIGINT while the thread sleeps in poll(): sigint_handler sets the flag,
\* and since sa_flags = 0 (no SA_RESTART; poll is never restarted anyway)
\* poll() returns -1 with EINTR, which lines 154-158 treat as fatal.
PollInterrupted ==
    /\ pc = "poll"
    /\ SignalsMayArrive
    /\ received_sigint' = TRUE
    /\ errno' = "EINTR"
    /\ Fatal("poll")
    /\ UNCHANGED <<conns, num_active_clients, num_connected_clients, pollfds,
                   conn_i, backlog, arrived, fdOwner, peerReset, wire, cause>>

\* Lines 160-169 with server_accept_connection_request (483-533): on POLLIN
\* accept into slot num_connected_clients.  accept() hands out the lowest
\* free descriptor; with none left it fails (EMFILE), which is fatal unless
\* the program is in shutdown, when the slot keeps client_sock_fd = -1.
\* Either way the slot is marked SEND_FILE_SIZE and counted.  The return
\* value of server_accept_connection_request is ignored.
AcceptStep ==
    /\ pc = "accept"
    /\ conn_i' = 0
    /\ LET slot == num_connected_clients
           admit(fd) ==
               /\ conns' = [conns EXCEPT ![slot] = [@ EXCEPT !.fd = fd,
                                                         !.state = SEND_FILE_SIZE]]
               /\ num_connected_clients' = num_connected_clients + 1
               /\ num_active_clients' = num_active_clients + 1
               /\ pc' = "scan"
               /\ UNCHANGED <<exitStatus, exitReason>>
       IN
       IF "IN" \notin pollfds[0].revents
       THEN /\ pc' = "scan"
            /\ UNCHANGED <<exitStatus, exitReason, conns, num_active_clients,
                           num_connected_clients, errno, backlog, fdOwner>>
       ELSE IF slot \notin Slots
       THEN \* &conns[max_conns]: a write past the calloc'ed array
            /\ Fatal("heap_overflow")
            /\ UNCHANGED <<conns, num_active_clients, num_connected_clients,
                           errno, backlog, fdOwner>>
       ELSE IF FreeFds # {}
       THEN /\ fdOwner' = [fdOwner EXCEPT ![Min(FreeFds)] = slot]
            /\ backlog' = backlog - 1
            /\ admit(Min(FreeFds))
            /\ UNCHANGED errno
       ELSE /\ errno' = "EMFILE"
            /\ UNCHANGED <<backlog, fdOwner>>
            /\ IF received_sigint
               THEN admit(NoFd)
               ELSE /\ Fatal("accept")
                    /\ UNCHANGED <<conns, num_active_clients, num_connected_clients>>
    /\ UNCHANGED <<pollfds, received_sigint, arrived, peerReset, wire, cause>>

\* One pass of the processing loop (lines 171-208) over slot conn_i:
\* POLLHUP closes the socket and finishes the slot; POLLOUT runs the
\* protocol step of its state and, when that step fails or the transfer
\* is complete, closes the socket.
ScanConn ==
    /\ pc = "scan"
    /\ conn_i < num_connected_clients
    /\ conn_i' = conn_i + 1
    /\ LET i  == conn_i
           c  == conns[i]
           rv == pollfds[1 + i].revents
       IN
       \/ /\ "HUP" \in rv
          /\ CloseConn(i, [c EXCEPT !.state = TRANSFER_FINISHED])
          /\ UNCHANGED <<num_connected_clients, pollfds, errno, received_sigint,
                         backlog, arrived, peerReset, wire, cause>>
       \/ /\ "HUP" \notin rv
          /\ "OUT" \in rv
          /\ IF c.state = CONNECTION_EMPTY
             THEN /\ Fatal("unexpected_state")
                  /\ UNCHANGED <<conns, num_active_clients, errno, envVars>>
             ELSE \E w \in Outcomes(c) :
                      LET e == ErrnoAfter(errno, w)
                          r == Advance(c, w, e)
                      IN  /\ errno' = e
                          /\ Transmit(c.fd, WriteStart(c), w)
                          /\ IF r.ok
                             THEN /\ conns' = [conns EXCEPT ![i] = r.conn]
                                  /\ UNCHANGED <<pc, exitStatus, exitReason,
                                                 num_active_clients, fdOwner>>
                             ELSE CloseConn(i, r.conn)
          /\ UNCHANGED <<num_connected_clients, pollfds, backlog, arrived>>
       \/ /\ rv \cap {"HUP", "OUT"} = {}
          /\ UNCHANGED <<pc, exitStatus, exitReason, conns, num_active_clients,
                         num_connected_clients, pollfds, errno, envVars>>

\* The processing loop is over: back to the top of while(true).
ScanDone ==
    /\ pc = "scan"
    /\ conn_i = num_connected_clients
    /\ pc' = "top"
    /\ UNCHANGED <<exitStatus, exitReason, conns, num_active_clients,
                   num_connected_clients, pollfds, conn_i, errno, envVars>>

-----------------------------------------------------------------------------
\* The environment acts while the process runs.
Connect == exitStatus = "running" /\ ClientConnects /\ UNCHANGED serverVars
SigInt  == exitStatus = "running" /\ SigIntArrives /\ UNCHANGED serverVars
PeerReset(i) == exitStatus = "running" /\ ClientResets(i) /\ UNCHANGED serverVars

Server == LoopTop \/ Poll \/ PollInterrupted \/ AcceptStep \/ ScanConn \/ ScanDone

Next == Server \/ Connect \/ SigInt \/ \E i \in Slots : PeerReset(i)

\* poll() reports POLLOUT for slot i.
PollReportsOut(i) == Poll /\ "OUT" \in pollfds'[1 + i].revents

(***************************************************************************)
(* The server thread runs whenever it is not blocked (weak fairness on its *)
(* steps).  A client of client.c reads without pause until it has the     *)
(* whole file, so a socket the server keeps waiting on becomes writable    *)
(* again and again: poll() reporting POLLOUT for it is strongly fair.     *)
(* Connections, resets and signals come from outside and are not fair.    *)
(***************************************************************************)
Fairness ==
    /\ WF_vars(LoopTop) /\ WF_vars(Poll) /\ WF_vars(AcceptStep)
    /\ WF_vars(ScanConn) /\ WF_vars(ScanDone)
    /\ \A i \in Slots : SF_vars(PollReportsOut(i))

Spec == Init /\ [][Next]_vars /\ Fairness

-----------------------------------------------------------------------------
(* Properties *)

TypeOK ==
    /\ pc \in {"top", "poll", "accept", "scan", "exited"}
    /\ exitStatus \in {"running", "success", "failure"}
    /\ conns \in [Slots -> [state : TransferStates,
                            fd : Fds \cup {0, NoFd},
                            offset : 0..FileSize]]
    /\ num_connected_clients \in 0..MaxConns
    /\ num_active_clients \in 0..num_connected_clients
    /\ pollfds \in [PollIdx -> [fd : Fds \cup {ListenFd, 0, -1},
                                events : SUBSET PollEvents,
                                revents : SUBSET PollEvents]]
    /\ conn_i \in 0..MaxConns
    /\ errno \in Errnos
    /\ KernelTypeOK

\* The connection table agrees with the kernel: num_active_clients counts
\* exactly the admitted slots still being served (the increments at 168
\* and decrements at 177 and 204 balance), every such slot owns the socket
\* it will write to, and no socket is open for a slot that is done.  A
\* stale pollfds entry or a missed decrement breaks this only after a
\* descriptor is closed and handed out again.
TableMatchesKernel ==
    /\ num_active_clients =
          Cardinality({i \in 0..(num_connected_clients - 1) :
                          conns[i].state \in ActiveStates})
    /\ \A i \in 0..(num_connected_clients - 1) :
          /\ conns[i].state \in ActiveStates /\ conns[i].fd # NoFd
                => fdOwner[conns[i].fd] = i
          /\ conns[i].state = TRANSFER_FINISHED => \A f \in Fds : fdOwner[f] # i

\* The server only dies of what its environment does (SIGINT in poll(), an
\* accept() failure), never of its own bookkeeping: no close() of a
\* descriptor it already closed, no unexpected CONNECTION_EMPTY slot, no
\* accept into a slot past the end of conns.
NoBookkeepingFailure ==
    exitStatus = "failure" => exitReason \in {"poll", "accept"}

\* When main() returns EXIT_SUCCESS every admitted client has the whole
\* size header and file, unless the transfer was cut by a reset of the
\* client or by a signal interrupting a write (spec.md 8: each client
\* receives exactly the file).
ExitSuccessDelivered ==
    exitStatus = "success" =>
        \A i \in 0..(num_connected_clients - 1) :
            wire[i] = Ideal \/ cause[i] # "none"

\* The server implements FileshareService: slots are taken in order, every
\* client gets a prefix of header and file, and nothing is sent on a slot
\* after its transfer is over.
SlotStatus(i) ==
    IF i >= num_connected_clients THEN "free"
    ELSE IF conns[i].state \in ActiveStates THEN "active" ELSE "done"

Service == INSTANCE FileshareService
    WITH Slots <- Slots, Stream <- Ideal,
         status <- [i \in Slots |-> SlotStatus(i)],
         received <- wire, outcome <- exitStatus

ImplementsService == Service!Spec

\* Every admitted client is eventually finished, unless the process ends.
AdmittedFinish ==
    \A i \in Slots :
        conns[i].state \in ActiveStates
            ~> (conns[i].state = TRANSFER_FINISHED \/ exitStatus # "running")

\* Once the last admissible client is connected, the process eventually
\* exits: with no more accepts to make, the loop drains the active
\* clients and leaves at line 116.
ExitsWhenDone ==
    (num_connected_clients = MaxConns) ~> (exitStatus # "running")

\* SIGINT makes the server stop admitting clients, let the active ones
\* finish and exit with status 0 (spec.md 4.4 and 8): after SIGINT the
\* process eventually ends with success, neither hanging in poll() nor
\* dying of it.
ShutdownDrains ==
    received_sigint ~> (exitStatus = "success")

====
