-------------------------- MODULE FileshareKernel --------------------------
(***************************************************************************)
(* What the file-share servers (PollServer, EpollServer) share: the        *)
(* process-wide SIGINT flag of server-common-multiplexing.h, and the       *)
(* environment they run in -- the kernel's descriptor table and listen     *)
(* backlog, and the clients (client.c) that connect, read and may reset.   *)
(* A server module EXTENDS this one, adds its own loop variables, and      *)
(* leaves these variables unchanged in its steps except where a call of   *)
(* the code (accept, write, close) changes them.                           *)
(***************************************************************************)
EXTENDS FileshareProtocol

CONSTANTS
    MaxConns,    \* max_conns, the command-line bound on clients
    MaxClients,  \* connection requests the clients make in a behaviour
    ListenFd,    \* server->listen_sock_fd
    Fds          \* descriptor numbers accept() may hand out (RLIMIT_NOFILE)

ASSUME /\ MaxConns \in Nat \ {0}
       /\ MaxClients \in Nat
       /\ Fds \subseteq Nat \ {0}
       /\ ListenFd \in Nat \ ({0} \cup Fds)

Slots  == 0..(MaxConns - 1)
NoSlot == -1

VARIABLES
    received_sigint,        \* the flag set by sigint_handler
    backlog,                \* connections queued on the listening socket
    arrived,                \* connection requests made so far
    fdOwner,                \* the slot whose accepted socket fd f is, if open
    peerReset,              \* the client of slot i has reset its connection
    wire,                   \* stream positions received by the client of slot i
    cause                   \* history: what of the environment ended slot i early

envVars == <<received_sigint, backlog, arrived, fdOwner, peerReset, wire, cause>>

KernelInit ==
    /\ received_sigint = FALSE
    /\ backlog = 0
    /\ arrived = 0
    /\ fdOwner = [f \in Fds |-> NoSlot]
    /\ peerReset = [i \in Slots |-> FALSE]
    /\ wire = [i \in Slots |-> <<>>]
    /\ cause = [i \in Slots |-> "none"]

KernelTypeOK ==
    /\ received_sigint \in BOOLEAN
    /\ backlog \in 0..MaxClients
    /\ arrived \in 0..MaxClients
    /\ fdOwner \in [Fds -> Slots \cup {NoSlot}]
    /\ peerReset \in [Slots -> BOOLEAN]
    /\ wire \in [Slots -> Seq(0..(StreamLen - 1))]
    /\ cause \in [Slots -> {"none", "reset", "signal"}]

-----------------------------------------------------------------------------
\* The kernel's view of a descriptor.
IsOpen(fd)  == fd \in Fds /\ fdOwner[fd] # NoSlot
IsReset(fd) == IsOpen(fd) /\ peerReset[fdOwner[fd]]

\* accept() hands out the lowest free descriptor, if there is one.
FreeFds == {f \in Fds : fdOwner[f] = NoSlot}

\* The effect on the kernel and the clients of a write with outcome w on fd,
\* whose first byte is at stream position start.  A signal interrupting
\* the write is SIGINT, so its handler sets received_sigint.
Transmit(fd, start, w) ==
    /\ received_sigint' = (received_sigint \/ w.env = "signal")
    /\ IF IsOpen(fd)
       THEN LET o == fdOwner[fd] IN
            /\ wire' = IF w.n > 0 THEN [wire EXCEPT ![o] = @ \o Segment(start, w.n)]
                                  ELSE wire
            /\ peerReset' = IF w.env = "reset" THEN [peerReset EXCEPT ![o] = TRUE]
                                               ELSE peerReset
            /\ cause' = IF w.env # "none" THEN [cause EXCEPT ![o] = w.env] ELSE cause
       ELSE UNCHANGED <<wire, peerReset, cause>>

\* The write a protocol step of connection c makes, if any.
Outcomes(c) ==
    CASE c.state = SEND_FILE_SIZE ->
            WriteOutcomes(IsOpen(c.fd), IsReset(c.fd), HeaderLen)
      [] c.state = SEND_DATA_BLOCK /\ ~ReadFails(c.offset) ->
            WriteOutcomes(IsOpen(c.fd), IsReset(c.fd), BytesRead(c.offset))
      [] OTHER -> {NoWrite}

-----------------------------------------------------------------------------
\* Steps of the environment.

\* A client (client.c client_connect_to_server) connects; the kernel
\* queues the connection on the listening socket.
ClientConnects ==
    /\ arrived < MaxClients
    /\ arrived' = arrived + 1
    /\ backlog' = backlog + 1
    /\ UNCHANGED <<received_sigint, fdOwner, peerReset, wire, cause>>

\* SIGINT while the server is not blocked: sigint_handler only sets the flag.
SigIntArrives ==
    /\ SignalsMayArrive
    /\ ~received_sigint
    /\ received_sigint' = TRUE
    /\ UNCHANGED <<backlog, arrived, fdOwner, peerReset, wire, cause>>

\* The client of slot i dies or resets its open connection.
ClientResets(i) ==
    /\ PeersMayReset
    /\ \E f \in Fds : fdOwner[f] = i
    /\ ~peerReset[i]
    /\ peerReset' = [peerReset EXCEPT ![i] = TRUE]
    /\ cause' = [cause EXCEPT ![i] = "reset"]
    /\ UNCHANGED <<received_sigint, backlog, arrived, fdOwner, wire>>

=============================================================================
