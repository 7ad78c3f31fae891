---------------------------- MODULE ThreadServer ----------------------------
(***************************************************************************)
(* The thread-per-connection file-share server of                          *)
(* src/02_nonblocking_sync/ttas-lock.c lines 199-388, with the calls of    *)
(* server-common.h (ServerCommon).  main accepts up to num_clients         *)
(* (MaxConns) clients, starts a thread for each, and after the accept loop *)
(* joins every started thread.  Each thread sends the header and the file  *)
(* on its own blocking socket and closes it.  The threads share only the   *)
(* process: its descriptor table, the SIGINT flag, and exit().             *)
(***************************************************************************)
EXTENDS ServerCommon, FiniteSetsExt

VARIABLES
    mpc,           \* main: "top", "accept", "join" or "exited"
    exitStatus,    \* "running", "success" or "failure"
    exitReason,    \* which exit(EXIT_FAILURE) ended the process
    client_i,      \* the accept loop counter
    join_i,        \* the join loop counter
    clent_active,  \* args[i].clent_active
    tpc,           \* thread of client i: "none", "size", "block" or "returned"
    tconn          \* args[i].conn

serverVars == <<mpc, exitStatus, exitReason, client_i, join_i, clent_active, tpc, tconn>>
vars       == <<serverVars, envVars>>

Running == exitStatus = "running"

\* exit(EXIT_FAILURE) ends every thread where it stands.
Fatal(reason) ==
    /\ exitStatus' = "failure"
    /\ exitReason' = reason

\* server_close_conn_socket (part_004 302-309).
CloseConn(fd) ==
    IF IsOpen(fd)
    THEN /\ fdOwner' = [fdOwner EXCEPT ![fd] = NoSlot]
         /\ UNCHANGED <<exitStatus, exitReason>>
    ELSE /\ Fatal("close")
         /\ UNCHANGED fdOwner

-----------------------------------------------------------------------------
\* args is calloc'ed and every clent_active set to false (lines 286-298).
Init ==
    /\ KernelInit
    /\ mpc = "top"
    /\ exitStatus = "running"
    /\ exitReason = "none"
    /\ client_i = 0
    /\ join_i = 0
    /\ clent_active = [i \in Slots |-> FALSE]
    /\ tpc = [i \in Slots |-> "none"]
    /\ tconn = [i \in Slots |-> [fd |-> 0, offset |-> 0]]

\* The test of the accept loop (line 312).
MainLoopTop ==
    /\ Running /\ mpc = "top"
    /\ mpc' = IF ~received_sigint /\ client_i < MaxConns THEN "accept" ELSE "join"
    /\ UNCHANGED <<exitStatus, exitReason, client_i, join_i, clent_active, tpc, tconn, envVars>>

\* Lines 314-361: accept a queued client on the lowest free descriptor,
\* mark it active and start its thread; accept() failing (the listening
\* socket is non-blocking) breaks the loop in shutdown, else exits.
MainAccept ==
    /\ Running /\ mpc = "accept"
    /\ IF backlog > 0 /\ FreeFds # {}
       THEN LET fd == Min(FreeFds) IN
            /\ fdOwner' = [fdOwner EXCEPT ![fd] = client_i]
            /\ backlog' = backlog - 1
            /\ tconn' = [tconn EXCEPT ![client_i].fd = fd]
            /\ clent_active' = [clent_active EXCEPT ![client_i] = TRUE]
            /\ tpc' = [tpc EXCEPT ![client_i] = "size"]
            /\ client_i' = client_i + 1
            /\ mpc' = "top"
            /\ UNCHANGED <<exitStatus, exitReason>>
       ELSE /\ IF received_sigint
               THEN /\ mpc' = "join"
                    /\ UNCHANGED <<exitStatus, exitReason>>
               ELSE /\ Fatal("accept")
                    /\ UNCHANGED mpc
            /\ UNCHANGED <<fdOwner, backlog, tconn, clent_active, tpc, client_i>>
    /\ UNCHANGED <<join_i, received_sigint, arrived, peerReset, wire, cause>>

\* Lines 365-387: pthread_join each started thread in order, waiting for
\* it to return; then close the listening socket and the file, return 0.
MainJoin ==
    /\ Running /\ mpc = "join"
    /\ IF join_i < MaxConns
       THEN /\ ~clent_active[join_i] \/ tpc[join_i] = "returned"
            /\ join_i' = join_i + 1
            /\ UNCHANGED <<mpc, exitStatus>>
       ELSE /\ mpc' = "exited"
            /\ exitStatus' = "success"
            /\ UNCHANGED join_i
    /\ UNCHANGED <<exitReason, client_i, clent_active, tpc, tconn, envVars>>

\* thread_func lines 236-242: send the header; on failure close and return.
ThreadSize(t) ==
    /\ Running /\ tpc[t] = "size"
    /\ \E w \in HeaderWrites(tconn[t]) :
          LET r == common_send_file_size(tconn[t], w) IN
          /\ Transmit(tconn[t].fd, 0, w)
          /\ tconn' = [tconn EXCEPT ![t] = r.conn]
          /\ IF r.ok
             THEN /\ tpc' = [tpc EXCEPT ![t] = "block"]
                  /\ UNCHANGED <<fdOwner, exitStatus, exitReason>>
             ELSE /\ CloseConn(tconn[t].fd)
                  /\ tpc' = [tpc EXCEPT ![t] = "returned"]
    /\ UNCHANGED <<mpc, client_i, join_i, clent_active, backlog, arrived>>

\* Fault variant: a failed block closes the socket and stays in the loop,
\* as the sequential server does.
ThreadBlockContinue(t) ==
    /\ Running /\ tpc[t] = "block"
    /\ IF MoreToSend(tconn[t])
       THEN \E w \in BlockWrites(tconn[t]) :
              LET r == common_send_file_block(tconn[t], w) IN
              /\ Transmit(tconn[t].fd, HeaderLen + tconn[t].offset, w)
              /\ tconn' = [tconn EXCEPT ![t] = r.conn]
              /\ IF r.ok THEN UNCHANGED <<fdOwner, exitStatus, exitReason>>
                         ELSE CloseConn(tconn[t].fd)
              /\ UNCHANGED tpc
       ELSE /\ CloseConn(tconn[t].fd)
            /\ tpc' = [tpc EXCEPT ![t] = "returned"]
            /\ UNCHANGED <<tconn, received_sigint, peerReset, wire, cause>>
    /\ UNCHANGED <<mpc, client_i, join_i, clent_active, backlog, arrived>>

\* thread_func lines 244-259: while the offset is below the file size
\* send a block, closing and returning on failure; then close and return.
ThreadBlock(t) ==
    /\ Running /\ tpc[t] = "block"
    /\ IF MoreToSend(tconn[t])
       THEN \E w \in BlockWrites(tconn[t]) :
              LET r == common_send_file_block(tconn[t], w) IN
              /\ Transmit(tconn[t].fd, HeaderLen + tconn[t].offset, w)
              /\ tconn' = [tconn EXCEPT ![t] = r.conn]
              /\ IF r.ok
                 THEN UNCHANGED <<tpc, fdOwner, exitStatus, exitReason>>
                 ELSE /\ CloseConn(tconn[t].fd)
                      /\ tpc' = [tpc EXCEPT ![t] = "returned"]
       ELSE /\ CloseConn(tconn[t].fd)
            /\ tpc' = [tpc EXCEPT ![t] = "returned"]
            /\ UNCHANGED <<tconn, received_sigint, peerReset, wire, cause>>
    /\ UNCHANGED <<mpc, client_i, join_i, clent_active, backlog, arrived>>

Connect      == Running /\ ClientConnects /\ UNCHANGED serverVars
SigInt       == Running /\ SigIntArrives /\ UNCHANGED serverVars
PeerReset(i) == Running /\ ClientResets(i) /\ UNCHANGED serverVars

Main      == MainLoopTop \/ MainAccept \/ MainJoin
Thread(t) == ThreadSize(t) \/ ThreadBlock(t)

Next == Main \/ (\E t \in Slots : Thread(t)) \/ Connect \/ SigInt
        \/ \E i \in Slots : PeerReset(i)

\* Every thread runs when not blocked (one per hardware thread).
Spec == Init /\ [][Next]_vars /\ WF_vars(Main) /\ \A t \in Slots : WF_vars(Thread(t))

-----------------------------------------------------------------------------
(* Properties *)

TypeOK ==
    /\ KernelTypeOK
    /\ mpc \in {"top", "accept", "join", "exited"}
    /\ exitStatus \in {"running", "success", "failure"}
    /\ client_i \in 0..MaxConns /\ join_i \in 0..MaxConns
    /\ clent_active \in [Slots -> BOOLEAN]
    /\ tpc \in [Slots -> {"none", "size", "block", "returned"}]
    /\ tconn \in [Slots -> [fd : Fds \cup {0}, offset : 0..FileSize]]

\* A running thread writes only to its own client: while thread i is in
\* its transfer, the descriptor in args[i].conn is open and is client i's
\* socket, even after other threads closed theirs and main reused the
\* numbers for new clients.
SocketOwned ==
    \A i \in Slots : tpc[i] \in {"size", "block"} => fdOwner[tconn[i].fd] = i

\* The server implements FileshareService: client i's slot is active
\* while its thread transfers, done once the thread returned.
SlotStatus(i) ==
    CASE tpc[i] \in {"size", "block"} -> "active"
      [] tpc[i] = "returned"          -> "done"
      [] OTHER                        -> "free"

Service == INSTANCE FileshareService
    WITH Slots <- Slots, Stream <- Ideal,
         status <- [i \in Slots |-> SlotStatus(i)],
         received <- wire, outcome <- exitStatus

ImplementsService == Service!Spec

\* When main returns 0, every started thread delivered header and file,
\* unless a reset or a signal cut its transfer.
ExitSuccessDelivered ==
    exitStatus = "success" =>
        \A i \in Slots : clent_active[i] => (wire[i] = Ideal \/ cause[i] # "none")

=============================================================================
