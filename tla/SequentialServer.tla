-------------------------- MODULE SequentialServer --------------------------
(***************************************************************************)
(* The sequential file-share server, main() of src/unnamed/part_002, with  *)
(* the calls of server-common.h (ServerCommon).  One client at a time: it  *)
(* accepts, sends the header and then the file block by block, closes, and *)
(* goes on with the next of num_clients (MaxConns) clients until SIGINT.   *)
(*                                                                         *)
(* The listening socket is created with SOCK_NONBLOCK (part_004 206), so   *)
(* accept() does not wait: with no connection queued it fails with EAGAIN. *)
(* Accepted sockets are blocking.  A process that called exit() keeps its  *)
(* pc, so that what it was doing stays visible; exitStatus stops it.       *)
(***************************************************************************)
EXTENDS ServerCommon, FiniteSetsExt

VARIABLES
    pc,          \* "top", "accept", "size", "block" or "exited"
    exitStatus,  \* "running", "success" or "failure"
    exitReason,  \* which exit(EXIT_FAILURE) ended the process
    conn,        \* FILESHARE_CONNECTION conn
    client_i     \* the loop counter of main

serverVars == <<pc, exitStatus, exitReason, conn, client_i>>
vars       == <<serverVars, envVars>>

Running == exitStatus = "running"

\* exit(EXIT_FAILURE), where the process stands.
Fatal(reason) ==
    /\ exitStatus' = "failure"
    /\ exitReason' = reason
    /\ UNCHANGED pc

\* The end of main: close the listening socket and the file, return 0.
Finish ==
    /\ pc' = "exited"
    /\ exitStatus' = "success"
    /\ UNCHANGED exitReason

\* server_close_conn_socket (part_004 302-309): close() of a descriptor
\* that is not open fails with EBADF and the process exits.
CloseConn(fd) ==
    IF IsOpen(fd)
    THEN /\ fdOwner' = [fdOwner EXCEPT ![fd] = NoSlot]
         /\ UNCHANGED <<exitStatus, exitReason>>
    ELSE /\ Fatal("close")
         /\ UNCHANGED fdOwner

-----------------------------------------------------------------------------
Init ==
    /\ KernelInit
    /\ pc = "top"
    /\ exitStatus = "running"
    /\ exitReason = "none"
    /\ conn = NoConn
    /\ client_i = 0

\* The test of the client loop (line 43).
LoopTop ==
    /\ Running /\ pc = "top"
    /\ IF ~received_sigint /\ client_i < MaxConns
       THEN /\ pc' = "accept"
            /\ UNCHANGED <<exitStatus, exitReason>>
       ELSE Finish
    /\ UNCHANGED <<conn, client_i, envVars>>

\* server_accept_connection_request (part_004 250-300) and the break at
\* lines 46-50.  accept() takes the queued connection, if any, on the
\* lowest free descriptor; otherwise it fails (EAGAIN, or EMFILE), which
\* ends the loop in shutdown and the process otherwise.
Accept ==
    /\ Running /\ pc = "accept"
    /\ IF backlog > 0 /\ FreeFds # {}
       THEN LET fd == Min(FreeFds) IN
            /\ fdOwner' = [fdOwner EXCEPT ![fd] = client_i]
            /\ backlog' = backlog - 1
            /\ conn' = [conn EXCEPT !.fd = fd]
            /\ pc' = "size"
            /\ UNCHANGED <<exitStatus, exitReason>>
       ELSE /\ IF received_sigint THEN Finish ELSE Fatal("accept")
            /\ UNCHANGED <<fdOwner, backlog, conn>>
    /\ UNCHANGED <<client_i, received_sigint, arrived, peerReset, wire, cause>>

\* Lines 52-58: send the header; on failure close and go to the next
\* client.
SendSize ==
    /\ Running /\ pc = "size"
    /\ \E w \in HeaderWrites(conn) :
          LET r == common_send_file_size(conn, w) IN
          /\ Transmit(conn.fd, 0, w)
          /\ conn' = r.conn
          /\ IF r.ok
             THEN /\ pc' = "block"
                  /\ UNCHANGED <<fdOwner, client_i, exitStatus, exitReason>>
             ELSE /\ CloseConn(conn.fd)
                  /\ pc' = "top"
                  /\ client_i' = client_i + 1
    /\ UNCHANGED <<backlog, arrived>>

\* Lines 60-71: while the offset is below the file size send a block; a
\* failed block closes the socket and `continue`s the same loop; after
\* the loop close the socket and go to the next client.
SendBlock ==
    /\ Running /\ pc = "block"
    /\ IF MoreToSend(conn)
       THEN \E w \in BlockWrites(conn) :
              LET r == common_send_file_block(conn, w) IN
              /\ Transmit(conn.fd, HeaderLen + conn.offset, w)
              /\ conn' = r.conn
              /\ IF r.ok THEN UNCHANGED <<fdOwner, exitStatus, exitReason>>
                         ELSE CloseConn(conn.fd)
              /\ UNCHANGED <<pc, client_i>>
       ELSE /\ CloseConn(conn.fd)
            /\ pc' = "top"
            /\ client_i' = client_i + 1
            /\ UNCHANGED <<conn, received_sigint, peerReset, wire, cause>>
    /\ UNCHANGED <<backlog, arrived>>

Connect     == Running /\ ClientConnects /\ UNCHANGED serverVars
SigInt      == Running /\ SigIntArrives /\ UNCHANGED serverVars
PeerReset(i) == Running /\ ClientResets(i) /\ UNCHANGED serverVars

Server == LoopTop \/ Accept \/ SendSize \/ SendBlock

Next == Server \/ Connect \/ SigInt \/ \E i \in Slots : PeerReset(i)

\* The server thread runs whenever it is not blocked; a blocking write
\* completes because the client reads continuously.
Spec == Init /\ [][Next]_vars /\ WF_vars(Server)

-----------------------------------------------------------------------------
(* Properties *)

TypeOK ==
    /\ KernelTypeOK
    /\ pc \in {"top", "accept", "size", "block", "exited"}
    /\ exitStatus \in {"running", "success", "failure"}
    /\ conn \in [fd : Fds \cup {NoFd}, offset : 0..FileSize]
    /\ client_i \in 0..MaxConns

\* The comment at line 45 says accept() waits for a client: the server
\* does not die in accept() while descriptors are left.
AcceptWaitsForClient == exitReason # "accept"

\* A failed transfer is the client's failure, not the server's (spec.md
\* section 7): a per-connection error never ends the process.
FailureStaysLocal == exitReason # "close"

=============================================================================
