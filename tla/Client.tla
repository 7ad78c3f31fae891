------------------------------- MODULE Client -------------------------------
(***************************************************************************)
(* The file-share client, src/05_tcp_multiplexing/client/client.c: connect *)
(* (retrying on ECONNREFUSED), receive the 8-byte size with MSG_WAITALL,   *)
(* open and fallocate the destination, receive blocks and pwrite each at   *)
(* dst_file_offset until the offset equals the size, then close the       *)
(* socket and ftruncate, fsync and close the file.  Any failed receive     *)
(* closes the socket and goes back to start_connection.                    *)
(*                                                                         *)
(* The server side of the connection is the abstract service: on each     *)
(* accepted connection it sends a prefix of header and file, and either   *)
(* finishes and closes, or (a fault) closes early, or the connection is    *)
(* reset.  Stream position p < HDR is a header byte; position HDR + k is   *)
(* byte k of the file, whose value is k.  size_t arithmetic is taken       *)
(* modulo 2^SizeWidth.                                                      *)
(***************************************************************************)
EXTENDS Integers

CONSTANTS
    FileSizes,     \* sizes the server's file may have
    BLOCK,         \* TRANSFER_BLOCK_SIZE
    HDR,           \* sizeof(uint64_t), the size header
    SizeWidth,     \* bits of size_t
    FdLimit,       \* descriptors open() may still hand out (RLIMIT_NOFILE)
    Faults,        \* what the environment may do wrong: "refuse", "cut", "reset"
    MaxFaults      \* how often it may do so in a behaviour

Modulus == 2^SizeWidth
MaxSize == 3 * BLOCK
Zero    == -1          \* a byte fallocate left

ASSUME /\ FileSizes \subseteq 0..MaxSize /\ BLOCK \in Nat \ {0} /\ HDR \in Nat \ {0}
       /\ MaxSize < Modulus /\ Faults \subseteq {"refuse", "cut", "reset"}

VARIABLES
    srcSize,   \* the server's src_file_size
    pc,        \* "connect", "size", "open", "recv" or "exit"
    status,    \* "running", "success" or "failure"
    conn,      \* the server's end: "none", "open", "fin" (closed), "rst" (reset), "eof"
    sent,      \* stream bytes the server has written on this connection
    rcvd,      \* stream bytes the client has received on it
    dst_file_size, dst_file_offset,
    dst,       \* the destination file's bytes, offset -> value
    dstLen,    \* its length
    fds,       \* destination descriptors the process holds open
    faults     \* faults so far

vars == <<srcSize, pc, status, conn, sent, rcvd, dst_file_size, dst_file_offset,
          dst, dstLen, fds, faults>>

StreamLen == HDR + srcSize
Avail     == sent - rcvd
Offsets   == 0..(MaxSize - 1)

Fault(kind) == kind \in Faults /\ faults < MaxFaults /\ faults' = faults + 1

Init ==
    /\ srcSize \in FileSizes
    /\ pc = "connect" /\ status = "running"
    /\ conn = "none" /\ sent = 0 /\ rcvd = 0
    /\ dst_file_size = 0 /\ dst_file_offset = 0
    /\ dst = [o \in Offsets |-> Zero] /\ dstLen = 0
    /\ fds = 0 /\ faults = 0

-----------------------------------------------------------------------------
\* client_close_socket (lines 94-101) and goto start_connection.
Reconnect == pc' = "connect" /\ conn' = "none"

\* Lines 220-231 with client_connect_to_server (lines 43-92): connect()
\* is refused while nobody listens (close, sleep(1), retry), or the
\* connection is established.
client_connect_to_server ==
    /\ pc = "connect"
    /\ \/ Fault("refuse") /\ UNCHANGED <<pc, conn, sent, rcvd>>
       \/ /\ pc' = "size" /\ conn' = "open" /\ sent' = 0 /\ rcvd' = 0
          /\ UNCHANGED faults
    /\ UNCHANGED <<srcSize, status, dst_file_size, dst_file_offset, dst, dstLen, fds>>

\* A mutant: the header is taken without checking that all of it came.
client_recv_file_size_NoLengthCheck ==
    /\ pc = "size" /\ Avail > 0
    /\ rcvd' = rcvd + HDR /\ pc' = "open" /\ dst_file_size' = srcSize /\ dst_file_offset' = 0
    /\ UNCHANGED <<srcSize, status, conn, sent, dst, dstLen, fds, faults>>

\* A mutant: the reply to a new connection keeps the old offset.
client_recv_file_size_KeepOffset ==
    /\ pc = "size"
    /\ \/ /\ Avail >= HDR
          /\ rcvd' = rcvd + HDR /\ pc' = "open" /\ dst_file_size' = srcSize
          /\ UNCHANGED <<conn, dst_file_offset>>
       \/ /\ Avail < HDR /\ conn \in {"fin", "rst", "eof"}
          /\ Reconnect /\ UNCHANGED <<rcvd, dst_file_size, dst_file_offset>>
    /\ UNCHANGED <<srcSize, status, sent, dst, dstLen, fds, faults>>

\* Lines 161-178 and 234-239: recv(MSG_WAITALL) waits for all HDR bytes;
\* a connection closed or reset before that returns fewer or -1, which is
\* not sizeof(file_size), and the client reconnects.  The size is decoded
\* with htobe64 as the server encoded it, so it is src_file_size.
client_recv_file_size ==
    /\ pc = "size"
    /\ \/ /\ Avail >= HDR
          /\ rcvd' = rcvd + HDR /\ pc' = "open"
          /\ dst_file_size' = srcSize /\ dst_file_offset' = 0
          /\ UNCHANGED conn
       \/ /\ Avail < HDR /\ conn \in {"fin", "rst", "eof"}
          /\ Reconnect /\ UNCHANGED <<rcvd, dst_file_size, dst_file_offset>>
    /\ UNCHANGED <<srcSize, status, sent, dst, dstLen, fds, faults>>

\* client_open_dst_file (lines 107-126): open(O_TRUNC) takes a descriptor
\* (the one of an earlier attempt is never closed); fallocate of
\* dst_file_size bytes fails with EINVAL for 0.
client_open_dst_file ==
    /\ pc = "open"
    /\ IF fds < FdLimit /\ dst_file_size > 0
       THEN /\ fds' = fds + 1
            /\ dst' = [o \in Offsets |-> Zero] /\ dstLen' = dst_file_size
            /\ pc' = "recv" /\ UNCHANGED status
       ELSE /\ pc' = "exit" /\ status' = "failure"
            /\ fds' = IF fds < FdLimit THEN fds + 1 ELSE fds
            /\ dstLen' = IF fds < FdLimit THEN 0 ELSE dstLen
            /\ UNCHANGED dst
    /\ UNCHANGED <<srcSize, conn, sent, rcvd, dst_file_size, dst_file_offset, faults>>

\* pwrite of n received bytes at dst_file_offset.
WriteBlock(n) ==
    dst' = [o \in Offsets |-> IF o \in dst_file_offset..(dst_file_offset + n - 1)
                              THEN rcvd - HDR + (o - dst_file_offset) ELSE dst[o]]

\* A mutant: a received 0 is not treated as a closed connection.
client_recv_file_block_IgnoreEof ==
    /\ pc = "recv" /\ dst_file_offset # dst_file_size
    /\ \/ /\ Avail > 0
          /\ \E n \in 1..BLOCK :
                /\ n <= Avail
                /\ WriteBlock(n) /\ rcvd' = rcvd + n
                /\ dst_file_offset' = (dst_file_offset + n) % Modulus
          /\ UNCHANGED <<pc, conn>>
       \/ /\ Avail = 0 /\ conn \in {"fin", "eof"}
          /\ UNCHANGED <<pc, conn, dst, rcvd, dst_file_offset>>
       \/ /\ Avail = 0 /\ conn = "rst"
          /\ conn' = "eof" /\ dst_file_offset' = (dst_file_offset + Modulus - 1) % Modulus
          /\ UNCHANGED <<pc, dst, rcvd>>
    /\ UNCHANGED <<srcSize, status, sent, dst_file_size, dstLen, fds, faults>>

\* Lines 180-202 and 246-254, one pass of the receive loop.  recv returns
\* 1 to BLOCK of the bytes that have arrived, which pwrite puts at the
\* offset; 0 on a connection closed with nothing left, which is a failure
\* while the offset is short of the size; or -1 once a reset connection is
\* drained: bytes_read is then SIZE_MAX, pwrite of SIZE_MAX bytes fails
\* with EFAULT and returns -1, also SIZE_MAX, so the check passes and the
\* offset moves back by one; the next recv returns 0.
client_recv_file_block ==
    /\ pc = "recv" /\ dst_file_offset # dst_file_size
    /\ \/ /\ Avail > 0
          /\ \E n \in 1..BLOCK :
                /\ n <= Avail
                /\ WriteBlock(n) /\ rcvd' = rcvd + n
                /\ dst_file_offset' = (dst_file_offset + n) % Modulus
          /\ UNCHANGED <<pc, conn>>
       \/ /\ Avail = 0 /\ conn \in {"fin", "eof"}
          /\ Reconnect /\ UNCHANGED <<dst, rcvd, dst_file_offset>>
       \/ /\ Avail = 0 /\ conn = "rst"
          /\ conn' = "eof" /\ dst_file_offset' = (dst_file_offset + Modulus - 1) % Modulus
          /\ UNCHANGED <<pc, dst, rcvd>>
    /\ UNCHANGED <<srcSize, status, sent, dst_file_size, dstLen, fds, faults>>

\* Lines 256-263: the offset reached the size; client_close_socket, then
\* client_close_dst_file (lines 128-153): ftruncate to dst_file_size,
\* fsync, close; "Received file" and EXIT_SUCCESS.
client_close_dst_file ==
    /\ pc = "recv" /\ dst_file_offset = dst_file_size
    /\ conn' = "none" /\ dstLen' = dst_file_size /\ fds' = fds - 1
    /\ pc' = "exit" /\ status' = "success"
    /\ UNCHANGED <<srcSize, sent, rcvd, dst_file_size, dst_file_offset, dst, faults>>

-----------------------------------------------------------------------------
(* The server's end of the connection. *)

\* The server writes the next byte of header and file.
ServerSends ==
    /\ conn = "open" /\ sent < StreamLen
    /\ sent' = sent + 1
    /\ UNCHANGED <<srcSize, pc, status, conn, rcvd, dst_file_size, dst_file_offset,
                   dst, dstLen, fds, faults>>

\* The transfer is finished and the server closes the socket.
ServerCloses ==
    /\ conn = "open" /\ sent = StreamLen
    /\ conn' = "fin"
    /\ UNCHANGED <<srcSize, pc, status, sent, rcvd, dst_file_size, dst_file_offset,
                   dst, dstLen, fds, faults>>

\* A fault: the server closes the connection before the end of the stream
\* (a failed write, an exit), or the connection is reset.
ServerFails ==
    /\ conn \in {"open", "fin"}
    /\ \/ conn = "open" /\ sent < StreamLen /\ Fault("cut") /\ conn' = "fin"
       \/ Fault("reset") /\ conn' = "rst"
    /\ UNCHANGED <<srcSize, pc, status, sent, rcvd, dst_file_size, dst_file_offset,
                   dst, dstLen, fds>>

ClientStep == client_connect_to_server \/ client_recv_file_size \/ client_open_dst_file
              \/ client_recv_file_block \/ client_close_dst_file
Server     == ServerSends \/ ServerCloses

Next == ClientStep \/ Server \/ ServerFails

\* The client runs whenever it is not blocked in recv; the server keeps
\* serving an accepted connection.  Faults are not fair: there are at most
\* MaxFaults of them.
Spec == Init /\ [][Next]_vars /\ WF_vars(ClientStep) /\ WF_vars(Server)

-----------------------------------------------------------------------------
(* Properties *)

TypeOK ==
    /\ srcSize \in FileSizes
    /\ pc \in {"connect", "size", "open", "recv", "exit"}
    /\ status \in {"running", "success", "failure"}
    /\ conn \in {"none", "open", "fin", "rst", "eof"}
    /\ sent \in 0..StreamLen /\ rcvd \in 0..sent
    /\ dst_file_size \in 0..MaxSize /\ dst_file_offset \in 0..(Modulus - 1)
    /\ dst \in [Offsets -> Offsets \cup {Zero}] /\ dstLen \in 0..MaxSize
    /\ fds \in 0..FdLimit /\ faults \in 0..MaxFaults

\* "Received file" means the destination is the source (spec.md 10,
\* round-trip): its length is the size and every byte is at its offset,
\* however recv split the stream and however many attempts were cut or
\* reset first.
RoundTrip ==
    status = "success" =>
        /\ dstLen = srcSize
        /\ \A o \in 0..(srcSize - 1) : dst[o] = o

\* With finitely many refused, cut and reset connections, the client
\* eventually receives the file.
ClientSucceeds == <>(status = "success")

=============================================================================
