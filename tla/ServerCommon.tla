---------------------------- MODULE ServerCommon ----------------------------
(***************************************************************************)
(* The calls of server-common.h (src/unnamed/part_004) that the blocking   *)
(* servers -- the sequential one (part_002) and the thread-per-connection  *)
(* one (ttas-lock.c 199-388) -- make on a connection.  Unlike the          *)
(* multiplexing library, a short header write is always a failure, and    *)
(* the block step reports success while the transfer goes on; the caller  *)
(* loops while the offset is below the file size.                          *)
(*                                                                         *)
(* part_004 is an unfinished draft: server_read_file_block reads into an   *)
(* undeclared file_block and server_send_file_block writes an undeclared   *)
(* bytes_read.  The block step below is the read followed by the write the *)
(* two functions describe, which is what a caller of server_send_file_block *)
(* relies on.                                                              *)
(***************************************************************************)
EXTENDS FileshareKernel

\* A connection: client_sock_fd and src_file_offset.
NoConn == [fd |-> NoFd, offset |-> 0]

\* Fault variant: any write that sent something counts as the header.
SizeAnyPositiveWrite(c, w) ==
    IF w.n <= 0
    THEN [conn |-> c, ok |-> FALSE]
    ELSE [conn |-> [c EXCEPT !.offset = 0], ok |-> TRUE]

\* server_send_file_size (part_004 77-92): bytes_written is a size_t, so
\* a -1 from write(2) is SIZE_MAX and fails the test like a short write.
common_send_file_size(c, w) ==
    IF w.n # HeaderLen
    THEN [conn |-> c, ok |-> FALSE]
    ELSE [conn |-> [c EXCEPT !.offset = 0], ok |-> TRUE]

\* server_read_file_block and server_send_file_block (part_004 94-119).
common_send_file_block(c, w) ==
    IF ReadFails(c.offset) \/ w.n # BytesRead(c.offset)
    THEN [conn |-> c, ok |-> FALSE]
    ELSE [conn |-> [c EXCEPT !.offset = @ + w.n], ok |-> TRUE]

\* Fault variant: the transfer loop stops one byte short.
MoreToSendOffByOne(c) == c.offset + 1 < FileSize

\* The test of the callers' transfer loops: offset < src_file_size.
MoreToSend(c) == c.offset < FileSize

\* The write the next step of c makes: the header, or the block at its
\* offset when the pread succeeds.
HeaderWrites(c) == WriteOutcomes(IsOpen(c.fd), IsReset(c.fd), HeaderLen)
BlockWrites(c) ==
    IF ReadFails(c.offset) THEN {NoWrite}
    ELSE WriteOutcomes(IsOpen(c.fd), IsReset(c.fd), BytesRead(c.offset))

=============================================================================
