------------------------- MODULE FileshareProtocol -------------------------
(***************************************************************************)
(* The per-connection transfer protocol of the multiplexing file-share     *)
(* server (server-common-multiplexing.h, held in                           *)
(* src/05_stream_mutliplexing/server/server-poll.c lines 221-542), and the *)
(* behaviour of the kernel calls it makes on a connection socket.          *)
(*                                                                         *)
(* The module has no variables: it gives the connection states, the        *)
(* outcomes a write(2) on an accepted socket can have, and the two         *)
(* protocol steps as operators from a connection record and a write        *)
(* outcome to the new record and the returned success flag.  The event     *)
(* loops (PollServer, EpollServer) apply them inside their actions.        *)
(*                                                                         *)
(* Sizes are scaled down: HeaderLen stands for sizeof(uint64_t) = 8 and    *)
(* BlockSize for TRANSFER_BLOCK_SIZE = 1024; only their relation to        *)
(* FileSize and to partial writes matters to the properties.               *)
(***************************************************************************)
EXTENDS Integers, Sequences

CONSTANTS
    FileSize,          \* server->src_file_size, fixed by fstat at startup
    BlockSize,         \* TRANSFER_BLOCK_SIZE
    HeaderLen,         \* sizeof(uint64_t) of the size header
    SignalsMayArrive,  \* SIGINT may be delivered to the process
    PeersMayReset      \* a client may reset its connection mid-transfer

ASSUME /\ FileSize \in Nat
       /\ BlockSize \in Nat \ {0}
       /\ HeaderLen \in Nat \ {0, 1}
       /\ SignalsMayArrive \in BOOLEAN
       /\ PeersMayReset \in BOOLEAN

\* TRANSFER_STATE (server-poll.c 261-267).
CONNECTION_EMPTY  == "CONNECTION_EMPTY"
SEND_FILE_SIZE    == "SEND_FILE_SIZE"
SEND_DATA_BLOCK   == "SEND_DATA_BLOCK"
TRANSFER_FINISHED == "TRANSFER_FINISHED"
TransferStates == {CONNECTION_EMPTY, SEND_FILE_SIZE, SEND_DATA_BLOCK, TRANSFER_FINISHED}
ActiveStates   == {SEND_FILE_SIZE, SEND_DATA_BLOCK}

\* client_sock_fd of a slot whose accept() failed.
NoFd == -1

\* The byte stream every client must receive: the size header occupies
\* positions 0..HeaderLen-1, file byte j is at position HeaderLen + j.
StreamLen == HeaderLen + FileSize
Ideal == [k \in 1..StreamLen |-> k - 1]

\* errno values the modelled calls can leave behind.  "keep" in an outcome
\* means the call did not fail and left errno as it was.
Errnos == {"NONE", "EAGAIN", "EINTR", "ECONNRESET", "EBADF", "EMFILE"}

(***************************************************************************)
(* write(fd, buf, len) on an accepted socket.  accept() does not pass      *)
(* O_NONBLOCK on to the new socket, so the socket is blocking: the call    *)
(* writes everything, or returns short only when a signal interrupts it    *)
(* (n > 0 written, errno untouched; or -1 with EINTR) or the peer resets   *)
(* the connection meanwhile.  A write on a closed fd fails with EBADF, a   *)
(* write on a reset connection with ECONNRESET, and a write of 0 bytes     *)
(* returns 0.  "env" names what the environment did during the call.       *)
(***************************************************************************)
WriteOutcomes(open, reset, len) ==
    IF ~open THEN {[n |-> -1, err |-> "EBADF", env |-> "none"]}
    ELSE IF reset /\ len > 0 THEN {[n |-> -1, err |-> "ECONNRESET", env |-> "none"]}
    ELSE {[n |-> len, err |-> "keep", env |-> "none"]}
         \cup (IF SignalsMayArrive /\ len > 0
               THEN {[n |-> k, err |-> "keep", env |-> "signal"] : k \in 1..(len - 1)}
                    \cup {[n |-> -1, err |-> "EINTR", env |-> "signal"]}
               ELSE {})
         \cup (IF PeersMayReset /\ len > 0
               THEN {[n |-> k, err |-> "keep", env |-> "reset"] : k \in 1..(len - 1)}
                    \cup {[n |-> -1, err |-> "ECONNRESET", env |-> "reset"]}
               ELSE {})

\* The outcome used when the step makes no write at all.
NoWrite == [n |-> 0, err |-> "keep", env |-> "none"]

\* errno after a call with outcome w.
ErrnoAfter(errno, w) == IF w.err = "keep" THEN errno ELSE w.err

\* Fault variant: a read that ignores the end of the file and always
\* reports a whole block.
BytesReadUnclipped(offset) == IF offset >= FileSize THEN 0 ELSE BlockSize

\* pread(src_file_fd, file_block, TRANSFER_BLOCK_SIZE, offset) on the
\* regular source file, whose size never changes during the run.
BytesRead(offset) ==
    IF offset >= FileSize THEN 0
    ELSE IF FileSize - offset < BlockSize THEN FileSize - offset ELSE BlockSize

\* The failure test on the pread() result (server-poll.c 321-323).
ReadFails(offset) == BytesRead(offset) = 0 /\ offset # FileSize

\* Bytes the protocol step of connection c asks write() to send, and the
\* position in the stream the first of them occupies.
WriteLen(c) ==
    IF c.state = SEND_FILE_SIZE THEN HeaderLen ELSE BytesRead(c.offset)
WriteStart(c) ==
    IF c.state = SEND_FILE_SIZE THEN 0 ELSE HeaderLen + c.offset

(***************************************************************************)
(* server_send_file_size (server-poll.c 290-315): write the 8-byte header; *)
(* a short write whose errno reads EAGAIN is retried later with the state  *)
(* unchanged, any other short write ends the transfer.  e is errno after   *)
(* the write.                                                              *)
(***************************************************************************)
\* Fault variant: every short header write is retried, whatever errno says.
RetryEveryShortHeader(c, w, e) ==
    IF w.n # HeaderLen
    THEN [conn |-> c, ok |-> TRUE]
    ELSE [conn |-> [c EXCEPT !.offset = 0, !.state = SEND_DATA_BLOCK], ok |-> TRUE]

server_send_file_size(c, w, e) ==
    IF w.n # HeaderLen
    THEN IF e = "EAGAIN"
         THEN [conn |-> c, ok |-> TRUE]
         ELSE [conn |-> [c EXCEPT !.state = TRANSFER_FINISHED], ok |-> FALSE]
    ELSE [conn |-> [c EXCEPT !.offset = 0, !.state = SEND_DATA_BLOCK], ok |-> TRUE]

(***************************************************************************)
(* server_send_file_block (server-poll.c 317-352): read one block at the   *)
(* offset, write exactly that many bytes, advance the offset, and finish   *)
(* (returning false) when the offset reaches the file size.                *)
(***************************************************************************)
\* Fault variants of the completion test: one block early (off-by-one
\* against the block size), and never.
FinishOneBlockEarly(c, w) ==
    LET off == c.offset + w.n IN
    IF ReadFails(c.offset) \/ w.n = -1 \/ w.n # BytesRead(c.offset)
    THEN [conn |-> [c EXCEPT !.state = TRANSFER_FINISHED], ok |-> FALSE]
    ELSE IF off + BlockSize > FileSize
         THEN [conn |-> [c EXCEPT !.offset = off, !.state = TRANSFER_FINISHED], ok |-> FALSE]
         ELSE [conn |-> [c EXCEPT !.offset = off], ok |-> TRUE]
NeverFinish(c, w) ==
    LET off == c.offset + w.n IN
    IF ReadFails(c.offset) \/ w.n = -1 \/ w.n # BytesRead(c.offset)
    THEN [conn |-> [c EXCEPT !.state = TRANSFER_FINISHED], ok |-> FALSE]
    ELSE [conn |-> [c EXCEPT !.offset = off], ok |-> TRUE]

server_send_file_block(c, w) ==
    LET rd  == BytesRead(c.offset)
        off == c.offset + w.n
    IN  IF ReadFails(c.offset) \/ w.n = -1 \/ w.n # rd
        THEN [conn |-> [c EXCEPT !.state = TRANSFER_FINISHED], ok |-> FALSE]
        ELSE IF off = FileSize
             THEN [conn |-> [c EXCEPT !.offset = off, !.state = TRANSFER_FINISHED], ok |-> FALSE]
             ELSE [conn |-> [c EXCEPT !.offset = off], ok |-> TRUE]

\* The switch on the state of c in the event loops (server-poll.c 186-199),
\* after a write w that left errno e.
Advance(c, w, e) ==
    CASE c.state = SEND_FILE_SIZE  -> server_send_file_size(c, w, e)
      [] c.state = SEND_DATA_BLOCK -> server_send_file_block(c, w)
      [] OTHER                     -> [conn |-> c, ok |-> FALSE]

\* The bytes a write of n > 0 bytes starting at stream position start puts
\* on the wire, as stream positions.
Segment(start, n) == [k \in 1..n |-> start + k - 1]

=============================================================================
