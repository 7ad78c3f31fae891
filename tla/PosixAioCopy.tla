---------------------------- MODULE PosixAioCopy ----------------------------
(***************************************************************************)
(* posix-aio-cp (src/05_stream_mutliplexing/server/server-poll.c lines     *)
(* 740-929): the same rounding and pipeline as linux-aio-cp, with POSIX    *)
(* AIO: aio_read and aio_write start a request at once, aio_suspend waits *)
(* until one request of wait_list is done, and a scan over every cell     *)
(* (aio_i = scan) skips the NULL and the EINPROGRESS ones and handles the *)
(* rest.  The cells in wait_list are those with stage # "idle"; a request *)
(* whose result aio_return took leaves cq.  glibc's aio_read and aio_write *)
(* store the opcode in aio_lio_opcode, which the scan tests.              *)
(***************************************************************************)
EXTENDS CopyFiles, SequencesExt

Cells == 0..(QUEUE_SIZE - 1)

\* Line 847.
RoundUp(n) == n + READ_BLOCK_SIZE - (n % READ_BLOCK_SIZE)

\* wait_list[aio_i] != NULL.
Waiting(c) == stage[c] # "idle"

\* aio_read_setup (lines 757-773): control block c becomes a read of a
\* block at o, started at once by aio_read.
AioReadSetup(c, o) ==
    /\ stage' = [stage EXCEPT ![c] = "read"]
    /\ off' = [off EXCEPT ![c] = o]
    /\ len' = [len EXCEPT ![c] = READ_BLOCK_SIZE]
    /\ inflight' = inflight \cup {c}

\* aio_write_setup (lines 775-791), called with the read's offset: a
\* write of n bytes at that offset, started at once by aio_write.
AioWriteSetup(c, n) ==
    /\ stage' = [stage EXCEPT ![c] = "write"]
    /\ len' = [len EXCEPT ![c] = n]
    /\ inflight' = inflight \cup {c}
    /\ UNCHANGED off

\* Lines 797-840: open the files (buffer, control blocks and an empty
\* wait_list need no state).
Open == OpenFiles("init") /\ UNCHANGED progVars

\* Lines 847-861: round src_size and aio_read a block into each cell while
\* src_off < src_size.
InitReads ==
    LET rounded == RoundUp(srcSize)
        used == {c \in Cells : c * READ_BLOCK_SIZE < rounded} IN
    /\ pc = "init"
    /\ srcSize' = rounded
    /\ stage' = [s \in Slots |-> IF s \in used THEN "read" ELSE stage[s]]
    /\ off' = [s \in Slots |-> IF s \in used THEN s * READ_BLOCK_SIZE ELSE off[s]]
    /\ len' = [s \in Slots |-> IF s \in used THEN READ_BLOCK_SIZE ELSE len[s]]
    /\ inflight' = used
    /\ src_off' = Cardinality(used) * READ_BLOCK_SIZE
    /\ count' = Cardinality(used)
    /\ pc' = "loop"
    /\ UNCHANGED <<size, dst, dstLen, status, buf, res, sq, cq, tpc, batch, scan>>

\* Line 864: while num_io_reqs != 0.
LoopTest ==
    /\ pc = "loop"
    /\ pc' = IF count # 0 THEN "suspend" ELSE "close"
    /\ UNCHANGED <<fileVars, progVars>>

\* Lines 866-872: aio_suspend returns once a request of wait_list is done.
Suspend ==
    /\ pc = "suspend"
    /\ \E c \in Cells : Waiting(c) /\ c \notin inflight
    /\ pc' = "scan" /\ scan' = 0
    /\ UNCHANGED <<fileVars, cellVars, src_off, count, kernVars, tpc, batch>>

\* WriteDone that retires the cell without wait_list[aio_i] = NULL.
WriteDoneNoClear(c) ==
    IF res[c] # 0 /\ src_off < srcSize
    THEN /\ stage' = [stage EXCEPT ![c] = "read"]
         /\ off' = [off EXCEPT ![c] = src_off]
         /\ len' = [len EXCEPT ![c] = READ_BLOCK_SIZE]
         /\ inflight' = inflight \cup {c}
         /\ src_off' = src_off + READ_BLOCK_SIZE
         /\ UNCHANGED count
    ELSE /\ count' = count - 1
         /\ UNCHANGED <<stage, off, len, inflight, src_off>>

\* Lines 901-921: a completed write starts the next read into its cell
\* while there is more to read, and otherwise clears wait_list[aio_i].
WriteDone(c) ==
    IF res[c] # 0 /\ src_off < srcSize
    THEN /\ AioReadSetup(c, src_off)
         /\ src_off' = src_off + READ_BLOCK_SIZE
         /\ UNCHANGED count
    ELSE /\ stage' = [stage EXCEPT ![c] = "idle"]
         /\ count' = count - 1
         /\ UNCHANGED <<off, len, inflight, src_off>>

\* Lines 875-900: cell aio_i of the scan.  A NULL or EINPROGRESS entry is
\* skipped; a read of bytes_read > 0 becomes aio_write of those bytes at
\* the same offset, a read of 0 bytes exits; a write goes to WriteDone.
ScanCell ==
    /\ pc = "scan" /\ scan < QUEUE_SIZE
    /\ scan' = scan + 1
    /\ LET c == scan IN
       IF ~Waiting(c) \/ c \in inflight
       THEN UNCHANGED <<status, pc, stage, off, len, src_off, count, inflight, cq>>
       ELSE /\ cq' = Remove(cq, c)
            /\ IF stage[c] = "read"
               THEN IF res[c] # 0
                    THEN /\ AioWriteSetup(c, res[c])
                         /\ UNCHANGED <<src_off, count, status, pc>>
                    ELSE /\ status' = "failure" /\ pc' = "exit"
                         /\ UNCHANGED <<stage, off, len, inflight, src_off, count>>
               ELSE WriteDone(c) /\ UNCHANGED <<status, pc>>
    /\ UNCHANGED <<size, srcSize, dst, dstLen, buf, res, sq, tpc, batch>>

\* The scan is over: back to the loop test.
ScanEnd ==
    /\ pc = "scan" /\ scan = QUEUE_SIZE
    /\ pc' = "loop"
    /\ UNCHANGED <<fileVars, progVars>>

\* Line 926: close_src_dst_files with the rounded src_size.
Close ==
    /\ pc = "close"
    /\ CloseFiles(srcSize)
    /\ UNCHANGED progVars

Main == Open \/ InitReads \/ LoopTest \/ Suspend \/ ScanCell \/ ScanEnd \/ Close

Next == Main \/ Kernel

Spec == Init /\ [][Next]_vars /\ WF_vars(Main) /\ \A c \in Cells : WF_vars(Complete(c))

=============================================================================
