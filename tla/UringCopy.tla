------------------------------ MODULE UringCopy ------------------------------
(***************************************************************************)
(* io-uring-cp (src/04_async_io/io-uring-cp.c lines 1-254): QUEUE_SIZE     *)
(* cells, each with a registered buffer, cycle IDLE -> IN_READ -> IN_WRITE *)
(* -> IDLE.  main prepares a read for every cell, then loops: submit the   *)
(* prepared SQEs and wait for one completion, and drain the CQ ring with  *)
(* io_uring_peek_cqe -- a finished read becomes a write of the same cell, *)
(* a finished write frees the cell and prepares the next read into it.    *)
(* Reads and writes are READ_BLOCK_SIZE long whatever block->size is; the *)
(* final ftruncate cuts what the last write put past the end.  Negative   *)
(* results (I/O errors) are not modelled.                                  *)
(***************************************************************************)
EXTENDS CopyFiles

Cells == 0..(QUEUE_SIZE - 1)

\* prepare_read_request's block->size: the bytes left, at most a block.
BlockSize == Smaller(srcSize - src_off, READ_BLOCK_SIZE)

\* Lines 181-192: open the files, init_copying_status (cells IDLE, ring
\* and buffers set up).
Open == OpenFiles("init") /\ UNCHANGED progVars

\* Lines 198-202: prepare_read_request for every cell in turn; cell c gets
\* the block at c * READ_BLOCK_SIZE when that is before src_size.
InitReads ==
    LET used == {c \in Cells : c * READ_BLOCK_SIZE < srcSize} IN
    /\ pc = "init"
    /\ stage' = [s \in Slots |-> IF s \in used THEN "read" ELSE stage[s]]
    /\ off' = [s \in Slots |-> IF s \in used THEN s * READ_BLOCK_SIZE ELSE off[s]]
    /\ len' = [s \in Slots |-> IF s \in used THEN READ_BLOCK_SIZE ELSE len[s]]
    /\ sq' = used
    /\ src_off' = Smaller(srcSize, QUEUE_SIZE * READ_BLOCK_SIZE)
    /\ count' = Cardinality(used)
    /\ pc' = "loop"
    /\ UNCHANGED <<fileVars, buf, res, inflight, cq, tpc, batch, scan>>

\* The loop condition with && for ||: stop once everything is read.
CopyingAnd == src_off # srcSize /\ count # 0

\* The condition of the main loop (line 204).
Copying == src_off # srcSize \/ count # 0

\* Lines 204-207: test the loop condition; io_uring_submit_and_wait hands
\* every prepared SQE to the kernel.
Submit ==
    /\ pc = "loop"
    /\ IF Copying
       THEN /\ inflight' = inflight \cup sq /\ sq' = {}
            /\ pc' = "wait"
       ELSE pc' = "close" /\ UNCHANGED <<inflight, sq>>
    /\ UNCHANGED <<fileVars, cellVars, src_off, count, cq, tpc, batch, scan>>

\* ... and waits for at least one completion.
Wait ==
    /\ pc = "wait" /\ cq # <<>>
    /\ pc' = "peek"
    /\ UNCHANGED <<fileVars, progVars>>

\* Refill without finish_write_request's num_block_in_progress -= 1.
RefillNoDecrement(c) ==
    IF srcSize - src_off = 0
    THEN /\ stage' = [stage EXCEPT ![c] = "idle"]
         /\ UNCHANGED <<off, len, sq, src_off, count>>
    ELSE /\ stage' = [stage EXCEPT ![c] = "read"]
         /\ off' = [off EXCEPT ![c] = src_off]
         /\ len' = [len EXCEPT ![c] = READ_BLOCK_SIZE]
         /\ sq' = sq \cup {c}
         /\ src_off' = src_off + BlockSize
         /\ count' = count + 1

\* finish_write_request (lines 155-165) and prepare_read_request (lines
\* 105-134) on the cell whose write completed.
Refill(c) ==
    IF srcSize - src_off = 0
    THEN /\ stage' = [stage EXCEPT ![c] = "idle"]
         /\ count' = count - 1
         /\ UNCHANGED <<off, len, sq, src_off>>
    ELSE /\ stage' = [stage EXCEPT ![c] = "read"]
         /\ off' = [off EXCEPT ![c] = src_off]
         /\ len' = [len EXCEPT ![c] = READ_BLOCK_SIZE]
         /\ sq' = sq \cup {c}
         /\ src_off' = src_off + BlockSize
         /\ UNCHANGED count

\* prepare_write_request (lines 136-153): the cell's block is written from
\* its buffer, READ_BLOCK_SIZE bytes at block->offset.
PrepareWrite(c) ==
    /\ stage' = [stage EXCEPT ![c] = "write"]
    /\ sq' = sq \cup {c}
    /\ UNCHANGED <<off, len>>

\* Lines 209-242: io_uring_peek_cqe; on an empty ring the do-while ends,
\* else a completed read is turned into a write of READ_BLOCK_SIZE bytes
\* at the block's offset (PrepareWrite) and a
\* completed write refills its cell; io_uring_cqe_seen.
Peek ==
    /\ pc = "peek"
    /\ IF cq = <<>>
       THEN pc' = "loop" /\ UNCHANGED <<stage, off, len, sq, src_off, count, cq>>
       ELSE LET c == Head(cq) IN
            /\ cq' = Tail(cq)
            /\ UNCHANGED pc
            /\ IF stage[c] = "read"
               THEN PrepareWrite(c) /\ UNCHANGED <<src_off, count>>
               ELSE Refill(c)
    /\ UNCHANGED <<fileVars, buf, res, inflight, tpc, batch, scan>>

\* Lines 245-253: io_uring_queue_exit, free the buffers, close the files.
Close ==
    /\ pc = "close"
    /\ CloseFiles(srcSize)
    /\ UNCHANGED progVars

Main == Open \/ InitReads \/ Submit \/ Wait \/ Peek \/ Close

Next == Main \/ Kernel

\* main runs whenever it is not blocked, and the kernel completes every
\* request it was handed.
Spec == Init /\ [][Next]_vars /\ WF_vars(Main) /\ \A c \in Cells : WF_vars(Complete(c))

=============================================================================
