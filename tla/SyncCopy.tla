------------------------------ MODULE SyncCopy ------------------------------
(***************************************************************************)
(* sync-cp (src/unnamed/part_001 lines 107-180): read a block into the     *)
(* one buffer, write what was read, until the loop counter i reaches       *)
(* src_size or a read comes back short.  The file position of both         *)
(* descriptors is i, kept in src_off; the buffer is cell 0.                *)
(***************************************************************************)
EXTENDS CopyFiles

\* ftruncate to the size rounded up to a block, as the asynchronous
\* programs do.
ClosePadded ==
    /\ pc = "close"
    /\ CloseFiles(srcSize + READ_BLOCK_SIZE - (srcSize % READ_BLOCK_SIZE))
    /\ UNCHANGED progVars

\* Lines 130-137.
Open == OpenFiles("loop") /\ UNCHANGED progVars

\* Lines 150-158: the loop test, then read(src_fd, buffer, READ_BLOCK_SIZE).
Read ==
    /\ pc = "loop"
    /\ IF src_off < srcSize
       THEN LET n == ReadBytes(src_off, READ_BLOCK_SIZE) IN
            /\ buf' = [buf EXCEPT ![0] = Fill(@, src_off, n)]
            /\ res' = [res EXCEPT ![0] = n]
            /\ pc' = "write"
       ELSE pc' = "close" /\ UNCHANGED <<buf, res>>
    /\ UNCHANGED <<fileVars, stage, off, len, src_off, count, kernVars, tpc, batch, scan>>

\* Lines 160-172: write(dst_fd, buffer, bytes_read), i += bytes_read, and
\* leave the loop after a short read.
Write ==
    /\ pc = "write"
    /\ dst' = WriteAt(dst, buf[0], src_off, res[0])
    /\ dstLen' = Larger(dstLen, src_off + res[0])
    /\ src_off' = src_off + res[0]
    /\ pc' = IF res[0] # READ_BLOCK_SIZE THEN "close" ELSE "loop"
    /\ UNCHANGED <<size, srcSize, status, cellVars, count, kernVars, tpc, batch, scan>>

\* Lines 175-178.
Close ==
    /\ pc = "close"
    /\ CloseFiles(srcSize)
    /\ UNCHANGED progVars

Next == Open \/ Read \/ Write \/ Close

Spec == Init /\ [][Next]_vars /\ WF_vars(Next)

=============================================================================
