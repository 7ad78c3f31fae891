----------------------------- MODULE LibaioCopy -----------------------------
(***************************************************************************)
(* linux-aio-cp (src/05_stream_mutliplexing/server/server-poll.c lines     *)
(* 543-739): src_size is rounded up to a whole block, QUEUE_SIZE reads are *)
(* started, and main loops: io_submit the requests of submit_list,        *)
(* io_getevents at least one event, and handle each event in the order    *)
(* returned -- a read that returned bytes becomes a write of them at the   *)
(* same offset, a read of 0 bytes is the "unavailable state" and exits, a  *)
(* completed write starts the next read into its iocb or, with nothing     *)
(* left, retires it.  The loop ends when no request is left.              *)
(***************************************************************************)
EXTENDS CopyFiles

Cells == 0..(QUEUE_SIZE - 1)

\* Line 650: src_size + READ_BLOCK_SIZE - src_size % READ_BLOCK_SIZE.
RoundUp(n) == n + READ_BLOCK_SIZE - (n % READ_BLOCK_SIZE)

\* io_read_setup (lines 561-572): iocb c becomes a read of a block at o.
ReadSetup(c, o) ==
    /\ stage' = [stage EXCEPT ![c] = "read"]
    /\ off' = [off EXCEPT ![c] = o]
    /\ len' = [len EXCEPT ![c] = READ_BLOCK_SIZE]

\* io_write_setup (lines 574-585), called with the read's offset: iocb c
\* becomes a write of n bytes at the offset it was read from.
WriteSetup(c, n) ==
    /\ stage' = [stage EXCEPT ![c] = "write"]
    /\ len' = [len EXCEPT ![c] = n]
    /\ UNCHANGED off

\* Lines 591-645: open the files (the aligned buffer, the AIO context and
\* the arrays of iocbs need no state).
Open == OpenFiles("init") /\ UNCHANGED progVars

\* Lines 650-664: round src_size, then io_read_setup a read of a block
\* into iocb i for each i while i < QUEUE_SIZE and src_off < src_size.
InitReads ==
    LET rounded == RoundUp(srcSize)
        used == {c \in Cells : c * READ_BLOCK_SIZE < rounded} IN
    /\ pc = "init"
    /\ srcSize' = rounded
    /\ stage' = [s \in Slots |-> IF s \in used THEN "read" ELSE stage[s]]
    /\ off' = [s \in Slots |-> IF s \in used THEN s * READ_BLOCK_SIZE ELSE off[s]]
    /\ len' = [s \in Slots |-> IF s \in used THEN READ_BLOCK_SIZE ELSE len[s]]
    /\ sq' = used
    /\ src_off' = Cardinality(used) * READ_BLOCK_SIZE
    /\ count' = Cardinality(used)
    /\ pc' = "submit"
    /\ UNCHANGED <<size, dst, dstLen, status, buf, res, inflight, cq, tpc, batch, scan>>

\* Lines 668-675: io_submit(io_ctx, num_to_submit, submit_list).
Submit ==
    /\ pc = "submit"
    /\ inflight' = inflight \cup sq /\ sq' = {}
    /\ pc' = "getevents"
    /\ UNCHANGED <<fileVars, cellVars, src_off, count, cq, tpc, batch, scan>>

\* Lines 677-684: io_getevents(io_ctx, 1, QUEUE_SIZE, events) returns
\* between one and QUEUE_SIZE of the completed events, oldest first.
GetEvents ==
    /\ pc = "getevents" /\ cq # <<>>
    /\ \E k \in 1..Smaller(QUEUE_SIZE, Len(cq)) :
          /\ batch' = SubSeq(cq, 1, k)
          /\ cq' = SubSeq(cq, k + 1, Len(cq))
    /\ pc' = "handle"
    /\ UNCHANGED <<fileVars, cellVars, src_off, count, sq, inflight, tpc, scan>>

\* Lines 713-731: a completed write starts the next read into its iocb
\* while there is more to read, and otherwise retires it.
WriteDone(c) ==
    IF res[c] # 0 /\ src_off < srcSize
    THEN /\ ReadSetup(c, src_off)
         /\ sq' = sq \cup {c}
         /\ src_off' = src_off + READ_BLOCK_SIZE
         /\ UNCHANGED count
    ELSE /\ count' = count - 1
         /\ UNCHANGED <<stage, off, len, sq, src_off>>

\* Lines 686-712: the next event of the batch; a read of bytes_read > 0
\* becomes io_write_setup(iocb, dst_fd, offset, buf, bytes_read), and a
\* read of 0 bytes exits with "ERROR: reach unavailible state".
HandleEvent ==
    /\ pc = "handle" /\ batch # <<>>
    /\ LET c == Head(batch) IN
       /\ batch' = Tail(batch)
       /\ IF stage[c] = "read"
          THEN IF res[c] # 0
               THEN /\ WriteSetup(c, res[c])
                    /\ sq' = sq \cup {c}
                    /\ UNCHANGED <<src_off, count, status, pc>>
               ELSE /\ status' = "failure" /\ pc' = "exit"
                    /\ UNCHANGED <<stage, off, len, sq, src_off, count>>
          ELSE WriteDone(c) /\ UNCHANGED <<status, pc>>
    /\ UNCHANGED <<size, srcSize, dst, dstLen, buf, res, inflight, cq, tpc, scan>>

\* Line 668: after the batch, loop while num_io_reqs != 0.
LoopTest ==
    /\ pc = "handle" /\ batch = <<>>
    /\ pc' = IF count # 0 THEN "submit" ELSE "close"
    /\ UNCHANGED <<fileVars, progVars>>

\* Line 736: close_src_dst_files with src_size, the rounded size.
Close ==
    /\ pc = "close"
    /\ CloseFiles(srcSize)
    /\ UNCHANGED progVars

Main == Open \/ InitReads \/ Submit \/ GetEvents \/ HandleEvent \/ LoopTest \/ Close

Next == Main \/ Kernel

Spec == Init /\ [][Next]_vars /\ WF_vars(Main) /\ \A c \in Cells : WF_vars(Complete(c))

=============================================================================
