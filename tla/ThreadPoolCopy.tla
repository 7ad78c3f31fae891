--------------------------- MODULE ThreadPoolCopy ---------------------------
(***************************************************************************)
(* thread-pool-cp (src/04_async_io/io-uring-cp.c lines 255-434): main      *)
(* opens the files and starts NUM_THREADS threads; thread t copies the     *)
(* blocks at offsets i + t * READ_BLOCK_SIZE for i = 0, NUM_THREADS *      *)
(* READ_BLOCK_SIZE, ... with pread and pwrite on its own buffer; main     *)
(* joins them and closes the files.  off[t] is the thread's offset, so    *)
(* its loop counter i is off[t] - t * READ_BLOCK_SIZE.                    *)
(***************************************************************************)
EXTENDS CopyFiles

Threads == 0..(NUM_THREADS - 1)

\* Lines 343-417: open the files, fill args[] and start every thread
\* (none when open_dst_file exits).
Open ==
    /\ OpenFiles("join")
    /\ IF srcSize = 0
       THEN UNCHANGED <<tpc, off>>
       ELSE /\ tpc' = [s \in Slots |-> IF s \in Threads THEN "loop" ELSE "idle"]
            /\ off' = [s \in Slots |-> IF s \in Threads THEN s * READ_BLOCK_SIZE ELSE 0]
    /\ UNCHANGED <<buf, stage, len, res, src_off, count, kernVars, batch, scan>>

\* The loop increment i += READ_BLOCK_SIZE * NUM_THREADS (line 320).
NextOffset(t) == off[t] + READ_BLOCK_SIZE * NUM_THREADS

\* Lines 295-310: the loop test i < src_size, the break on an offset past
\* src_size, then pread(src_fd, buffer, READ_BLOCK_SIZE, offset).
ThreadRead(t) ==
    /\ tpc[t] = "loop"
    /\ IF off[t] - t * READ_BLOCK_SIZE < srcSize /\ ~(off[t] > srcSize)
       THEN LET n == ReadBytes(off[t], READ_BLOCK_SIZE) IN
            /\ buf' = [buf EXCEPT ![t] = Fill(@, off[t], n)]
            /\ res' = [res EXCEPT ![t] = n]
            /\ tpc' = [tpc EXCEPT ![t] = "write"]
       ELSE tpc' = [tpc EXCEPT ![t] = "done"] /\ UNCHANGED <<buf, res>>
    /\ UNCHANGED <<fileVars, pc, stage, off, len, src_off, count, kernVars, batch, scan>>

\* Lines 312-324: pwrite(dst_fd, buffer, bytes_read, offset), advance i,
\* and leave the loop after a short read.
ThreadWrite(t) ==
    /\ tpc[t] = "write"
    /\ dst' = WriteAt(dst, buf[t], off[t], res[t])
    /\ dstLen' = Larger(dstLen, off[t] + res[t])
    /\ off' = [off EXCEPT ![t] = NextOffset(t)]
    /\ tpc' = [tpc EXCEPT ![t] = IF res[t] # READ_BLOCK_SIZE THEN "done" ELSE "loop"]
    /\ UNCHANGED <<size, srcSize, status, pc, buf, stage, len, res, src_off, count,
                   kernVars, batch, scan>>

\* Lines 419-433: pthread_join every thread, then close the files.
JoinAndClose ==
    /\ pc = "join"
    /\ \A t \in Threads : tpc[t] = "done"
    /\ CloseFiles(srcSize)
    /\ UNCHANGED progVars

Thread(t) == ThreadRead(t) \/ ThreadWrite(t)

Next == Open \/ JoinAndClose \/ \E t \in Threads : Thread(t)

\* Each thread runs on a hardware thread of its own and never blocks.
Spec == Init /\ [][Next]_vars /\ WF_vars(Open \/ JoinAndClose)
                              /\ \A t \in Threads : WF_vars(Thread(t))

=============================================================================
