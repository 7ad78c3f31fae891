----------------------------- MODULE CopyFiles -----------------------------
(***************************************************************************)
(* What the file-copy programs share: the two files, the helpers of        *)
(* common.h (src/unnamed/part_001 lines 1-106: open_src_file,              *)
(* open_dst_file, close_src_dst_files) and the kernel's side of the       *)
(* asynchronous requests, which it completes one at a time and in any     *)
(* order.  A program module EXTENDS this one and adds its main loop; the  *)
(* variables it does not use keep their initial values.                   *)
(*                                                                         *)
(* Data: byte o of the source holds the value o, so a destination byte    *)
(* is right exactly when it holds its own offset.  Zero is a byte          *)
(* fallocate or ftruncate leaves; Junk a byte of a buffer aligned_alloc   *)
(* returned and nothing has read into yet.  READ_BLOCK_SIZE and sizes are *)
(* scaled down together (4096 bytes -> READ_BLOCK_SIZE units).  File      *)
(* sizes stay below 2^32, so the uint32_t src_size keeps st_size intact.   *)
(***************************************************************************)
EXTENDS Integers, Sequences, FiniteSets

CONSTANTS
    Sizes,            \* st_size of the source file
    READ_BLOCK_SIZE,  \* block of every read (4096)
    QUEUE_SIZE,       \* requests in flight (16)
    NUM_THREADS       \* thread-pool threads (2)

ASSUME /\ Sizes \subseteq Nat /\ Sizes # {}
       /\ READ_BLOCK_SIZE \in Nat \ {0}
       /\ QUEUE_SIZE \in Nat \ {0} /\ NUM_THREADS \in Nat \ {0}

Zero == -1
Junk == -2
Larger(a, b) == IF a > b THEN a ELSE b
Smaller(a, b) == IF a < b THEN a ELSE b
MaxSize == CHOOSE s \in Sizes : \A t \in Sizes : s >= t
Offsets == 0..(MaxSize + 2 * READ_BLOCK_SIZE)
Slots == 0..(Larger(QUEUE_SIZE, NUM_THREADS) - 1)   \* cells or threads
Block == 0..(READ_BLOCK_SIZE - 1)

VARIABLES
    size,       \* st_size of the source
    srcSize,    \* the program's uint32_t src_size
    dst,        \* the destination's bytes
    dstLen,     \* the destination's length
    status,     \* "running", "success" or "failure" (exit(EXIT_FAILURE))
    pc,         \* where main is
    buf,        \* per cell or thread: its READ_BLOCK_SIZE buffer
    stage,      \* per cell: "idle", "read" or "write" (opcode / BlockStage)
    off,        \* per cell or thread: file offset of its request
    len,        \* per cell: byte count of its request
    res,        \* per cell or thread: result of its last read or write
    src_off,    \* next source offset to read (src_off, or i of sync-cp)
    count,      \* requests in progress (num_io_reqs, num_block_in_progress)
    sq,         \* cells prepared and not yet submitted (SQEs, submit_list)
    inflight,   \* cells whose request the kernel has not completed
    cq,         \* completed cells, in completion order (CQ ring, events)
    tpc,        \* per thread of the pool: where it is
    batch,      \* the events io_getevents returned, still to handle
    scan        \* aio_i of posix-aio-cp's scan

fileVars == <<size, srcSize, dst, dstLen, status>>
cellVars == <<buf, stage, off, len, res>>
kernVars == <<sq, inflight, cq>>
progVars == <<cellVars, src_off, count, kernVars, tpc, batch, scan>>
vars == <<fileVars, pc, progVars>>

\* Bytes a read of n bytes at offset o returns (0 at and past the end).
ReadBytes(o, n) == IF o >= size THEN 0 ELSE Smaller(n, size - o)

\* A buffer after k bytes were read into it from offset o.
Fill(b, o, k) == [j \in Block |-> IF j < k THEN o + j ELSE b[j]]

\* The destination after k bytes of b were written at offset o.
WriteAt(d, b, o, k) == [x \in Offsets |-> IF o <= x /\ x < o + k THEN b[x - o] ELSE d[x]]

-----------------------------------------------------------------------------
\* main's start: both files opened; nothing read, nothing in flight.
Init ==
    /\ size \in Sizes /\ srcSize = size
    /\ dst = [o \in Offsets |-> Zero] /\ dstLen = 0
    /\ status = "running" /\ pc = "open"
    /\ buf = [s \in Slots |-> [j \in Block |-> Junk]]
    /\ stage = [s \in Slots |-> "idle"]
    /\ off = [s \in Slots |-> 0] /\ len = off /\ res = off
    /\ src_off = 0 /\ count = 0
    /\ sq = {} /\ inflight = {} /\ cq = <<>>
    /\ tpc = [s \in Slots |-> "idle"] /\ batch = <<>> /\ scan = 0

\* open_src_file and open_dst_file (lines 24-67): O_TRUNC empties the
\* destination and fallocate(fd, 0, 0, src_size) sizes it; fallocate
\* rejects a length of 0 with EINVAL, and the program exits.
OpenFiles(next) ==
    /\ pc = "open"
    /\ IF srcSize = 0
       THEN status' = "failure" /\ pc' = "exit" /\ UNCHANGED dstLen
       ELSE dstLen' = srcSize /\ pc' = next /\ UNCHANGED status
    /\ UNCHANGED <<size, srcSize, dst>>

\* close_src_dst_files (lines 69-104): ftruncate(dst_fd, src_size) with
\* the size it is given, fsync, close; main then returns EXIT_SUCCESS.
CloseFiles(n) ==
    /\ dstLen' = n
    /\ dst' = [o \in Offsets |-> IF o < n THEN dst[o] ELSE Zero]
    /\ status' = "success" /\ pc' = "exit"
    /\ UNCHANGED <<size, srcSize>>

\* The kernel completes cell c's request: a read fills its buffer from the
\* source, a write stores its buffer into the destination; the result is
\* the byte count.  Requests complete in any order.
Complete(c) ==
    /\ c \in inflight
    /\ IF stage[c] = "read"
       THEN LET n == ReadBytes(off[c], len[c]) IN
            /\ buf' = [buf EXCEPT ![c] = Fill(@, off[c], n)]
            /\ res' = [res EXCEPT ![c] = n]
            /\ UNCHANGED <<dst, dstLen>>
       ELSE /\ dst' = WriteAt(dst, buf[c], off[c], len[c])
            /\ dstLen' = Larger(dstLen, off[c] + len[c])
            /\ res' = [res EXCEPT ![c] = len[c]]
            /\ UNCHANGED buf
    /\ inflight' = inflight \ {c}
    /\ cq' = Append(cq, c)
    /\ UNCHANGED <<size, srcSize, status, pc, stage, off, len, src_off, count,
                   sq, tpc, batch, scan>>

Kernel == \E c \in inflight : Complete(c)

-----------------------------------------------------------------------------
(* Properties every program is checked against. *)

\* The destination is the source: what main's EXIT_SUCCESS claims.
DstIsCopy == dstLen = size /\ \A o \in 0..(size - 1) : dst[o] = o

\* A copy that reports success has copied the file: when the program
\* returns EXIT_SUCCESS after close_src_dst_files, the destination has the
\* source's length and every byte of it.
CopyCorrect == status = "success" => DstIsCopy

=============================================================================
