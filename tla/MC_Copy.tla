------------------------------ MODULE MC_Copy ------------------------------
(***************************************************************************)
(* The file-copy programs (sync-cp, thread-pool-cp, io-uring-cp,           *)
(* linux-aio-cp, posix-aio-cp) in one harness: Init picks the program and  *)
(* the source size, the steps are that program's steps and, for the       *)
(* asynchronous ones, the kernel's completions.  All five share the        *)
(* variables of CopyFiles.                                                 *)
(***************************************************************************)
EXTENDS CopyFiles

CONSTANT Progs   \* the programs of a run

VARIABLE prog

Sync   == INSTANCE SyncCopy
Pool   == INSTANCE ThreadPoolCopy
Uring  == INSTANCE UringCopy
Libaio == INSTANCE LibaioCopy
Posix  == INSTANCE PosixAioCopy

Async == {"uring", "libaio", "posix"}
mvars == <<prog, vars>>

MCInit == prog \in Progs /\ Init

SyncStep      == prog = "sync"   /\ Sync!Next            /\ UNCHANGED prog
PoolMain      == prog = "pool"   /\ (Pool!Open \/ Pool!JoinAndClose) /\ UNCHANGED prog
PoolThread(t) == prog = "pool"   /\ Pool!Thread(t)       /\ UNCHANGED prog
UringMain     == prog = "uring"  /\ Uring!Main           /\ UNCHANGED prog
LibaioMain    == prog = "libaio" /\ Libaio!Main          /\ UNCHANGED prog
PosixMain     == prog = "posix"  /\ Posix!Main           /\ UNCHANGED prog
KernelStep(c) == prog \in Async  /\ Complete(c)          /\ UNCHANGED prog

MCNext ==
    \/ SyncStep \/ PoolMain \/ UringMain \/ LibaioMain \/ PosixMain
    \/ \E t \in Pool!Threads : PoolThread(t)
    \/ \E c \in Uring!Cells : KernelStep(c)

\* Each program's fairness: main and every pool thread keep running while
\* they can, and the kernel completes every request it holds.
MCSpec ==
    /\ MCInit /\ [][MCNext]_mvars
    /\ WF_mvars(SyncStep) /\ WF_mvars(PoolMain) /\ WF_mvars(UringMain)
    /\ WF_mvars(LibaioMain) /\ WF_mvars(PosixMain)
    /\ \A t \in Pool!Threads : WF_mvars(PoolThread(t))
    /\ \A c \in Uring!Cells : WF_mvars(KernelStep(c))

-----------------------------------------------------------------------------
(* Properties *)

TypeOK ==
    /\ prog \in Progs
    /\ status \in {"running", "success", "failure"}
    /\ dst \in [Offsets -> Offsets \cup {Zero, Junk}]
    /\ dstLen \in Offsets /\ src_off \in Offsets
    /\ count \in 0..QUEUE_SIZE
    /\ sq \cup inflight \subseteq Uring!Cells
    /\ cq \in Seq(Uring!Cells) /\ batch \in Seq(Uring!Cells)

\* The programs that keep src_size as st_size give an exact copy whenever
\* they return EXIT_SUCCESS (linux-aio-cp and posix-aio-cp do not: see
\* the aio_padding run).
ExactCopy == prog \in {"sync", "pool", "uring"} => CopyCorrect

\* main reaches close_src_dst_files, and frees the buffers and the ring,
\* only when the kernel holds no request of it: none prepared and not
\* submitted, none submitted and not completed.  (exit(EXIT_FAILURE) may
\* leave requests behind; the process ends with them.)
NothingInFlightAtClose == status = "success" => sq = {} /\ inflight = {}

\* Every copy ends: main returns or exits.
Terminates == <>(pc = "exit")

=============================================================================
