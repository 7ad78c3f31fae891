------------------------------ MODULE SeqLock ------------------------------
(***************************************************************************)
(* The seqlock benchmark of src/03_readers_writers/seqlock.c: writers      *)
(* take the lock by a CAS of the sequence counter from even to odd, add    *)
(* ONE_INCREMENT to a 64-bit value kept as two 32-bit halves (high stored  *)
(* first, then low) and release by storing seq0 + 2; readers read the      *)
(* counter, both halves and the counter again, and retry when the two      *)
(* counter values differ or are odd.  Readers loop until they see the     *)
(* final total.                                                            *)
(*                                                                         *)
(* seq0 in thread_writer is declared without an initializer inside the    *)
(* loop and tested (seq0 & 1U) before the first CAS writes it.  Reading   *)
(* it is undefined; the build keeps it in one register or stack slot, so  *)
(* the first iteration sees some value from Seq0Garbage and each later    *)
(* iteration the value the previous one left there.                       *)
(*                                                                         *)
(* HalfBase stands for 2^32, the base of the split into high and low;     *)
(* with ONE_INCREMENT it is scaled so that an increment carries into high. *)
(* Every atomic access is one step (sequentially consistent execution).   *)
(***************************************************************************)
EXTENDS Integers, FiniteSets

CONSTANTS
    Writers, Readers,
    NUM_ITERATIONS,   \* sections per writer
    ONE_INCREMENT,    \* what a writer adds
    HalfBase,         \* 2^32: value = high * HalfBase + low
    Seq0Garbage       \* values the uninitialised seq0 may hold

ASSUME /\ NUM_ITERATIONS \in Nat \ {0}
       /\ ONE_INCREMENT \in Nat \ {0}
       /\ HalfBase \in Nat \ {0, 1}
       /\ Seq0Garbage \subseteq Nat /\ Seq0Garbage # {}

VARIABLES
    seqlock, low, high,   \* the shared words of main
    wpc, seq0, current,   \* per writer: pc, local seq0, local current
    wi,                   \* per writer: loop counter i
    rpc, rseq0, rlow, rhigh,  \* per reader: pc and the values it loaded
    copy,                 \* per reader: args->copy
    exitStatus            \* "running" or "success" (main returns)

vars == <<seqlock, low, high, wpc, seq0, current, wi, rpc, rseq0, rlow,
          rhigh, copy, exitStatus>>

Value(h, l) == h * HalfBase + l
Odd(x) == x % 2 = 1
\* The writer's section, from its CAS to its release store (lines 67-76).
WriteSection == {"read", "store_high", "store_low", "release"}
Total == Cardinality(Writers) * NUM_ITERATIONS * ONE_INCREMENT

-----------------------------------------------------------------------------
\* main (lines 132-206): the words zeroed, args[i].copy = 0, every thread
\* started.
Init ==
    /\ seqlock = 0 /\ low = 0 /\ high = 0
    /\ wpc = [w \in Writers |-> "test"]
    /\ seq0 \in [Writers -> Seq0Garbage]
    /\ current = [w \in Writers |-> 0]
    /\ wi = [w \in Writers |-> 0]
    /\ rpc = [r \in Readers |-> "seq0"]
    /\ rseq0 = [r \in Readers |-> 0]
    /\ rlow = [r \in Readers |-> 0]
    /\ rhigh = [r \in Readers |-> 0]
    /\ copy = [r \in Readers |-> 0]
    /\ exitStatus = "running"

WriterVars == <<wpc, seq0, current, wi>>
ReaderVars == <<rpc, rseq0, rlow, rhigh, copy>>

\* The loop condition of lines 53-57 with an odd seq0: the CAS is skipped
\* and the writer sleeps (lines 60-64) without reloading seq0.
WriterSeesOdd(w) ==
    /\ wpc[w] = "test" /\ Odd(seq0[w])
    /\ wpc' = [wpc EXCEPT ![w] = "sleep"]
    /\ UNCHANGED <<seqlock, low, high, seq0, current, wi, ReaderVars, exitStatus>>

\* The CAS fails and stores the counter's value into seq0; sleep.
WriterCasFails(w) ==
    /\ wpc[w] = "test" /\ ~Odd(seq0[w])
    /\ seqlock # seq0[w]
    /\ seq0' = [seq0 EXCEPT ![w] = seqlock]
    /\ wpc' = [wpc EXCEPT ![w] = "sleep"]
    /\ UNCHANGED <<seqlock, low, high, current, wi, ReaderVars, exitStatus>>

\* The CAS from seq0 to seq0 + 1 succeeds: the writer holds the lock.
WriterAcquires(w) ==
    /\ wpc[w] = "test" /\ ~Odd(seq0[w])
    /\ seqlock = seq0[w]
    /\ seqlock' = seq0[w] + 1
    /\ wpc' = [wpc EXCEPT ![w] = "read"]
    /\ UNCHANGED <<low, high, seq0, current, wi, ReaderVars, exitStatus>>

\* nanosleep, then the loop condition again.
WriterSleep(w) ==
    /\ wpc[w] = "sleep"
    /\ wpc' = [wpc EXCEPT ![w] = "test"]
    /\ UNCHANGED <<seqlock, low, high, seq0, current, wi, ReaderVars, exitStatus>>

\* Lines 67-70: current = (high << 32) | low, plus ONE_INCREMENT.
WriterRead(w) ==
    /\ wpc[w] = "read"
    /\ current' = [current EXCEPT ![w] = Value(high, low) + ONE_INCREMENT]
    /\ wpc' = [wpc EXCEPT ![w] = "store_high"]
    /\ UNCHANGED <<seqlock, low, high, seq0, wi, ReaderVars, exitStatus>>

\* Line 72: high = current >> 32.
WriterStoreHigh(w) ==
    /\ wpc[w] = "store_high"
    /\ high' = current[w] \div HalfBase
    /\ wpc' = [wpc EXCEPT ![w] = "store_low"]
    /\ UNCHANGED <<seqlock, low, seq0, current, wi, ReaderVars, exitStatus>>

\* Line 73: low = current & 0xFFFFFFFF.
WriterStoreLow(w) ==
    /\ wpc[w] = "store_low"
    /\ low' = current[w] % HalfBase
    /\ wpc' = [wpc EXCEPT ![w] = "release"]
    /\ UNCHANGED <<seqlock, high, seq0, current, wi, ReaderVars, exitStatus>>

\* Line 76, the release store seq0 + 2, and the for loop of line 48; the
\* next iteration's seq0 is the same storage, still holding this seq0.
WriterRelease(w) ==
    /\ wpc[w] = "release"
    /\ seqlock' = seq0[w] + 2
    /\ wi' = [wi EXCEPT ![w] = @ + 1]
    /\ wpc' = [wpc EXCEPT ![w] = IF wi[w] + 1 < NUM_ITERATIONS THEN "test" ELSE "done"]
    /\ UNCHANGED <<low, high, seq0, current, ReaderVars, exitStatus>>

\* Line 99: the first, acquire load of the counter.
ReaderSeq0(r) ==
    /\ rpc[r] = "seq0"
    /\ rseq0' = [rseq0 EXCEPT ![r] = seqlock]
    /\ rpc' = [rpc EXCEPT ![r] = "low"]
    /\ UNCHANGED <<seqlock, low, high, WriterVars, rlow, rhigh, copy, exitStatus>>

\* Line 101.
ReaderLow(r) ==
    /\ rpc[r] = "low"
    /\ rlow' = [rlow EXCEPT ![r] = low]
    /\ rpc' = [rpc EXCEPT ![r] = "high"]
    /\ UNCHANGED <<seqlock, low, high, WriterVars, rseq0, rhigh, copy, exitStatus>>

\* Line 102.
ReaderHigh(r) ==
    /\ rpc[r] = "high"
    /\ rhigh' = [rhigh EXCEPT ![r] = high]
    /\ rpc' = [rpc EXCEPT ![r] = "seq1"]
    /\ UNCHANGED <<seqlock, low, high, WriterVars, rseq0, rlow, copy, exitStatus>>

\* The check of lines 105-110 without the parity test: an odd counter
\* seen twice is taken for a stable value.
ReaderSeq1NoParity(r) ==
    /\ rpc[r] = "seq1"
    /\ IF rseq0[r] # seqlock
       THEN /\ rpc' = [rpc EXCEPT ![r] = "seq0"]
            /\ UNCHANGED copy
       ELSE /\ copy' = [copy EXCEPT ![r] = Value(rhigh[r], rlow[r])]
            /\ rpc' = [rpc EXCEPT ![r] = "sleep"]
    /\ UNCHANGED <<seqlock, low, high, WriterVars, rseq0, rlow, rhigh, exitStatus>>

\* Lines 105-110: the second load of the counter (fetch_add of 0); retry
\* when it differs from the first or the first was odd, else keep the copy.
ReaderSeq1(r) ==
    /\ rpc[r] = "seq1"
    /\ IF rseq0[r] # seqlock \/ Odd(rseq0[r])
       THEN /\ rpc' = [rpc EXCEPT ![r] = "seq0"]
            /\ UNCHANGED copy
       ELSE /\ copy' = [copy EXCEPT ![r] = Value(rhigh[r], rlow[r])]
            /\ rpc' = [rpc EXCEPT ![r] = "sleep"]
    /\ UNCHANGED <<seqlock, low, high, WriterVars, rseq0, rlow, rhigh, exitStatus>>

\* Lines 113-119: nanosleep, and stop once the copy is the final total.
ReaderSleep(r) ==
    /\ rpc[r] = "sleep"
    /\ rpc' = [rpc EXCEPT ![r] = IF copy[r] # Total THEN "seq0" ELSE "done"]
    /\ UNCHANGED <<seqlock, low, high, WriterVars, rseq0, rlow, rhigh, copy, exitStatus>>

\* main joins every thread and returns EXIT_SUCCESS (lines 208-229).
MainJoin ==
    /\ exitStatus = "running"
    /\ \A w \in Writers : wpc[w] = "done"
    /\ \A r \in Readers : rpc[r] = "done"
    /\ exitStatus' = "success"
    /\ UNCHANGED <<seqlock, low, high, WriterVars, ReaderVars>>

Writer(w) ==
    \/ WriterSeesOdd(w) \/ WriterCasFails(w) \/ WriterAcquires(w)
    \/ WriterSleep(w) \/ WriterRead(w) \/ WriterStoreHigh(w)
    \/ WriterStoreLow(w) \/ WriterRelease(w)

Reader(r) ==
    \/ ReaderSeq0(r) \/ ReaderLow(r) \/ ReaderHigh(r) \/ ReaderSeq1(r)
    \/ ReaderSleep(r)

Next == (\E w \in Writers : Writer(w)) \/ (\E r \in Readers : Reader(r)) \/ MainJoin

\* main pins the threads to hardware threads (lines 165-187) and none of
\* them blocks, so each keeps taking steps.
Spec == Init /\ [][Next]_vars
             /\ \A w \in Writers : WF_vars(Writer(w))
             /\ \A r \in Readers : WF_vars(Reader(r))
             /\ WF_vars(MainJoin)

-----------------------------------------------------------------------------
(* Properties *)

TypeOK ==
    /\ seqlock \in Nat /\ low \in 0..(HalfBase - 1) /\ high \in Nat
    /\ wpc \in [Writers -> {"test", "sleep", "read", "store_high", "store_low",
                            "release", "done"}]
    /\ wi \in [Writers -> 0..NUM_ITERATIONS]
    /\ rpc \in [Readers -> {"seq0", "low", "high", "seq1", "sleep", "done"}]
    /\ exitStatus \in {"running", "success"}

\* A reader keeps only an untorn value: whenever thread_reader stores into
\* args->copy (line 108), the value it assembled from the low and high it
\* loaded is the value the two shared words hold at that moment, i.e. no
\* writer's two stores (lines 72-73) fell between its loads.
NoTornRead ==
    [][\A r \in Readers : copy'[r] # copy[r] => copy'[r] = Value(high, low)]_vars

\* Every writer completes its NUM_ITERATIONS sections, so main's
\* pthread_join (lines 209-217) returns for each of them.
WritersFinish == <>(\A w \in Writers : wpc[w] = "done")

=============================================================================
