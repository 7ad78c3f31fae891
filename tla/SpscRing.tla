------------------------------ MODULE SpscRing ------------------------------
(***************************************************************************)
(* The lock-free single-producer single-consumer ring of                   *)
(* src/03_circular_buffer/circular-buffer.c and its benchmark: the         *)
(* producer enqueues snd_i = 0, 1, ..., NUM_ITERATIONS-1, the consumer     *)
(* dequeues them and exits with failure if one arrives out of order.       *)
(*                                                                         *)
(* Both variants of the ring are modelled: queue_enqueue_simple /          *)
(* queue_dequeue_simple (ENABLE_SIMPLE == 1), which load the other side's  *)
(* index on every call, and queue_enqueue / queue_dequeue, which keep a    *)
(* cached copy of it and reload only when the copy says full or empty.     *)
(* The build is chosen at Init from Builds and fixed for the run.          *)
(*                                                                         *)
(* head and tail are _Atomic uint32_t and never reduced: they count modulo *)
(* 2^32, and the code relies on unsigned subtraction (tail - head) and on  *)
(* the mask tail & (size - 1) across the wrap.  Width scales the 32 bits   *)
(* down so that the wrap happens within NUM_ITERATIONS; the arithmetic is  *)
(* the same modulo 2^Width.  Every access to head, tail and a data slot is *)
(* one step (sequentially consistent execution).                           *)
(***************************************************************************)
EXTENDS Integers

CONSTANTS
    QUEUE_SIZE,       \* slots of the ring
    NUM_ITERATIONS,   \* elements sent
    NUM_RETRIES,      \* failed calls between two pthread_yield()s
    Width,            \* bits of head and tail (uint32_t)
    Builds            \* subset of {"simple", "cached"}

Modulus == 2^Width

ASSUME /\ Width \in Nat \ {0}
       /\ QUEUE_SIZE \in {2^k : k \in 0..Width}
       /\ NUM_ITERATIONS \in Nat \ {0}
       /\ NUM_RETRIES \in Nat \ {0}
       /\ Builds \subseteq {"simple", "cached"} /\ Builds # {}

VARIABLES
    build,        \* ENABLE_SIMPLE of the program that runs
    data,         \* queue->data, indexed by slot
    head, tail,   \* queue->head, queue->tail
    cached_head,  \* producer's copy of head (cached build)
    cached_tail,  \* consumer's copy of tail (cached build)
    ppc, cpc,     \* program counters of the producer and the consumer
    snd_i,        \* the producer's loop counter, the element it sends
    rcv_i,        \* the consumer's loop counter, the element it expects
    p_tail,       \* the tail the producer's current enqueue loaded
    c_head,       \* the head the consumer's current dequeue loaded
    elem,         \* the consumer's local snd_i, filled by the dequeue
    p_retry, c_retry,  \* the local retry counters
    exitStatus    \* "running", "success" (main returns) or "failure"

vars == <<build, data, head, tail, cached_head, cached_tail, ppc, cpc, snd_i,
          rcv_i, p_tail, c_head, elem, p_retry, c_retry, exitStatus>>

\* Fault variant: the difference taken as a signed, unwrapped integer.
DistanceSigned(t, h) == t - h

\* tail - head on uint32_t, and the slot of an index (index & (size - 1)).
Distance(t, h) == (t - h) % Modulus
Slot(x) == x % QUEUE_SIZE

\* Fault variant: the ring counted full one element late.
IsFullOffByOne(t, h) == Distance(t, h) = QUEUE_SIZE + 1

\* The capacity test tail - head == queue->size (lines 81, 87, 128).
IsFull(t, h) == Distance(t, h) = QUEUE_SIZE

-----------------------------------------------------------------------------
\* queue_init (lines 55-75) with a power-of-two size: calloc'd data, all
\* indices 0.
queue_init ==
    /\ data = [s \in 0..(QUEUE_SIZE - 1) |-> 0]
    /\ head = 0 /\ tail = 0
    /\ cached_head = 0 /\ cached_tail = 0

\* main (lines 264-320): the queue, then the producer (thread 0) and the
\* consumer (thread 1) started in thread_func.
Init ==
    /\ build \in Builds
    /\ queue_init
    /\ ppc = "enq" /\ cpc = "deq"
    /\ snd_i = 0 /\ rcv_i = 0
    /\ p_tail = 0 /\ c_head = 0 /\ elem = 0
    /\ p_retry = 0 /\ c_retry = 0
    /\ exitStatus = "running"

\* Fault variant: cached_head is never reloaded from head.
CachedEnqHeadNoReload == cached_head

\* queue_enqueue (lines 79-91): the head the capacity test compares with,
\* reloaded into cached_head only when the cached one says full.
CachedEnqHead ==
    IF IsFull(tail, cached_head) THEN head ELSE cached_head

\* queue_enqueue_simple (lines 122-132) loads head on every call.
EnqHead == IF build = "simple" THEN head ELSE CachedEnqHead

\* queue_dequeue (lines 101-112): the tail the emptiness test compares
\* with, reloaded into cached_tail only when the cached one equals head.
CachedDeqTail == IF cached_tail = head THEN tail ELSE cached_tail

\* queue_dequeue_simple (lines 147-154) loads tail on every call.
DeqTail == IF build = "simple" THEN tail ELSE CachedDeqTail

\* Fault variant: the count is never reset after the yield.
NextRetryNoReset(r) == r + 1

\* The do/while around a failed call (lines 183-189, 210-216): count the
\* retry, and after NUM_RETRIES of them reset the count and yield.
NextRetry(r) == IF r + 1 = NUM_RETRIES THEN 0 ELSE r + 1

Running == exitStatus = "running"

\* The enqueue finds the ring full and returns false.
EnqueueFull ==
    /\ Running /\ ppc = "enq"
    /\ IsFull(tail, EnqHead)
    /\ cached_head' = IF build = "cached" THEN CachedEnqHead ELSE cached_head
    /\ p_retry' = NextRetry(p_retry)
    /\ UNCHANGED <<build, data, head, tail, cached_tail, ppc, cpc, snd_i,
                   rcv_i, p_tail, c_head, elem, c_retry, exitStatus>>

\* The enqueue finds room at tail.
EnqueueRoom ==
    /\ Running /\ ppc = "enq"
    /\ ~IsFull(tail, EnqHead)
    /\ cached_head' = IF build = "cached" THEN CachedEnqHead ELSE cached_head
    /\ p_tail' = tail
    /\ ppc' = "write"
    /\ UNCHANGED <<build, data, head, tail, cached_tail, cpc, snd_i, rcv_i,
                   c_head, elem, p_retry, c_retry, exitStatus>>

\* queue->data[tail & (size - 1)] = elem (lines 93, 135).
EnqueueWrite ==
    /\ Running /\ ppc = "write"
    /\ data' = [data EXCEPT ![Slot(p_tail)] = snd_i]
    /\ ppc' = "publish"
    /\ UNCHANGED <<build, head, tail, cached_head, cached_tail, cpc, snd_i,
                   rcv_i, p_tail, c_head, elem, p_retry, c_retry, exitStatus>>

\* The release store tail + 1 (lines 94, 138), the call returns true and
\* thread_producer moves to the next element (lines 172-192).
EnqueuePublish ==
    /\ Running /\ ppc = "publish"
    /\ tail' = (p_tail + 1) % Modulus
    /\ snd_i' = snd_i + 1
    /\ ppc' = IF snd_i + 1 < NUM_ITERATIONS THEN "enq" ELSE "done"
    /\ p_retry' = 0
    /\ UNCHANGED <<build, data, head, cached_head, cached_tail, cpc, rcv_i,
                   p_tail, c_head, elem, c_retry, exitStatus>>

\* The dequeue finds the ring empty and returns false.
DequeueEmpty ==
    /\ Running /\ cpc = "deq"
    /\ DeqTail = head
    /\ cached_tail' = IF build = "cached" THEN CachedDeqTail ELSE cached_tail
    /\ c_retry' = NextRetry(c_retry)
    /\ UNCHANGED <<build, data, head, tail, cached_head, ppc, cpc, snd_i,
                   rcv_i, p_tail, c_head, elem, p_retry, exitStatus>>

\* The dequeue finds an element at head.
DequeueFound ==
    /\ Running /\ cpc = "deq"
    /\ DeqTail # head
    /\ cached_tail' = IF build = "cached" THEN CachedDeqTail ELSE cached_tail
    /\ c_head' = head
    /\ cpc' = "read"
    /\ UNCHANGED <<build, data, head, tail, cached_head, ppc, snd_i, rcv_i,
                   p_tail, elem, p_retry, c_retry, exitStatus>>

\* *elem = queue->data[head & (size - 1)] (lines 114, 157).
DequeueRead ==
    /\ Running /\ cpc = "read"
    /\ elem' = data[Slot(c_head)]
    /\ cpc' = "publish"
    /\ UNCHANGED <<build, data, head, tail, cached_head, cached_tail, ppc,
                   snd_i, rcv_i, p_tail, c_head, p_retry, c_retry, exitStatus>>

\* The release store head + 1 (lines 115, 160), then thread_consumer's
\* comparison (lines 220-225): a wrong element exits the process.
DequeuePublish ==
    /\ Running /\ cpc = "publish"
    /\ head' = (c_head + 1) % Modulus
    /\ rcv_i' = rcv_i + 1
    /\ cpc' = IF rcv_i + 1 < NUM_ITERATIONS THEN "deq" ELSE "done"
    /\ c_retry' = 0
    /\ exitStatus' = IF elem # rcv_i THEN "failure" ELSE "running"
    /\ UNCHANGED <<build, data, tail, cached_head, cached_tail, ppc, snd_i,
                   p_tail, c_head, elem, p_retry>>

\* main joins both threads and returns EXIT_SUCCESS (lines 322-333).
MainJoin ==
    /\ Running /\ ppc = "done" /\ cpc = "done"
    /\ exitStatus' = "success"
    /\ UNCHANGED <<build, data, head, tail, cached_head, cached_tail, ppc, cpc,
                   snd_i, rcv_i, p_tail, c_head, elem, p_retry, c_retry>>

Producer == EnqueueFull \/ EnqueueRoom \/ EnqueueWrite \/ EnqueuePublish
Consumer == DequeueEmpty \/ DequeueFound \/ DequeueRead \/ DequeuePublish

Next == Producer \/ Consumer \/ MainJoin

\* Each thread is pinned to its own hardware thread (line 299) and only
\* yields, so each keeps taking steps; main waits in pthread_join.
Spec == Init /\ [][Next]_vars
             /\ WF_vars(Producer) /\ WF_vars(Consumer) /\ WF_vars(MainJoin)


-----------------------------------------------------------------------------
(* Properties *)

TypeOK ==
    /\ build \in Builds
    /\ data \in [0..(QUEUE_SIZE - 1) -> 0..(NUM_ITERATIONS - 1)]
    /\ {head, tail, cached_head, cached_tail, p_tail, c_head} \subseteq 0..(Modulus - 1)
    /\ ppc \in {"enq", "write", "publish", "done"}
    /\ cpc \in {"deq", "read", "publish", "done"}
    /\ snd_i \in 0..NUM_ITERATIONS /\ rcv_i \in 0..NUM_ITERATIONS
    /\ elem \in 0..(NUM_ITERATIONS - 1)
    /\ {p_retry, c_retry} \subseteq 0..(NUM_RETRIES - 1)
    /\ exitStatus \in {"running", "success", "failure"}

\* The comparison in thread_consumer (line 221) never fails: the consumer
\* receives 0, 1, 2, ... in order, across the wrap of head and tail,
\* whichever build runs.
ElementsInOrder == exitStatus # "failure"

\* The published part of the ring, slots head .. tail - 1 read from data,
\* behaves as a bounded FIFO of QUEUE_SIZE values: a step of either thread
\* appends one value at the back, removes the front one, or leaves it
\* alone; in particular the producer never overwrites a slot the consumer
\* has not released, and never publishes a slot it has not written.
Published ==
    [k \in 1..Distance(tail, head) |-> data[Slot(head + k - 1)]]
Q == INSTANCE BoundedQueue
         WITH Capacity <- QUEUE_SIZE, Values <- 0..(NUM_ITERATIONS - 1),
              queue <- Published
ImplementsQueue == Q!Spec

\* Both threads finish and main returns EXIT_SUCCESS: neither side keeps
\* retrying forever against a stale cached index.
AllDelivered == <>(exitStatus = "success")

=============================================================================
