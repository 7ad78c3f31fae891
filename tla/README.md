# TLA+ models of networking-howto

This directory holds TLA+ models of the C programs in `src/`, and the TLC
configurations that check them. Each module is written from the C source.
`PROJECT.json` maps every modelled definition to the source lines it
translates. It also lists the runs, the mutants that each checked property
must catch, the findings, and the hazards of the code.

## The system

The repository is a set of teaching programs about concurrency and I/O on Linux.

| Part | Source | State it keeps | Operations |
|---|---|---|---|
| poll file-share server | `05_stream_mutliplexing/server/server-poll.c` 1-220 | `conns[max_conns]` (state, socket, offset), `pollfds`, `num_active_clients`, `num_connected_clients` | loop test, pollfd set-up, `poll()`, accept one client, per-slot HUP/OUT handling |
| multiplexing library (`server-common-multiplexing.h`) | `server-poll.c` 221-542 | source file fd and size, listen socket, `received_sigint` | `server_send_file_size`, `server_send_file_block`, accept, close, SIGINT handler |
| epoll file-share server | `unnamed/part_000` | as poll, plus the kernel interest list and `accept_new_connections_prev` | loop test, listener removal, `epoll_wait()`, per-event handling |
| file-share client | `05_tcp_multiplexing/client/client.c` | socket, destination file, offset, size | connect with retry, receive the size, receive blocks, reconnect on failure |
| sequential server | `unnamed/part_002` (library: draft `part_004`) | one connection at a time | accept, send the file, close |
| thread-per-connection server | `02_nonblocking_sync/ttas-lock.c` 199-388 | a thread per client | accept, spawn, join |
| spin locks | `tas-lock.c`, `ttas-lock.c` 1-198, `ticket-lock.c` | the lock flag; `next_ticket`/`now_serving` | acquire (spin, back-off), release |
| futex mutexes | `futex.c`, `unnamed/part_006`, `01_pthreads_sync/erm_futex.c` | the futex word (0/1/2; erm: bit flags) | lock, unlock, futex wait/wake |
| seqlock | `03_readers_writers/seqlock.c` | the sequence counter and the two 32-bit halves | write section, read with retry |
| rwlock benchmark | `unnamed/part_005` | a `uint64_t` under `pthread_rwlock_t` | write section (`wrlock`, `+=`, unlock), read until the final total, join |
| SPSC ring buffer | `03_circular_buffer/circular-buffer.c` | `head`, `tail` (uint32), cached copies, the slots | enqueue, dequeue (simple and cached) |
| file copy | `04_async_io/io-uring-cp.c`, `server-poll.c` 543-929, `unnamed/part_001` | in-flight requests and offsets | submit/complete reads and writes |

### How the parts interact

The three server programs serve one file to up to `max_conns` clients over
TCP. Each client receives an 8-byte size header, then the file in blocks of
`TRANSFER_BLOCK_SIZE`. SIGINT sets `received_sigint`. From then on a server
should stop admitting clients, finish the active ones and exit with status 0
(spec.md 4.4 and 8). The servers differ in how they share one process among
the clients:

- The poll and epoll servers use one thread and a readiness loop.
- The sequential server handles one client at a time.
- The thread server starts one thread per client.

The five copy programs each copy one source file into a fresh destination
through `common.h`'s open and close helpers (`part_001`). sync-cp loops
`read`/`write`. thread-pool-cp gives each thread every `NUM_THREADS`-th block.
io-uring-cp, linux-aio-cp and posix-aio-cp keep up to `QUEUE_SIZE` requests in
the kernel, and complete them in whatever order the kernel chooses.

The lock, seqlock and ring programs are independent benchmarks. Each is a
small shared-memory protocol between pinned threads, run a fixed number of
iterations and then joined by `main`.

## Modules

| Module | Models | State and actions |
|---|---|---|
| `FileshareProtocol` | `server-poll.c` 261-352 | No variables. It defines the transfer states and the outcomes of `write(2)` on a blocking socket: full, or, when a signal or reset hits, short, `-1/EINTR` or `-1/ECONNRESET`. The two protocol steps are operators from a connection record and a write outcome to the new record and the success flag. |
| `FileshareKernel` | the environment and the SIGINT flag | Variables: the descriptor table `fdOwner`, the listen backlog, per client `peerReset` and `wire` (stream positions received), the ghost `cause` (what cut a transfer short), and `received_sigint`. Environment steps: connect, reset, SIGINT. |
| `PollServer` | `server-poll.c` 14-48, 54-220, 483-542 | One pass of `while(true)` is split where the kernel or a signal can act: `LoopTop` (exit test, pollfd set-up), `Poll`/`PollInterrupted`, `AcceptStep`, one `ScanConn` per slot, `ScanDone`. `accept()` hands out the lowest free descriptor, or fails with EMFILE. |
| `EpollServer` | `unnamed/part_000` | The interest list is the variable `interest`. `LoopTop` removes the listener the first time admission stops. `EpollWait` returns a batch of ready tags in any order. `AcceptEvent` and `ConnEvent` handle one event each. A socket is deregistered before it is closed. |
| `ServerCommon` | `unnamed/part_004` (`server-common.h`) | The calls the blocking servers make on a connection. A short header write is always a failure, and the block step reports success while the caller loops on the offset. Shared by the next two modules. |
| `SequentialServer` | `unnamed/part_002` | `pc` walks `top → accept → size → block → top`. `Accept` fails with EAGAIN on the non-blocking listen socket. `SendBlock` keeps its `continue` after a failed write. |
| `ThreadServer` | `ttas-lock.c` 199-388 | `main` (`MainLoopTop`, `MainAccept`, `MainJoin`) and one thread per client (`ThreadSize`, `ThreadBlock`), sharing the descriptor table and `exit()`. |
| `FileshareService` | spec.md 4.1-4.4 | The abstract service. Clients take slots in order. An active slot's client gets a longer prefix of the one correct stream. Success only when no slot is active; failure at any time. |
| `TicketLock` | `ticket-lock.c` | `next_ticket`/`now_serving` modulo 2^16, the ticket kept in a `short`. `TakeTicket`, `Enter`, `Load`/`Store` (the two halves of `var++`), `Release`. `StartTicket` puts Init after that many acquisitions. |
| `SpinLock` | `tas-lock.c`, `ttas-lock.c` 1-198 | `lock_kind` ∈ {TAS, TTAS}, chosen at Init. `Begin`, `Test` (TTAS only), `TestAndSet`, `Load`, `Store`, `Release`. |
| `FutexMutex` | `futex.c`, `part_006`, `erm_futex.c` | `build` is a record of the three word values, what unlock subtracts, and whether the word is aligned. `FastPath`, `Exchange`, `FutexWait` (sleeps only if the word is aligned and still `LOCKD_WQ`), `Check`, `Load`, `Store`, `Unlock`, `ReleaseStore`, `Wake`. |
| `RwLock` | `unnamed/part_005` | `rwlock` is the set of readers and the set of writers holding the lock, with glibc's default (reader-preferring) rules: `rdlock` whenever no writer holds it, `wrlock` only when nobody does. Writers: `wrlock`, `WriterLoad`/`WriterStore` (the two halves of `+=`), `WriterUnlock`. Readers: `rdlock`, `ReaderCopy`, `ReaderUnlock` (done only when the copy is the final total). `MainJoin`. |
| `Mutex` | - | The abstract lock: a set of holders, granted only when empty. `TicketLock`, `SpinLock` and `FutexMutex` refine it. |
| `SeqLock` | `seqlock.c` | Writers: `WriterSeesOdd`, `WriterCasFails`, `WriterAcquires`, `WriterSleep`, `WriterRead`, `WriterStoreHigh`, `WriterStoreLow`, `WriterRelease`. Readers: `ReaderSeq0`, `ReaderLow`, `ReaderHigh`, `ReaderSeq1`, `ReaderSleep`. The uninitialised `seq0` starts in `Seq0Garbage`, and each later iteration sees what the previous one left. |
| `SpscRing` | `circular-buffer.c` | `build` ∈ {simple, cached}. Producer: `EnqueueFull` (with the retry count), `EnqueueRoom`, `EnqueueWrite`, `EnqueuePublish`. Consumer: `DequeueEmpty`, `DequeueFound`, `DequeueRead`, `DequeuePublish` (with the order check of line 221). Then `MainJoin`. Indices are taken modulo `2^Width`. |
| `BoundedQueue` | - | The abstract FIFO of capacity `Capacity` that the ring refines. |
| `MC_Locks` | - | The lock benchmarks, the seqlock and the SPSC ring in one harness. `prog` is chosen at Init, and the other programs' variables stay at rest. The seqlock runs with 1 writer and 2 readers, the rwlock with 2 writers of 2 sections and 2 readers. One `Mutex` refinement maps each program's holders (for the seqlock and the rwlock, the writers inside their write sections; the ring holds no lock). The ring is also mapped to `BoundedQueue`. |
| `MC_Servers` | - | The epoll, the thread-per-connection and the sequential servers in one harness (the sequential server's `pc`, `conn` and `client_i` renamed `spc`, `sconn`, `sclient_i`), with `prog` chosen at Init, over one `FileshareKernel` and one `FileshareService` refinement. |
| `Client` | `client.c` | `client_connect_to_server` (refused: sleep and retry), `client_recv_file_size` (`MSG_WAITALL`: all 8 bytes, or reconnect), `client_open_dst_file` (`O_TRUNC`, a new descriptor each time, `fallocate` EINVAL on 0), `client_recv_file_block` (1..BLOCK bytes written with `pwrite` at the offset; 0 reconnects; -1 becomes `SIZE_MAX`, pwrite fails with EFAULT and returns `SIZE_MAX`, and the offset moves back by one modulo `2^SizeWidth`), `client_close_dst_file` (`ftruncate`, `fsync`, `close`). The server end is the stream of header and file: `ServerSends`, `ServerCloses`, and the faults `ServerFails` (closed early or reset) and a refused connect, at most `MaxFaults` in all. |
| `CopyFiles` | `unnamed/part_001` (`common.h`) | State shared by the five copy programs: the source size, the destination bytes and length, and per cell (or thread) a stage, offset, length, buffer and result. The kernel holds the sets `sq` (prepared) and `inflight`, and the sequence `cq` (completed). `OpenFiles` does `fallocate`, which fails with EINVAL on size 0. `CloseFiles(n)` does `ftruncate(n)`. `Complete(c)` is the kernel performing request c. Source byte o holds the value o, so a copy can be compared byte by byte. |
| `SyncCopy` | `part_001` 107-180 | sync-cp: `Open`, `Read`, `Write`, `Close`. |
| `ThreadPoolCopy` | `io-uring-cp.c` 255-434 | thread-pool-cp: `Open` starts the threads. Each thread does `ThreadRead` (`pread`) and `ThreadWrite` (`pwrite`) on the offsets of its stride. Then `JoinAndClose`. |
| `UringCopy` | `io-uring-cp.c` 1-254 | io-uring-cp: `InitReads`, then a loop of `Submit` (`io_uring_submit_and_wait`), `Wait` and `Peek`. A completed read becomes a write (`PrepareWrite`). A completed write refills its cell (`Refill`). |
| `LibaioCopy` | `server-poll.c` 543-739 | linux-aio-cp: `InitReads` (with `RoundUp`), `Submit`, `GetEvents` (1..QUEUE_SIZE events), `HandleEvent`, `LoopTest`, `Close`. |
| `PosixAioCopy` | `server-poll.c` 740-929 | posix-aio-cp: `InitReads`, `LoopTest`, `Suspend` (`aio_suspend`), `ScanCell` (one index of the scan over `wait_list`), `ScanEnd`, `Close`. |
| `MC_Copy` | - | The five copy programs in one harness, with `prog` chosen at Init. |
| other `MC_*` | - | The constants for TLC. |

Most modules also define fault variants of some definitions,
such as a dropped guard or a missing reset. They are not part of `Next`. The
mutants listed in `PROJECT.json` substitute them, to show that each checked
property can tell a broken program from the real one.

## Runs

| Run | Expect | Distinct states | Shows |
|---|---|---|---|
| `poll_core` | pass | 18,610 | Poll server, 2 slots, 3 clients, signals and resets on: the table matches the kernel; no self-inflicted death; success means every client got the file; refines `FileshareService`; admitted clients finish; the server exits when done. |
| `poll_sigint` | violation | - | `ShutdownDrains`: a SIGINT during `poll()` gives EINTR and `exit(EXIT_FAILURE)` with clients mid-transfer. |
| `poll_phantom_slot` | violation | - | `AdmittedFinish`, with one descriptor: an accept that fails during shutdown still marks its slot active with fd -1. The slot is never served and the server never exits. |
| `servers_core` | pass | 29,057 | The epoll server with the poll server's seven properties, including the interest-list bookkeeping, the thread server and the sequential server: each thread writes only to its own socket despite descriptor reuse; success means delivery; all three refine `FileshareService`. |
| `locks` | pass | 127,193 | Ticket, TAS, TTAS, the two futex mutexes (3 threads × 2 iterations), the seqlock (1 writer, 2 readers) and the ring: each lock is a `Mutex`; the count is exact; every ticket holder enters; some spinner always gets in; no lost wake-up; all threads finish; no reader keeps a torn value; the ring (both builds, 2 slots, 3-bit indices, 10 elements) delivers in order, refines `BoundedQueue` and finishes; the rwlock (2 writers × 2 sections, 2 readers) excludes its writers and its readers finish once the writers have. |
| `ticket_sign_wrap` | violation | - | `StarvationFree` with the lock 2 tickets before 32768: the `short` ticket turns negative and its holder spins forever. |
| `seq_block_failure` | violation | - | `FailureStaysLocal`: after a failed block write, part_002 `continue`s, writes to and closes the closed descriptor, and exits on EBADF. |
| `copy_core` | pass | 38,395 | All five copy programs on sources of 0 to 4 blocks, completions in any order: sync, pool and io_uring leave an exact copy when they succeed; nothing is in the kernel at a successful close; every copy ends. |
| `aio_padding` | violation | - | `CopyCorrect`: linux-aio-cp (and posix-aio-cp) truncate the destination to the rounded-up size, so a 1-byte source gives a 2-byte copy and success. |
| `client_core` | pass | 996 | The client, files of 1 to 3 bytes, up to two refused, cut or reset connections: `RoundTrip` ("Received file" means an exact copy) and `ClientSucceeds`. |
| `client_empty_file` | violation | - | `ClientSucceeds` for an empty file: `fallocate` of 0 bytes fails and the client exits with failure. |
| `seqlock_writer_hang` | violation | - | `WritersFinish`: a writer whose CAS fails while the other holds the lock keeps the odd value in `seq0` and sleeps forever. |

### What the properties are about

- `TableMatchesKernel` (poll, epoll): a stale `pollfds` entry or a missed decrement of `num_active_clients` breaks it once a descriptor number is reused.
- `ImplementsService`: the refinement mapping is:
  - the slot status comes from `conns` (or the thread states; for the sequential server, slots below `client_i` are done and slot `client_i` is active from `accept` to the close);
  - `received` is `wire`;
  - `outcome` is `exitStatus`.

  It catches a resent header, a corrupted stream, and any byte sent after a slot is done.
- `SocketOwned` (thread server): thread i's `conn` descriptor is client i's socket for as long as the thread is transferring.
- `ImplementsMutex`: the holders are the threads between acquire and release (for the rwlock, the writers between `wrlock` and unlock). Two of them at once is not a `Mutex` step.
- `ReadersFinish` (rwlock): once both writers are done, every reader eventually copies the final total, leaves its loop, and `main` returns. The readers' exit test is an exact comparison (line 103), so a lost `+=` (a `wrlock` that let a second writer in) leaves them looping forever.
- `NoLostUpdate`: the `var` printed by `main` equals threads × iterations. This fails if `var++`'s load and store interleave inside a broken lock.
- `NoLostWakeup`, `AllFinish` (futex): a thread asleep in `FUTEX_WAIT` is woken, and no thread waits forever.
- `ElementsInOrder` (ring): the consumer's own check at line 221 never fires.
- `ImplementsQueue` (ring): the slots `head .. tail-1` behave as a bounded FIFO. Nothing is overwritten before it is consumed, and nothing is published before it is written. This must hold across the index wrap.
- `AllDelivered` (ring): stale cached indices never stall either thread for good.
- `NoTornRead` (seqlock): whenever a reader's `copy` changes, it becomes `high:low` of the current total. A reader that took `low` and `high` across a writer's two stores must retry. Without the parity test of `seq0` it does not.
- `ExactCopy` (copy): on `EXIT_SUCCESS`, the destination has the source's length and every byte at its own offset. This fails if a buffer is reused before its write is done, if a block is skipped, or if the final `ftruncate` uses the wrong size.
- `NothingInFlightAtClose` (copy): io_uring's loop condition (`src_off != src_size || num_block_in_progress != 0`), libaio's and POSIX aio's `num_io_reqs`, and the pool's join must not let `main` close the files and free the buffers while the kernel still holds a request.
- `RoundTrip` (client): after "Received file" the destination's length is the size and byte o holds o, however `recv` split the stream and however many attempts were cut or reset first. It fails if a reconnect keeps the old offset.
- `ClientSucceeds` (client): with finitely many refused, cut and reset connections the client eventually prints "Received file". It fails if a 0 from `recv` is not taken as a closed connection, and would fail if the leaked descriptors reached `FdLimit`.
- `Terminates` (copy): every program reaches `return` or `exit`. It fails if a counter drifts and the loop waits for a completion that never comes.

## Findings

1. **`poll_sigint`** (`server-poll.c:154`):
   - The handler is installed without `SA_RESTART`, so SIGINT makes `poll()` fail with EINTR.
   - The code then exits with failure. spec.md says the server should drain and exit with status 0.
2. **`poll_phantom_slot`** (`server-poll.c:163`):
   - `main` ignores a false return from `server_accept_connection_request`.
   - A slot with fd -1 stays active forever, so the server never exits.
3. **`ticket_sign_wrap`** (`ticket-lock.c:51`):
   - The `uint16_t` ticket is stored in a `short`. From the 32768th acquisition on, `now_serving != ticket` compares 0..65535 with a negative number, and the lock hangs.
   - The benchmark's 8000 acquisitions stop short of this.
4. **`seq_block_failure`** (`part_002:67`):
   - One client reset ends the whole sequential server, against spec.md section 7.
5. **`seqlock_writer_hang`** (`seqlock.c:53`):
   - The writer's loop reloads `seq0` only through a failing CAS. Once that CAS returns an odd value, the loop sleeps forever. The readers, which wait for the final total, hang with it.
   - With `NUM_WRITERS = 2` this is a matter of time.
   - An odd garbage value in the uninitialised `seq0` (line 50) hangs the writer the same way.

6. **`aio_padding`** (`server-poll.c:650`, `:847`):
   - linux-aio-cp and posix-aio-cp round `src_size` up to the next multiple of 4096. They then pass the rounded value to `close_src_dst_files`, whose `ftruncate` extends the copy with zeros.
   - When the size is already a multiple of 4096 (the 256M the benchmark uses, for example), the rounding adds a whole block. The read of that block returns 0 bytes, and the program exits with "ERROR: reach unavailible state".
   - `copy_core` reaches this exit too, which is why its `ExactCopy` leaves out the two aio programs.

7. **`client_empty_file`** (`client.c:120`):
   - spec.md's round-trip property includes files of size 0. The client receives the 0 header and calls `fallocate(fd, 0, 0, 0)`, which fails with EINVAL, so it exits with "Not enough space" and `EXIT_FAILURE`.

Two client paths that look wrong turn out to be harmless, and `client_core` shows it:
- A `recv` of -1 on a reset connection makes `bytes_read` `SIZE_MAX`. The `pwrite` of `SIZE_MAX` bytes fails with EFAULT, and its -1 compares equal to `SIZE_MAX`. The offset moves back by one and the next `recv` returns 0, so the client reconnects.
- Every reconnect after the file is open leaks that descriptor (`client.c:110`). It takes about `RLIMIT_NOFILE` retries to matter.

## Bounds

- **Servers:**
  - `MaxConns = 2`, `MaxClients = 3`: a third client arrives after both slots are used, so the full table and descriptor reuse both happen.
  - `FileSize = 3`, `BlockSize = 2`, `HeaderLen = 2`: a transfer has a full block and a short last block, and a header write can be short.
  - `Fds = {4, 5}`, or `{4}` so that EMFILE happens.
  - The real sizes (8 and 1024) only matter through these relations.
- **Locks:**
  - 3 threads × 2 iterations: a third thread can contend while one holds the lock and one waits or sleeps.
  - The ticket lock keeps its real 16-bit width. `StartTicket = 32766` reaches the sign bit in two acquisitions.
- **Futex:** both encodings are checked in one run.
- **Ring:**
  - `QUEUE_SIZE = 2`, so full and empty both happen constantly.
  - The indices count modulo 2^3 instead of 2^32, and 10 elements are sent, so `tail` wraps to 0 while `head` has not.
  - The code's arithmetic is modular and the size divides the modulus, so only the wrap itself matters, not the width.
  - `NUM_RETRIES = 2`, so the yield branch is taken.
- **Copy:**
  - `READ_BLOCK_SIZE = 2` stands for 4096, and sizes 0..8 cover an empty file, sizes below, at and past a multiple of the block, and up to 4 blocks.
  - `QUEUE_SIZE = 3`, so a 4-block file reuses a cell, and completions can overtake each other.
  - `NUM_THREADS = 2`, so the strides interleave.
- **Client:**
  - Files of 1 to 3 bytes in blocks of 2 behind a 2-byte header: one, two and a partial block.
  - `SizeWidth = 3`: `size_t` arithmetic modulo 8, above every size, so the `SIZE_MAX` step wraps.
  - `MaxFaults = 2` of the kinds refused, cut and reset, so a reset can follow a cut attempt.
  - `FdLimit = 3` stands for the descriptors `RLIMIT_NOFILE` leaves. It is above the most opens two faults can cause, as 1024 is above any plausible number of retries.
- **Seqlock:**
  - `locks`: 1 writer × 2 sections and 2 readers, so a reader can be between its loads while the writer stores.
  - `seqlock_writer_hang`: 2 writers × 2 sections and 1 reader.
  - `HalfBase = 2` with increment 1, so every second section carries into `high`.
  - `Seq0Garbage = {0}`: the hang is shown without relying on an odd garbage value.
- **rwlock:** 2 writers × 2 sections, so a writer can wait on the other writer and on readers; 2 readers, so two readers hold the lock at once and a writer can wait behind both.

## Fairness

- Benchmark threads: each is pinned by `main` to its own hardware thread and never blocks for good. Each thread's step is weakly fair. Spinning, sleeping and yielding only delay a thread.
- rwlock threads: weakly fair, as the other benchmarks. The lock prefers readers, so a writer can wait forever while the readers take turns holding it (`wrlock` is never continuously enabled). Writer progress is therefore not claimed; `ReadersFinish` assumes the writers finished.
- In `MC_Locks` the fairness conjuncts are folded per thread name: `prog` never changes, so weak fairness of "thread t of any program steps" is weak fairness of the running program's thread t.
- Futex waiters: a waiter asleep in the kernel is not a step. It is woken only by a `Wake`.
- Servers:
  - The server loop is weakly fair.
  - "The kernel reports slot i writable" is strongly fair, because `client.c` reads continuously until it has the file.
- Copy programs: `main` and every pool thread are weakly fair. Each kernel completion is weakly fair, since the kernel finishes every request it accepted.
- Client: the client is weakly fair, and blocks only in `recv`. The server end is weakly fair: an accepted connection is served to the end. Refusals, cuts and resets are faults with no fairness, at most `MaxFaults` of them.
- No fairness: arrivals, resets and signals, because nothing in the code makes them happen.

## Not modelled, and why

- **Start-up of the servers:** argument parsing, `calloc`, `socket`/`bind`/`listen`, `open`/`fstat` and thread-attribute failures. These run once before the loops. `FileSize` is the constant `fstat` returns.
- **The client's failures of `close()`, `ftruncate` and `fsync`:** each exits with failure. The client is modelled against an abstract server. If a real server has used up its `max_conns` admissions, it no longer accepts, and a client that reconnects then waits forever. This is outside the client's `MaxFaults` assumption.
- **`part_003`:** an unfinished copy of the poll server that does not compile: the case label `SEND_FILE_SIZE` appears twice (lines 145 and 148), it uses the undefined states `CONNECTION_INITIALIZED` and `WRITE_DATA_TO_SOCKET`, and its loop never calls `poll()`. There is no program to model.
- **The served file changing after `fstat`** (`server-poll.c:378`): the servers send `file_size` bytes from a file that another process could shorten or grow meanwhile. The spec serves one fixed file, so this is out of the model's scope; it is listed as a hazard.
- **`part_004`'s block functions:** they use undeclared variables. `ServerCommon` models the read followed by the write that the two functions describe.
- **Copy-program errors:** I/O errors (negative results), a partial `io_submit` and allocation failures are not modelled. The kernel takes every request and completes it in full. The `!= 0` tests of the aio programs would let a negative result through; this is listed as a hazard.
- **Copy edge cases not checked:**
  - `src_size` is a `uint32_t` (`part_001:45`), so a source of 4 GiB or more is copied modulo 2^32. The models keep sizes below that.
  - `fallocate` with length 0 fails with EINVAL (`part_001:61`), so every program fails on an empty source. The models take this failure, but no property requires a copy to succeed.
- **Weak memory:**
  - Every model executes the atomics in one global order, which is what x86 gives for these accesses.
  - Relaxed orderings (futex.c's unlock, the seqlock reader's relaxed loads) are noted in the hazards of those lines, not checked.
- **Timing:** back-off delays, pause loops, `nanosleep` lengths and CPU affinity change timing only.
- **Properties of the sequential server:**
  - `AcceptWaitsForClient` is violated at once: the listen socket is `SOCK_NONBLOCK`, so `accept` fails with EAGAIN when no client is queued. It is left as a hazard.
  - `FailureStaysLocal` shows the more serious path.
