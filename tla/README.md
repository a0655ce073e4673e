# A TLA+ model of CPPminer

CPPminer is a mining program for two proof-of-work algorithms. *Pearl* multiplies noised
matrices and proves, with a matrix product and a proof built from the matrices, that a tile of
the product hashes below a target. *Quantus* searches 64-byte nonces. Both work for a pool over
one TCP connection with JSON lines, on a CPU or one of several GPU and NPU backends, and spend
one part in a hundred of the work on a developer fee.

The numeric kernels are tested by the program's own self-tests. What is hard to test is the
control around them: which thread owns the matrices, what happens when a job arrives, is
cancelled, or the connection is lost at an awkward moment, who wakes whom, and whether the fee
is accounted for when pools fail. This directory models that part. Paths below are relative to
the repository's `src/` unless they start with `include/`.

## 1. The system's parts

| Part | State | Operations | Hard behaviour | What must hold |
|---|---|---|---|---|
| Share proof queue (`common/cp_share_queue.cpp`) | FIFO of snapshots, `in_flight`, `matrices_loaned`, a one-place slot of returned buffers, job context, `shutdown` | begin, end, enqueue (host or witness), reclaim, destroy; a worker thread that proves and sends | one condition variable for four kinds of waiting, buffers handed between threads without copying, state read without the lock | a matrix has one owner; every share is settled; end of job means nothing of it is left |
| Pearl job loop (`common/cp_mine.cpp`) | host buffers, attempt number, result | reclaim, scan, fetch, enqueue, end | every exit must get the buffers back | never scans into lent buffers, a cancelled job ends |
| Job control (`common/cp_job_ctrl.cpp`) | mining epoch, cancelled epoch, active flag, key | begin, end, request cancel, should cancel, key matches | atomics the reader touches without the mutex | only the job meant is cancelled |
| Pool connection (`common/cp_pool.cpp`) | socket, reader thread, inbox, pending slot, session stage and deadlines, submits in flight, `g_net_conn_lost` | connect, wait for a line, dispatch, deadlines, watchdog | reader against session loop, lost wakeups | a dead pool is left, no announced job is forgotten |
| Session loops (`common/cp_pool_session.cpp`) | current key, result, reconnect delay | reconnect, authorize or log in, mine, take the pending job | state that outlives a connection | what is mined belongs to this connection |
| Quantus protocol (`common/cp_qpow_pool.cpp`) | pending job, session id | login, job, submit | as above | as above |
| Developer fee (`common/cp_fee.cpp`) | debt, fee cycle, pool list position, backoffs | note work, prepare, switch, session ok, session end | pools failing in any order | the debt is what was worked; the user's mining always resumes |
| Quantus miner (`common/cp_qpow_mine.cpp`) | nonce, job result | job loops for CPU, GPU, wgpu | a job ends in the middle of a search | no nonce twice, a late charge goes to the right wallet |
| Quantus GPU pipelines (`qpow/opencl`, `qpow/cuda`) | two rounds of launches in flight, midstate cache, line position | search, discard, shutdown | forgotten launches still run on shared buffers | nonces contiguous, results of their own launch |
| Quantus CPU team (`mine_job_cpu`) | threads with a nonce each, one result, submit mutex | search a chunk, note the time, submit | threads end one job together, add to big-endian nonces | every counter is hashed once, every share submitted once |
| TCP connect and JSON framing (`common/cp_tcp.cpp`, `common/cp_json_frame.cpp`, the reader's buffer) | deadlines, `net_buf` | try the addresses, receive, cut into objects | one budget for all addresses, packets split anywhere, limits | no address starves, what is dispatched is what was sent |
| Signal preparation on the backends (`cuda/cp_gpu.cu`, `opencl/case33_ocl_prep.cpp`, the wgpu crate, `cpu/cp_cpu_worker.cpp`) | signal A, sub-roots and their key, cached noisy B, share witness | row, commitment, seed, scan, fetch; begin of a job | caches that outlive attempts, jobs and cancellations | the commitment scanned with is that of the whole of A |
| Matrix hash (`common/cp_noise.c`, the DSP's `pearlx_tree_cvs`) | tree of chunk hashes, key | update some chunks, hash all, import | update in place, odd chunk counts, out of memory | the root is the hash of the matrix |
| Hexagon backend (`pearl/hexagon`) | a control block shared with the DSP, two record slots, a thread for DSP calls | start, check a launch, stop, wait | host and DSP meet without locks, one segment after another | records are checked in place, the report is right, the DSP ends |
| Tile scan of an attempt (`opencl/case33_gemm_ocl.cpp`, `onednn/case33_gemm_onednn.cpp`, `cuda/cp_gpu.cu`, the wgpu crate, `cpu/gemm`) | launches queued, found flag and place of the hit on the device, flags read back | launch, wait, drain, report | the host runs ahead of the device, queues out of order, threads that find hits together | the hit reported is one of this attempt, none is missed, nothing still runs |
| Intel NPU backend (`pearl/intel_npu`) | panels of noisy A in slots, infer requests, results by launch | build a panel, submit, take a result, halt | a prep thread refills what the NPU reads in place, two threads wait on one condition variable | a launch reads its whole panel, no thread waits for good, the report is right |
| GEMM and hash kernels, proof construction | device memory | compute | numeric | not modelled |
| HTTP API, notify parsing, utilities, start-up, options, diagnostics | options, counters | sequential, or behind one mutex | none | not modelled |

**Interaction.** The main thread runs a session loop: it connects, starts the reader thread,
waits for lines in the inbox and mines each job itself. While it mines, the reader sets the
cancellation in the job control and leaves the new job in the pending slot. The proof worker
runs for the whole program; it takes snapshots from the queue, registers its submit in the
submit table and writes to the socket. The reader answers submits, watches their age, and
declares the connection lost. The job loops charge the fee and leave the session when the
wallet changes. The developer fee chooses the pool the session loop dials next. An attempt of
the job loop runs on a backend, which keeps signal A, its hash tree and noisy B from attempt to
attempt; the Hexagon backend has a thread of its own that sits in a call to the DSP while the
mining thread checks what the DSP finds, and the NPU backend one that builds panels while the
mining thread collects results.

## 2. Modules

| Module | Models | Used by |
|---|---|---|
| `ShareQueue` | queue, proof worker, `cp_mine_job`, the socket and submit table they touch | `MCShareQueue`, the proofs below |
| `ShareHandoff` | the contract of `include/cp_share_queue.h`, no threads or locks | `ShareQueue` (refinement `Handoff`) |
| `ShareQueueProofs` | proofs about `ShareQueue`: types, one owner; jobs, buffers and submits; it keeps the contract of `ShareHandoff` | |
| `PoolSession` | reader thread, job control, inbox, pending slot, both session loops | `MCPoolSession`, `PoolSessionProofs` |
| `PoolSessionProofs` | proofs about `PoolSession` | |
| `Fee` | ledger, fee cycles, pools, backoff, reconnect delay | `MCFee`, `FeeProofs` |
| `FeeProofs` | proofs about `Fee` | |
| `QpowSearch` | search pipelines of the OpenCL and CUDA backends and the job loop above them | `MCQpowSearch`, `QpowSearchProofs` |
| `QpowSearchProofs` | proofs about `QpowSearch` | |
| `HexagonScan` | one attempt of the Hexagon backend after another: mining thread, DSP thread, DSP | `MCHexagonScan`, `HexagonProofs` |
| `HexagonProofs` | proofs about `HexagonScan` | |
| `DeviceCommitment` | signal A, its sub-roots and noisy B on four backends, under the job loop | `MCDeviceCommitment`, `DeviceCommitmentProofs` |
| `DeviceCommitmentProofs` | proofs about `DeviceCommitment` | |
| `PoolWire` | `cp_tcp_connect`, and the reader's buffer with `cp_json_frame` | `MCParts` |
| `MatrixTree` | the incremental matrix hash of the host and of the DSP | `MCParts` |
| `QpowCpuTeam` | `mine_job_cpu` and the nonces of its threads | `MCParts` |
| `TileScan` | the loop over all launches of an attempt on OpenCL, oneDNN, wgpu, CUDA and the CPU | `MCParts` |
| `NpuScan` | an attempt of the Intel NPU backend: prep thread, mining thread, NPU | `MCParts` |
| `MCParts` | the last five in one run; they share no state | `PartsProofs` |
| `AttemptProofs` | the invariants of `MatrixTree` and `TileScan` | `PartsProofs` |
| `PartsProofs` | the invariants of `NpuScan`, `PoolWire` and `QpowCpuTeam`, and the theorems about `MCParts` | |

The modules cut the program at narrow interfaces. `ShareQueue` sees the reader as a thread that
may cancel a job, answer a submit, give the connection up. `PoolSession` sees the job loop as
begin, mine, end. `Fee` sees a session as one that fails, gets a job or drops. `QpowSearch` sees
a cancellation as a flag. `DeviceCommitment` names the content of a group of signal A by the
write that made it; `MatrixTree` looks into the tree that `DeviceCommitment` takes as a map from
groups to sub-roots. `HexagonScan`, `TileScan` and `NpuScan` start where the attempt is prepared
and end with what `mine_attempt` returns, which `ShareQueue` takes as an outcome.

### ShareQueue

*State.* `pending`, `shutdown`, `jobActive`, `inFlight`, `loaned`, `returnedA`/`returnedBt`,
`jobCtx`, `queueKey` and `lastOutcome` are fields of `CpShareQueueImpl`; `hA`, `hBt` say whether
the host pointers of `cp_mine.cpp` are set; `freedA`, `freedBt` count what was freed. `asleep`
holds the threads waiting on the condition variable: a thread whose predicate is false joins it
and can do nothing until a notify takes it out, so that a forgotten notify would show as a
liveness violation. `tracked` is the submit table, `wire` the submits the pool has not answered.

*Actions.* One for each critical section or stretch between two: `Reclaim` (three call sites),
`Enqueue`, `EnqueueWait`, `EnqueueRefused`, `EnqueueNotify`, `EndJob`, `Drain`, `DestroyMark`,
`DestroyJoin` for the mining thread, with `StartJob`, `LoopCheck`, `Scan`, `Hit`, `Fetch`,
`FinishJob` around them; `WorkerTake` to `WorkerRelease` for the worker; the pool's replies,
cancellations, losses and stalls.

*Choices of outcome.* A scan, a fetch, a proof, a verification and a send may each fail.
`EnqueueRefused` is enabled whenever the call can be refused: out of memory is possible at any
time. The `mode` fixes what a backend decides once: device witnesses or host matrices, B^T with
A or not, buffers written early or only for a share, `--dry-run`, `--mock`.

*Abstract specification.* `ShareHandoff` says what a user of the queue may rely on: shares are
settled once each, in order; the matrices travel with a share and come back; nothing is open
while the matrices are freed. A share is *waiting* from the enqueue until its outcome is set,
whether it is still in the queue or with the worker; the matrices are with the miner, the queue,
the slot or freed. `ImplementsHandoff` is the refinement, with the contract's fairness.

### PoolSession

One step is one access to an atomic or one critical section. `mpc` follows the session loop and
the job (`stop`, `join`, `connect`, `start`, `wait`, `block`, `handle`, then
`epoch`, `reset`, `key`, `activate` for the stores of `cp_job_mine_begin`, `mine`, `finish`,
`end`, `result`, `take`, `jobDone`). `block` is the point of `cp_pool_wait_line` between the
look at the connection flag and the wait, with the inbox mutex held. `rpc` follows the reader:
`top`, `recv`, and for a job either `push` or `match`, `loadEpoch`, `storeEpoch`, `queue`;
`lose`, `notify` for the loss of the connection, `reject`, `rejectNotify` for a rejected
authorize, after which the reader goes on reading. A key that is being written compares either
way. Pearl and Quantus differ by the variable `algo`, chosen at the start and kept: login
before the reader starts, pending slot cleared on reconnect, how a job's result is decided. The
history variable `resent` remembers that the pool sent its newest job again on the connection while
a job was being mined.

### Fee

`debt`, `feeActive`, `authIsDev`, `poolIdx`, `poolGood`, `fixedRest`, `fixedBackoff`,
`skipRest`, `skipBackoff` are the statics of `cp_fee.cpp`; `sessionDev` and `gotJob` its session
flags; `delay` is the reconnect delay. `pc` follows the session loop (`reconnect`, `dial`,
`connecting`, `session`) and the job loop (`start`, `matrix`, `scan`, and `leaving` for the
threads of a Quantus CPU team that finish their chunk after the switch was asked for).
`devWallet` remembers which wallet the pool was really given and `balance` is a ledger kept by
that wallet, so that the program's own ledger can be compared with it. `timeBased` says which of
the two algorithms pays, chosen at the start and kept: Pearl pays in matrices, Quantus in time.

### QpowSearch

`active`, `head`, `header`, `expect`, `next`, `mid` are fields of `Pipe`, `slot` of its slots;
`stream[d]` is the in-order queue of a device and `readBack` what it last wrote to the host for
each slot. `Enqueue` is one launch, `Collect` one collected launch, so that a round over several
devices can fail in the middle. A launch takes its place and length with it, and reads its
constants from the slot only when the device gets to it (the asynchronous upload of the OpenCL
worker; for CUDA, which passes them by value, this allows more than can happen).

### HexagonScan

The host and the DSP share a block of memory without locks. `checked`, `stop` and `epoch` are the
host's half, `launched`, `ack`, `state` and `hitAt` the DSP's, `slot` the two record slots that
the launches use in turn. `hpc` follows `mine_attempt` (start, wait for a launch, check it, stop,
wait for the end), `dpc` the DSP thread and `scan_run`, which are one: the call is made and
returns on that thread. One step is one shared word or one critical section. `Contents` says what
a launch's records hold: nothing, a hit, or a false hit that `verify_hit` drops. In `fused` mode
the DSP checks its launches itself and only reports.

### DeviceCommitment

`A` is signal A by groups, `sub` the stored sub-roots and `subKey` the key they hold for, `root`
and `seed` what the attempt commits to, `bReady`, `bKey`, `bSeed`, `bNoisy` the cache of noisy B,
`devKey` the key in device memory. A group's content is the number of the write that made it, a
hash is the record of what was hashed, so that a stale hash differs. Row, commitment, seed and
fetch are one action for each backend (`CudaRow`, `OpenclRow`, `WgpuRow`, `HostRow`, and so on),
because the four differ in when they look at the cancellation, what they invalidate and what
they trust; the effects they have in common (`HashedAll`, `HashedGroup`, `SeedMade`, `Fetched`)
are one operator each. Device calls succeed. That matters: on OpenCL and wgpu too a failed call
after the write of a row would leave a stale sub-root behind, but a failure ends the job with an
error, and the pool would have to repeat its key for the sub-root to be used.

### PoolWire

Connecting: `address` is the address at hand, `deadline` that of the whole call, `attemptEnd`
that of the address, in ticks finer than the milliseconds the code rounds to; `answerAt` is when
the address would answer. Receiving: `unread` is what the pool sent and the reader has not got,
`netBuf` the reader's buffer, `dispatched` the frames it handed on, `left` why it gave up. The
scan for a complete object is a fold over the buffer with the scanner's state (depth, brackets
open, inside a string, after a backslash); the depth is limited as in the code. The connection
ends and a new one starts with an empty buffer.

### MatrixTree

`level` is the tree of the host; an attempt writes a few chunks and updates the nodes above them
(`Update`, over the nodes `Changed` of each level), or runs out of memory and hashes everything
with the stack of chaining values (`StackRoot`: `MergeStack` leaves one subtree for each set bit
of the chunks so far); the tree of a new job may come from the threads of the DSP
(`DeviceTree`), by groups of chunks and then of parents, in one memory in which every level has
its offset. The root is merged from the subtrees that `TakeTop` picks at the set bits of the
number of chunks. What loops over levels or chunks is a recursive function. A hash is the tuple
of its inputs. `Blake3Root` is BLAKE3's definition of the tree: the left subtree is the largest
power of two that leaves something to the right.

### QpowCpuTeam

A nonce is a sequence of digits laid out as in the code: extranonce, number of the thread, salt,
counter. Each thread searches a chunk, notes its time, submits its shares under the mutex and
goes on; a fee switch or a replaced job ends the team, and of several threads that say why the
last one wins. `sent` holds the shares handed to send: the caller ignores whether it succeeded.
`hashed` is what each thread hashed, as counters, so that a chunk boundary, the end of a line of
constants and a carry can be seen to neither skip nor repeat one.

### TileScan

`backend` is one of five shapes of the same loop. OpenCL and oneDNN queue the next launch before
they look at the flag of the last, the others wait for each launch. `commands` is what the device
has been given and not done: on OpenCL and wgpu it is done in order, on CUDA in order on each
device, on oneDNN in any order the event wait lists (`WaitsFor`) allow. `flag` and `winner` are
the found flag and the place of the hit in device memory, `hostFlag` what was read back for the
two slots, `xorOf` the launch whose product is in each `tile_xor` buffer. Every way out of the
overlapped loop leads through `clFinish` (`Drain`). On the CPU a team takes tiles; the thread that
takes the flag stores the place afterwards, so that another may see the flag without a place. The
flags are cleared for every attempt and the place is not. CUDA looks at the cancellation at the
start of a row of launches and not again, the others also when the scan is over. A wgpu wait that
times out is a failed wait: the queue is in order, and what comes after waits for it.

### NpuScan

`driver` follows `drive_scan` and `prep` follows `prep_panels`; `halted`, `slotPanel` and
`panelDone` are what they share under the mutex, `memory` is the panel that is really in a slot
and `request` what each infer request does. The NPU ends launches in any order; the driver takes
results in the order of the launches. A thread whose wait was in vain is `asleep` until a notify,
and `halt()` sets the flag and notifies in two steps. A launch that shows a hit halts the scan;
the host computes it again after the threads have met, and a hit that is none then ends the
attempt without a share and with the launches behind it unseen, as in the code. The NPU cannot be
asked to stop: the driver waits for every launch it has queued.

## 3. Runs

| Run | Bounds | Shows |
|---|---|---|
| `share_queue` | all six modes, depth 1, two attempts, two jobs, two connections, a pool that may stall | `OneOwner`, `ReclaimFindsBuffers`, `JobsApart`, `SubmitsAccounted` (the submit table holds what the pool owes; a share is sent once, on its own socket), no deadlock |
| `share_queue_live` | host and witness mode, one job | `EveryShareSettled`, `MinerNeverStuck` (a cancelled job ends, destroy ends), and the queue implements `ShareHandoff` |
| `share_queue_stall` | one host mode, a pool that may stall | *violation*: a lost connection is not left while a send blocks |
| `session` | Pearl and Quantus, see `MCPoolSession.cfg` for jobs, connections and inbox | `NoLineSleptOn`, `CancelledForNewerOrResent` (a job mined is cancelled for a newer one, or because it was itself sent again while one was mined: section 7), `MinedJobOfThisSession` (Quantus), `SilentPoolIsLeft`, `ReconnectCompletes` |
| `session_lost` | Pearl, one connection | *violation*: the loss of the connection can go unnoticed |
| `session_new_job` | Pearl, two jobs | *violation*: an announced job can be left in the slot |
| `fee` | both algorithms, two fee pools, backoff up to 3, a team with one late chunk | accounts exact, right wallet, backoff, no hammering, every cycle ends unless pools keep rejecting late |
| `qpow_search` | two devices, lines of three, launches of one or four, two jobs | `SearchedOnce`, `ResultsOfTheirLaunch`, `ForgottenLaunchesKept`, no deadlock |
| `hexagon_scan` | both modes, four launches in panels of two and segments of two, two marked launches, two attempts | `CheckedInPlace`, `ResultIsRight`, `DspIdleBetweenAttempts`, `AttemptReturns`, no deadlock |
| `device_commitment` | four backends, two groups, three jobs, five rows; CUDA is not sent the key of a cancelled job again | `ScansCanBeProven` (the commitment is of the whole signal, the witness at hand), `WitnessOfTheScan` |
| `device_commitment_cuda` | CUDA, which is sent it again | *violation*: a stale sub-root is mined with |
| `parts` | see below | `BudgetShared`, `FramesAsSent`, `CommitsToThisA`, `EachShareOnce`, `PanelHandover`, `AttemptsReportRight` |

*Why these bounds are enough.* The queue's depth is 1 in the program (`cp_mine.cpp:45`), so only
the job, attempt and connection counts are cut down; two of each let anything of one meet the
next, and nothing in the code looks further back than that. Three jobs in `session` let a second
job arrive while the first is being handed over and a third while the second is; the first two
may be sent again. Two fee pools give a first, a last and the user's; a backoff of 3 is doubled,
capped and counted down. Lines of three counters and launches of one or four give launches that
fit, that end at a line's end and that are cut there; two devices make a round that can fail
half-way.

Four launches use each of the two record slots twice; panels and segments of two launches put a
panel's start and a segment's end both inside and at the end of the attempt, and two marked
launches let a hit be shadowed by an earlier one or follow a false one. Two groups of sub-roots
are the row's and the others'; three jobs let a cancelled job's leavings skip a job.

`parts` connects to up to three addresses within 5 ms of two ticks each, so that shares round
down and a last millisecond is granted; it receives up to two messages, with brackets, strings
and escapes, in pieces of one to three bytes into a buffer of nine with a depth of two, so that
both limits are met. Trees have 2, 3, 4, 6, 7 and 11 chunks: powers of two, counts with two and
with three perfect subtrees, one with a gap between them, device groups of two with and without a
rest, and fewer groups than threads. Nonces have eight digits in base three, an extranonce that is absent or fills its
half, lines of four counters and chunks of three, so that chunks start and end inside lines and
digits carry; the salt is of the largest digits, where a stray carry shows. Four launches use
each of the two slots of the tile scan twice and leave one to read at the end; two devices or
threads can find a hit in the same launch, and two attempts let the second meet what the first
left. Three panels of two launches in two slots make one slot be refilled while the other is
read; five requests run ahead of the results by more than a panel, and one launch may show a hit
or a false one. One attempt is enough there, because each makes its shared state anew.

*Deadlock* is checked in `share_queue`, `share_queue_live`, `session`, `fee`, `qpow_search` and
`hexagon_scan`. Where the program may rest (it has ended, a bound is reached, or, in
`PoolSession`, the session loop sleeps with no reader left) an explicit action says so.
`device_commitment` and `parts` are not checked for deadlock: they end where their bounds do. In
`parts` only the threads of `NpuScan` wait, and that one never waits for the other in vain is part
of `PanelHandover`.

Each property of a passing run has a mutant: a definition changed the way a plausible bug would
change the code, under which the run finds the property violated. They stand next to the
definition they change, marked `Mutant:`.

## 4. Fairness

* `ShareQueue`: the mining thread and the worker keep running, and the session loop reconnects
  when it must. The program uses plain threads and one mutex held only for short sections. No
  fairness is assumed of the pool or of the reader, but `share_queue_live` has no stalling pool
  (`MCShareQueueLive.cfg`): a send always comes back. Without that its properties are false, which
  is what `share_queue_stall` shows.
* `PoolSession`: both threads run and deadlines pass. The pool may stay silent for ever and a
  job may be mined for ever.
* `Fee`: the loop runs; a session gets a job or ends, which is what the deadlines of the reader
  are for (`SilentPoolIsLeft` in `PoolSession`). Two strong fairness conditions say that of the
  sessions that get a job not every one ends before the loop looks at the fee, and that scans
  are not empty for ever. Without them a pool that sends a job and drops the connection at once
  could hold the program in one fee cycle; the code has no answer to such a pool (section 7).
* `HexagonScan`: the mining thread keeps running, and so do the DSP thread and the DSP. That is
  all: whether and when the job is cancelled, a call fails or a launch is marked stays open.
* `QpowSearch`, `DeviceCommitment`, `PoolWire`, `MatrixTree`, `QpowCpuTeam`, `TileScan` and
  `NpuScan` state safety only. That the two threads of `NpuScan` never wait for each other is a
  safety property there (`PanelHandover`).

## 5. What is proved

`ShareQueueProofs` proves, for every depth, every set of modes and any number of attempts, jobs
and connections:

* `TypeCorrect`: `Spec => []TypeOK`.
* `MatricesHaveOneOwner`: `Spec => []OneOwner`.

The only assumptions are those `ShareQueue` states about its constants (`ModesAssumption`,
`DepthAssumption`, `BoundsAssumption`), which TLC evaluates in every run.

`OneOwner` counts the places a matrix is in, and that count is not inductive by itself.
`Enqueue` sets `loaned` and would lose a matrix if another were still on loan; `WorkerReturn`
frees a buffer when the slot is taken. The inductive invariant `IInv` adds

* `CountInv`: `inFlight` is 1 exactly while the worker is between take and release;
* `LoanInv`: where the snapshots carry host buffers, `loaned` is true exactly while one share is
  in the queue or with the worker, and there is never a second one;
* `WorkerInv`: a worker that holds no share holds no matrix, and a worker that has left did so
  after the shutdown flag, with nothing pending;
* `MinerInv`: a mining thread at the join or past it has set the shutdown flag, and one that is
  about to fetch or enqueue host buffers owns the ones that mode hands over.

`Invariance` shows the three facts `Init => IInv`, `IInv /\ [Next]_vars => IInv'` (one lemma for
each conjunct, one step for each action) and `IInv => TypeOK /\ OneOwner`.

The second part goes on from there: `JobsKeptApart` (`JobsApart`), `BuffersReclaimed`
(`ReclaimFindsBuffers`) and `SubmitsAreAccounted` (`SubmitsAccounted`). Its invariant `JInv` adds
to `IInv`

* `ApartInv`: what is queued or proved belongs to the job that is open, on its socket and under
  its key, and outside a job nothing is queued or proved at all;
* `BufferInv`: where A and B^T travel together the host pointers and the slot agree on both, and
  from job to job the miner holds what it needs;
* `WireInv`: message ids on the wire are older than the next one and unique, all on this socket;
* `OrderInv`: along the way from the mining thread over the queue and the worker to the wire, the
  nonces of a job decrease. This is what makes a share sent once: each place may hold several
  shares, and no two places the same.

The third part proves `QueueKeepsContract`: every step of `ShareQueue` is a step of
`ShareHandoff` under the refinement mapping, or leaves it alone, and the initial states map to
initial states. `HInv` adds that a share with host buffers carries A (`HandInv`), so that the
holder of A is known at every step, and that what is settled is older than what still waits
(`SettledInv`), so that a share is handed over once. The fairness of the contract is not part of
this theorem.

`PoolSessionProofs` proves the safety properties of `PoolSession`, for both algorithms and any
number of jobs, connections and lines in the inbox: `SessionTypes` (`TypeOK`), `NoLineIsSleptOn`
(`NoLineSleptOn`), `CancelsAreForNewerOrResentJobs` (`CancelledForNewerOrResent`) and
`JobsAreOfThisSession` (`MinedJobOfThisSession`). The second has two causes for a cancellation, and
neither is vacuous: without the job sent again it is false (section 7). They speak of the moment a job is mined; the invariant says what can
be anywhere else until then:

* `BetweenInv`: between two connections there is no reader, no line and (Quantus) no pending job;
* `QuietInv`: until the pool has sent a job on a connection there is none to be mined, so that the
  reader asks for a cancellation only after it has seen a job of this connection;
* `KnownInv`, `NewerInv`: no job is newer than the newest sent, and while the reader asks for a
  cancellation the newest is the one in its hands. Unless that one was sent again, it is newer than
  all that the mining thread has or can get at: the inbox, the pending slot and the job in hand;
* `CancelInv`: from the advance of the epoch on, a cancellation in force for this epoch is for a
  newer job, or for one that is itself the newest and was sent again. The stale epoch a slow
  reader stores is never the present one, because the epoch is advanced before the cancellation
  is cleared;
* `SessionInv`: Quantus has no job of an earlier connection anywhere.

`QpowSearchProofs` proves every property of `QpowSearch` that a run checks, for any number of
devices, lengths of lines and launches, jobs, searches and failures: `SearchTypes` (`TypeOK`),
`CountersSearchedOnce` (`SearchedOnce`), `ResultsAreOfTheirLaunch` (`ResultsOfTheirLaunch`) and
`ForgottenLaunchesBounded` (`ForgottenLaunchesKept`). The invariant has

* `StageInv` and `ChainInv`: the slots that are filled form one chain of counters, from the one
  the next search expects, over the devices of the round at hand and those of the round behind
  it, to the one the next launch starts at, also in the middle of filling a round;
* `FoundInv`: what was collected is contiguous and ends where the chain begins;
* `ConstantInv`: each filled slot holds the constants of its job, attempt and line, and no launch
  crosses the end of its line;
* `ResultInv`: the last launch queued for a filled slot is the slot's own, and when none is queued
  what was read back is; so forgotten launches before it do no harm;
* `RoomInv`: how many launches a device can have at each point of a round, because a collected
  round leaves at most one behind; `FreedInv`: none once the buffers are freed.

`FeeProofs` proves every safety property of `Fee`, for any period, matrix size or turn, number of
fee pools, delays, team and counter width that the assumptions of `Fee` admit:

* `TypeCorrect` (`TypeOK`: among the rest, the debt fits its word), `LedgerIsExact`
  (`LedgerMatchesWork`), `DebtIsBounded` (`DebtBounded`), `WalletsMatchPools`
  (`WalletMatchesPool`), `BackingOff` (`BackoffsHold`) and the action property
  `NoImmediateRetries` (`NoImmediateRetry`).

The bounds of the runs (`MaxCharge`, `MaxStragglers`) are parameters here: the most one scan or
chunk is charged, and the team of the CPU miner. For Pearl a scan is at most one matrix
(`MaxCharge = T`, in `LedgerAssumption`); `WordAssumption` says that the threshold and the work
of one team fit 64 bits. The invariant adds to the properties

* `SessionInv`: from the dial to the login the wallet wanted does not change, while a scan runs
  the wallet wanted is the one mined for, and a team that leaves its job is between wallets;
* `BackoffInv`: a fee session that has not got a job belongs to a cycle under way. So the skips
  and the turns at the user's pool are used up when such a session gets its job and clears the
  backoffs, which is why the counts stay under them;
* `RetryInv`: after a fruitless attempt either the delay is still there or the next target
  differs from the last, because the failed pool was passed over or the cycle given up;
* `LedgerInv`: what the debt can be for the wallet wanted and the wallet mined for. A fee cycle
  under way owes at least a threshold (Pearl) or something (Quantus), and a Quantus cycle that
  is over while the session still has the developer's wallet owes nothing;
* `AccountInv`: the account is exact but in that last case, where it is off by less than one
  chunk for each straggler and one for the thread that ended the cycle;
* `DebtInv`: how far the debt has grown at each point of the loop.

The products `Period * units` are kept out of the provers' arithmetic by a few lemmas
(`TimesMonotone`, `Overflow`, `Chunks`); `Charge` restates a charge without the overflow guards,
which is where `DebtInv` is needed.

`HexagonProofs` proves the three safety properties of `HexagonScan` and its types, for any number
of launches, launches to a panel and to a segment, and any number of attempts: `TypeCorrect`,
`RecordsInPlace` (`CheckedInPlace`), `ReportsAreRight` (`ResultIsRight`) and `NoJobLeftBehind`
(`DspIdleBetweenAttempts`). The properties speak of the moment the host reads a slot or returns;
what makes them true is spread over both sides:

* `ThreadInv`: the DSP thread works exactly while an attempt waits for it;
* `CountInv`, `GridInv`: once the attempt's epoch is acknowledged, the count in the shared words
  is the launch the DSP is at; before that it is worthless and the host does not use it;
* `SlotInv`: every launch finished and not yet marked lies in its slot, whole, and the DSP writes
  a launch only when the one before the last is marked: this is what keeps two slots enough;
* `HostInv`, `StopInv`: where the host is, and that it looks no more once it has asked to stop;
* `EndInv`, `FusedInv`: why a run is over, and that a fused report is the first marked launch;
* `ReportInv`: what the host has concluded of the launches checked so far.

`DeviceCommitmentProofs` proves `ScansAreProvable` (`ScansCanBeProven`), `WitnessesOfScans`
(`WitnessOfTheScan`) and `TypesKept` (`TypeOK`) for any groups, rows, jobs and cancellations on
all four backends. The first two have one hypothesis besides the assumptions of the module,
`CudaKeysAreNew`: a CUDA miner is not sent the key of a cancelled job again. Without it they are
false (`device_commitment_cuda`). The invariant turns on `Trusted`, the condition under which an
attempt may take over the stored sub-roots, and on `GroupsHashed`, that the sub-roots trusted are
those of signal A in all groups but the one just written.

`AttemptProofs` and `PartsProofs` prove of `MCParts`

* `AttemptsReportKept` (`AttemptsReportRight`): on all six backends, for any number of launches,
  devices, threads and attempts, and whatever is cancelled, fails or ends late;
* `PanelHandoverKept` (`PanelHandover`), for any numbers of panels, column blocks, slots and
  requests of the NPU;
* `BudgetSharedKept` (`BudgetShared`), for any budget, tick and list of addresses;
* `FramesAsSentKept` (`FramesAsSent`), for any sizes of buffer and depth, any nesting, number of
  messages and way to split their bytes over reads;
* `EachShareOnceKept` (`EachShareOnce`), for any number of threads, any job the pool may give, any
  shares and sham shares among the counters, and any radix and lengths of nonce, stamp, salt, line
  and chunk;
* `CommitsToThisAKept` (`CommitsToThisA`), for any numbers of chunks, attempts and jobs, any chunks
  written and any sizes of the device's groups and number of its threads;
* `PartsTyped` (`PartsTypeOK`): the types of all parts.

The parts share no variable, so that `PartsInv` is one invariant for each, kept by its own steps.
They assume what the modules state of their constants: `ScanAssumption`, `NpuAssumption` and
`NpuBoundsAssumption` (the numbers are positive, the backends are those of the code), the
assumptions of `PoolWire` and `MatrixTree` (a matrix has more than one chunk, a group is not
empty), and `TeamAssumption` and `TeamBoundsAssumption`: the stamp has a value
for every thread (4 bytes) and fits the lower half of the nonce together with the counter (4 + 8
of 32 bytes), and no thread searches more counters than fit its 8 bytes.

`AttemptsReportRight` speaks of the end of an attempt. For the scan of the tiles the invariant
(`ScanInv`) says at every step that no marked launch was missed so far:

* `ScanQueueInv`: which commands are queued. A launch has its product before its hash and its hash
  before its read (`OrderInv`), it is never there without its read while the scan goes on
  (`CompleteInv`), the hash of oneDNN finds the product of its own launch in its slot (`XorInv`),
  and only the last two launches are queued (`WindowInv`), which is why two slots are enough;
* `LatchInv`: a flag that is set has recorded a marked launch of this attempt, and the host has
  read no flag that is not set;
* `SeenInv`: once the hash of a marked launch has run the flag is set, and once its read has run
  the host has it in the slot of that launch;
* `CountedInv` and `CleanInv`: with overlap the host is one launch behind what it queued, and what
  it has looked at is not marked;
* `TeamInv`: on the CPU the tiles taken are those counted and those a thread is at; that the
  first thread of the team stores the hit after it took the flag is `StoredInv`.

For the NPU (`NpuInv`):

* `QueueInv`: the queued requests run consecutive launches, the oldest first, and none is idle;
* `CountInv`: the launches counted are exactly those before the oldest queued, and `panelDone`
  counts those of each panel, although launches end in any order;
* `PanelInv`: every panel that still has a launch to run is whole in a slot of its own, because
  the slot given to a new panel is that of one whose launches are all counted, and panels closer
  than the number of slots use different slots;
* `WaitInv`: nobody waits for a panel or a slot that is there; `ThreadInv`: where the two threads
  can be at the same time, so that none is left waiting when the other leaves;
* `HitInv`, `ReasonInv`: the hit is the first launch that shows something, and why a scan ends.

For connecting (`ConnectInv`) the inductive part is `SharesLeft`: before each address, and at the
end of the one being waited for, what is left of the deadline is an equal share of the whole
budget for every later address. Dividing what is left by the addresses left keeps this although it
rounds down (`RestShared`).

For the framing (`FramesAsSentKept`) the scanner is a fold over the bytes of the buffer and the
texts of a pool are nested to any depth, so that what it finds needs induction. The library's
induction theorems take an operator, which the provers here cannot instantiate; the induction is
therefore over a set of numbers (`SetInduction`: a set that holds 0, and with n also n + 1, holds
every natural number), and the folds and recursive functions are unfolded to a function that
satisfies their equation, whose existence is shown the same way (`ScanFoldExists`,
`IsObjectExists`, `FlattensExists`). The facts about the scanner:

* `ObjectReads`: the text of an object is read over, leaving the brackets open as before it, if
  there is room for its nesting, and refused if there is none; strings may hold brackets and
  escaped quotes;
* `SoundLength`, `TooDeepLength`, `CrossedLength`: hence what each kind of message alone yields;
* `ReceivedLength`: a buffer that begins with a message yields its length once all of it is there
  and nothing before that, whatever follows it.

`FrameInv` says that the buffer and the bytes still to come are the messages not dispatched yet,
in their order, and that those dispatched fit. With `FrameFound` (the first brace is that of the
next message) each way to cut off a frame, refuse one or receive more keeps it.

For the team (`EachShareOnceKept`) a number, an addition and a search are library folds over the
digits or the turns. `FoldExists` shows once that the equation of such a fold has a solution; the
rest goes along the fold:

* `StampIs`, `StartLow`: the digits after the extranonce of a start are the number of its thread,
  and those kept for the counter are zero; so `CountersApart`: counters of two threads are never
  the same nonce, wherever the extranonce ends;
* `AddBeIs`: adding carries through the counter's digits and into no other as long as the sum
  fits them, so the salt, the stamp and the extranonce stay;
* `HashedIs`: a line and a place on it stand for the nonce they were made of;
* `StretchSearches`, `SearchRangeIs`: a search hashes the counters one after the other up to the
  first that is one of the hits, and with none all of the chunk, across the ends of lines.

The invariant (`CpuTeamInv`) says of each thread (`ThreadIs`) that what it hashed are the first
counters after its start, where `cur` and a counter found are among them, and that every share
among them was submitted, was dropped or is the one it is about to submit. `SentIs` adds that each
thread is past what it submitted, which is why nothing is submitted twice.

For the tree (`CommitsToThisAKept`) everything is compared with one function of the chunks:
`NodeOf(k, c, j, i)` is the definition's tree over the 2^j chunks from the i-th such group on, and
`TreeOf` has all the complete ones. The argument has three steps, each by induction over levels or
chunks (`SetInduction`, with `NatRecursion` for the functions that are defined by recursion):

* The root. n chunks are a row of perfect subtrees, one for each set bit of n, the largest first
  (`FirstTops`). Each is no smaller than all that follow it, so that in the definition the left
  subtree of what is left is always the next of the row (`IsCut`); folding the row from the right
  is therefore the definition's root (`TopsMerged`). `pearl_mh_root` takes this row from the
  levels, because the chunks before the subtree of a bit are a multiple of its size (`TakenNext`,
  `RootRight`).
* The stack. Before the chunk i is pushed, the stack is merged down to as many elements as i has
  set bits; those merges are the ones of the trailing set bits of i - 1, and they leave the row of
  i (`StackRight`).
* The levels. Built anew they are `TreeOf` (`BuiltRight`). An update makes again, on each level,
  at least the nodes above a chunk that changed; a node that is not made again has the same two
  children as before (`UpdatedRight`). On the device the threads' groups and the rest of the last
  write every node of a level (`AllWritten`), the offsets keep the levels apart (`OffsetsAre`,
  `PlacesAre`), and what is copied out is `TreeOf` (`DeviceRight`).

`TreeInv` then says that a valid tree of the job's key is `TreeOf` of the chunks as they are, a
tree of an older key has its levels at least, and the commitment is right.

## 6. What is only model-checked

Liveness and everything that depends on fairness or `ENABLED` is out of the prover's reach and
stays with TLC: `EveryShareSettled`, `MinerNeverStuck`, the fairness of `ShareHandoff` that
`ImplementsHandoff` includes, `SilentPoolIsLeft`, `ReconnectCompletes`,
`FeeCycleEndsUnlessRejected`, `AttemptReturns`. So does the absence of deadlock.

All safety invariants of the passing runs are theorems.

## 7. What the runs found

Four places where the program does not do what a comment says. Each is a run that expects a
violation; `PROJECT.json` quotes the lines.

1. `session_lost`: `pool_connection_lost` stores the flag and notifies without `g_inbox_mx`. The
   session loop may have looked at the flag and not yet wait: it then waits for good, with no
   reader to wake it.
2. `session_new_job`: the reader requests the cancellation before it queues the new job. The
   mining thread can end the old job, find the slot empty and wait, while the new job lies there.
3. `share_queue_stall`: a pool that stops reading blocks the worker in `send()`. The watchdog
   notices, but the job cannot end before the worker does, and the socket is closed only after.
4. `device_commitment_cuda`: a CUDA attempt cancelled between the row and its commitment leaves
   the row's sub-root stale but valid. A job that comes again with the same key is mined with it,
   and its shares carry a root that is not that of their matrix.

Four more that have no run of their own:

* A job that the pool sends again while another is mined can be cancelled for itself. Job 2 comes
  while job 1 is mined, cancels it and lies in the slot. The pool sends job 2 again; the reader
  finds a job active and the key not that of job 2 (`common/cp_pool.cpp:312-313`). Before it goes
  on, the mining thread ends job 1, takes job 2 and begins it. `cp_job_request_cancel`
  (`common/cp_job_ctrl.cpp:38-41`) then loads the new epoch and cancels job 2. Its comment (37) says
  "when a new job arrives during mining", and the line logged (316) "cancelling stale work"; neither
  is so. The job was queued once more and is begun afresh, or, with the race of finding 2, is left
  in the slot. Quantus has the same order. `CancelledForNewerOrResent` names the case as the second
  cause of a cancellation; without that disjunct `session` violates it, for both algorithms and
  with no key torn.
* The Pearl reconnect clears the inbox and not the pending slot, so that a job of the old
  connection can be mined, and its shares submitted, on the new one. `MinedJobOfThisSession` is
  therefore stated for Quantus, which clears the slot; without that condition `session` violates
  it.
* A fee session counts as successful once its loop has taken a job, even when the wallet is
  rejected. A pool that always sends a job first and rejects afterwards is dialled again at once,
  without delay and without end. `FeeCycleEndsUnlessRejected` says so in its hypothesis.
* The comments at `common/cp_noise.c:1208` and `include/cp_noise.h:75` say that the top level of
  the hash tree has at least two nodes. It has one: the perfect subtree of the highest bit of the
  number of chunks. The code that uses the level relies on the latter.

## 8. Plan

The order in which the modules were written is that of section 2: first what mixes threads,
matrices and connections (`ShareQueue`, `PoolSession`), then the money (`Fee`), then the backends
by how much control they have (`QpowSearch`, `HexagonScan`, `DeviceCommitment`, `TileScan`,
`NpuScan`), then the parts by themselves (`PoolWire`, `MatrixTree`, `QpowCpuTeam`). What is left:

* `DeviceCommitment` with device calls that fail, for a pool that repeats its keys;
* `PoolSession` and `ShareQueue` composed, so that a reconnect meets a share that is still being
  proved; today each takes the other's moves as choices, which allows more than the two together;
* the Quantus wgpu search, whose launches wait for one another and add little to `QpowSearch`.

## 9. What is not modelled, and why

* *Kernels and proofs*: noise, GEMM and hash kernels, proof construction in the Rust crates. They
  have no control state that a model checker could explore; their results are choices of outcome
  here, and the program's self-tests cover them.
* *The GEMM generator* under `onednn/case5_patches`: by far the largest part of the source, a
  patched copy of a vendored code generator. It emits GPU instructions before mining starts and
  keeps no state of the miner. Together with the kernels and the start-up code it is the greater
  part of the lines, which is why most lines of the repository have no counterpart here.
* *Device management*: allocation, probing of devices and features, choice of launch sizes,
  binding of threads. Runs once and in order; failures end the program.
* *Progress lines*: the lines a scan prints, and the thread that prints them, only read counters.
* *Failing device calls* in `DeviceCommitment` (see there); in `HexagonScan`, `QpowSearch`
  and the scans they are choices.
* *Text*: option parsing, message formats, logging, diagnostics, the HTTP API's JSON and its
  counters (one mutex, no waiting; `cp_api_add_work` reads the clock before it takes the mutex, so
  that the threads of a CPU team may report out of order, which moves a displayed rate only).
* *Memory ordering*: the models interleave single accesses, which is what the atomics of the job
  control and of the sessions (sequentially consistent, none names an order) allow, and the
  uncached words of the Hexagon block; data races on plain variables would be outside.
