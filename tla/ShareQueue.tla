----------------------------- MODULE ShareQueue -----------------------------
(***************************************************************************)
(* The share-proof queue of the Pearl miner (src/common/cp_share_queue.cpp) *)
(* with its two users: the mining thread running cp_mine_job               *)
(* (src/common/cp_mine.cpp) and the proof worker thread.  The mining thread *)
(* finds a share, moves the host matrices A and B^T it was found in into    *)
(* the queue without copying them, and may not scan into them again until   *)
(* the worker has built the proof and put them back.                        *)
(*                                                                         *)
(* One step is one critical section of the queue's mutex, or one stretch of *)
(* code between two of them.  The condition variable is explicit: a thread  *)
(* whose predicate is false enters asleep and leaves it only when notified, *)
(* so a forgotten notify shows.  Spurious wakeups change nothing (the       *)
(* predicate is evaluated again) and are left out.                          *)
(*                                                                         *)
(* The pool connection appears as far as the worker touches it: the socket  *)
(* a share is sent on, the table of submits awaiting a reply, the replies   *)
(* and the loss of the connection.                                          *)
(***************************************************************************)
EXTENDS Naturals, Sequences

CONSTANTS
  Modes,         \* the backend modes to run in, see ModeType
  MaxDepth,      \* capacity of the queue; cp_mine_init_host_buffers passes 1
  MaxNonce,      \* g_max_nonce: attempts per job (its 0, no limit, is large)
  MaxJobs,       \* bound: jobs started
  MaxSessions,   \* bound: pool connections opened
  PoolMayStall   \* may a live pool stop reading, so that send() blocks?

(***************************************************************************)
(* What the backend decides once (cp_mine.cpp:149-164):                     *)
(*   witness   proofs are built from device sub-roots, no host buffers      *)
(*   defer     host buffers are written only when a share is fetched        *)
(*   handoffBt B^T is handed over with A                                    *)
(*   submits   shares are sent to a pool (neither --dry-run nor --mock)     *)
(*   mock      the job ends with its first share                            *)
(***************************************************************************)
ModeType == [witness: BOOLEAN, defer: BOOLEAN, handoffBt: BOOLEAN,
             submits: BOOLEAN, mock: BOOLEAN]

ASSUME ModesAssumption == Modes \subseteq ModeType
ASSUME DepthAssumption == MaxDepth \in Nat \ {0}
ASSUME BoundsAssumption == /\ MaxNonce \in Nat \ {0}
                           /\ MaxJobs \in Nat
                           /\ MaxSessions \in Nat \ {0}
                           /\ PoolMayStall \in BOOLEAN

VARIABLES
  mode,
  \* CpShareQueueImpl
  pending, shutdown, jobActive, inFlight, loaned, returnedA, returnedBt,
  jobCtx, queueKey, lastOutcome, asleep,
  \* mining thread: h_Ap_global and h_BpT_global are non-NULL, frees so far
  mpc, hA, hBt, freedA, freedBt, nonce, rc,
  \* job control: number of the job whose key is current, g_mining_active,
  \* cancellation requested for this job
  jobNo, miningActive, cancelReq,
  \* proof worker: program counter, its snapshot, the id of its submit
  wpc, snap, submitId,
  \* pool connection: the socket's number, g_net_conn_lost, the reader
  \* thread's phase, CpSubmitTable, submits the pool has yet to answer,
  \* whether the pool has stopped reading, the next JSON-RPC id
  sock, connLost, reader, tracked, wire, stalled, msgId,
  \* history: the shares the worker is done with
  settled

queueVars  == <<pending, shutdown, jobActive, inFlight, loaned, returnedA,
                returnedBt, jobCtx, queueKey, lastOutcome>>
bufferVars == <<hA, hBt, freedA, freedBt>>
jobVars    == <<jobNo, miningActive, cancelReq>>
minerVars  == <<mpc, bufferVars, nonce, rc, jobNo, miningActive>>
workerVars == <<wpc, snap, submitId, msgId, settled>>
poolVars   == <<sock, connLost, reader, tracked, wire, stalled>>
vars == <<mode, queueVars, asleep, minerVars, cancelReq, workerVars, poolVars>>

Outcomes == {"none", "ok", "proof_fail", "verify_fail", "dropped"}
JobResults == {"none", "cancelled", "fee_switch", "error"}

\* struct ShareSnapshot; sess is history: the socket of the job that found it.
Snapshot == [key: Nat, sess: Nat, nonce: Nat, a: BOOLEAN, bt: BOOLEAN]
NoSnap == [key |-> 0, sess |-> 0, nonce |-> 0, a |-> FALSE, bt |-> FALSE]
Submit == [id: Nat, sock: Nat, key: Nat, nonce: Nat]
ShareId == Nat \X Nat

ShareOf(s) == <<s.key, s.nonce>>

(***************************************************************************)
(* Initially: buffers allocated (cp_mine_init_host_buffers), the first      *)
(* connection open and its reader started, the worker idle.                 *)
(***************************************************************************)
Init ==
  /\ mode \in Modes
  /\ pending = <<>> /\ shutdown = FALSE /\ jobActive = FALSE /\ inFlight = 0
  /\ loaned = FALSE /\ returnedA = FALSE /\ returnedBt = FALSE
  /\ jobCtx = [sock |-> 0, key |-> 0] /\ queueKey = 0
  /\ lastOutcome = "none" /\ asleep = {}
  /\ mpc = "idle" /\ hA = ~mode.witness
  /\ hBt = (mode.handoffBt /\ ~mode.witness)
  /\ freedA = 0 /\ freedBt = 0 /\ nonce = 0 /\ rc = "none"
  /\ jobNo = 0 /\ miningActive = FALSE /\ cancelReq = FALSE
  /\ wpc = "wait" /\ snap = NoSnap /\ submitId = 0
  /\ sock = 1 /\ connLost = FALSE
  /\ reader = (IF mode.mock THEN "exited" ELSE "run")
  /\ tracked = {} /\ wire = {} /\ stalled = FALSE /\ msgId = 1
  /\ settled = {}

-----------------------------------------------------------------------------
\* Condition variable and matrix hand-off

Awake(t) == t \notin asleep
Sleep(t) == asleep' = asleep \cup {t}
\* Mutant: the notify is forgotten.
NotifyNobody == UNCHANGED asleep

NotifyAll == asleep' = {}
NotifyOne == IF asleep = {} THEN UNCHANGED asleep
             ELSE \E t \in asleep : asleep' = asleep \ {t}

\* cp_job_should_cancel
ShouldCancel == miningActive /\ (connLost \/ cancelReq)

\* Mutant: reclaim does not wait.
ReclaimReadyAlways(needA, needBt) == TRUE

\* Wait predicate of cp_share_queue_reclaim_matrices for the given needs.
ReclaimReady(needA, needBt) ==
  \/ shutdown
  \/ ~needA /\ ~needBt
  \/ needA /\ returnedA
  \/ needBt /\ returnedBt
  \/ ~loaned

\* Mutant: the pointers are copied out of the slot and left there.
TakeReturnedKeepsSlot(wantBt) ==
  /\ hA' = (hA \/ returnedA) /\ hBt' = (hBt \/ (wantBt /\ returnedBt))
  /\ UNCHANGED <<returnedA, returnedBt>>

\* Body of cp_share_queue_reclaim_matrices once the predicate holds.
TakeReturned(wantBt) ==
  /\ hA' = (hA \/ returnedA)
  /\ returnedA' = (returnedA /\ hA)
  /\ hBt' = (hBt \/ (wantBt /\ returnedBt))
  /\ returnedBt' = (returnedBt /\ (hBt \/ ~wantBt))

(***************************************************************************)
(* A call of cp_share_queue_reclaim_matrices at program point `at`: sleeps  *)
(* or takes the buffers and goes on to `next`, or to job_done with an error *)
(* when `needed` buffers are still missing.                                 *)
(***************************************************************************)
Reclaim(at, wantBt, next, checked) ==
  /\ mpc = at /\ Awake("miner")
  /\ IF ~ReclaimReady(~hA, wantBt /\ ~hBt)
     THEN /\ Sleep("miner")
          /\ UNCHANGED <<mpc, rc, bufferVars, returnedA, returnedBt>>
     ELSE /\ TakeReturned(wantBt)
          /\ IF checked /\ (~hA' \/ (mode.handoffBt /\ ~hBt'))
             THEN mpc' = "endJob" /\ rc' = "error"
             ELSE mpc' = next /\ UNCHANGED rc
          /\ UNCHANGED <<asleep, freedA, freedBt>>
  /\ UNCHANGED <<mode, pending, shutdown, jobActive, inFlight, loaned, jobCtx,
                 queueKey, lastOutcome, nonce, jobVars, workerVars, poolVars>>

-----------------------------------------------------------------------------
\* Mining thread: cp_mine_job

GoTo(label) == mpc' = label
EndJobWith(result) == mpc' = "endJob" /\ rc' = result

\* A step that moves the mining thread and touches nothing shared.
MinerOnly == UNCHANGED <<mode, queueVars, asleep, bufferVars, jobVars,
                         workerVars, poolVars>>

(***************************************************************************)
(* The session loop hands a job over: cp_job_mine_begin.  A job received    *)
(* or queued before the connection was lost is still started.               *)
(***************************************************************************)
StartJob ==
  /\ mpc = "idle" /\ jobNo < MaxJobs /\ rc # "fee_switch"
  /\ jobNo' = jobNo + 1 /\ miningActive' = TRUE /\ cancelReq' = FALSE
  /\ nonce' = 0 /\ rc' = "none" /\ GoTo("begin")
  /\ UNCHANGED <<mode, queueVars, asleep, bufferVars, workerVars, poolVars>>

\* Out of memory for the scan buffers, before the queue knows of the job.
ScanBuffersOom ==
  /\ mpc = "begin" /\ EndJobWith("error")
  /\ UNCHANGED nonce /\ MinerOnly

\* cp_share_queue_begin_job
BeginJob ==
  /\ mpc = "begin" /\ GoTo("loop")
  /\ jobCtx' = [sock |-> sock, key |-> jobNo] /\ queueKey' = jobNo
  /\ jobActive' = TRUE /\ lastOutcome' = "none"
  /\ UNCHANGED <<mode, pending, shutdown, inFlight, loaned, returnedA,
                 returnedBt, asleep, bufferVars, nonce, rc, jobVars,
                 workerVars, poolVars>>

NonceLimit == nonce >= MaxNonce

\* Top of the attempt loop: cancellation, wallet switch, max_nonce.
LoopCheck ==
  /\ mpc = "loop" /\ UNCHANGED nonce /\ MinerOnly
  /\ \/ ShouldCancel /\ EndJobWith("cancelled")
     \/ ~ShouldCancel /\ ~mode.mock /\ EndJobWith("fee_switch")
     \/ ~ShouldCancel /\ NonceLimit /\ EndJobWith("none")
     \/ /\ ~ShouldCancel /\ ~NonceLimit /\ UNCHANGED rc
        /\ GoTo(IF mode.defer \/ mode.witness THEN "scan" ELSE "reclaim")

\* Host buffers are taken back before an attempt that writes them.
ReclaimForScan == Reclaim("reclaim", mode.handoffBt, "scan", TRUE)

(***************************************************************************)
(* Seed, matrix generation and cp_worker_mine_attempt: no hit, a hit, an    *)
(* error (the seed's is one whether or not the job is cancelled), or a      *)
(* cancellation: pearl_generate_ab fails only on one (cp_noise.c:249-286),  *)
(* a failing noise or attempt is taken for one when one was asked for.      *)
(***************************************************************************)
Scan ==
  /\ mpc = "scan" /\ MinerOnly
  /\ \/ GoTo("loop") /\ nonce' = nonce + 1 /\ UNCHANGED rc
     \/ GoTo("hit") /\ UNCHANGED <<nonce, rc>>
     \/ EndJobWith("error") /\ UNCHANGED nonce
     \/ ShouldCancel /\ EndJobWith("cancelled") /\ UNCHANGED nonce

\* A hit of a job that was cancelled meanwhile is not handed over.
Hit ==
  /\ mpc = "hit" /\ UNCHANGED nonce /\ MinerOnly
  /\ IF ShouldCancel THEN EndJobWith("cancelled")
     ELSE /\ UNCHANGED rc
          /\ GoTo(IF mode.witness THEN "fetch" ELSE "reclaimHit")

ReclaimForShare ==
  Reclaim("reclaimHit", mode.handoffBt, IF mode.defer THEN "fetch" ELSE "enqueue",
          TRUE)

\* cp_worker_fetch_share_witness or cp_worker_fetch_share_signals
Fetch ==
  /\ mpc = "fetch" /\ UNCHANGED nonce /\ MinerOnly
  /\ (GoTo("enqueue") /\ UNCHANGED rc) \/ EndJobWith("error")

\* Mutant: the share the worker has is not counted against the depth.
EnqueueReadyPendingOnly == shutdown \/ Len(pending) < MaxDepth

EnqueueReady ==
  \/ shutdown
  \/ /\ Len(pending) < MaxDepth /\ inFlight = 0
     /\ mode.witness \/ ~loaned

\* The snapshot new_snapshot makes, with the buffers moved into it.
NewSnapshot ==
  [key |-> queueKey, sess |-> jobCtx.sock, nonce |-> nonce,
   a |-> hA /\ ~mode.witness, bt |-> hBt /\ mode.handoffBt /\ ~mode.witness]

(***************************************************************************)
(* The locked part of cp_share_queue_enqueue_hit and ..._enqueue_witness:   *)
(* refused without a job, without A, when shutting down or out of memory;   *)
(* otherwise waits for room.  Buffers left in the slot are freed first.     *)
(***************************************************************************)
Refused == ~jobActive \/ shutdown \/ (~mode.witness /\ ~hA)

EnqueueRefused ==
  /\ mpc = "enqueue" /\ Awake("miner")
  /\ EndJobWith("error") /\ UNCHANGED nonce /\ MinerOnly

EnqueueWait ==
  /\ mpc = "enqueue" /\ Awake("miner") /\ ~Refused /\ ~EnqueueReady
  /\ Sleep("miner")
  /\ UNCHANGED <<mode, queueVars, minerVars, cancelReq, workerVars, poolVars>>

Enqueue ==
  /\ mpc = "enqueue" /\ Awake("miner") /\ ~Refused /\ EnqueueReady
  /\ pending' = Append(pending, NewSnapshot)
  /\ IF mode.witness
     THEN UNCHANGED <<loaned, returnedA, returnedBt, bufferVars>>
     ELSE /\ loaned' = TRUE /\ hA' = FALSE
          /\ hBt' = (hBt /\ ~mode.handoffBt)
          /\ returnedA' = FALSE /\ returnedBt' = FALSE
          /\ freedA' = freedA + (IF returnedA THEN 1 ELSE 0)
          /\ freedBt' = freedBt + (IF returnedBt THEN 1 ELSE 0)
  /\ GoTo("notify")
  /\ UNCHANGED <<mode, shutdown, jobActive, inFlight, jobCtx, queueKey,
                 lastOutcome, asleep, nonce, rc, jobVars, workerVars, poolVars>>

\* cv.notify_one after the lock is released; --mock stops at its first share.
EnqueueNotify ==
  /\ mpc = "notify" /\ NotifyOne
  /\ IF mode.mock THEN EndJobWith("none") /\ UNCHANGED nonce
     ELSE GoTo("loop") /\ nonce' = nonce + 1 /\ UNCHANGED rc
  /\ UNCHANGED <<mode, queueVars, bufferVars, jobVars, workerVars, poolVars>>

\* cp_share_queue_end_job: close the job, then wait until nothing is left.
EndJob ==
  /\ mpc = "endJob" /\ GoTo("drain") /\ jobActive' = FALSE
  /\ UNCHANGED <<mode, pending, shutdown, inFlight, loaned, returnedA,
                 returnedBt, jobCtx, queueKey, lastOutcome, asleep, bufferVars,
                 nonce, rc, jobVars, workerVars, poolVars>>

\* Mutant: end_job waits for the queue only.
DrainedQueueOnly == pending = <<>>

Drained == pending = <<>> /\ inFlight = 0 /\ ~loaned

Drain ==
  /\ mpc = "drain" /\ Awake("miner")
  /\ IF Drained THEN GoTo("reclaimEnd") /\ UNCHANGED asleep
     ELSE Sleep("miner") /\ UNCHANGED mpc
  /\ UNCHANGED <<mode, queueVars, bufferVars, nonce, rc, jobVars, workerVars,
                 poolVars>>

ReclaimAtEnd == Reclaim("reclaimEnd", TRUE, "finish", FALSE)

(***************************************************************************)
(* The result of the job, then cp_job_mine_end.  An error ends the program  *)
(* (pool_session_fatal), and so does the end of a --mock run.               *)
(***************************************************************************)
FinishJob ==
  /\ mpc = "finish"
  /\ rc' = IF connLost \/ (ShouldCancel /\ rc # "fee_switch")
           THEN "cancelled" ELSE rc
  /\ miningActive' = FALSE
  /\ GoTo(IF mode.mock \/ rc' = "error" THEN "destroy" ELSE "idle")
  /\ UNCHANGED <<mode, queueVars, asleep, bufferVars, nonce, jobNo, cancelReq,
                 workerVars, poolVars>>

(***************************************************************************)
(* The session loop leaves the connection (it is lost, or the wallet        *)
(* changes): the reader is stopped, the socket closed, a new one connected  *)
(* with an empty submit table, and the reader started.                      *)
(***************************************************************************)
Reconnect ==
  /\ mpc = "idle" /\ (connLost \/ rc = "fee_switch") /\ sock < MaxSessions
  /\ sock' = sock + 1 /\ connLost' = FALSE /\ reader' = "run"
  /\ tracked' = {} /\ wire' = {} /\ stalled' = FALSE
  /\ msgId' = msgId + 1   \* the authorize request
  /\ rc' = "none"
  /\ UNCHANGED <<mode, queueVars, asleep, mpc, bufferVars, nonce, jobVars, wpc,
                 snap, submitId, settled>>

\* cp_share_queue_destroy: raise shutdown, wake the worker, join, free.
DestroyMark ==
  /\ mpc = "destroy" /\ GoTo("join") /\ shutdown' = TRUE /\ NotifyAll
  /\ UNCHANGED <<mode, pending, jobActive, inFlight, loaned, returnedA,
                 returnedBt, jobCtx, queueKey, lastOutcome, bufferVars, nonce,
                 rc, jobVars, workerVars, poolVars>>

One(b) == IF b THEN 1 ELSE 0
QueuedA == \E i \in 1..Len(pending) : pending[i].a
QueuedBt == \E i \in 1..Len(pending) : pending[i].bt

\* Snapshots left, the slot, and then the miner's own buffers are freed.
DestroyJoin ==
  /\ mpc = "join" /\ wpc = "exit" /\ GoTo("halted")
  /\ pending' = <<>> /\ returnedA' = FALSE /\ returnedBt' = FALSE
  /\ hA' = FALSE /\ hBt' = FALSE
  /\ freedA' = freedA + One(QueuedA) + One(returnedA) + One(hA)
  /\ freedBt' = freedBt + One(QueuedBt) + One(returnedBt) + One(hBt)
  /\ UNCHANGED <<mode, shutdown, jobActive, inFlight, loaned, jobCtx, queueKey,
                 lastOutcome, asleep, nonce, rc, jobVars, workerVars, poolVars>>

-----------------------------------------------------------------------------
\* Proof worker: worker_main and process_snapshot

WorkerLocal == UNCHANGED <<mode, minerVars, cancelReq, pending, shutdown,
                           jobActive, loaned, returnedA, returnedBt, jobCtx,
                           queueKey, poolVars>>

\* Wait for a snapshot or for shutdown with none left; take the oldest.
WorkerTake ==
  /\ wpc = "wait" /\ Awake("worker")
  /\ IF pending # <<>>
     THEN /\ wpc' = "check" /\ snap' = Head(pending)
          /\ pending' = Tail(pending) /\ inFlight' = inFlight + 1
          /\ UNCHANGED asleep
     ELSE /\ IF shutdown THEN wpc' = "exit" /\ UNCHANGED asleep
                         ELSE Sleep("worker") /\ UNCHANGED wpc
          /\ UNCHANGED <<snap, pending, inFlight>>
  /\ UNCHANGED <<mode, minerVars, cancelReq, shutdown, jobActive, loaned,
                 returnedA, returnedBt, jobCtx, queueKey, lastOutcome,
                 submitId, msgId, settled, poolVars>>

\* set_outcome and on to return_snapshot_matrices.
Conclude(outcome) ==
  /\ lastOutcome' = outcome /\ wpc' = "return"
  /\ settled' = settled \cup {ShareOf(snap)}

Proceed(label) == wpc' = label /\ UNCHANGED <<lastOutcome, settled>>

\* cp_job_key_matches, read without a lock.
KeyMatches == jobNo = snap.key

WorkerCheck ==
  /\ wpc = "check"
  /\ IF KeyMatches THEN Proceed("build") ELSE Conclude("dropped")
  /\ WorkerLocal /\ UNCHANGED <<inFlight, asleep, snap, submitId, msgId>>

\* Proof built from the snapshot's matrices; out of memory, failed or short.
WorkerBuild ==
  /\ wpc = "build"
  /\ Proceed("recheck") \/ Conclude("proof_fail")
  /\ WorkerLocal /\ UNCHANGED <<inFlight, asleep, snap, submitId, msgId>>

\* The key again, --verify, and the runs that do not submit.
WorkerRecheck ==
  /\ wpc = "recheck"
  /\ IF ~KeyMatches THEN Conclude("dropped")
     ELSE \/ Conclude("verify_fail")
          \/ IF mode.submits THEN Proceed("submit") ELSE Conclude("ok")
  /\ WorkerLocal /\ UNCHANGED <<inFlight, asleep, snap, submitId, msgId>>

\* (*msg_id)++ and cp_pool_track_submit, before the send.
WorkerTrack ==
  /\ wpc = "submit" /\ Proceed("send")
  /\ submitId' = msgId /\ msgId' = msgId + 1
  /\ tracked' = tracked \cup {msgId}
  /\ UNCHANGED <<mode, minerVars, cancelReq, queueVars, asleep, snap,
                 sock, connLost, reader, wire, stalled>>

(***************************************************************************)
(* cp_pool_send_plain_proof_submit on the job's socket: sent, or failed and *)
(* untracked.  While the pool does not read, send() blocks; nothing closes  *)
(* the socket under it.                                                     *)
(***************************************************************************)
WorkerSend ==
  /\ wpc = "send" /\ ~stalled
  /\ \/ /\ Conclude("ok") /\ UNCHANGED tracked
        /\ wire' = wire \cup {[id |-> submitId, sock |-> jobCtx.sock,
                               key |-> snap.key, nonce |-> snap.nonce]}
     \/ /\ Conclude("proof_fail") /\ UNCHANGED wire
        /\ tracked' = tracked \ {submitId}
  /\ UNCHANGED <<mode, minerVars, cancelReq, pending, shutdown, jobActive,
                 inFlight, loaned, returnedA, returnedBt, jobCtx, queueKey,
                 asleep, snap, submitId, msgId, sock, connLost, reader, stalled>>

(***************************************************************************)
(* return_snapshot_matrices: buffers into the slot (a buffer already there  *)
(* is freed), or freed during shutdown; then the loan ends.                 *)
(***************************************************************************)
WorkerReturn ==
  /\ wpc = "return" /\ wpc' = "release"
  /\ returnedA' = (returnedA \/ (snap.a /\ ~shutdown))
  /\ freedA' = freedA + One(snap.a /\ (shutdown \/ returnedA))
  /\ returnedBt' = (returnedBt \/ (snap.bt /\ ~shutdown))
  /\ freedBt' = freedBt + One(snap.bt /\ (shutdown \/ returnedBt))
  /\ snap' = [snap EXCEPT !.a = FALSE, !.bt = FALSE]
  /\ loaned' = FALSE /\ NotifyAll
  /\ UNCHANGED <<mode, pending, shutdown, jobActive, inFlight, jobCtx, queueKey,
                 lastOutcome, mpc, hA, hBt, nonce, rc, jobVars, submitId,
                 msgId, settled, poolVars>>

\* Mutant: in_flight is lowered twice.
WorkerReleaseTwice ==
  /\ wpc = "release" /\ wpc' = "wait"
  /\ inFlight' = inFlight - 2 /\ snap' = NoSnap /\ NotifyAll
  /\ WorkerLocal /\ UNCHANGED <<lastOutcome, submitId, msgId, settled>>

WorkerRelease ==
  /\ wpc = "release" /\ wpc' = "wait"
  /\ inFlight' = inFlight - 1 /\ snap' = NoSnap /\ NotifyAll
  /\ WorkerLocal /\ UNCHANGED <<lastOutcome, submitId, msgId, settled>>

-----------------------------------------------------------------------------
\* Pool reader thread and the pool itself

PoolOnly == UNCHANGED <<mode, queueVars, asleep, minerVars, workerVars>>

\* A newer job arrives while one is mined: cp_job_request_cancel.
NewJobArrives ==
  /\ reader = "run" /\ miningActive /\ ~cancelReq
  /\ cancelReq' = TRUE /\ PoolOnly /\ UNCHANGED poolVars

\* Mutant: any reply answers every submit.
SubmitReplyClears ==
  /\ reader = "run"
  /\ \E w \in wire : wire' = wire \ {w} /\ tracked' = {}
  /\ PoolOnly /\ UNCHANGED <<cancelReq, sock, connLost, reader, stalled>>

\* The reply to a submit: CpSubmitTable::finish.
SubmitReply ==
  /\ reader = "run"
  /\ \E w \in wire : wire' = wire \ {w} /\ tracked' = tracked \ {w.id}
  /\ PoolOnly /\ UNCHANGED <<cancelReq, sock, connLost, reader, stalled>>

\* pool_connection_lost clears the submit table before it raises the flag.
ReaderGivesUp ==
  /\ reader = "run" /\ reader' = "dropping" /\ tracked' = {}
  /\ PoolOnly /\ UNCHANGED <<cancelReq, sock, connLost, wire, stalled>>

\* A rejected authorize does the same, but the reader reads on.
AuthorizeRejected ==
  /\ reader = "run" /\ ~connLost /\ reader' = "rejecting" /\ tracked' = {}
  /\ PoolOnly /\ UNCHANGED <<cancelReq, sock, connLost, wire, stalled>>

\* ... and raises it; a failed recv raises it at once.
ConnectionLost ==
  /\ reader \in {"run", "dropping", "rejecting"} /\ connLost' = TRUE
  /\ reader' = IF reader = "rejecting" THEN "run" ELSE "exited"
  /\ PoolOnly /\ UNCHANGED <<cancelReq, sock, tracked, wire, stalled>>

\* The pool keeps the connection but has stopped reading: only a send notices.
PoolStalls ==
  /\ PoolMayStall /\ wpc = "send" /\ ~stalled /\ stalled' = TRUE
  /\ PoolOnly /\ UNCHANGED <<cancelReq, sock, connLost, reader, tracked, wire>>

\* ... and reads again.
PoolResumes ==
  /\ stalled /\ stalled' = FALSE
  /\ PoolOnly /\ UNCHANGED <<cancelReq, sock, connLost, reader, tracked, wire>>

-----------------------------------------------------------------------------
MinerStep ==
  \/ ScanBuffersOom \/ BeginJob \/ LoopCheck \/ ReclaimForScan \/ Scan \/ Hit
  \/ ReclaimForShare \/ Fetch \/ EnqueueRefused \/ EnqueueWait \/ Enqueue
  \/ EnqueueNotify \/ EndJob \/ Drain \/ ReclaimAtEnd \/ FinishJob
  \/ DestroyMark \/ DestroyJoin

WorkerStep ==
  \/ WorkerTake \/ WorkerCheck \/ WorkerBuild \/ WorkerRecheck \/ WorkerTrack
  \/ WorkerSend \/ WorkerReturn \/ WorkerRelease

PoolStep ==
  \/ NewJobArrives \/ SubmitReply \/ ReaderGivesUp \/ AuthorizeRejected
  \/ ConnectionLost \/ PoolStalls \/ PoolResumes

\* The program has ended, or a bound of the model leaves it idle.
Rest ==
  /\ mpc \in {"idle", "halted"}
  /\ UNCHANGED vars

Next == StartJob \/ Reconnect \/ MinerStep \/ WorkerStep \/ PoolStep \/ Rest

Spec == Init /\ [][Next]_vars

(***************************************************************************)
(* Both threads keep running, and the session loop reconnects when it must; *)
(* nothing is assumed of the pool.                                          *)
(***************************************************************************)
Fairness == WF_vars(MinerStep) /\ WF_vars(WorkerStep) /\ WF_vars(Reconnect)

FairSpec == Spec /\ Fairness

-----------------------------------------------------------------------------
(***************************************************************************)
(* Properties                                                               *)
(***************************************************************************)

MinerLabels == {"idle", "begin", "loop", "reclaim", "scan", "hit", "reclaimHit",
                "fetch", "enqueue", "notify", "endJob", "drain", "reclaimEnd",
                "finish", "destroy", "join", "halted"}
WorkerLabels == {"wait", "check", "build", "recheck", "submit", "send",
                 "return", "release", "exit"}

CounterTypeOK ==
  /\ inFlight \in Nat /\ queueKey \in Nat /\ freedA \in Nat /\ freedBt \in Nat
  /\ nonce \in Nat /\ jobNo \in Nat /\ submitId \in Nat /\ msgId \in Nat
  /\ sock \in Nat

FlagTypeOK ==
  /\ shutdown \in BOOLEAN /\ jobActive \in BOOLEAN /\ loaned \in BOOLEAN
  /\ returnedA \in BOOLEAN /\ returnedBt \in BOOLEAN
  /\ hA \in BOOLEAN /\ hBt \in BOOLEAN
  /\ miningActive \in BOOLEAN /\ cancelReq \in BOOLEAN
  /\ connLost \in BOOLEAN /\ stalled \in BOOLEAN

LabelTypeOK ==
  /\ mpc \in MinerLabels /\ wpc \in WorkerLabels
  /\ reader \in {"run", "dropping", "rejecting", "exited"}
  /\ rc \in JobResults /\ lastOutcome \in Outcomes

DataTypeOK ==
  /\ mode \in Modes /\ pending \in Seq(Snapshot) /\ snap \in Snapshot
  /\ jobCtx \in [sock: Nat, key: Nat]

SetTypeOK ==
  /\ asleep \in SUBSET {"miner", "worker"}
  /\ tracked \in SUBSET Nat /\ wire \in SUBSET Submit /\ settled \in SUBSET ShareId

\* Every variable has its type (the state of cp_share_queue.cpp and its users).
TypeOK ==
  CounterTypeOK /\ FlagTypeOK /\ LabelTypeOK /\ DataTypeOK /\ SetTypeOK

WorkerBusy == wpc \notin {"wait", "exit"}

\* How many places hold A, and B^T: the miner, the reclaim slot, a queued
\* snapshot, the worker's snapshot, and the allocator it was given back to.
CopiesOfA == One(hA) + One(returnedA) + One(QueuedA) + One(snap.a) + freedA
CopiesOfBt == One(hBt) + One(returnedBt) + One(QueuedBt) + One(snap.bt) + freedBt

(***************************************************************************)
(* Each host matrix is in exactly one place at any time: never scanned into *)
(* while a proof reads it, never leaked, never freed twice, by the moves of *)
(* enqueue_hit, return_snapshot_matrices, reclaim_matrices and destroy; and *)
(* it is freed only once the program shuts down.                            *)
(***************************************************************************)
OneOwner ==
  /\ CopiesOfA = One(~mode.witness)
  /\ CopiesOfBt = One(mode.handoffBt /\ ~mode.witness)
  /\ freedA + freedBt > 0 => shutdown

(***************************************************************************)
(* The mining thread writes the host buffers only while it has them: the    *)
(* "missing after reclaim" errors of cp_mine.cpp:203 and :377 never happen, *)
(* although reclaim_matrices may return without having found anything.      *)
(***************************************************************************)
ReclaimFindsBuffers ==
  [][ /\ mpc \in {"reclaim", "reclaimHit"} => mpc' # "endJob"
      /\ mpc = "reclaimEnd" /\ mpc' = "finish" /\ ~mode.witness
           => hA' /\ (mode.handoffBt => hBt') ]_vars

(***************************************************************************)
(* While the worker has a share, the unlocked state it uses is that of the  *)
(* job that found it: job_ctx (socket, dimensions) and the mining key.  So  *)
(* the two "job changed" drops of process_snapshot never run: end_job waits *)
(* for the share before the next job can begin.                             *)
(***************************************************************************)
JobContextStable ==
  WorkerBusy /\ wpc # "release" =>
    /\ KeyMatches /\ jobCtx = [sock |-> snap.sess, key |-> snap.key]
    /\ sock = snap.sess

(***************************************************************************)
(* Between jobs the queue is empty, nothing is lent out and the miner has   *)
(* its buffers: what the wait in cp_share_queue_end_job is for.             *)
(***************************************************************************)
QuietBetweenJobs ==
  mpc \in {"idle", "begin", "finish"} =>
    /\ Drained /\ ~WorkerBusy
    /\ ~mode.witness => hA /\ ~returnedA
    /\ mode.handoffBt /\ ~mode.witness => hBt /\ ~returnedBt

\* Jobs are kept apart: what cp_share_queue_end_job waits for, seen from the
\* worker and from the miner.
JobsApart == JobContextStable /\ QuietBetweenJobs

(***************************************************************************)
(* While the connection is up, the submit table holds exactly the ids the   *)
(* pool still owes a reply and the one being sent: a share without reply is *)
(* always noticed, and no answered or unsent id can trip the watchdog       *)
(* (the comment at cp_share_queue.cpp:356-357).                             *)
(***************************************************************************)
SubmitsWatched ==
  reader = "run" /\ ~connLost =>
    tracked = {w.id : w \in wire} \cup
              (IF wpc = "send" THEN {submitId} ELSE {})

(***************************************************************************)
(* A share goes out at most once, and on the connection its job came from   *)
(* (the socket of a dead session is never written to by a later one).       *)
(***************************************************************************)
SentOnceOnOwnSocket ==
  /\ \A x, y \in wire : (x.key = y.key /\ x.nonce = y.nonce) \/ x.id = y.id => x = y
  /\ \A x \in wire : x.sock = sock

\* What the pool has of this connection's shares and what the submit table
\* has of them agree, and no share is there twice or from another connection.
SubmitsAccounted == SubmitsWatched /\ SentOnceOnOwnSocket

(***************************************************************************)
(* Every share handed over is settled: proved and sent, or given up.        *)
(***************************************************************************)
EveryShareSettled ==
  \A k \in 1..MaxJobs, n \in 0..MaxNonce :
    (\E i \in 1..Len(pending) : ShareOf(pending[i]) = <<k, n>>)
      ~> <<k, n>> \in settled

(***************************************************************************)
(* A cancelled job, or one whose connection is lost, ends: the mining       *)
(* thread never stays blocked on the queue (in reclaim, enqueue or end_job) *)
(* however the worker's proof turns out.                                    *)
(***************************************************************************)
CancelledJobEnds == ShouldCancel ~> ~miningActive

(***************************************************************************)
(* A connection given up is left: "reconnect rather than mine on"           *)
(* (cp_pool.cpp:143).  It fails when the pool stops reading: the worker     *)
(* blocks in send(), nothing closes the socket, and end_job waits for the   *)
(* worker before the session loop can reconnect.                            *)
(***************************************************************************)
LostConnectionIsLeft == connLost ~> mpc \in {"idle", "halted"}

(***************************************************************************)
(* Destroying the queue terminates: the worker sees shutdown and exits.     *)
(***************************************************************************)
DestroyTerminates == mpc = "destroy" ~> mpc = "halted"

\* The mining thread never stays blocked on the queue's condition variable: a
\* cancelled job ends, and the queue can be destroyed.
MinerNeverStuck == CancelledJobEnds /\ DestroyTerminates

-----------------------------------------------------------------------------
(***************************************************************************)
(* The queue implements the contract of ShareHandoff.  A share waits from   *)
(* Enqueue until its outcome is set; the matrices are with the queue until  *)
(* return_snapshot_matrices puts them in the slot.                          *)
(***************************************************************************)
Unsettled == wpc \in {"check", "build", "recheck", "submit", "send"}

WaitingShares ==
  (IF Unsettled THEN <<ShareOf(snap)>> ELSE <<>>)
    \o [i \in 1..Len(pending) |-> ShareOf(pending[i])]

MatrixHolder ==
  IF mode.witness   THEN "nobody"
  ELSE IF freedA > 0 THEN "freed"
  ELSE IF hA         THEN "miner"
  ELSE IF returnedA  THEN "slot"
  ELSE "queue"

Handoff ==
  INSTANCE ShareHandoff WITH
    Shares <- (1..MaxJobs) \X (0..MaxNonce), Depth <- MaxDepth,
    open <- jobActive, waiting <- WaitingShares, settled <- settled,
    holder <- MatrixHolder
(***************************************************************************)
(* The queue behaves as the contract of include/cp_share_queue.h says.      *)
(***************************************************************************)
ImplementsHandoff == Handoff!HandoffSpec
=============================================================================
