---------------------------- MODULE PoolSession -----------------------------
(***************************************************************************)
(* A pool session: the reader thread (src/common/cp_pool.cpp), the session  *)
(* loop and mining thread (src/common/cp_pool_session.cpp) and the job      *)
(* control they share (src/common/cp_job_ctrl.cpp).                         *)
(*                                                                         *)
(* A job reaches the mining thread in one of two ways.  While nothing is    *)
(* mined the reader pushes the line into the inbox and wakes the session    *)
(* loop.  While a job is mined it asks for its cancellation and leaves the  *)
(* new job in a one-place pending slot, which the mining thread looks into  *)
(* after a cancelled job.  The choice depends on g_mining_active, which the *)
(* mining thread changes meanwhile; the job-control variables are atomics   *)
(* the reader touches without the lock cp_job_mine_begin takes.  One step   *)
(* is one access to such a variable or one critical section.                *)
(*                                                                         *)
(* cp_mine_job itself is reduced to begin, mine, end: see ShareQueue.       *)
(***************************************************************************)
EXTENDS Integers, Sequences

CONSTANTS
  Algos,        \* the algorithms the program may be started for
  MaxJobs,      \* bound: distinct jobs the pool sends
  MaxSessions,  \* bound: connections
  MaxInbox,     \* bound: lines waiting in the inbox
  ResendUntil   \* bound: the pool sends a job of a session again only until
                \* this many jobs were begun (0: never)

ASSUME AlgosAssumption == Algos \in SUBSET {"pearl", "quantus"} /\ Algos # {}
ASSUME BoundsAssumption == /\ MaxJobs \in Nat \ {0}
                           /\ MaxSessions \in Nat \ {0}
                           /\ MaxInbox \in Nat \ {0}
                           /\ ResendUntil \in Nat

VARIABLES
  \* the algorithm chosen at start-up: which of the two session loops runs
  algo,
  \* mining thread: program counter, the job in hand, cur_job_key, result
  mpc, job, curKey, rc,
  \* cp_job_ctrl.cpp: g_mine_epoch, g_cancel_epoch, g_mining_active,
  \* g_mining_job_key (0: being written)
  epoch, cancelEpoch, active, key,
  \* reader thread: program counter, the job in hand, the epoch it loaded,
  \* g_net_reader_run
  rpc, rjob, repoch, running,
  \* shared: g_net_conn_lost, g_pool_inbox, is the session loop waiting on
  \* g_inbox_cv, the pending slot
  connLost, inbox, asleep, pending,
  \* g_session_stage, whether its deadline has passed, and whether an
  \* authorize reply is awaited (g_auth_msg_id)
  stage, late, authWanted,
  \* history: connections made, newest job the pool sent, and the newest it
  \* sent on this connection; has it sent that one again on this connection
  \* while a job was being mined?
  session, latest, announced, resent

minerVars == <<mpc, job, curKey, rc>>
ctrlVars  == <<epoch, cancelEpoch, active, key>>
readerVars == <<rpc, rjob, repoch>>
stageVars == <<stage, late, authWanted>>
poolVars  == <<session, latest, announced, resent>>
vars == <<algo, minerVars, ctrlVars, readerVars, running, connLost, inbox, asleep,
          pending, stageVars, poolVars>>

\* A job of a session; num stands for its key, num 0 is a line that is no job.
Job == [num: 0..MaxJobs, sess: 0..MaxSessions]
NoJob == [num |-> 0, sess |-> 0]

\* The program starts at the reconnect label with everything clear.
Init ==
  /\ algo \in Algos
  /\ mpc = "stop" /\ job = NoJob /\ curKey = 0 /\ rc = "none"
  /\ epoch = 0 /\ cancelEpoch = 0 /\ active = FALSE /\ key = 0
  /\ rpc = "off" /\ rjob = NoJob /\ repoch = 0 /\ running = FALSE
  /\ connLost = FALSE /\ inbox = <<>> /\ asleep = FALSE /\ pending = NoJob
  /\ stage = "idle" /\ late = FALSE /\ authWanted = FALSE
  /\ session = 0 /\ latest = 0 /\ announced = 0 /\ resent = FALSE

SetStage(s) == stage' = s /\ late' = FALSE

-----------------------------------------------------------------------------
\* Session loop

\* Mutant: the reader is joined without being asked to stop.
StopReaderUnasked ==
  /\ mpc = "stop" /\ mpc' = "join"
  /\ UNCHANGED <<job, curKey, rc, ctrlVars, readerVars, running, connLost, inbox,
                 asleep, pending, stageVars, poolVars>>

\* cp_pool_reader_stop: ask the reader to stop ...
StopReader ==
  /\ mpc = "stop" /\ mpc' = "join" /\ running' = FALSE
  /\ UNCHANGED <<job, curKey, rc, ctrlVars, readerVars, connLost, inbox, asleep,
                 pending, stageVars, poolVars>>

\* Mutant: the pending slot survives.
JoinReaderKeepsPending ==
  /\ mpc = "join" /\ rpc = "off"
  /\ mpc' = (IF rc = "error" THEN "halted" ELSE "connect")
  /\ inbox' = <<>> /\ curKey' = 0
  /\ UNCHANGED <<job, rc, ctrlVars, readerVars, running, connLost, asleep,
                 pending, stageVars, poolVars>>

\* ... join it, close the socket, clear the inbox (Quantus: the pending slot).
JoinReader ==
  /\ mpc = "join" /\ rpc = "off"
  /\ mpc' = (IF rc = "error" THEN "halted" ELSE "connect")
  /\ inbox' = <<>> /\ curKey' = 0
  /\ pending' = (IF algo = "quantus" THEN NoJob ELSE pending)
  /\ UNCHANGED <<job, rc, ctrlVars, readerVars, running, connLost, asleep,
                 stageVars, poolVars>>

(***************************************************************************)
(* Connect, then authorize (Pearl) or log in (Quantus: the reply is read    *)
(* before the reader starts and may carry the first job).  Either may fail, *)
(* and the loop starts over.                                                *)
(***************************************************************************)
Connect ==
  /\ mpc = "connect" /\ session < MaxSessions
  /\ session' = session + 1 /\ resent' = FALSE
  /\ IF algo = "pearl"
     THEN /\ SetStage("authorize") /\ authWanted' = TRUE
          /\ announced' = 0 /\ UNCHANGED <<job, latest>>
     ELSE /\ UNCHANGED authWanted
          /\ \/ /\ SetStage("first_job") /\ job' = NoJob
                /\ announced' = 0 /\ UNCHANGED latest
             \/ \E n \in {latest, latest + 1} \cap 1..MaxJobs :
                  /\ SetStage("ready") /\ latest' = n /\ announced' = n
                  /\ job' = [num |-> n, sess |-> session + 1]
  /\ \/ mpc' = "start"
     \/ mpc' = "stop"
  /\ UNCHANGED <<curKey, rc, ctrlVars, readerVars, running, connLost, inbox,
                 asleep, pending>>

\* cp_pool_reader_start; Quantus goes on with the job of the login reply.
StartReader ==
  /\ mpc = "start" /\ running' = TRUE /\ connLost' = FALSE /\ rpc' = "top"
  /\ rc' = "none"
  /\ mpc' = (CASE algo = "pearl" -> "wait"
              [] job.num = 0     -> "jobDone"
              [] OTHER           -> "handle")
  /\ UNCHANGED <<job, curKey, ctrlVars, rjob, repoch, inbox, asleep, pending,
                 stageVars, poolVars>>

(***************************************************************************)
(* cp_pool_wait_line with no timeout, up to the wait: the inbox first, then *)
(* the connection flag.  "block" is the point where the flag was found      *)
(* clear and the wait has not begun; the inbox mutex is held there.         *)
(***************************************************************************)
WaitLine ==
  /\ mpc = "wait" /\ ~asleep
  /\ IF inbox # <<>>
     THEN job' = Head(inbox) /\ inbox' = Tail(inbox) /\ mpc' = "handle"
     ELSE /\ mpc' = IF connLost THEN "stop" ELSE "block"
          /\ UNCHANGED <<job, inbox>>
  /\ UNCHANGED <<curKey, rc, ctrlVars, readerVars, running, connLost, asleep,
                 pending, stageVars, poolVars>>

WaitBlock ==
  /\ mpc = "block" /\ mpc' = "wait" /\ asleep' = TRUE
  /\ UNCHANGED <<job, curKey, rc, ctrlVars, readerVars, running, connLost, inbox,
                 pending, stageVars, poolVars>>

(***************************************************************************)
(* A line: a job other than the current one is mined, the rest is logged.   *)
(* After a line the loop reconnects only if that line was a job.            *)
(***************************************************************************)
HandleLine ==
  /\ mpc = "handle"
  /\ IF job.num = 0 THEN mpc' = "wait" /\ UNCHANGED <<curKey, rc>>
     ELSE IF job.num = curKey
     THEN mpc' = "jobDone" /\ rc' = "none" /\ UNCHANGED curKey
     ELSE curKey' = job.num /\ mpc' = "epoch" /\ UNCHANGED rc
  /\ UNCHANGED <<job, ctrlVars, readerVars, running, connLost, inbox, asleep,
                 pending, stageVars, poolVars>>

-----------------------------------------------------------------------------
\* Mining thread: cp_job_mine_begin, one shared variable at a time

Begin(at, next) ==
  /\ mpc = at /\ mpc' = next
  /\ UNCHANGED <<job, curKey, rc, readerVars, running, connLost, inbox, asleep,
                 pending, stageVars, poolVars>>

BeginEpoch == /\ Begin("epoch", "reset") /\ epoch' = epoch + 1
              /\ UNCHANGED <<cancelEpoch, active, key>>
BeginReset == /\ Begin("reset", "key") /\ cancelEpoch' = 0
              /\ UNCHANGED <<epoch, active, key>>
BeginKey == /\ Begin("key", "activate") /\ key' = 0
            /\ UNCHANGED <<epoch, cancelEpoch, active>>
BeginActive == /\ Begin("activate", "mine")
               /\ key' = job.num /\ active' = TRUE
               /\ UNCHANGED <<epoch, cancelEpoch>>

\* Quantus only: the wallet is to change, or no start nonce, before the job begins.
RefuseJob ==
  /\ algo = "quantus" /\ mpc = "epoch" /\ mpc' = "jobDone"
  /\ rc' \in {"fee_switch", "error"}
  /\ UNCHANGED <<job, curKey, ctrlVars, readerVars, running, connLost, inbox,
                 asleep, pending, stageVars, poolVars>>

\* cp_job_should_cancel
ShouldCancel == active /\ (connLost \/ (cancelEpoch = epoch /\ epoch # 0))

(***************************************************************************)
(* The attempt loop ends because it was told to, or because the wallet is   *)
(* to change, max_nonce is reached or the backend failed.                   *)
(***************************************************************************)
MineEnd(result) ==
  /\ mpc = "mine" /\ mpc' = "finish" /\ rc' = result
  /\ UNCHANGED <<job, curKey, ctrlVars, readerVars, running, connLost, inbox,
                 asleep, pending, stageVars, poolVars>>

MineCancelled == ShouldCancel /\ MineEnd("cancelled")
MineStops == ~ShouldCancel /\ \E r \in {"none", "fee_switch", "error"} : MineEnd(r)

(***************************************************************************)
(* Pearl looks at the cancellation once more; Quantus makes a job that ended *)
(* without a reason a cancelled one.  Then cp_job_mine_end.                 *)
(***************************************************************************)
EndsCancelled == IF algo = "pearl" THEN ShouldCancel /\ rc # "fee_switch"
                 ELSE rc = "none"

FinishJob ==
  /\ mpc = "finish" /\ mpc' = "end"
  /\ rc' = IF EndsCancelled THEN "cancelled" ELSE rc
  /\ UNCHANGED <<job, curKey, ctrlVars, readerVars, running, connLost, inbox,
                 asleep, pending, stageVars, poolVars>>

EndJob ==
  /\ mpc = "end" /\ active' = FALSE /\ mpc' = "result"
  /\ UNCHANGED <<job, curKey, rc, epoch, cancelEpoch, key, readerVars, running,
                 connLost, inbox, asleep, pending, stageVars, poolVars>>

(***************************************************************************)
(* The result of cp_mine_job, where a lost connection overrides the others, *)
(* or of cp_qpow_mine_job; and after a cancelled job the pending slot.      *)
(***************************************************************************)
JobResult ==
  /\ mpc = "result"
  /\ rc' = IF algo = "pearl" /\ connLost THEN "cancelled" ELSE rc
  /\ mpc' = IF rc' = "cancelled" THEN "take" ELSE "jobDone"
  /\ UNCHANGED <<job, curKey, ctrlVars, readerVars, running, connLost, inbox,
                 asleep, pending, stageVars, poolVars>>

TakePending ==
  /\ mpc = "take"
  /\ IF pending = NoJob
     THEN mpc' = "jobDone" /\ UNCHANGED <<job, curKey, pending>>
     ELSE /\ job' = pending /\ pending' = NoJob /\ curKey' = pending.num
          /\ mpc' = "epoch"
  /\ UNCHANGED <<rc, ctrlVars, readerVars, running, connLost, inbox, asleep,
                 stageVars, poolVars>>

\* Back in the session loop: stop, reconnect or wait for the next line.
JobDone ==
  /\ mpc = "jobDone"
  /\ mpc' = IF rc \in {"error", "fee_switch"} \/ connLost THEN "stop" ELSE "wait"
  /\ UNCHANGED <<job, curKey, rc, ctrlVars, readerVars, running, connLost, inbox,
                 asleep, pending, stageVars, poolVars>>

-----------------------------------------------------------------------------
\* Reader thread

ReaderKeeps == UNCHANGED <<minerVars, epoch, active, key, running, poolVars>>

\* Mutant: deadlines are not looked at while the pool sends lines.
ReaderTopNoDeadline ==
  /\ rpc = "top"
  /\ rpc' = (IF running THEN "recv" ELSE "off")
  /\ ReaderKeeps
  /\ UNCHANGED <<cancelEpoch, rjob, repoch, connLost, inbox, asleep, pending,
                 stageVars>>

\* Top of the loop: stop request, deadline, else on to the socket.
ReaderTop ==
  /\ rpc = "top"
  /\ rpc' = IF ~running THEN "off" ELSE IF late THEN "lose" ELSE "recv"
  /\ ReaderKeeps
  /\ UNCHANGED <<cancelEpoch, rjob, repoch, connLost, inbox, asleep, pending,
                 stageVars>>

\* 100 ms without data.
ReaderIdle ==
  /\ rpc = "recv" /\ rpc' = "top" /\ ReaderKeeps
  /\ UNCHANGED <<cancelEpoch, rjob, repoch, connLost, inbox, asleep, pending,
                 stageVars>>

\* A job from the pool, new or sent again: where it goes depends on `active`.
ReceiveJob ==
  /\ rpc = "recv" /\ (active \/ Len(inbox) < MaxInbox)
  /\ \E n \in {latest, latest + 1} \cap 1..MaxJobs :
       /\ n > announced \/ epoch < ResendUntil
       /\ rjob' = [num |-> n, sess |-> session]
       /\ latest' = n /\ announced' = n
       /\ resent' = (n <= announced /\ (resent \/ active))
  /\ SetStage("ready")
  /\ rpc' = IF active THEN "match" ELSE "push"
  /\ UNCHANGED <<minerVars, epoch, active, key, running, session, cancelEpoch,
                 repoch, connLost, inbox, asleep, pending, authWanted>>

\* A line of no interest: to the inbox, or only logged while a job is mined.
ReceiveOther ==
  /\ rpc = "recv" /\ ReaderKeeps /\ (active \/ Len(inbox) < MaxInbox)
  /\ rpc' = IF active THEN "top" ELSE "push"
  /\ rjob' = NoJob
  /\ UNCHANGED <<cancelEpoch, repoch, connLost, inbox, asleep, pending, stageVars>>

\* cp_pool_on_authorize_response; a rejection does not stop the reader.
AuthorizeReply(accepted) ==
  /\ rpc = "recv" /\ authWanted /\ authWanted' = FALSE
  /\ rpc' = IF accepted THEN "top" ELSE "reject"
  /\ IF accepted /\ stage = "authorize" THEN SetStage("first_job")
     ELSE UNCHANGED <<stage, late>>
  /\ ReaderKeeps
  /\ UNCHANGED <<cancelEpoch, rjob, repoch, connLost, inbox, asleep, pending>>

\* End of stream, unframeable data, or a submit without reply for 60 s.
ReceiveFails ==
  /\ rpc = "recv" /\ rpc' = "lose" /\ ReaderKeeps
  /\ UNCHANGED <<cancelEpoch, rjob, repoch, connLost, inbox, asleep, pending,
                 stageVars>>

\* The flag is raised and the waiters notified, without the inbox mutex.
LoseConnection ==
  /\ rpc \in {"lose", "reject"} /\ connLost' = TRUE
  /\ rpc' = (IF rpc = "lose" THEN "notify" ELSE "rejectNotify") /\ ReaderKeeps
  /\ UNCHANGED <<cancelEpoch, rjob, repoch, inbox, asleep, pending, stageVars>>

NotifyLost ==
  /\ rpc \in {"notify", "rejectNotify"} /\ asleep' = FALSE
  /\ rpc' = (IF rpc = "notify" THEN "off" ELSE "top") /\ ReaderKeeps
  /\ UNCHANGED <<cancelEpoch, rjob, repoch, connLost, inbox, pending, stageVars>>

\* Mutant: the job is queued before the cancellation is asked for.
MatchKeyQueueFirst ==
  /\ rpc = "match" /\ ReaderKeeps
  /\ \/ key \in {0, rjob.num} /\ rpc' = "top" /\ UNCHANGED pending
     \/ key # rjob.num /\ rpc' = "loadEpoch" /\ pending' = rjob
  /\ UNCHANGED <<cancelEpoch, rjob, repoch, connLost, inbox, asleep, stageVars>>

\* cp_job_key_matches; a key being written compares either way.
MatchKey ==
  /\ rpc = "match" /\ ReaderKeeps
  /\ \/ key \in {0, rjob.num} /\ rpc' = "top"
     \/ key # rjob.num /\ rpc' = "loadEpoch"
  /\ UNCHANGED <<cancelEpoch, rjob, repoch, connLost, inbox, asleep, pending,
                 stageVars>>

\* cp_job_request_cancel: load the epoch, then store it.
CancelLoad ==
  /\ rpc = "loadEpoch" /\ rpc' = "storeEpoch" /\ repoch' = epoch /\ ReaderKeeps
  /\ UNCHANGED <<cancelEpoch, rjob, connLost, inbox, asleep, pending, stageVars>>

\* Mutant: the epoch is advanced before it is stored.
CancelStoreNext ==
  /\ rpc = "storeEpoch" /\ rpc' = "queue" /\ cancelEpoch' = repoch + 1
  /\ ReaderKeeps
  /\ UNCHANGED <<rjob, repoch, connLost, inbox, asleep, pending, stageVars>>

CancelStore ==
  /\ rpc = "storeEpoch" /\ rpc' = "queue" /\ cancelEpoch' = repoch /\ ReaderKeeps
  /\ UNCHANGED <<rjob, repoch, connLost, inbox, asleep, pending, stageVars>>

\* queue_pending_job, after the cancellation was asked for.
QueuePending ==
  /\ rpc = "queue" /\ rpc' = "top" /\ pending' = rjob /\ ReaderKeeps
  /\ UNCHANGED <<cancelEpoch, rjob, repoch, connLost, inbox, asleep, stageVars>>

\* Mutant: the line is pushed without the mutex.
PushInboxUnlocked ==
  /\ rpc = "push" /\ rpc' = "top"
  /\ inbox' = Append(inbox, rjob) /\ asleep' = FALSE /\ ReaderKeeps
  /\ UNCHANGED <<cancelEpoch, rjob, repoch, connLost, pending, stageVars>>

\* pool_inbox_push: excluded while wait_line holds the mutex.
PushInbox ==
  /\ rpc = "push" /\ mpc # "block"
  /\ rpc' = "top" /\ inbox' = Append(inbox, rjob) /\ asleep' = FALSE
  /\ ReaderKeeps
  /\ UNCHANGED <<cancelEpoch, rjob, repoch, connLost, pending, stageVars>>

-----------------------------------------------------------------------------
\* Time: the deadline of the authorize reply or of the first job passes.
DeadlinePasses ==
  /\ stage \in {"authorize", "first_job"} /\ ~late /\ late' = TRUE
  /\ UNCHANGED <<minerVars, ctrlVars, readerVars, running, connLost, inbox,
                 asleep, pending, stage, authWanted, poolVars>>

MinerMoves ==
  \/ StopReader \/ JoinReader \/ Connect \/ StartReader \/ WaitLine \/ WaitBlock
  \/ HandleLine \/ RefuseJob \/ BeginEpoch \/ BeginReset \/ BeginKey \/ BeginActive
  \/ MineCancelled \/ FinishJob \/ EndJob \/ JobResult \/ TakePending \/ JobDone

ReaderMoves ==
  \/ ReaderTop \/ ReaderIdle \/ LoseConnection \/ NotifyLost \/ MatchKey
  \/ CancelLoad \/ CancelStore \/ QueuePending \/ PushInbox

PoolMoves ==
  \/ ReceiveJob \/ ReceiveOther \/ ReceiveFails
  \/ \E accepted \in BOOLEAN : AuthorizeReply(accepted)

MinerStep == MinerMoves /\ UNCHANGED algo
ReaderStep == ReaderMoves /\ UNCHANGED algo
OtherStep == (MineStops \/ PoolMoves) /\ UNCHANGED algo
TimeStep == DeadlinePasses /\ UNCHANGED algo

\* The session loop sleeps on g_inbox_cv and no reader is left to wake it.
Hung == mpc = "wait" /\ asleep /\ rpc = "off"

\* The program has stopped or hangs, or the bound on connections is reached.
Rest == /\ mpc = "halted" \/ Hung \/ (mpc = "connect" /\ session = MaxSessions)
        /\ UNCHANGED vars

Next == MinerStep \/ ReaderStep \/ OtherStep \/ TimeStep \/ Rest

Spec == Init /\ [][Next]_vars

(***************************************************************************)
(* Both threads run and time passes; the pool need not say anything, and a  *)
(* job need not end by itself.                                              *)
(***************************************************************************)
FairSpec ==
  /\ Spec
  /\ WF_vars(MinerStep) /\ WF_vars(ReaderStep) /\ WF_vars(TimeStep)

-----------------------------------------------------------------------------
(***************************************************************************)
(* Properties                                                               *)
(***************************************************************************)

MinerLabels == {"stop", "join", "connect", "start", "wait", "block", "handle",
                "epoch", "reset", "key", "activate", "mine", "finish", "end",
                "result", "take", "jobDone", "halted"}
ReaderLabels == {"off", "top", "recv", "lose", "notify", "reject", "rejectNotify",
                 "match", "loadEpoch", "storeEpoch", "queue", "push"}

FlagTypeOK ==
  /\ active \in BOOLEAN /\ running \in BOOLEAN /\ connLost \in BOOLEAN
  /\ asleep \in BOOLEAN /\ late \in BOOLEAN /\ authWanted \in BOOLEAN
  /\ resent \in BOOLEAN

DataTypeOK ==
  /\ algo \in Algos
  /\ mpc \in MinerLabels /\ job \in Job /\ curKey \in 0..MaxJobs
  /\ rc \in {"none", "cancelled", "fee_switch", "error"}
  /\ epoch \in Nat /\ cancelEpoch \in 0..epoch /\ key \in 0..MaxJobs
  /\ rpc \in ReaderLabels /\ rjob \in Job /\ repoch \in 0..epoch
  /\ inbox \in Seq(Job) /\ Len(inbox) <= MaxInbox /\ pending \in Job
  /\ stage \in {"idle", "authorize", "first_job", "ready"}
  /\ session \in 0..MaxSessions /\ latest \in 0..MaxJobs
  /\ announced \in 0..MaxJobs

\* Every variable has its type (the statics of cp_pool.cpp and cp_job_ctrl.cpp).
TypeOK == DataTypeOK /\ FlagTypeOK

(***************************************************************************)
(* A line from the pool never finds the session loop asleep behind it:      *)
(* pool_inbox_push and cp_pool_wait_line agree on the mutex.                *)
(***************************************************************************)
NoLineSleptOn == asleep => inbox = <<>>

(***************************************************************************)
(* A cancellation in force for the job being mined has one of two causes:   *)
(* the pool has sent a newer job, or it sent this very job again while one  *)
(* was being mined.  Nothing else can do it, although cp_job_request_cancel *)
(* loads and stores the epoch in two steps and the mining thread may begin  *)
(* another job meanwhile (cp_job_ctrl.cpp:38-41).  The second cause is a    *)
(* weakness of the code: job 2 cancels job 1 and lies in the slot; it is    *)
(* sent again and passes the key test against job 1's key                   *)
(* (cp_pool.cpp:312-315); the mining thread takes it from the slot and      *)
(* begins it; then the reader loads the epoch and cancels job 2 for itself. *)
(***************************************************************************)
CancelledForNewerOrResent ==
  mpc = "mine" /\ cancelEpoch = epoch =>
    \/ latest > job.num
    \/ latest = job.num /\ resent

(***************************************************************************)
(* A job mined was sent on the connection its shares go to: nothing of an   *)
(* earlier session survives the reconnect label of cp_run_quantus_pool.     *)
(* (cp_run_pearl_pool does not clear its pending slot there: a Pearl job of *)
(* one session can be mined, and its shares submitted, in the next.)        *)
(***************************************************************************)
MinedJobOfThisSession ==
  algo = "quantus" /\ mpc = "mine" => job.sess = session

(***************************************************************************)
(* A session that gets no authorize reply or no first job is given up, even *)
(* when the pool goes on sending other lines (cp_pool.cpp:50-54, 339-344).  *)
(***************************************************************************)
SilentPoolIsLeft ==
  rpc = "top" /\ stage # "ready" ~> stage = "ready" \/ connLost \/ ~running

(***************************************************************************)
(* Stopping the reader and the session loop always succeeds: once the loop  *)
(* decides to reconnect it gets to the new connection or stops for good.    *)
(***************************************************************************)
ReconnectCompletes == mpc = "stop" ~> mpc \in {"connect", "halted"}

(***************************************************************************)
(* The session loop notices that the reader gave the connection up: "The    *)
(* reader drops the connection" so that a silent pool does not "leave the   *)
(* miner idle for good" (cp_pool.cpp:50-54).  It fails: the flag is raised  *)
(* and g_inbox_cv notified without g_inbox_mx, between the loop's look at   *)
(* the flag and its wait.                                                   *)
(***************************************************************************)
LostConnectionIsNoticed == connLost ~> mpc \in {"stop", "halted"}

(***************************************************************************)
(* A job announced as "new job %s while mining %s - cancelling stale work"  *)
(* (cp_pool.cpp:316) is mined, or a newer one is, or the session ends.  It  *)
(* fails: the cancellation precedes queue_pending_job, so the mining thread *)
(* can look into the slot too early; the job then stays in the slot.        *)
(***************************************************************************)
NewJobIsMined ==
  \A n \in 1..MaxJobs :
    rpc = "queue" /\ rjob.num = n
      ~> \/ active /\ job.num >= n
         \/ connLost \/ mpc \in {"stop", "join", "connect", "start", "halted"}
=============================================================================
