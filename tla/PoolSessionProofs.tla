--------------------------- MODULE PoolSessionProofs ---------------------------
(***************************************************************************)
(* Proofs about PoolSession: the reader thread against the session loop and *)
(* the job control, for both algorithms and any number of jobs, connections *)
(* and lines in the inbox.  What the properties say of the moment a job is  *)
(* mined rests on what may lie in the inbox, in the pending slot and in the *)
(* reader's hands at every other moment.                                    *)
(***************************************************************************)
EXTENDS PoolSession, TLAPS

USE DEF minerVars, ctrlVars, readerVars, stageVars, poolVars, ReaderKeeps, Begin,
        SetStage

\* The reader holds a job that it is to hand over through the pending slot.
Asking == {"match", "loadEpoch", "storeEpoch", "queue"}

\* The mining thread has begun its job; it has a job in hand; it is at one.
Begun == {"reset", "key", "activate", "mine"}
InHand == {"handle", "epoch"} \cup Begun
AtJob == {"epoch", "finish", "end", "result", "take"} \cup Begun

-----------------------------------------------------------------------------
(***************************************************************************)
(* The inductive invariant                                                  *)
(***************************************************************************)

\* A line the reader is about to push has its place in the inbox.
RoomInv == rpc = "push" => Len(inbox) < MaxInbox

\* Nothing is in the inbox where the session loop is about to sleep or sleeps.
WaitInv == asleep \/ mpc = "block" => inbox = <<>>

\* Between two connections there is no reader and nothing it left behind.
BetweenInv ==
  /\ mpc \in {"connect", "start"} =>
       /\ rpc = "off" /\ inbox = <<>>
       /\ algo = "quantus" => pending = NoJob
  /\ active => mpc \in {"mine", "finish", "end"}

\* Until the pool has sent a job on a connection, there is none to be mined.
QuietInv ==
  /\ announced \in {0, latest}
  /\ announced = 0 =>
       /\ mpc \notin AtJob /\ rpc \notin Asking
       /\ mpc = "handle" => job.num = 0
       /\ mpc = "start" /\ algo = "quantus" => job.num = 0
       /\ rpc = "push" => rjob.num = 0
       /\ \A i \in 1..Len(inbox) : inbox[i].num = 0

\* No job is newer than the newest one sent, and the reader asks for a job only.
KnownInv ==
  /\ rpc \in Asking => rjob.num # 0
  /\ pending.num <= latest /\ job.num <= latest /\ rjob.num <= latest
  /\ \A i \in 1..Len(inbox) : inbox[i].num <= latest

(***************************************************************************)
(* While the reader asks for a cancellation, it has the newest job in hand. *)
(* Unless that one was sent again, it is newer than all the mining thread   *)
(* has or can get at.                                                       *)
(***************************************************************************)
NewerInv ==
  rpc \in Asking =>
    /\ rjob.num = latest
    /\ ~resent => /\ pending.num < latest
                  /\ mpc \in InHand => job.num < latest
                  /\ \A i \in 1..Len(inbox) : inbox[i].num < latest

\* A cancellation in force for a job that was begun is for a newer one, or that
\* job is the newest and was sent again.
CancelInv ==
  mpc \in Begun =>
    /\ epoch # 0
    /\ cancelEpoch = epoch => latest > job.num \/ (latest = job.num /\ resent)

\* Quantus: no job of an earlier connection is anywhere.
SessionInv ==
  algo = "quantus" =>
    /\ pending # NoJob => pending.sess = session
    /\ mpc \in {"start", "handle"} /\ job.num # 0 => job.sess = session
    /\ mpc \in Begun \cup {"epoch"} => job.sess = session
    /\ rpc \in Asking \cup {"push"} /\ rjob.num # 0 => rjob.sess = session
    /\ \A i \in 1..Len(inbox) : inbox[i].num # 0 => inbox[i].sess = session

HandOverInv == BetweenInv /\ QuietInv /\ KnownInv

PInv == /\ TypeOK /\ RoomInv /\ WaitInv /\ HandOverInv
        /\ NewerInv /\ CancelInv /\ SessionInv

-----------------------------------------------------------------------------
(***************************************************************************)
(* Types                                                                    *)
(***************************************************************************)

\* NoJob is a job, and the fields of a job have their types.
LEMMA JobFields ==
  /\ NoJob \in Job /\ NoJob.num = 0
  /\ \A j \in Job : j.num \in 0..MaxJobs /\ j.sess \in 0..MaxSessions
BY BoundsAssumption DEF Job, NoJob

\* The actions of the mining thread and of the session loop keep the types.
LEMMA MinerTypes ==
  ASSUME DataTypeOK, RoomInv, MinerMoves \/ MineStops, UNCHANGED algo
  PROVE  DataTypeOK' /\ RoomInv'
<1> USE BoundsAssumption DEF DataTypeOK, RoomInv, MinerLabels
<1>1. CASE StopReader
  BY <1>1 DEF StopReader
<1>2. CASE JoinReader
  BY <1>2, JobFields DEF JoinReader
<1>3. CASE Connect
  <2>1. session' \in 0..MaxSessions /\ session < MaxSessions
    BY <1>3, JobFields DEF Connect
  <2>2. \A n \in 1..MaxJobs : [num |-> n, sess |-> session + 1] \in Job
    BY <1>3, <2>1 DEF Connect, Job
  <2>3. job' \in Job /\ latest' \in 0..MaxJobs /\ announced' \in 0..MaxJobs
    <3>1. CASE algo = "pearl"
      BY <1>3, <3>1 DEF Connect
    <3>2. CASE algo # "pearl"
      BY <1>3, <2>2, <3>2, JobFields DEF Connect
    <3> QED
      BY <3>1, <3>2
  <2>4. stage' \in {"idle", "authorize", "first_job", "ready"}
    BY <1>3 DEF Connect
  <2> QED
    BY <1>3, <2>1, <2>3, <2>4 DEF Connect
<1>4. CASE StartReader
  BY <1>4 DEF StartReader, ReaderLabels
<1>5. CASE WaitLine
  <2>1. inbox # <<>> => /\ Head(inbox) \in Job /\ Tail(inbox) \in Seq(Job)
                        /\ Len(Tail(inbox)) <= Len(inbox)
    OBVIOUS
  <2>2. job' \in Job /\ inbox' \in Seq(Job) /\ Len(inbox') <= Len(inbox)
    <3>1. CASE inbox # <<>>
      BY <1>5, <2>1, <3>1 DEF WaitLine
    <3>2. CASE inbox = <<>>
      BY <1>5, <3>2 DEF WaitLine
    <3> QED
      BY <3>1, <3>2
  <2>3. Len(inbox) \in Nat /\ Len(inbox') \in Nat
    BY <2>2
  <2> QED
    BY <1>5, <2>2, <2>3 DEF WaitLine
<1>6. CASE WaitBlock
  BY <1>6 DEF WaitBlock
<1>7. CASE HandleLine
  BY <1>7, JobFields DEF HandleLine
<1>8. CASE RefuseJob
  BY <1>8 DEF RefuseJob
<1>9. CASE BeginEpoch
  <2>1. epoch + 1 \in Nat /\ \A n \in 0..epoch : n \in 0..(epoch + 1)
    OBVIOUS
  <2> QED
    BY <1>9, <2>1 DEF BeginEpoch
<1>10. CASE BeginReset
  BY <1>10 DEF BeginReset
<1>11. CASE BeginKey
  BY <1>11 DEF BeginKey
<1>12. CASE BeginActive
  BY <1>12, JobFields DEF BeginActive
<1>13. CASE MineCancelled \/ MineStops
  BY <1>13 DEF MineCancelled, MineStops, MineEnd
<1>14. CASE FinishJob
  BY <1>14 DEF FinishJob
<1>15. CASE EndJob
  BY <1>15 DEF EndJob
<1>16. CASE JobResult
  BY <1>16 DEF JobResult
<1>17. CASE TakePending
  BY <1>17, JobFields DEF TakePending
<1>18. CASE JobDone
  BY <1>18 DEF JobDone
<1> QED
  BY <1>1, <1>2, <1>3, <1>4, <1>5, <1>6, <1>7, <1>8, <1>9, <1>10, <1>11, <1>12,
     <1>13, <1>14, <1>15, <1>16, <1>17, <1>18 DEF MinerMoves

\* The actions of the reader keep the types.
LEMMA ReaderTypes ==
  ASSUME DataTypeOK, RoomInv, ReaderMoves \/ PoolMoves, UNCHANGED algo
  PROVE  DataTypeOK' /\ RoomInv'
<1> USE BoundsAssumption DEF DataTypeOK, RoomInv, ReaderLabels
<1>1. CASE ReaderTop \/ ReaderIdle
  BY <1>1 DEF ReaderTop, ReaderIdle
<1>2. CASE LoseConnection
  BY <1>2 DEF LoseConnection
<1>3. CASE NotifyLost
  BY <1>3 DEF NotifyLost
<1>4. CASE MatchKey
  BY <1>4 DEF MatchKey
<1>5. CASE CancelLoad \/ CancelStore
  <2>1. epoch \in 0..epoch
    OBVIOUS
  <2>2. repoch' \in 0..epoch /\ cancelEpoch' \in 0..epoch
    BY <1>5, <2>1 DEF CancelLoad, CancelStore
  <2> QED
    BY <1>5, <2>2 DEF CancelLoad, CancelStore
<1>6. CASE QueuePending
  BY <1>6 DEF QueuePending
<1>7. CASE PushInbox
  <2>1. Append(inbox, rjob) \in Seq(Job) /\ Len(Append(inbox, rjob)) = Len(inbox) + 1
    OBVIOUS
  <2>2. inbox' \in Seq(Job) /\ Len(inbox') <= MaxInbox
    BY <1>7, <2>1 DEF PushInbox
  <2> QED
    BY <1>7, <2>2 DEF PushInbox
<1>8. CASE ReceiveJob
  <2>1. \A n \in 1..MaxJobs : [num |-> n, sess |-> session] \in Job
    BY DEF Job
  <2>2. rjob' \in Job /\ latest' \in 0..MaxJobs /\ announced' \in 0..MaxJobs
    BY <1>8, <2>1 DEF ReceiveJob
  <2>3. /\ rpc' \in ReaderLabels /\ stage' = "ready"
        /\ rpc' = "push" => Len(inbox) < MaxInbox
    BY <1>8 DEF ReceiveJob
  <2> QED
    BY <1>8, <2>2, <2>3 DEF ReceiveJob
<1>9. CASE ReceiveOther \/ ReceiveFails
  BY <1>9, JobFields DEF ReceiveOther, ReceiveFails
<1>10. CASE \E accepted \in BOOLEAN : AuthorizeReply(accepted)
  <2>1. PICK accepted \in BOOLEAN : AuthorizeReply(accepted)
    BY <1>10
  <2>2. rpc' \in {"top", "reject"} /\ stage' \in {stage, "first_job"}
    <3>1. CASE accepted /\ stage = "authorize"
      BY <2>1, <3>1 DEF AuthorizeReply
    <3>2. CASE ~(accepted /\ stage = "authorize")
      BY <2>1, <3>2 DEF AuthorizeReply
    <3> QED
      BY <3>1, <3>2
  <2>3. UNCHANGED <<minerVars, ctrlVars, rjob, repoch, inbox, pending, poolVars>>
    BY <2>1 DEF AuthorizeReply
  <2> QED
    BY <2>2, <2>3
<1> QED
  BY <1>1, <1>2, <1>3, <1>4, <1>5, <1>6, <1>7, <1>8, <1>9, <1>10
     DEF ReaderMoves, PoolMoves

\* The flags stay flags.
LEMMA FlagStep ==
  ASSUME FlagTypeOK, [Next]_vars
  PROVE  FlagTypeOK'
<1> DEFINE flags == <<active, running, connLost, asleep, late, authWanted, resent>>
<1>1. CASE UNCHANGED flags
  BY <1>1 DEF FlagTypeOK
<1>2. CASE StopReader \/ Connect \/ StartReader \/ WaitBlock \/ BeginActive \/ EndJob
  <2>1. CASE StopReader
    BY <2>1 DEF StopReader, FlagTypeOK
  <2>2. CASE Connect
    BY <2>2 DEF Connect, FlagTypeOK
  <2>3. CASE StartReader
    BY <2>3 DEF StartReader, FlagTypeOK
  <2>4. CASE WaitBlock
    BY <2>4 DEF WaitBlock, FlagTypeOK
  <2>5. CASE BeginActive \/ EndJob
    BY <2>5 DEF BeginActive, EndJob, FlagTypeOK
  <2> QED
    BY <1>2, <2>1, <2>2, <2>3, <2>4, <2>5
<1>3. CASE LoseConnection \/ NotifyLost \/ PushInbox
  BY <1>3 DEF LoseConnection, NotifyLost, PushInbox, FlagTypeOK
<1>4. CASE ReceiveJob
  <2>1. resent' \in BOOLEAN
    BY <1>4 DEF ReceiveJob, FlagTypeOK
  <2> QED
    BY <1>4, <2>1 DEF ReceiveJob, FlagTypeOK
<1>5. CASE \E accepted \in BOOLEAN : AuthorizeReply(accepted)
  BY <1>5 DEF AuthorizeReply, FlagTypeOK
<1>6. CASE DeadlinePasses
  BY <1>6 DEF DeadlinePasses, FlagTypeOK
<1>7. CASE MinerMoves \/ MineStops
  <2>1. CASE JoinReader \/ WaitLine \/ HandleLine \/ RefuseJob \/ BeginEpoch
    BY <1>1, <2>1 DEF JoinReader, WaitLine, HandleLine, RefuseJob, BeginEpoch
  <2>2. CASE BeginReset \/ BeginKey \/ MineCancelled \/ MineStops
    BY <1>1, <2>2 DEF BeginReset, BeginKey, MineCancelled, MineStops, MineEnd
  <2>3. CASE FinishJob \/ JobResult \/ TakePending \/ JobDone
    BY <1>1, <2>3 DEF FinishJob, JobResult, TakePending, JobDone
  <2> QED
    BY <1>2, <1>7, <2>1, <2>2, <2>3 DEF MinerMoves
<1>8. CASE ReaderMoves \/ PoolMoves
  <2>1. CASE ReaderTop \/ ReaderIdle \/ MatchKey \/ CancelLoad \/ CancelStore
    BY <1>1, <2>1 DEF ReaderTop, ReaderIdle, MatchKey, CancelLoad, CancelStore
  <2>2. CASE QueuePending \/ ReceiveOther \/ ReceiveFails
    BY <1>1, <2>2 DEF QueuePending, ReceiveOther, ReceiveFails
  <2> QED
    BY <1>3, <1>4, <1>5, <1>8, <2>1, <2>2 DEF ReaderMoves, PoolMoves
<1>9. CASE UNCHANGED vars
  BY <1>1, <1>9 DEF vars
<1> QED
  BY <1>6, <1>7, <1>8, <1>9
     DEF Next, Rest, MinerStep, ReaderStep, OtherStep, TimeStep

\* Every step keeps the types.
LEMMA TypeStep ==
  ASSUME TypeOK, RoomInv, [Next]_vars
  PROVE  TypeOK' /\ RoomInv'
<1>1. CASE MinerStep \/ ReaderStep \/ OtherStep
  BY <1>1, MinerTypes, ReaderTypes, FlagStep
     DEF TypeOK, DataTypeOK, MinerStep, ReaderStep, OtherStep
<1>2. CASE TimeStep
  BY <1>2, FlagStep DEF TypeOK, DataTypeOK, TimeStep, DeadlinePasses, DataTypeOK, RoomInv
<1>3. CASE UNCHANGED vars
  BY <1>3, FlagStep DEF vars, TypeOK, DataTypeOK, DataTypeOK, RoomInv
<1> QED
  BY <1>1, <1>2, <1>3 DEF Next, Rest

\* The program starts in the invariant.
LEMMA InitInv == Init => PInv
<1> SUFFICES ASSUME Init
             PROVE  PInv
  OBVIOUS
<1>1. NoJob \in Job /\ <<>> \in Seq(Job) /\ Len(<<>>) = 0 /\ 0 <= MaxInbox
  BY JobFields, BoundsAssumption
<1>2. TypeOK
  <2>1. 0 \in Nat /\ 0 \in 0..MaxJobs /\ 0 \in 0..MaxSessions /\ 0 \in 0..0
    BY BoundsAssumption
  <2>2. DataTypeOK
    BY <1>1, <2>1 DEF Init, DataTypeOK, MinerLabels, ReaderLabels
  <2>3. FlagTypeOK
    BY DEF Init, FlagTypeOK
  <2> QED
    BY <2>2, <2>3 DEF TypeOK
<1>3. RoomInv
  BY DEF Init, RoomInv
<1>4. HandOverInv /\ WaitInv
  BY <1>1, JobFields DEF Init, HandOverInv, BetweenInv, QuietInv, KnownInv, WaitInv,
     AtJob, Begun, Asking
<1>5. NewerInv /\ CancelInv /\ SessionInv
  BY <1>1 DEF Init, NewerInv, CancelInv, SessionInv, InHand, Begun, Asking
<1> QED
  BY <1>2, <1>3, <1>4, <1>5 DEF PInv

-----------------------------------------------------------------------------
(***************************************************************************)
(* The steps in groups                                                      *)
(***************************************************************************)

\* The mining thread moves and leaves what it shares with the reader alone,
\* but for the job control.
MinerAlone ==
  \/ StopReader \/ WaitBlock \/ HandleLine \/ RefuseJob
  \/ BeginEpoch \/ BeginReset \/ BeginKey \/ BeginActive
  \/ MineCancelled \/ MineStops \/ FinishJob \/ EndJob \/ JobResult \/ JobDone

\* The reader moves, and no job does.
ReaderAlone ==
  \/ ReaderTop \/ ReaderIdle \/ LoseConnection \/ NotifyLost \/ MatchKey
  \/ CancelLoad \/ CancelStore \/ ReceiveFails
  \/ \E accepted \in BOOLEAN : AuthorizeReply(accepted)

\* Every step is of one of these kinds, and none changes the algorithm.
LEMMA StepKinds ==
  ASSUME [Next]_vars
  PROVE  /\ algo' = algo
         /\ \/ MinerAlone \/ JoinReader \/ Connect \/ StartReader \/ WaitLine
            \/ TakePending \/ ReaderAlone \/ QueuePending \/ PushInbox
            \/ ReceiveJob \/ ReceiveOther \/ DeadlinePasses \/ UNCHANGED vars
BY DEF Next, MinerStep, ReaderStep, OtherStep, TimeStep, Rest, vars, MinerMoves,
       ReaderMoves, PoolMoves, MinerAlone, ReaderAlone

\* The labels the mining thread goes to when it moves alone, and what it keeps.
LEMMA MinerAloneSteps ==
  ASSUME MinerAlone
  PROVE  /\ UNCHANGED <<job, readerVars, inbox, pending, poolVars>>
         /\ mpc' \notin {"connect", "start", "handle"}
         /\ mpc' = "epoch" => mpc = "handle"
         /\ mpc' \in AtJob => mpc \in AtJob \/ (mpc = "handle" /\ job.num # 0)
         /\ mpc' \in Begun => mpc \in Begun \cup {"epoch"}
         /\ mpc' = "block" => mpc = "block"
         /\ asleep' => asleep \/ mpc = "block"
<1> USE DEF AtJob, Begun
<1>1. CASE StopReader \/ WaitBlock \/ HandleLine \/ RefuseJob
  BY <1>1 DEF StopReader, WaitBlock, HandleLine, RefuseJob
<1>2. CASE BeginEpoch \/ BeginReset \/ BeginKey \/ BeginActive
  BY <1>2 DEF BeginEpoch, BeginReset, BeginKey, BeginActive
<1>3. CASE MineCancelled \/ MineStops
  BY <1>3 DEF MineCancelled, MineStops, MineEnd
<1>4. CASE FinishJob \/ EndJob \/ JobResult \/ JobDone
  BY <1>4 DEF FinishJob, EndJob, JobResult, JobDone
<1> QED
  BY <1>1, <1>2, <1>3, <1>4 DEF MinerAlone

\* What the reader keeps when it moves alone, and where it goes.
LEMMA ReaderAloneSteps ==
  ASSUME ReaderAlone
  PROVE  /\ UNCHANGED <<minerVars, epoch, active, key, rjob, inbox, pending, poolVars>>
         /\ rpc # "off" /\ rpc' # "push"
         /\ rpc' \in Asking => rpc \in Asking
         /\ asleep' => asleep
         /\ cancelEpoch' # cancelEpoch => rpc = "storeEpoch"
<1> USE DEF Asking
<1>1. CASE ReaderTop \/ ReaderIdle \/ LoseConnection \/ NotifyLost
  BY <1>1 DEF ReaderTop, ReaderIdle, LoseConnection, NotifyLost
<1>2. CASE MatchKey \/ CancelLoad \/ CancelStore \/ ReceiveFails
  BY <1>2 DEF MatchKey, CancelLoad, CancelStore, ReceiveFails
<1>3. CASE \E accepted \in BOOLEAN : AuthorizeReply(accepted)
  BY <1>3 DEF AuthorizeReply
<1> QED
  BY <1>1, <1>2, <1>3 DEF ReaderAlone

\* The line taken out of the inbox was in it, and so were those left.
LEMMA LinesTaken ==
  ASSUME TypeOK, inbox # <<>>
  PROVE  /\ 1 \in 1..Len(inbox) /\ Head(inbox) = inbox[1]
         /\ \A i \in 1..Len(Tail(inbox)) :
              i + 1 \in 1..Len(inbox) /\ Tail(inbox)[i] = inbox[i + 1]
BY DEF TypeOK, DataTypeOK

\* A line of the inbox after a push is the one pushed or was there before.
LEMMA LinesPushed ==
  ASSUME TypeOK
  PROVE  \A i \in 1..Len(Append(inbox, rjob)) :
           \/ Append(inbox, rjob)[i] = rjob
           \/ i \in 1..Len(inbox) /\ Append(inbox, rjob)[i] = inbox[i]
BY DEF TypeOK, DataTypeOK

-----------------------------------------------------------------------------
(***************************************************************************)
(* Every step keeps the rest of the invariant                               *)
(***************************************************************************)

\* The session loop does not go to sleep on a line.
LEMMA WaitStep ==
  ASSUME PInv, [Next]_vars
  PROVE  WaitInv'
<1> USE DEF WaitInv
<1>1. TypeOK /\ WaitInv
  BY DEF PInv
<1>2. CASE MinerAlone
  BY <1>1, <1>2, MinerAloneSteps
<1>3. CASE ReaderAlone
  BY <1>1, <1>3, ReaderAloneSteps
<1>4. CASE WaitLine
  BY <1>1, <1>4 DEF WaitLine, TypeOK, DataTypeOK
<1>5. CASE JoinReader \/ Connect \/ StartReader
  BY <1>1, <1>5 DEF JoinReader, Connect, StartReader
<1>6. CASE TakePending \/ QueuePending \/ PushInbox
  BY <1>1, <1>6 DEF TakePending, QueuePending, PushInbox
<1>7. CASE ReceiveJob \/ ReceiveOther
  BY <1>1, <1>7 DEF ReceiveJob, ReceiveOther
<1>8. CASE DeadlinePasses \/ UNCHANGED vars
  BY <1>1, <1>8 DEF DeadlinePasses, vars
<1> QED
  BY <1>2, <1>3, <1>4, <1>5, <1>6, <1>7, <1>8, StepKinds

\* The flag of the job control changes where its two stores are only.
LEMMA ActiveStep ==
  ASSUME MinerAlone, active => mpc \in {"mine", "finish", "end"}
  PROVE  active' => mpc' \in {"mine", "finish", "end"}
<1>1. CASE StopReader \/ WaitBlock \/ HandleLine \/ RefuseJob
  BY <1>1 DEF StopReader, WaitBlock, HandleLine, RefuseJob
<1>2. CASE BeginEpoch \/ BeginReset \/ BeginKey \/ BeginActive
  BY <1>2 DEF BeginEpoch, BeginReset, BeginKey, BeginActive
<1>3. CASE MineCancelled \/ MineStops
  BY <1>3 DEF MineCancelled, MineStops, MineEnd
<1>4. CASE FinishJob \/ EndJob \/ JobResult \/ JobDone
  BY <1>4 DEF FinishJob, EndJob, JobResult, JobDone
<1> QED
  BY <1>1, <1>2, <1>3, <1>4 DEF MinerAlone

\* The reader has left, and the job is over, before the next connection.
LEMMA BetweenStep ==
  ASSUME PInv, [Next]_vars
  PROVE  BetweenInv'
<1> USE DEF BetweenInv
<1>1. BetweenInv /\ algo' = algo
  BY StepKinds DEF PInv, HandOverInv
<1>2. CASE MinerAlone
  BY <1>1, <1>2, MinerAloneSteps, ActiveStep
<1>3. CASE ReaderAlone
  BY <1>1, <1>3, ReaderAloneSteps
<1>4. CASE WaitLine \/ TakePending
  BY <1>1, <1>4 DEF WaitLine, TakePending
<1>5. CASE JoinReader
  BY <1>1, <1>5 DEF JoinReader
<1>6. CASE Connect
  BY <1>1, <1>6 DEF Connect
<1>7. CASE StartReader
  BY <1>1, <1>7 DEF StartReader
<1>8. CASE QueuePending \/ PushInbox
  BY <1>1, <1>8 DEF QueuePending, PushInbox
<1>9. CASE ReceiveJob \/ ReceiveOther
  BY <1>1, <1>9 DEF ReceiveJob, ReceiveOther
<1>10. CASE DeadlinePasses \/ UNCHANGED vars
  BY <1>1, <1>10 DEF DeadlinePasses, vars
<1> QED
  BY <1>2, <1>3, <1>4, <1>5, <1>6, <1>7, <1>8, <1>9, <1>10, StepKinds

\* A job comes to the mining thread by way of the pool only.
LEMMA QuietStep ==
  ASSUME PInv, [Next]_vars
  PROVE  QuietInv'
<1> USE DEF QuietInv, AtJob, Begun, Asking
<1>1. TypeOK /\ QuietInv /\ BetweenInv /\ algo' = algo
  BY StepKinds DEF PInv, HandOverInv
<1>2. CASE MinerAlone
  BY <1>1, <1>2, MinerAloneSteps
<1>3. CASE ReaderAlone
  BY <1>1, <1>3, ReaderAloneSteps
<1>4. CASE WaitLine
  <2>1. CASE inbox = <<>>
    <3>1. mpc' \in {"stop", "block"} /\ UNCHANGED <<job, inbox, rpc, rjob, announced, latest>>
      BY <1>4, <2>1 DEF WaitLine
    <3> QED
      BY <1>1, <2>1, <3>1
  <2>2. CASE inbox # <<>>
    <3>1. /\ mpc' = "handle" /\ job' = inbox[1] /\ inbox' = Tail(inbox)
          /\ UNCHANGED <<rpc, rjob, announced, latest>>
      BY <1>1, <1>4, <2>2, LinesTaken DEF WaitLine
    <3>2. 1 \in 1..Len(inbox)
      BY <1>1, <2>2, LinesTaken
    <3>3. announced = 0 => job'.num = 0
      BY <1>1, <3>1, <3>2
    <3>4. announced = 0 => \A i \in 1..Len(inbox') : inbox'[i].num = 0
      BY <1>1, <2>2, <3>1, LinesTaken
    <3> QED
      BY <1>1, <3>1, <3>3, <3>4
  <2> QED
    BY <2>1, <2>2
<1>5. CASE TakePending
  BY <1>1, <1>5 DEF TakePending
<1>6. CASE JoinReader
  BY <1>1, <1>6 DEF JoinReader
<1>7. CASE Connect
  <2>1. /\ mpc' \in {"start", "stop"} /\ rpc' = "off" /\ inbox' = <<>>
        /\ announced' \in {0, latest'}
    BY <1>1, <1>7 DEF Connect, BetweenInv
  <2>2. announced' = 0 /\ algo = "quantus" => job' = NoJob
    BY <1>1, <1>7 DEF Connect
  <2> QED
    BY <1>1, <2>1, <2>2, JobFields
<1>8. CASE StartReader
  <2>1. algo \in {"pearl", "quantus"}
    BY <1>1, AlgosAssumption DEF TypeOK, DataTypeOK
  <2>2. announced = 0 => mpc' \in {"wait", "jobDone"}
    BY <1>1, <1>8, <2>1 DEF StartReader
  <2> QED
    BY <1>1, <1>8, <2>2 DEF StartReader, BetweenInv
<1>9. CASE QueuePending
  BY <1>1, <1>9 DEF QueuePending
<1>10. CASE PushInbox
  BY <1>1, <1>10, LinesPushed DEF PushInbox
<1>11. CASE ReceiveJob
  BY <1>1, <1>11 DEF ReceiveJob
<1>12. CASE ReceiveOther
  BY <1>1, <1>12, JobFields DEF ReceiveOther, BetweenInv
<1>13. CASE DeadlinePasses \/ UNCHANGED vars
  BY <1>1, <1>13 DEF DeadlinePasses, vars
<1> QED
  BY <1>2, <1>3, <1>4, <1>5, <1>6, <1>7, <1>8, <1>9, <1>10, <1>11, <1>12, <1>13,
     StepKinds

\* Jobs are handed on as they were sent.
LEMMA KnownStep ==
  ASSUME PInv, [Next]_vars
  PROVE  KnownInv'
<1> USE DEF KnownInv
<1>1. TypeOK /\ KnownInv
  BY DEF PInv, HandOverInv
<1>2. CASE MinerAlone
  BY <1>1, <1>2, MinerAloneSteps
<1>3. CASE ReaderAlone
  BY <1>1, <1>3, ReaderAloneSteps
<1>4. CASE WaitLine
  BY <1>1, <1>4, LinesTaken DEF WaitLine
<1>5. CASE TakePending
  BY <1>1, <1>5, JobFields DEF TakePending, TypeOK, DataTypeOK
<1>6. CASE JoinReader \/ StartReader
  <2>1. /\ UNCHANGED <<job, rjob, latest>> /\ pending' \in {pending, NoJob}
        /\ inbox' \in {inbox, <<>>} /\ rpc' \in {rpc, "top"}
    BY <1>6 DEF JoinReader, StartReader
  <2>2. latest \in Nat
    BY <1>1 DEF TypeOK, DataTypeOK
  <2>3. pending'.num <= latest /\ \A i \in 1..Len(inbox') : inbox'[i].num <= latest
    BY <1>1, <2>1, <2>2, JobFields
  <2> QED
    BY <1>1, <2>1, <2>3 DEF Asking
<1>7. CASE Connect
  <2>1. latest <= latest' /\ latest \in Nat /\ latest' \in Nat
    BY <1>1, <1>7, BoundsAssumption DEF Connect, TypeOK, DataTypeOK
  <2>2. job'.num <= latest'
    BY <1>1, <1>7, <2>1, JobFields DEF Connect, TypeOK, DataTypeOK
  <2>3. \A j \in Job : j.num \in Nat
    BY JobFields, BoundsAssumption
  <2>4. UNCHANGED <<rpc, rjob, pending, inbox>>
    BY <1>7 DEF Connect
  <2> QED
    BY <1>1, <2>1, <2>2, <2>3, <2>4 DEF TypeOK, DataTypeOK
<1>8. CASE QueuePending
  BY <1>1, <1>8 DEF QueuePending, Asking
<1>9. CASE PushInbox
  BY <1>1, <1>9, LinesPushed DEF PushInbox, Asking
<1>10. CASE ReceiveJob
  <2>1. /\ latest <= latest' /\ latest \in Nat /\ latest' \in Nat
        /\ rjob'.num = latest' /\ rjob'.num # 0
    BY <1>1, <1>10, BoundsAssumption DEF ReceiveJob, TypeOK, DataTypeOK
  <2>2. \A j \in Job : j.num \in Nat
    BY JobFields, BoundsAssumption
  <2>3. UNCHANGED <<job, pending, inbox>>
    BY <1>10 DEF ReceiveJob
  <2> QED
    BY <1>1, <2>1, <2>2, <2>3 DEF TypeOK, DataTypeOK
<1>11. CASE ReceiveOther
  BY <1>1, <1>11, JobFields, BoundsAssumption DEF ReceiveOther, TypeOK, DataTypeOK, Asking
<1>12. CASE DeadlinePasses \/ UNCHANGED vars
  BY <1>1, <1>12 DEF DeadlinePasses, vars
<1> QED
  BY <1>2, <1>3, <1>4, <1>5, <1>6, <1>7, <1>8, <1>9, <1>10, <1>11, <1>12, StepKinds

\* The reader asks only with a job that was sent after all others.
LEMMA NewerStep ==
  ASSUME PInv, [Next]_vars
  PROVE  NewerInv'
<1> USE DEF NewerInv, Asking, InHand, Begun
<1>1. TypeOK /\ NewerInv /\ BetweenInv /\ QuietInv /\ KnownInv
  BY DEF PInv, HandOverInv
<1>2. CASE MinerAlone
  BY <1>1, <1>2, MinerAloneSteps
<1>3. CASE ReaderAlone
  BY <1>1, <1>3, ReaderAloneSteps
<1>4. CASE WaitLine
  BY <1>1, <1>4, LinesTaken DEF WaitLine
<1>5. CASE TakePending
  BY <1>1, <1>5, JobFields DEF TakePending, TypeOK, DataTypeOK
<1>6. CASE JoinReader \/ Connect \/ StartReader
  <2>1. rpc' \in {"off", "top"}
    BY <1>1, <1>6 DEF JoinReader, Connect, StartReader, BetweenInv
  <2> QED
    BY <2>1
<1>7. CASE QueuePending \/ PushInbox \/ ReceiveOther
  <2>1. rpc' \in {"top", "push"}
    BY <1>7 DEF QueuePending, PushInbox, ReceiveOther
  <2> QED
    BY <2>1
<1>8. CASE ReceiveJob
  <2>0. rjob'.num = latest'
    BY <1>8 DEF ReceiveJob
  <2>1. SUFFICES ASSUME rpc' \in Asking, ~resent'
                 PROVE  /\ pending'.num < latest'
                        /\ mpc' \in InHand => job'.num < latest'
                        /\ \A i \in 1..Len(inbox') : inbox'[i].num < latest'
    BY <2>0
  <2>2. active /\ announced = latest
    BY <1>1, <1>8, <2>1 DEF ReceiveJob, BetweenInv, QuietInv, AtJob
  <2>3. latest < latest' /\ latest \in Nat /\ latest' \in Nat
    <3>1. PICK n \in {latest, latest + 1} \cap 1..MaxJobs :
            /\ latest' = n /\ resent' = (n <= announced /\ (resent \/ active))
      BY <1>8 DEF ReceiveJob
    <3>2. latest \in Nat /\ n \in Nat /\ ~(n <= latest)
      <4>1. latest \in Nat /\ n \in Nat
        BY <1>1, BoundsAssumption DEF TypeOK, DataTypeOK
      <4>2. ~(n <= announced)
        BY <2>1, <2>2, <3>1
      <4> QED
        BY <2>2, <4>1, <4>2
    <3> QED
      BY <3>1, <3>2
  <2>4. \A j \in Job : j.num \in Nat
    BY JobFields, BoundsAssumption
  <2>5. UNCHANGED <<job, pending, inbox>>
    BY <1>8 DEF ReceiveJob
  <2> QED
    BY <1>1, <2>3, <2>4, <2>5 DEF TypeOK, DataTypeOK, KnownInv
<1>9. CASE DeadlinePasses \/ UNCHANGED vars
  BY <1>1, <1>9 DEF DeadlinePasses, vars
<1> QED
  BY <1>2, <1>3, <1>4, <1>5, <1>6, <1>7, <1>8, <1>9, StepKinds

\* The epoch is advanced before the cancellation is cleared and both before mining.
LEMMA BegunSteps ==
  ASSUME MinerAlone, TypeOK, CancelInv, mpc' \in Begun
  PROVE  /\ epoch' # 0
         /\ cancelEpoch' = epoch' => mpc \in Begun /\ cancelEpoch = epoch
<1> USE DEF Begun
<1>1. /\ epoch \in Nat /\ epoch + 1 # 0 /\ cancelEpoch \in 0..epoch
      /\ cancelEpoch # epoch + 1
  BY DEF TypeOK, DataTypeOK
<1>2. CASE StopReader \/ WaitBlock \/ HandleLine \/ RefuseJob
  BY <1>2 DEF StopReader, WaitBlock, HandleLine, RefuseJob
<1>3. CASE BeginEpoch
  BY <1>1, <1>3 DEF BeginEpoch
<1>4. CASE BeginReset
  BY <1>1, <1>4 DEF BeginReset, CancelInv
<1>5. CASE BeginKey \/ BeginActive
  BY <1>5 DEF BeginKey, BeginActive, CancelInv
<1>6. CASE MineCancelled \/ MineStops
  BY <1>6 DEF MineCancelled, MineStops, MineEnd
<1>7. CASE FinishJob \/ EndJob \/ JobResult \/ JobDone
  BY <1>7 DEF FinishJob, EndJob, JobResult, JobDone
<1> QED
  BY <1>2, <1>3, <1>4, <1>5, <1>6, <1>7 DEF MinerAlone

\* A cancellation reaches the job it is meant for, or one as old, or none.
LEMMA CancelStep ==
  ASSUME PInv, [Next]_vars
  PROVE  CancelInv'
<1> USE DEF CancelInv
<1>1. TypeOK /\ CancelInv /\ NewerInv /\ KnownInv /\ QuietInv
  BY DEF PInv, HandOverInv
<1>2. CASE MinerAlone
  BY <1>1, <1>2, MinerAloneSteps, BegunSteps
<1>3. CASE ReaderAlone
  <2>1. rpc = "storeEpoch" /\ mpc \in Begun => latest > job.num \/ (latest = job.num /\ resent)
    <3>1. job.num \in Nat /\ latest \in Nat
      BY <1>1, JobFields, BoundsAssumption DEF TypeOK, DataTypeOK
    <3> QED
      BY <1>1, <3>1 DEF NewerInv, KnownInv, Asking, InHand
  <2> QED
    BY <1>1, <1>3, <2>1, ReaderAloneSteps
<1>4. CASE WaitLine \/ TakePending \/ JoinReader \/ Connect \/ StartReader
  <2>1. mpc' \notin Begun
    BY <1>4 DEF WaitLine, TakePending, JoinReader, Connect, StartReader, Begun
  <2> QED
    BY <2>1
<1>5. CASE QueuePending \/ PushInbox \/ ReceiveOther
  BY <1>1, <1>5 DEF QueuePending, PushInbox, ReceiveOther
<1>6. CASE ReceiveJob
  <2>1. latest <= latest' /\ latest \in Nat /\ latest' \in Nat /\ job.num \in Nat
    BY <1>1, <1>6, JobFields, BoundsAssumption DEF ReceiveJob, TypeOK, DataTypeOK
  <2>2. mpc \in Begun => latest' > latest \/ (latest' = latest /\ (resent => resent'))
    <3>1. SUFFICES ASSUME mpc \in Begun
                   PROVE  latest' > latest \/ (latest' = latest /\ (resent => resent'))
      OBVIOUS
    <3>2. announced = latest
      BY <1>1, <3>1 DEF QuietInv, AtJob
    <3>3. PICK n \in {latest, latest + 1} \cap 1..MaxJobs :
            latest' = n /\ resent' = (n <= announced /\ (resent \/ active))
      BY <1>6 DEF ReceiveJob
    <3>4. CASE n = latest
      <4>1. n <= announced
        BY <2>1, <3>2, <3>4
      <4> QED
        BY <3>3, <3>4, <4>1
    <3>5. CASE n = latest + 1
      BY <2>1, <3>3, <3>5
    <3> QED
      BY <3>4, <3>5
  <2>3. UNCHANGED <<mpc, job, epoch, cancelEpoch>>
    BY <1>6 DEF ReceiveJob
  <2> QED
    BY <1>1, <2>1, <2>2, <2>3
<1>7. CASE DeadlinePasses \/ UNCHANGED vars
  BY <1>1, <1>7 DEF DeadlinePasses, vars
<1> QED
  BY <1>2, <1>3, <1>4, <1>5, <1>6, <1>7, StepKinds

\* The reconnect of Quantus leaves no job behind.
LEMMA SessionStep ==
  ASSUME PInv, [Next]_vars
  PROVE  SessionInv'
<1> USE DEF SessionInv, Asking, Begun
<1>1. TypeOK /\ SessionInv /\ BetweenInv /\ KnownInv /\ algo' = algo
  BY StepKinds DEF PInv, HandOverInv
<1>2. CASE MinerAlone
  BY <1>1, <1>2, MinerAloneSteps DEF AtJob
<1>3. CASE ReaderAlone
  BY <1>1, <1>3, ReaderAloneSteps
<1>4. CASE WaitLine
  BY <1>1, <1>4, LinesTaken DEF WaitLine
<1>5. CASE TakePending
  BY <1>1, <1>5 DEF TakePending
<1>6. CASE JoinReader
  BY <1>1, <1>6 DEF JoinReader
<1>7. CASE Connect
  <2>1. SUFFICES ASSUME algo = "quantus"
                 PROVE  SessionInv'
    BY <1>1
  <2>2. /\ pending' = NoJob /\ inbox' = <<>> /\ rpc' = "off"
        /\ job' = NoJob \/ job'.sess = session'
        /\ mpc' \in {"start", "stop"}
    BY <1>1, <1>7, <2>1 DEF Connect, BetweenInv
  <2> QED
    BY <2>2, JobFields
<1>8. CASE StartReader
  BY <1>1, <1>8 DEF StartReader, BetweenInv
<1>9. CASE QueuePending
  BY <1>1, <1>9 DEF QueuePending, KnownInv
<1>10. CASE PushInbox
  BY <1>1, <1>10, LinesPushed DEF PushInbox
<1>11. CASE ReceiveJob
  BY <1>1, <1>11 DEF ReceiveJob
<1>12. CASE ReceiveOther
  BY <1>1, <1>12, JobFields DEF ReceiveOther
<1>13. CASE DeadlinePasses \/ UNCHANGED vars
  BY <1>1, <1>13 DEF DeadlinePasses, vars
<1> QED
  BY <1>2, <1>3, <1>4, <1>5, <1>6, <1>7, <1>8, <1>9, <1>10, <1>11, <1>12, <1>13,
     StepKinds

-----------------------------------------------------------------------------
(***************************************************************************)
(* Theorems                                                                 *)
(***************************************************************************)

\* The invariant holds throughout.
LEMMA Invariance == Spec => []PInv
<1>1. PInv /\ [Next]_vars => PInv'
  BY TypeStep, WaitStep, BetweenStep, QuietStep, KnownStep, NewerStep, CancelStep,
     SessionStep DEF PInv, HandOverInv
<1> QED
  BY <1>1, InitInv, PTL DEF Spec

(***************************************************************************)
(* The statics of cp_pool.cpp and cp_job_ctrl.cpp keep their types, and the *)
(* reader never pushes a line into a full inbox.                            *)
(***************************************************************************)
THEOREM SessionTypes == Spec => []TypeOK
<1>1. PInv => TypeOK
  BY DEF PInv
<1> QED
  BY <1>1, Invariance, PTL

(***************************************************************************)
(* cp_pool_wait_line does not sleep on a line: whoever pushes one wakes it. *)
(***************************************************************************)
THEOREM NoLineIsSleptOn == Spec => []NoLineSleptOn
<1>1. PInv => NoLineSleptOn
  BY DEF PInv, WaitInv, NoLineSleptOn
<1> QED
  BY <1>1, Invariance, PTL

(***************************************************************************)
(* cp_job_request_cancel, which loads and stores the epoch without the lock *)
(* that cp_job_mine_begin takes, cancels the job being mined for a newer    *)
(* one, or because the pool sent that very job, its newest, again while one *)
(* was mined; it never cancels a job that was sent once for itself.         *)
(***************************************************************************)
THEOREM CancelsAreForNewerOrResentJobs == Spec => []CancelledForNewerOrResent
<1>1. PInv => CancelledForNewerOrResent
  BY DEF PInv, CancelInv, CancelledForNewerOrResent, Begun
<1> QED
  BY <1>1, Invariance, PTL

(***************************************************************************)
(* cp_run_quantus_pool mines no job of a connection that was left.          *)
(***************************************************************************)
THEOREM JobsAreOfThisSession == Spec => []MinedJobOfThisSession
<1>1. PInv => MinedJobOfThisSession
  BY DEF PInv, SessionInv, MinedJobOfThisSession, Begun
<1> QED
  BY <1>1, Invariance, PTL
=============================================================================
