-------------------------- MODULE ShareQueueProofs --------------------------
(***************************************************************************)
(* Theorems about ShareQueue, for all values of its constants: its types    *)
(* and one owner of every buffer; then jobs, buffers and submits; then that *)
(* it keeps the contract of ShareHandoff.                                   *)
(*                                                                         *)
(* OneOwner is not inductive: that the worker does not put a second copy    *)
(* into the reclaim slot rests on the loan (LoanInv: with host buffers at   *)
(* most one share is anywhere in the queue, and `loaned` says whether), that *)
(* enqueue finds the slot empty rests on the reclaim before it (MinerInv),  *)
(* and that destroy frees everything rests on the worker having let go      *)
(* (WorkerInv).                                                             *)
(***************************************************************************)
EXTENDS ShareQueue, SequenceTheorems, TLAPS

\* The worker has a snapshot whose matrices it has not put back.
Holding == wpc \in {"check", "build", "recheck", "submit", "send", "return"}

LoanInv == ~mode.witness => Len(pending) + One(Holding) = One(loaned)

CountInv == inFlight = One(WorkerBusy)

WorkerInv ==
  /\ ~Holding => ~snap.a /\ ~snap.bt
  /\ wpc = "exit" => shutdown /\ pending = <<>>

MinerInv ==
  /\ mpc \in {"join", "halted"} => shutdown
  /\ mpc \in {"fetch", "enqueue"} /\ ~mode.witness =>
       hA /\ (mode.handoffBt => hBt)

OwnInv == OneOwner /\ LoanInv /\ WorkerInv /\ MinerInv

IInv == TypeOK /\ CountInv /\ OwnInv

-----------------------------------------------------------------------------
(***************************************************************************)
(* The steps in groups; every lemma below has one case for each.            *)
(***************************************************************************)
MinerOnlyStep ==
  ScanBuffersOom \/ LoopCheck \/ Scan \/ Hit \/ Fetch \/ EnqueueRefused
ReclaimStep ==
  ReclaimForScan \/ ReclaimForShare \/ ReclaimAtEnd
EnqueueStep ==
  EnqueueWait \/ Enqueue \/ EnqueueNotify
JobStep ==
  StartJob \/ BeginJob \/ EndJob \/ Drain \/ FinishJob
DestroyStep ==
  DestroyMark \/ DestroyJoin
ProofStep ==
  WorkerCheck \/ WorkerBuild \/ WorkerRecheck
SubmitStep ==
  WorkerTrack \/ WorkerSend
ReturnStep ==
  WorkerReturn \/ WorkerRelease

\* The steps, by what they change.
LEMMA StepCases ==
  ASSUME [Next]_vars
  PROVE  MinerOnlyStep \/ ReclaimStep \/ EnqueueStep \/ JobStep \/ DestroyStep \/ WorkerTake \/ ProofStep \/ SubmitStep \/ ReturnStep \/ PoolStep \/ Reconnect \/ UNCHANGED vars
BY DEF Next, Rest, MinerStep, WorkerStep, PoolStep, MinerOnlyStep, ReclaimStep, EnqueueStep, JobStep, DestroyStep, ProofStep, SubmitStep, ReturnStep

\* Counters stay natural numbers: in_flight is only lowered by a busy worker.
LEMMA CounterTypeOKStep ==
  ASSUME TypeOK, CountInv, [Next]_vars
  PROVE  CounterTypeOK'
<1> USE DEF TypeOK, CounterTypeOK, queueVars, bufferVars, jobVars,
    workerVars, poolVars
<1>1. CASE MinerOnlyStep
  BY <1>1 DEF MinerOnlyStep, ScanBuffersOom, EndJobWith, MinerOnly,
      LoopCheck, GoTo, Scan, Hit, Fetch, EnqueueRefused
<1>2. CASE ReclaimStep
  BY <1>2 DEF ReclaimStep, ReclaimForScan, Reclaim, TakeReturned, Sleep,
      ReclaimForShare, ReclaimAtEnd
<1>3. CASE EnqueueStep
  <2>1. CASE EnqueueWait
    BY <2>1 DEF EnqueueWait, Sleep, minerVars
  <2>2. CASE Enqueue
    <3>1. freedA' \in Nat /\ freedBt' \in Nat
      BY <2>2 DEF Enqueue
    <3> QED
      BY <2>2, <3>1 DEF Enqueue
  <2>3. CASE EnqueueNotify
    BY <2>3 DEF EnqueueNotify, EndJobWith
  <2> QED
    BY <1>3, <2>1, <2>2, <2>3 DEF EnqueueStep
<1>4. CASE JobStep
  <2>1. CASE StartJob
    BY <2>1 DEF StartJob, GoTo
  <2>2. CASE BeginJob
    BY <2>2 DEF BeginJob, GoTo
  <2>3. CASE EndJob
    BY <2>3 DEF EndJob, GoTo
  <2>4. CASE Drain
    BY <2>4 DEF Drain, GoTo, Sleep
  <2>5. CASE FinishJob
    BY <2>5 DEF FinishJob, GoTo
  <2> QED
    BY <1>4, <2>1, <2>2, <2>3, <2>4, <2>5 DEF JobStep
<1>5. CASE DestroyStep
  BY <1>5 DEF DestroyStep, DestroyMark, GoTo, NotifyAll, DestroyJoin, One
<1>6. CASE WorkerTake
  BY <1>6 DEF WorkerTake, Sleep, minerVars
<1>7. CASE ProofStep
  BY <1>7 DEF ProofStep, WorkerCheck, Proceed, Conclude, WorkerLocal,
      minerVars, ShareOf, WorkerBuild, WorkerRecheck
<1>8. CASE SubmitStep
  BY <1>8 DEF SubmitStep, WorkerTrack, Proceed, minerVars, WorkerSend,
      Conclude, ShareOf
<1>9. CASE ReturnStep
  <2>1. CASE WorkerReturn
    BY <2>1 DEF WorkerReturn, NotifyAll, One
  <2>2. CASE WorkerRelease
    <3>1. inFlight = 1
      BY <2>2 DEF WorkerRelease, CountInv, WorkerBusy, One
    <3> QED
      BY <2>2, <3>1 DEF WorkerRelease, WorkerLocal, minerVars
  <2> QED
    BY <1>9, <2>1, <2>2 DEF ReturnStep
<1>10. CASE PoolStep
  BY <1>10 DEF PoolStep, NewJobArrives, PoolOnly, minerVars, SubmitReply,
      ReaderGivesUp, AuthorizeRejected,
      ConnectionLost, PoolStalls, PoolResumes
<1>11. CASE Reconnect
  BY <1>11 DEF Reconnect
<1>12. CASE UNCHANGED vars
  BY <1>12 DEF vars, minerVars
<1> QED
  BY StepCases, <1>1, <1>2, <1>3, <1>4, <1>5, <1>6, <1>7, <1>8, <1>9, <1>10,
      <1>11, <1>12

\* Flags stay Boolean.
LEMMA FlagTypeOKStep ==
  ASSUME TypeOK, CountInv, [Next]_vars
  PROVE  FlagTypeOK'
<1> USE DEF TypeOK, FlagTypeOK, queueVars, bufferVars, jobVars, workerVars,
    poolVars
<1>1. CASE MinerOnlyStep
  BY <1>1 DEF MinerOnlyStep, ScanBuffersOom, EndJobWith, MinerOnly,
      LoopCheck, GoTo, Scan, Hit, Fetch, EnqueueRefused
<1>2. CASE ReclaimStep
  BY <1>2 DEF ReclaimStep, ReclaimForScan, Reclaim, TakeReturned, Sleep,
      ReclaimForShare, ReclaimAtEnd
<1>3. CASE EnqueueStep
  <2>1. CASE EnqueueWait
    BY <2>1 DEF EnqueueWait, Sleep, minerVars
  <2>2. CASE Enqueue
    BY <2>2 DEF Enqueue, GoTo, NewSnapshot
  <2>3. CASE EnqueueNotify
    BY <2>3 DEF EnqueueNotify, GoTo, NotifyOne, EndJobWith
  <2> QED
    BY <1>3, <2>1, <2>2, <2>3 DEF EnqueueStep
<1>4. CASE JobStep
  <2>1. CASE StartJob
    BY <2>1 DEF StartJob, GoTo
  <2>2. CASE BeginJob
    BY <2>2 DEF BeginJob, GoTo
  <2>3. CASE EndJob
    BY <2>3 DEF EndJob, GoTo
  <2>4. CASE Drain
    BY <2>4 DEF Drain, GoTo, Sleep
  <2>5. CASE FinishJob
    BY <2>5 DEF FinishJob, GoTo
  <2> QED
    BY <1>4, <2>1, <2>2, <2>3, <2>4, <2>5 DEF JobStep
<1>5. CASE DestroyStep
  <2>1. CASE DestroyMark
    BY <2>1 DEF DestroyMark, GoTo, NotifyAll
  <2>2. CASE DestroyJoin
    BY <2>2 DEF DestroyJoin, GoTo, One
  <2> QED
    BY <1>5, <2>1, <2>2 DEF DestroyStep
<1>6. CASE WorkerTake
  BY <1>6 DEF WorkerTake, Sleep, minerVars
<1>7. CASE ProofStep
  BY <1>7 DEF ProofStep, WorkerCheck, Proceed, Conclude, WorkerLocal,
      minerVars, ShareOf, WorkerBuild, WorkerRecheck
<1>8. CASE SubmitStep
  BY <1>8 DEF SubmitStep, WorkerTrack, Proceed, minerVars, WorkerSend,
      Conclude, ShareOf
<1>9. CASE ReturnStep
  <2>1. CASE WorkerReturn
    BY <2>1 DEF WorkerReturn, NotifyAll, One
  <2>2. CASE WorkerRelease
    BY <2>2 DEF WorkerRelease, NotifyAll, WorkerLocal, minerVars, NoSnap
  <2> QED
    BY <1>9, <2>1, <2>2 DEF ReturnStep
<1>10. CASE PoolStep
  <2>1. CASE NewJobArrives
    BY <2>1 DEF NewJobArrives, PoolOnly, minerVars
  <2>2. CASE SubmitReply
    BY <2>2 DEF SubmitReply, PoolOnly, minerVars
  <2>3. CASE ReaderGivesUp
    BY <2>3 DEF ReaderGivesUp, PoolOnly, minerVars
  <2>3a. CASE AuthorizeRejected
    BY <2>3a DEF AuthorizeRejected, PoolOnly, minerVars
  <2>4. CASE ConnectionLost
    BY <2>4 DEF ConnectionLost, PoolOnly, minerVars
  <2>5. CASE PoolStalls
    BY <2>5 DEF PoolStalls, PoolOnly, minerVars
  <2>6. CASE PoolResumes
    BY <2>6 DEF PoolResumes, PoolOnly, minerVars
  <2> QED
    BY <1>10, <2>1, <2>2, <2>3, <2>3a, <2>4, <2>5, <2>6 DEF PoolStep
<1>11. CASE Reconnect
  BY <1>11 DEF Reconnect
<1>12. CASE UNCHANGED vars
  BY <1>12 DEF vars, minerVars
<1> QED
  BY StepCases, <1>1, <1>2, <1>3, <1>4, <1>5, <1>6, <1>7, <1>8, <1>9, <1>10,
      <1>11, <1>12

\* Program counters, job results and outcomes stay among their values.
LEMMA LabelTypeOKStep ==
  ASSUME TypeOK, CountInv, [Next]_vars
  PROVE  LabelTypeOK'
<1> USE DEF TypeOK, LabelTypeOK, MinerLabels, WorkerLabels, JobResults,
    Outcomes, queueVars, bufferVars, jobVars, workerVars, poolVars
<1>1. CASE MinerOnlyStep
  BY <1>1 DEF MinerOnlyStep, ScanBuffersOom, EndJobWith, MinerOnly,
      LoopCheck, GoTo, Scan, Hit, Fetch, EnqueueRefused
<1>2. CASE ReclaimStep
  BY <1>2 DEF ReclaimStep, ReclaimForScan, Reclaim, TakeReturned, Sleep,
      ReclaimForShare, ReclaimAtEnd
<1>3. CASE EnqueueStep
  BY <1>3 DEF EnqueueStep, EnqueueWait, Sleep, minerVars, Enqueue, GoTo,
      NewSnapshot, EnqueueNotify, NotifyOne, EndJobWith
<1>4. CASE JobStep
  BY <1>4 DEF JobStep, StartJob, GoTo, BeginJob, EndJob, Drain, Sleep,
      FinishJob
<1>5. CASE DestroyStep
  BY <1>5 DEF DestroyStep, DestroyMark, GoTo, NotifyAll, DestroyJoin, One
<1>6. CASE WorkerTake
  BY <1>6 DEF WorkerTake, Sleep, minerVars
<1>7. CASE ProofStep
  <2>1. CASE WorkerCheck
    BY <2>1 DEF WorkerCheck, Proceed, Conclude, WorkerLocal, minerVars,
        ShareOf
  <2>2. CASE WorkerBuild
    BY <2>2 DEF WorkerBuild, Proceed, Conclude, WorkerLocal, minerVars,
        ShareOf
  <2>3. CASE WorkerRecheck
    BY <2>3 DEF WorkerRecheck, Proceed, Conclude, WorkerLocal, minerVars,
        ShareOf
  <2> QED
    BY <1>7, <2>1, <2>2, <2>3 DEF ProofStep
<1>8. CASE SubmitStep
  BY <1>8 DEF SubmitStep, WorkerTrack, Proceed, minerVars, WorkerSend,
      Conclude, ShareOf
<1>9. CASE ReturnStep
  BY <1>9 DEF ReturnStep, WorkerReturn, NotifyAll, One, WorkerRelease,
      WorkerLocal, minerVars, NoSnap
<1>10. CASE PoolStep
  BY <1>10 DEF PoolStep, NewJobArrives, PoolOnly, minerVars, SubmitReply,
      ReaderGivesUp, AuthorizeRejected,
      ConnectionLost, PoolStalls, PoolResumes
<1>11. CASE Reconnect
  BY <1>11 DEF Reconnect
<1>12. CASE UNCHANGED vars
  BY <1>12 DEF vars, minerVars
<1> QED
  BY StepCases, <1>1, <1>2, <1>3, <1>4, <1>5, <1>6, <1>7, <1>8, <1>9, <1>10,
      <1>11, <1>12

\* The queue stays a sequence of snapshots.
LEMMA DataTypeOKStep ==
  ASSUME TypeOK, CountInv, [Next]_vars
  PROVE  DataTypeOK'
<1> USE DEF TypeOK, DataTypeOK, Snapshot, queueVars, bufferVars, jobVars,
    workerVars, poolVars
<1>1. CASE MinerOnlyStep
  BY <1>1 DEF MinerOnlyStep, ScanBuffersOom, EndJobWith, MinerOnly,
      LoopCheck, GoTo, Scan, Hit, Fetch, EnqueueRefused, FlagTypeOK,
      CounterTypeOK
<1>2. CASE ReclaimStep
  BY <1>2 DEF ReclaimStep, ReclaimForScan, Reclaim, TakeReturned, Sleep,
      ReclaimForShare, ReclaimAtEnd, FlagTypeOK, CounterTypeOK
<1>3. CASE EnqueueStep
  <2>1. CASE EnqueueWait
    BY <2>1 DEF EnqueueWait, Sleep, minerVars, FlagTypeOK, CounterTypeOK
  <2>2. CASE Enqueue
    BY <2>2 DEF Enqueue, GoTo, NewSnapshot, FlagTypeOK, CounterTypeOK
  <2>3. CASE EnqueueNotify
    BY <2>3 DEF EnqueueNotify, GoTo, NotifyOne, EndJobWith, FlagTypeOK,
        CounterTypeOK
  <2> QED
    BY <1>3, <2>1, <2>2, <2>3 DEF EnqueueStep
<1>4. CASE JobStep
  BY <1>4 DEF JobStep, StartJob, GoTo, BeginJob, EndJob, Drain, Sleep,
      FinishJob, FlagTypeOK, CounterTypeOK
<1>5. CASE DestroyStep
  <2>1. CASE DestroyMark
    BY <2>1 DEF DestroyMark, GoTo, NotifyAll, FlagTypeOK, CounterTypeOK
  <2>2. CASE DestroyJoin
    BY <2>2 DEF DestroyJoin, GoTo, One, FlagTypeOK, CounterTypeOK
  <2> QED
    BY <1>5, <2>1, <2>2 DEF DestroyStep
<1>6. CASE WorkerTake
  <2>1. pending # <<>> => Head(pending) \in Snapshot /\ Tail(pending) \in Seq(Snapshot)
    BY HeadTailProperties
  <2> QED
    BY <1>6, <2>1 DEF WorkerTake, Sleep, minerVars
<1>7. CASE ProofStep
  BY <1>7 DEF ProofStep, WorkerCheck, Proceed, Conclude, WorkerLocal,
      minerVars, ShareOf, WorkerBuild, WorkerRecheck, FlagTypeOK,
      CounterTypeOK
<1>8. CASE SubmitStep
  BY <1>8 DEF SubmitStep, WorkerTrack, Proceed, minerVars, WorkerSend,
      Conclude, ShareOf, FlagTypeOK, CounterTypeOK
<1>9. CASE ReturnStep
  <2>1. CASE WorkerReturn
    BY <2>1 DEF WorkerReturn, NotifyAll, One, FlagTypeOK, CounterTypeOK
  <2>2. CASE WorkerRelease
    BY <2>2 DEF WorkerRelease, NotifyAll, WorkerLocal, minerVars, NoSnap,
        FlagTypeOK, CounterTypeOK
  <2> QED
    BY <1>9, <2>1, <2>2 DEF ReturnStep
<1>10. CASE PoolStep
  BY <1>10 DEF PoolStep, NewJobArrives, PoolOnly, minerVars, SubmitReply,
      ReaderGivesUp, AuthorizeRejected,
      ConnectionLost, PoolStalls, PoolResumes, FlagTypeOK, CounterTypeOK
<1>11. CASE Reconnect
  BY <1>11 DEF Reconnect, FlagTypeOK, CounterTypeOK
<1>12. CASE UNCHANGED vars
  BY <1>12 DEF vars, minerVars, FlagTypeOK, CounterTypeOK
<1> QED
  BY StepCases, <1>1, <1>2, <1>3, <1>4, <1>5, <1>6, <1>7, <1>8, <1>9, <1>10,
      <1>11, <1>12

\* The sets stay sets of their elements.
LEMMA SetTypeOKStep ==
  ASSUME TypeOK, CountInv, [Next]_vars
  PROVE  SetTypeOK'
<1> USE DEF TypeOK, SetTypeOK, queueVars, bufferVars, jobVars, workerVars,
    poolVars
<1>1. CASE MinerOnlyStep
  BY <1>1 DEF MinerOnlyStep, ScanBuffersOom, EndJobWith, MinerOnly,
      LoopCheck, GoTo, Scan, Hit, Fetch, EnqueueRefused, CounterTypeOK,
      DataTypeOK, Snapshot, ShareId, Submit
<1>2. CASE ReclaimStep
  BY <1>2 DEF ReclaimStep, ReclaimForScan, Reclaim, TakeReturned, Sleep,
      ReclaimForShare, ReclaimAtEnd, CounterTypeOK, DataTypeOK, Snapshot,
      ShareId, Submit
<1>3. CASE EnqueueStep
  BY <1>3 DEF EnqueueStep, EnqueueWait, Sleep, minerVars, Enqueue, GoTo,
      NewSnapshot, EnqueueNotify, NotifyOne, EndJobWith, CounterTypeOK,
      DataTypeOK, Snapshot, ShareId, Submit
<1>4. CASE JobStep
  BY <1>4 DEF JobStep, StartJob, GoTo, BeginJob, EndJob, Drain, Sleep,
      FinishJob, CounterTypeOK, DataTypeOK, Snapshot, ShareId, Submit
<1>5. CASE DestroyStep
  BY <1>5 DEF DestroyStep, DestroyMark, GoTo, NotifyAll, DestroyJoin, One,
      CounterTypeOK, DataTypeOK, Snapshot, ShareId, Submit
<1>6. CASE WorkerTake
  BY <1>6 DEF WorkerTake, Sleep, minerVars, CounterTypeOK, DataTypeOK,
      Snapshot, ShareId, Submit
<1>7. CASE ProofStep
  <2>1. CASE WorkerCheck
    BY <2>1 DEF WorkerCheck, Proceed, Conclude, WorkerLocal, minerVars,
        ShareOf, CounterTypeOK, DataTypeOK, Snapshot, ShareId, Submit
  <2>2. CASE WorkerBuild
    BY <2>2 DEF WorkerBuild, Proceed, Conclude, WorkerLocal, minerVars,
        ShareOf, CounterTypeOK, DataTypeOK, Snapshot, ShareId, Submit
  <2>3. CASE WorkerRecheck
    BY <2>3 DEF WorkerRecheck, Proceed, Conclude, WorkerLocal, minerVars,
        ShareOf, CounterTypeOK, DataTypeOK, Snapshot, ShareId, Submit
  <2> QED
    BY <1>7, <2>1, <2>2, <2>3 DEF ProofStep
<1>8. CASE SubmitStep
  <2>1. CASE WorkerTrack
    BY <2>1 DEF WorkerTrack, Proceed, minerVars, CounterTypeOK, DataTypeOK,
        Snapshot, ShareId, Submit
  <2>2. CASE WorkerSend
    <3>1. [id |-> submitId, sock |-> jobCtx.sock, key |-> snap.key,
           nonce |-> snap.nonce] \in Submit
      BY DEF CounterTypeOK, DataTypeOK, Snapshot, Submit
    <3>2. ShareOf(snap) \in ShareId
      BY DEF DataTypeOK, Snapshot, ShareOf, ShareId
    <3> QED
      BY <2>2, <3>1, <3>2 DEF WorkerSend, Conclude, minerVars
  <2> QED
    BY <1>8, <2>1, <2>2 DEF SubmitStep
<1>9. CASE ReturnStep
  BY <1>9 DEF ReturnStep, WorkerReturn, NotifyAll, One, WorkerRelease,
      WorkerLocal, minerVars, NoSnap, CounterTypeOK, DataTypeOK, Snapshot,
      ShareId, Submit
<1>10. CASE PoolStep
  BY <1>10 DEF PoolStep, NewJobArrives, PoolOnly, minerVars, SubmitReply,
      ReaderGivesUp, AuthorizeRejected,
      ConnectionLost, PoolStalls, PoolResumes, CounterTypeOK, DataTypeOK,
      Snapshot, ShareId, Submit
<1>11. CASE Reconnect
  BY <1>11 DEF Reconnect, CounterTypeOK, DataTypeOK, Snapshot, ShareId,
      Submit
<1>12. CASE UNCHANGED vars
  BY <1>12 DEF vars, minerVars, CounterTypeOK, DataTypeOK, Snapshot,
      ShareId, Submit
<1> QED
  BY StepCases, <1>1, <1>2, <1>3, <1>4, <1>5, <1>6, <1>7, <1>8, <1>9, <1>10,
      <1>11, <1>12

\* in_flight counts the share the worker has.
LEMMA CountInvStep ==
  ASSUME TypeOK, CountInv, [Next]_vars
  PROVE  CountInv'
<1> USE DEF TypeOK, CounterTypeOK, CountInv, WorkerBusy, One, queueVars,
    bufferVars, jobVars, workerVars, poolVars
<1>1. CASE MinerOnlyStep
  BY <1>1 DEF MinerOnlyStep, ScanBuffersOom, EndJobWith, MinerOnly,
      LoopCheck, GoTo, Scan, Hit, Fetch, EnqueueRefused
<1>2. CASE ReclaimStep
  BY <1>2 DEF ReclaimStep, ReclaimForScan, Reclaim, TakeReturned, Sleep,
      ReclaimForShare, ReclaimAtEnd
<1>3. CASE EnqueueStep
  BY <1>3 DEF EnqueueStep, EnqueueWait, Sleep, minerVars, Enqueue, GoTo,
      NewSnapshot, EnqueueNotify, NotifyOne, EndJobWith
<1>4. CASE JobStep
  BY <1>4 DEF JobStep, StartJob, GoTo, BeginJob, EndJob, Drain, Sleep,
      FinishJob
<1>5. CASE DestroyStep
  BY <1>5 DEF DestroyStep, DestroyMark, GoTo, NotifyAll, DestroyJoin, One
<1>6. CASE WorkerTake
  BY <1>6 DEF WorkerTake, Sleep, minerVars
<1>7. CASE ProofStep
  BY <1>7 DEF ProofStep, WorkerCheck, Proceed, Conclude, WorkerLocal,
      minerVars, ShareOf, WorkerBuild, WorkerRecheck
<1>8. CASE SubmitStep
  BY <1>8 DEF SubmitStep, WorkerTrack, Proceed, minerVars, WorkerSend,
      Conclude, ShareOf
<1>9. CASE ReturnStep
  BY <1>9 DEF ReturnStep, WorkerReturn, NotifyAll, One, WorkerRelease,
      WorkerLocal, minerVars, NoSnap
<1>10. CASE PoolStep
  BY <1>10 DEF PoolStep, NewJobArrives, PoolOnly, minerVars, SubmitReply,
      ReaderGivesUp, AuthorizeRejected,
      ConnectionLost, PoolStalls, PoolResumes
<1>11. CASE Reconnect
  BY <1>11 DEF Reconnect
<1>12. CASE UNCHANGED vars
  BY <1>12 DEF vars, minerVars
<1> QED
  BY StepCases, <1>1, <1>2, <1>3, <1>4, <1>5, <1>6, <1>7, <1>8, <1>9, <1>10,
      <1>11, <1>12

\* The type invariant is inductive together with the count.
LEMMA TypeStep ==
  ASSUME TypeOK, CountInv, [Next]_vars
  PROVE  TypeOK' /\ CountInv'
BY CounterTypeOKStep, FlagTypeOKStep, LabelTypeOKStep, DataTypeOKStep,
   SetTypeOKStep, CountInvStep DEF TypeOK

\* A worker without a share has no matrices; it exits on an empty queue.
LEMMA WorkerInvStep ==
  ASSUME TypeOK, WorkerInv, [Next]_vars
  PROVE  WorkerInv'
<1> USE DEF TypeOK, FlagTypeOK, WorkerInv, Holding, queueVars, bufferVars,
    jobVars, workerVars, poolVars
<1>1. CASE MinerOnlyStep
  BY <1>1 DEF MinerOnlyStep, ScanBuffersOom, EndJobWith, MinerOnly,
      LoopCheck, GoTo, Scan, Hit, Fetch, EnqueueRefused, Refused, NoSnap
<1>2. CASE ReclaimStep
  BY <1>2 DEF ReclaimStep, ReclaimForScan, Reclaim, TakeReturned, Sleep,
      ReclaimForShare, ReclaimAtEnd, Refused, NoSnap
<1>3. CASE EnqueueStep
  BY <1>3 DEF EnqueueStep, EnqueueWait, Sleep, minerVars, Enqueue, GoTo,
      NewSnapshot, EnqueueNotify, NotifyOne, EndJobWith, Refused, NoSnap
<1>4. CASE JobStep
  BY <1>4 DEF JobStep, StartJob, GoTo, BeginJob, EndJob, Drain, Sleep,
      FinishJob, Refused, NoSnap
<1>5. CASE DestroyStep
  BY <1>5 DEF DestroyStep, DestroyMark, GoTo, NotifyAll, DestroyJoin, One,
      Refused, NoSnap
<1>6. CASE WorkerTake
  BY <1>6 DEF WorkerTake, Sleep, minerVars, Refused, NoSnap
<1>7. CASE ProofStep
  BY <1>7 DEF ProofStep, WorkerCheck, Proceed, Conclude, WorkerLocal,
      minerVars, ShareOf, WorkerBuild, WorkerRecheck, Refused, NoSnap
<1>8. CASE SubmitStep
  BY <1>8 DEF SubmitStep, WorkerTrack, Proceed, minerVars, WorkerSend,
      Conclude, ShareOf, Refused, NoSnap
<1>9. CASE ReturnStep
  <2>1. CASE WorkerReturn
    <3>1. ~snap'.a /\ ~snap'.bt
      BY <2>1 DEF WorkerReturn, DataTypeOK, Snapshot
    <3> QED
      BY <2>1, <3>1 DEF WorkerReturn
  <2>2. CASE WorkerRelease
    BY <2>2 DEF WorkerRelease, NotifyAll, WorkerLocal, minerVars, NoSnap,
        Refused
  <2> QED
    BY <1>9, <2>1, <2>2 DEF ReturnStep
<1>10. CASE PoolStep
  BY <1>10 DEF PoolStep, NewJobArrives, PoolOnly, minerVars, SubmitReply,
      ReaderGivesUp, AuthorizeRejected,
      ConnectionLost, PoolStalls, PoolResumes, Refused, NoSnap
<1>11. CASE Reconnect
  BY <1>11 DEF Reconnect, Refused, NoSnap
<1>12. CASE UNCHANGED vars
  BY <1>12 DEF vars, minerVars, Refused, NoSnap
<1> QED
  BY StepCases, <1>1, <1>2, <1>3, <1>4, <1>5, <1>6, <1>7, <1>8, <1>9, <1>10,
      <1>11, <1>12

\* cp_mine_job checks the buffers before it fetches and enqueues a share.
LEMMA MinerInvStep ==
  ASSUME TypeOK, MinerInv, [Next]_vars
  PROVE  MinerInv'
<1> USE DEF TypeOK, FlagTypeOK, MinerInv, queueVars, bufferVars, jobVars,
    workerVars, poolVars
<1>1. CASE MinerOnlyStep
  BY <1>1 DEF MinerOnlyStep, ScanBuffersOom, EndJobWith, MinerOnly,
      LoopCheck, GoTo, Scan, Hit, Fetch, EnqueueRefused, WorkerLocal,
      minerVars
<1>2. CASE ReclaimStep
  BY <1>2 DEF ReclaimStep, ReclaimForScan, Reclaim, TakeReturned, Sleep,
      ReclaimForShare, ReclaimAtEnd, WorkerLocal, minerVars
<1>3. CASE EnqueueStep
  BY <1>3 DEF EnqueueStep, EnqueueWait, Sleep, minerVars, Enqueue, GoTo,
      NewSnapshot, EnqueueNotify, NotifyOne, EndJobWith, WorkerLocal
<1>4. CASE JobStep
  BY <1>4 DEF JobStep, StartJob, GoTo, BeginJob, EndJob, Drain, Sleep,
      FinishJob, WorkerLocal, minerVars
<1>5. CASE DestroyStep
  BY <1>5 DEF DestroyStep, DestroyMark, GoTo, NotifyAll, DestroyJoin, One,
      WorkerLocal, minerVars
<1>6. CASE WorkerTake
  BY <1>6 DEF WorkerTake, Sleep, minerVars, WorkerLocal
<1>7. CASE ProofStep
  BY <1>7 DEF ProofStep, WorkerCheck, Proceed, Conclude, WorkerLocal,
      minerVars, ShareOf, WorkerBuild, WorkerRecheck
<1>8. CASE SubmitStep
  BY <1>8 DEF SubmitStep, WorkerTrack, Proceed, minerVars, WorkerSend,
      Conclude, ShareOf, WorkerLocal
<1>9. CASE ReturnStep
  BY <1>9 DEF ReturnStep, WorkerReturn, NotifyAll, One, WorkerRelease,
      WorkerLocal, minerVars, NoSnap
<1>10. CASE PoolStep
  BY <1>10 DEF PoolStep, NewJobArrives, PoolOnly, minerVars, SubmitReply,
      ReaderGivesUp, AuthorizeRejected,
      ConnectionLost, PoolStalls, PoolResumes, WorkerLocal
<1>11. CASE Reconnect
  BY <1>11 DEF Reconnect, WorkerLocal, minerVars
<1>12. CASE UNCHANGED vars
  BY <1>12 DEF vars, minerVars, WorkerLocal
<1> QED
  BY StepCases, <1>1, <1>2, <1>3, <1>4, <1>5, <1>6, <1>7, <1>8, <1>9, <1>10,
      <1>11, <1>12

\* With host buffers there is a share in the queue exactly while they are lent.
LEMMA LoanInvStep ==
  ASSUME TypeOK, LoanInv, WorkerInv, [Next]_vars
  PROVE  LoanInv'
<1> USE DEF TypeOK, FlagTypeOK, LoanInv, Holding, One, queueVars,
    bufferVars, jobVars, workerVars, poolVars
<1>1. CASE MinerOnlyStep
  BY <1>1 DEF MinerOnlyStep, ScanBuffersOom, EndJobWith, MinerOnly,
      LoopCheck, GoTo, Scan, Hit, Fetch, EnqueueRefused, minerVars,
      DataTypeOK
<1>2. CASE ReclaimStep
  BY <1>2 DEF ReclaimStep, ReclaimForScan, Reclaim, TakeReturned, Sleep,
      ReclaimForShare, ReclaimAtEnd, minerVars, DataTypeOK
<1>3. CASE EnqueueStep
  <2>1. CASE EnqueueWait
    BY <2>1 DEF EnqueueWait, Sleep, minerVars, DataTypeOK
  <2>2. CASE Enqueue
    <3>1. Len(pending') = Len(pending) + 1 /\ Len(pending) \in Nat
      <4>1. pending \in Seq(Snapshot \cup {NewSnapshot})
        BY SeqMonotonic DEF DataTypeOK
      <4> QED
        BY <2>2, <4>1, AppendProperties DEF Enqueue
    <3> QED
      BY <2>2, <3>1 DEF Enqueue, EnqueueReady, Refused
  <2>3. CASE EnqueueNotify
    BY <2>3 DEF EnqueueNotify, GoTo, NotifyOne, EndJobWith, minerVars,
        DataTypeOK
  <2> QED
    BY <1>3, <2>1, <2>2, <2>3 DEF EnqueueStep
<1>4. CASE JobStep
  BY <1>4 DEF JobStep, StartJob, GoTo, BeginJob, EndJob, Drain, Sleep,
      FinishJob, minerVars, DataTypeOK
<1>5. CASE DestroyStep
  <2>1. CASE DestroyMark
    BY <2>1 DEF DestroyMark, GoTo, NotifyAll, minerVars, DataTypeOK
  <2>2. CASE DestroyJoin
    BY <2>2 DEF DestroyJoin, WorkerInv
  <2> QED
    BY <1>5, <2>1, <2>2 DEF DestroyStep
<1>6. CASE WorkerTake
  <2>1. CASE pending = <<>>
    BY <1>6, <2>1 DEF WorkerTake, minerVars
  <2>2. CASE pending # <<>>
    <3>1. Len(pending') = Len(pending) - 1 /\ Len(pending) \in Nat
      BY <1>6, <2>2, HeadTailProperties DEF WorkerTake, DataTypeOK
    <3> QED
      BY <1>6, <2>2, <3>1 DEF WorkerTake, minerVars
  <2> QED
    BY <2>1, <2>2
<1>7. CASE ProofStep
  BY <1>7 DEF ProofStep, WorkerCheck, Proceed, Conclude, WorkerLocal,
      minerVars, ShareOf, WorkerBuild, WorkerRecheck, DataTypeOK
<1>8. CASE SubmitStep
  BY <1>8 DEF SubmitStep, WorkerTrack, Proceed, minerVars, WorkerSend,
      Conclude, ShareOf, DataTypeOK
<1>9. CASE ReturnStep
  BY <1>9 DEF ReturnStep, WorkerReturn, NotifyAll, One, WorkerRelease,
      WorkerLocal, minerVars, NoSnap, DataTypeOK
<1>10. CASE PoolStep
  BY <1>10 DEF PoolStep, NewJobArrives, PoolOnly, minerVars, SubmitReply,
      ReaderGivesUp, AuthorizeRejected,
      ConnectionLost, PoolStalls, PoolResumes, DataTypeOK
<1>11. CASE Reconnect
  BY <1>11 DEF Reconnect, minerVars, DataTypeOK
<1>12. CASE UNCHANGED vars
  BY <1>12 DEF vars, minerVars, DataTypeOK
<1> QED
  BY StepCases, <1>1, <1>2, <1>3, <1>4, <1>5, <1>6, <1>7, <1>8, <1>9, <1>10,
      <1>11, <1>12

(***************************************************************************)
(* OneOwner: the steps that move a matrix, one by one; all others leave the *)
(* places alone.                                                            *)
(***************************************************************************)
places == <<mode, pending, returnedA, returnedBt, hA, hBt, freedA, freedBt, snap>>

\* A step that leaves the places alone keeps the owner.
LEMMA PlacesUnchanged ==
  ASSUME OneOwner, UNCHANGED places, shutdown => shutdown'
  PROVE  OneOwner'
BY DEF OneOwner, CopiesOfA, CopiesOfBt, QueuedA, QueuedBt, One, places

\* Whatever it finds, reclaim_matrices moves the buffers it takes.
LEMMA ReclaimKeepsOwner ==
  ASSUME TypeOK, OneOwner, NEW at, NEW wantBt \in BOOLEAN, NEW next,
         NEW checked, Reclaim(at, wantBt, next, checked)
  PROVE  OneOwner'
<1>1. CASE UNCHANGED <<bufferVars, returnedA, returnedBt>>
  BY <1>1, PlacesUnchanged DEF Reclaim, places, bufferVars, workerVars
<1>2. CASE TakeReturned(wantBt) /\ UNCHANGED <<freedA, freedBt>>
  <2>1. One(hA') + One(returnedA') = One(hA) + One(returnedA)
    BY <1>2 DEF TakeReturned, One, TypeOK, FlagTypeOK
  <2>2. One(hBt') + One(returnedBt') = One(hBt) + One(returnedBt)
    BY <1>2 DEF TakeReturned, One, TypeOK, FlagTypeOK
  <2>3. UNCHANGED <<mode, pending, snap, freedA, freedBt, shutdown>>
    BY <1>2 DEF Reclaim, workerVars
  <2>4. /\ One(QueuedA)' = One(QueuedA) /\ One(QueuedBt)' = One(QueuedBt)
        /\ One(snap.a)' = One(snap.a) /\ One(snap.bt)' = One(snap.bt)
    BY <2>3 DEF One, QueuedA, QueuedBt
  <2>5. /\ \A b : One(b) \in Nat
        /\ freedA \in Nat /\ freedBt \in Nat
    BY DEF One, TypeOK, CounterTypeOK
  <2>6. CopiesOfA' = CopiesOfA /\ CopiesOfBt' = CopiesOfBt
    BY <2>1, <2>2, <2>3, <2>4, <2>5 DEF CopiesOfA, CopiesOfBt
  <2> QED
    BY <2>3, <2>6 DEF OneOwner, One
<1> QED
  BY <1>1, <1>2 DEF Reclaim

\* enqueue_hit moves the miner's buffers into the snapshot; the slot is empty.
LEMMA EnqueueKeepsOwner ==
  ASSUME TypeOK, OwnInv, Enqueue
  PROVE  OneOwner'
<1> USE DEF TypeOK, FlagTypeOK, CounterTypeOK, DataTypeOK, OwnInv, One
<1>1. /\ QueuedA' <=> (QueuedA \/ NewSnapshot.a)
      /\ QueuedBt' <=> (QueuedBt \/ NewSnapshot.bt)
  <2>1. /\ Len(pending') = Len(pending) + 1
        /\ \A i \in 1..Len(pending) : pending'[i] = pending[i]
        /\ pending'[Len(pending) + 1] = NewSnapshot
        /\ Len(pending) \in Nat
    <3>1. pending \in Seq(Snapshot \cup {NewSnapshot})
      BY SeqMonotonic
    <3> QED
      BY <3>1, AppendProperties DEF Enqueue
  <2>2. /\ 1..Len(pending') = (1..Len(pending)) \cup {Len(pending) + 1}
        /\ Len(pending) + 1 \notin 1..Len(pending)
    BY <2>1
  <2> HIDE DEF NewSnapshot
  <2>3. QueuedA' <=> (QueuedA \/ NewSnapshot.a)
    BY <2>1, <2>2 DEF QueuedA
  <2>4. QueuedBt' <=> (QueuedBt \/ NewSnapshot.bt)
    BY <2>1, <2>2 DEF QueuedBt
  <2> QED
    BY <2>3, <2>4
<1>2. NewSnapshot.a = (hA /\ ~mode.witness)
  BY DEF NewSnapshot
<1>3. NewSnapshot.bt = (hBt /\ mode.handoffBt /\ ~mode.witness)
  BY DEF NewSnapshot
<1>4. UNCHANGED <<mode, snap, shutdown>>
  BY DEF Enqueue, workerVars
<1>5. CASE mode.witness
  <2>1. (QueuedA' <=> QueuedA) /\ (QueuedBt' <=> QueuedBt)
    BY <1>1, <1>2, <1>3, <1>5
  <2>2. UNCHANGED <<returnedA, returnedBt, hA, hBt, freedA, freedBt>>
    BY <1>5 DEF Enqueue, bufferVars
  <2>3. CopiesOfA' = CopiesOfA /\ CopiesOfBt' = CopiesOfBt
    BY <1>4, <2>1, <2>2 DEF CopiesOfA, CopiesOfBt
  <2> QED
    BY <1>4, <2>2, <2>3 DEF OneOwner
<1>6. CASE ~mode.witness
  <2>1. hA /\ (mode.handoffBt => hBt)
    BY <1>6 DEF MinerInv, Enqueue
  <2>2. ~returnedA /\ ~QueuedA /\ ~snap.a /\ freedA = 0
    BY <1>6, <2>1 DEF OneOwner, CopiesOfA
  <2>3. /\ ~returnedBt /\ ~QueuedBt /\ ~snap.bt /\ freedBt = 0
        /\ hBt = mode.handoffBt
    BY <1>6, <2>1, ModesAssumption DEF OneOwner, CopiesOfBt, ModeType
  <2>4. /\ ~hA' /\ ~hBt' /\ ~returnedA' /\ ~returnedBt'
        /\ freedA' = 0 /\ freedBt' = 0
    BY <1>6, <2>2, <2>3 DEF Enqueue
  <2>5. QueuedA' /\ (QueuedBt' <=> mode.handoffBt)
    BY <1>1, <1>2, <1>3, <1>6, <2>1, <2>2, <2>3
  <2>6. CopiesOfA' = 1 /\ CopiesOfBt' = One(mode.handoffBt)
    BY <1>4, <2>2, <2>3, <2>4, <2>5 DEF CopiesOfA, CopiesOfBt
  <2> QED
    BY <1>4, <1>6, <2>4, <2>6 DEF OneOwner
<1> QED
  BY <1>5, <1>6

\* The worker takes the oldest snapshot with the buffers in it.
LEMMA TakeKeepsOwner ==
  ASSUME TypeOK, OwnInv, WorkerTake
  PROVE  OneOwner'
<1> USE DEF TypeOK, FlagTypeOK, CounterTypeOK, DataTypeOK, OwnInv, One
<1>1. CASE pending = <<>>
  BY <1>1, PlacesUnchanged DEF WorkerTake, places, minerVars, bufferVars
<1>2. CASE pending # <<>>
  <2>1. /\ snap' = Head(pending) /\ pending' = Tail(pending)
        /\ UNCHANGED <<mode, returnedA, returnedBt, hA, hBt, freedA, freedBt,
                      shutdown>>
    BY <1>2 DEF WorkerTake, minerVars, bufferVars
  <2>2. ~snap.a /\ ~snap.bt
    BY DEF WorkerTake, WorkerInv, Holding
  <2>3. /\ Len(pending) \in Nat /\ Len(pending) >= 1
        /\ Len(pending') = Len(pending) - 1
        /\ \A i \in 1..Len(pending') : pending'[i] = pending[i + 1]
        /\ snap' = pending[1]
    BY <1>2, <2>1, HeadTailProperties
  <2>4. CASE mode.witness
    <3>1. CopiesOfA = 0 /\ CopiesOfBt = 0
      BY <2>4 DEF OneOwner
    <3>2. ~QueuedA /\ ~QueuedBt
      BY <3>1 DEF CopiesOfA, CopiesOfBt
    <3>3. \A i \in 1..Len(pending') : i + 1 \in 1..Len(pending)
      BY <2>3
    <3>4. ~QueuedA' /\ ~QueuedBt'
      BY <2>3, <3>2, <3>3 DEF QueuedA, QueuedBt
    <3>5. 1 \in 1..Len(pending)
      BY <2>3
    <3>6. ~snap'.a /\ ~snap'.bt
      BY <2>3, <3>2, <3>5 DEF QueuedA, QueuedBt
    <3> QED
      BY <2>1, <2>2, <3>2, <3>4, <3>6, PlacesUnchanged
      DEF OneOwner, CopiesOfA, CopiesOfBt
  <2>5. CASE ~mode.witness
    <3>1. Len(pending) = 1
      BY <2>3, <2>5 DEF LoanInv, Holding, WorkerTake
    <3>2. (QueuedA <=> snap'.a) /\ (QueuedBt <=> snap'.bt)
      BY <2>3, <3>1 DEF QueuedA, QueuedBt
    <3>3. ~QueuedA' /\ ~QueuedBt'
      BY <2>3, <3>1 DEF QueuedA, QueuedBt
    <3>4. CopiesOfA' = CopiesOfA /\ CopiesOfBt' = CopiesOfBt
      BY <2>1, <2>2, <3>2, <3>3 DEF CopiesOfA, CopiesOfBt
    <3> QED
      BY <2>1, <3>4 DEF OneOwner
  <2> QED
    BY <2>4, <2>5
<1> QED
  BY <1>1, <1>2

\* return_snapshot_matrices finds the slot empty, so it frees nothing.
LEMMA ReturnKeepsOwner ==
  ASSUME TypeOK, OwnInv, WorkerReturn
  PROVE  OneOwner'
<1> USE DEF TypeOK, FlagTypeOK, CounterTypeOK, DataTypeOK, OwnInv
<1>1. UNCHANGED <<mode, hA, hBt, pending, shutdown>>
  BY DEF WorkerReturn
<1>2. /\ (QueuedA' <=> QueuedA) /\ (QueuedBt' <=> QueuedBt)
  BY <1>1 DEF QueuedA, QueuedBt
<1>3. ~snap'.a /\ ~snap'.bt
  BY DEF WorkerReturn, Snapshot
<1>4. ~(snap.a /\ returnedA) /\ ~(snap.bt /\ returnedBt)
  BY DEF OneOwner, CopiesOfA, CopiesOfBt, One
<1>5. snap.a \in BOOLEAN /\ snap.bt \in BOOLEAN
  BY DEF Snapshot
<1>6. CopiesOfA' = CopiesOfA /\ CopiesOfBt' = CopiesOfBt
  <2>1. CopiesOfA' = CopiesOfA
    <3>1. CASE snap.a
      <4>1. /\ returnedA' <=> ~shutdown
            /\ freedA' = freedA + (IF shutdown THEN 1 ELSE 0)
        BY <1>4, <1>5, <3>1 DEF WorkerReturn, One
      <4> QED
        BY <1>1, <1>2, <1>3, <1>4, <3>1, <4>1 DEF CopiesOfA, One
    <3>2. CASE ~snap.a
      <4>1. returnedA' = returnedA /\ freedA' = freedA
        BY <1>5, <3>2 DEF WorkerReturn, One
      <4> QED
        BY <1>1, <1>2, <1>3, <3>2, <4>1 DEF CopiesOfA, One
    <3> QED
      BY <1>5, <3>1, <3>2
  <2>2. CopiesOfBt' = CopiesOfBt
    <3>1. CASE snap.bt
      <4>1. /\ returnedBt' <=> ~shutdown
            /\ freedBt' = freedBt + (IF shutdown THEN 1 ELSE 0)
        BY <1>4, <1>5, <3>1 DEF WorkerReturn, One
      <4> QED
        BY <1>1, <1>2, <1>3, <1>4, <3>1, <4>1 DEF CopiesOfBt, One
    <3>2. CASE ~snap.bt
      <4>1. returnedBt' = returnedBt /\ freedBt' = freedBt
        BY <1>5, <3>2 DEF WorkerReturn, One
      <4> QED
        BY <1>1, <1>2, <1>3, <3>2, <4>1 DEF CopiesOfBt, One
    <3> QED
      BY <1>5, <3>1, <3>2
  <2> QED
    BY <2>1, <2>2
<1>7. freedA' + freedBt' > 0 => shutdown
  BY <1>4 DEF WorkerReturn, OneOwner, One
<1> QED
  BY <1>1, <1>6, <1>7 DEF OneOwner

\* destroy frees each matrix where it lies; the worker holds none.
LEMMA DestroyKeepsOwner ==
  ASSUME TypeOK, OwnInv, DestroyJoin
  PROVE  OneOwner'
<1> USE DEF TypeOK, FlagTypeOK, CounterTypeOK, DataTypeOK, OwnInv, One
<1>1. /\ ~snap.a /\ ~snap.bt /\ shutdown
      /\ UNCHANGED <<mode, snap, shutdown>>
  BY DEF DestroyJoin, WorkerInv, MinerInv, Holding, workerVars
<1>2. ~QueuedA' /\ ~QueuedBt' /\ ~returnedA' /\ ~returnedBt' /\ ~hA' /\ ~hBt'
  BY DEF DestroyJoin, QueuedA, QueuedBt
<1>3. CopiesOfA' = CopiesOfA /\ CopiesOfBt' = CopiesOfBt
  BY <1>1, <1>2 DEF DestroyJoin, CopiesOfA, CopiesOfBt
<1> QED
  BY <1>1, <1>3 DEF OneOwner

\* Every step keeps one owner.
LEMMA OneOwnerStep ==
  ASSUME TypeOK, OwnInv, [Next]_vars
  PROVE  OneOwner'
<1> USE DEF OwnInv, queueVars, bufferVars, jobVars, workerVars, poolVars
<1>1. CASE MinerOnlyStep
  <2>1. UNCHANGED <<places, shutdown>>
    BY <1>1 DEF MinerOnlyStep, ScanBuffersOom, EndJobWith, MinerOnly,
        LoopCheck, GoTo, Scan, Hit, Fetch, EnqueueRefused, places, minerVars
  <2> QED
    BY <2>1, PlacesUnchanged
<1>2. CASE ReclaimStep
  <2>1. mode.handoffBt \in BOOLEAN
    BY ModesAssumption DEF TypeOK, DataTypeOK, ModeType
  <2> QED
    BY <1>2, <2>1, ReclaimKeepsOwner
    DEF ReclaimStep, ReclaimForScan, ReclaimForShare, ReclaimAtEnd, OwnInv
<1>3. CASE EnqueueStep
  <2>1. CASE EnqueueWait
    <3>1. UNCHANGED <<places, shutdown>>
      BY <2>1 DEF EnqueueWait, Sleep, minerVars, places
    <3> QED
      BY <3>1, PlacesUnchanged
  <2>2. CASE Enqueue
    BY <2>2, EnqueueKeepsOwner
  <2>3. CASE EnqueueNotify
    <3>1. UNCHANGED <<places, shutdown>>
      BY <2>3 DEF EnqueueNotify, GoTo, NotifyOne, EndJobWith, places,
          minerVars
    <3> QED
      BY <3>1, PlacesUnchanged
  <2> QED
    BY <1>3, <2>1, <2>2, <2>3 DEF EnqueueStep
<1>4. CASE JobStep
  <2>1. UNCHANGED <<places, shutdown>>
    BY <1>4 DEF JobStep, StartJob, GoTo, BeginJob, EndJob, Drain, Sleep,
        FinishJob, places, minerVars
  <2> QED
    BY <2>1, PlacesUnchanged
<1>5. CASE DestroyStep
  <2>1. CASE DestroyMark
    <3>1. UNCHANGED places /\ shutdown'
      BY <2>1 DEF DestroyMark, places
    <3> QED
      BY <3>1, PlacesUnchanged DEF OwnInv
  <2>2. CASE DestroyJoin
    BY <2>2, DestroyKeepsOwner
  <2> QED
    BY <1>5, <2>1, <2>2 DEF DestroyStep
<1>6. CASE WorkerTake
  BY <1>6, TakeKeepsOwner
<1>7. CASE ProofStep
  <2>1. UNCHANGED <<places, shutdown>>
    BY <1>7 DEF ProofStep, WorkerCheck, Proceed, Conclude, WorkerLocal,
        minerVars, ShareOf, WorkerBuild, WorkerRecheck, places
  <2> QED
    BY <2>1, PlacesUnchanged
<1>8. CASE SubmitStep
  <2>1. UNCHANGED <<places, shutdown>>
    BY <1>8 DEF SubmitStep, WorkerTrack, Proceed, minerVars, WorkerSend,
        Conclude, ShareOf, places
  <2> QED
    BY <2>1, PlacesUnchanged
<1>9. CASE ReturnStep
  <2>1. CASE WorkerReturn
    BY <2>1, ReturnKeepsOwner
  <2>2. CASE WorkerRelease
    <3>1. ~snap.a /\ ~snap.bt /\ ~snap'.a /\ ~snap'.bt
      BY <2>2 DEF WorkerRelease, NoSnap, OwnInv, WorkerInv, Holding
    <3>2. /\ UNCHANGED <<mode, hA, hBt, returnedA, returnedBt>>
          /\ UNCHANGED <<freedA, freedBt, pending, shutdown>>
      BY <2>2 DEF WorkerRelease, WorkerLocal, minerVars
    <3> QED
      BY <3>1, <3>2
      DEF OwnInv, OneOwner, CopiesOfA, CopiesOfBt, QueuedA, QueuedBt, One
  <2> QED
    BY <1>9, <2>1, <2>2 DEF ReturnStep
<1>10. CASE PoolStep
  <2>1. UNCHANGED <<places, shutdown>>
    BY <1>10 DEF PoolStep, NewJobArrives, PoolOnly, minerVars, SubmitReply,
        ReaderGivesUp, AuthorizeRejected,
      ConnectionLost, PoolStalls, PoolResumes, places
  <2> QED
    BY <2>1, PlacesUnchanged
<1>11. CASE Reconnect
  <2>1. UNCHANGED <<places, shutdown>>
    BY <1>11 DEF Reconnect, places, minerVars
  <2> QED
    BY <2>1, PlacesUnchanged
<1>12. CASE UNCHANGED vars
  <2>1. UNCHANGED <<places, shutdown>>
    BY <1>12 DEF vars, minerVars, places
  <2> QED
    BY <2>1, PlacesUnchanged
<1> QED
  BY StepCases, <1>1, <1>2, <1>3, <1>4, <1>5, <1>6, <1>7, <1>8, <1>9, <1>10,
      <1>11, <1>12

\* OwnInv is inductive.
LEMMA OwnStep ==
  ASSUME TypeOK, OwnInv, [Next]_vars
  PROVE  OwnInv'
BY OneOwnerStep, LoanInvStep, WorkerInvStep, MinerInvStep DEF OwnInv

-----------------------------------------------------------------------------
\* The invariant holds initially ...
LEMMA InitIInv == Init => IInv
<1> SUFFICES ASSUME Init PROVE IInv
  OBVIOUS
<1> USE DEF Init
<1>1. mode \in ModeType
  BY ModesAssumption
<1>2. CounterTypeOK /\ CountInv
  BY DEF CounterTypeOK, CountInv, WorkerBusy, One
<1>3. FlagTypeOK
  BY <1>1 DEF FlagTypeOK, ModeType
<1>4. LabelTypeOK
  BY DEF LabelTypeOK, MinerLabels, WorkerLabels, JobResults, Outcomes
<1>5. DataTypeOK /\ SetTypeOK
  BY EmptySeq DEF DataTypeOK, SetTypeOK, Snapshot, NoSnap
<1>6. OneOwner
  <2>1. ~QueuedA /\ ~QueuedBt /\ ~snap.a /\ ~snap.bt
    BY EmptySeq DEF QueuedA, QueuedBt, NoSnap
  <2>2. ~returnedA /\ ~returnedBt /\ freedA = 0 /\ freedBt = 0
    OBVIOUS
  <2>3. (hA <=> ~mode.witness) /\ (hBt <=> mode.handoffBt /\ ~mode.witness)
    BY <1>1 DEF ModeType
  <2> HIDE DEF Init
  <2> QED
    BY <2>1, <2>2, <2>3 DEF OneOwner, CopiesOfA, CopiesOfBt, One
<1>7. LoanInv /\ WorkerInv /\ MinerInv
  BY EmptySeq DEF LoanInv, WorkerInv, MinerInv, Holding, NoSnap, One
<1> QED
  BY <1>2, <1>3, <1>4, <1>5, <1>6, <1>7 DEF IInv, TypeOK, OwnInv

\* ... is kept by every step ...
LEMMA StepIInv == IInv /\ [Next]_vars => IInv'
BY TypeStep, OwnStep DEF IInv

(* ... and so holds throughout. *)
THEOREM Invariance == Spec => []IInv
<1>1. Init => IInv
  BY InitIInv
<1>2. IInv /\ [Next]_vars => IInv'
  BY StepIInv
<1> QED
  BY <1>1, <1>2, PTL DEF Spec

(***************************************************************************)
(* Every variable keeps its type: the statics of the queue and its users.   *)
(***************************************************************************)
THEOREM TypeCorrect == Spec => []TypeOK
<1>1. IInv => TypeOK
  BY DEF IInv
<1> QED
  BY <1>1, Invariance, PTL

(***************************************************************************)
(* In every backend mode and for every queue depth, each host matrix is in  *)
(* exactly one place: the mining thread, the reclaim slot, a queued share,  *)
(* the proof worker, or (after destroy) the allocator.                      *)
(***************************************************************************)
THEOREM MatricesHaveOneOwner == Spec => []OneOwner
<1>1. IInv => OneOwner
  BY DEF IInv, OwnInv
<1> QED
  BY <1>1, Invariance, PTL

-----------------------------------------------------------------------------
(***************************************************************************)
(* That jobs are kept apart, that the mining thread finds its buffers, and  *)
(* that every submit is watched and sent once, on the socket of its job.    *)
(*                                                                         *)
(* They rest on the invariant above and on four conjuncts                   *)
(* more.  Outside a job the queue is drained, so that what lies in it is of *)
(* the current job and session (ApartInv); A and B^T travel together        *)
(* (BufferInv); ids on the wire are old (WireInv); and the nonces of a job  *)
(* increase along the way wire, worker, queue, mining thread (OrderInv).    *)
(***************************************************************************)

\* The mining thread between begin_job and end_job, and until it has drained.
JobOpen == {"loop", "reclaim", "scan", "hit", "reclaimHit", "fetch", "enqueue",
            "notify"}
InJob == JobOpen \cup {"endJob", "drain"}

ContextIsCurrent == jobCtx = [sock |-> sock, key |-> jobNo]
OfThisJob(share) == share.key = jobNo /\ share.sess = sock /\ ContextIsCurrent

ApartInv ==
  /\ mpc \notin InJob => Drained
  /\ mpc \in JobOpen => ContextIsCurrent /\ queueKey = jobNo
  /\ \A i \in 1..Len(pending) : OfThisJob(pending[i])
  /\ Holding => OfThisJob(snap)

BufferInv ==
  /\ mode.handoffBt /\ ~mode.witness =>
       /\ hA = hBt /\ returnedA = returnedBt /\ snap.a = snap.bt
       /\ \A i \in 1..Len(pending) : pending[i].a = pending[i].bt
  /\ mpc \in {"reclaim", "reclaimHit"} => ~mode.witness
  /\ shutdown => mpc \in {"join", "halted"}
  /\ mpc \in {"idle", "begin", "finish"} /\ ~mode.witness => hA /\ ~returnedA

WireInv ==
  /\ \A x \in wire : x.id < msgId /\ x.sock = sock /\ x.key <= jobNo
  /\ \A x, y \in wire : x.id = y.id => x = y
  /\ wpc = "send" => submitId < msgId /\ \A x \in wire : x.id # submitId

\* All shares of the current job on their way have a smaller nonce.
AllBelow(n) ==
  /\ Unsettled => snap.nonce < n
  /\ \A i \in 1..Len(pending) : pending[i].nonce < n
  /\ \A x \in wire : x.key = jobNo => x.nonce < n

\* The nonce the next share of the job has at least.
Limit == IF mpc = "notify" THEN nonce + 1 ELSE nonce

OrderInv ==
  /\ mpc \in {"begin"} \cup JobOpen => AllBelow(Limit)
  /\ \A i, j \in 1..Len(pending) : i < j => pending[i].nonce < pending[j].nonce
  /\ Unsettled => \A i \in 1..Len(pending) : snap.nonce < pending[i].nonce
  /\ \A x \in wire : x.key = jobNo =>
       /\ \A i \in 1..Len(pending) : x.nonce < pending[i].nonce
       /\ Unsettled => x.nonce < snap.nonce
  /\ \A x, y \in wire : x.key = y.key /\ x.nonce = y.nonce => x = y

JInv == IInv /\ ApartInv /\ BufferInv /\ WireInv /\ OrderInv /\ SubmitsWatched

-----------------------------------------------------------------------------
(***************************************************************************)
(* Jobs: what lies in the queue is of the current one.                      *)
(***************************************************************************)

\* The queue is drained whenever the job or the session changes.
LEMMA Idle ==
  ASSUME IInv, ApartInv, mpc \notin InJob
  PROVE  pending = <<>> /\ Len(pending) = 0 /\ ~Holding /\ ~Unsettled /\ ~loaned
           /\ wpc # "send"
<1>1. Drained
  BY DEF ApartInv
<1>2. ~WorkerBusy
  BY <1>1 DEF Drained, IInv, CountInv, One
<1> QED
  BY <1>1, <1>2, EmptySeq DEF Drained, WorkerBusy, Holding, Unsettled

\* The queue after a share is appended.
LEMMA Appended ==
  ASSUME TypeOK, Enqueue
  PROVE  /\ Len(pending) \in Nat /\ Len(pending') = Len(pending) + 1
         /\ 1..Len(pending') = (1..Len(pending)) \cup {Len(pending) + 1}
         /\ \A i \in 1..Len(pending) : i # Len(pending) + 1 /\ pending'[i] = pending[i]
         /\ pending'[Len(pending) + 1] = NewSnapshot
<1>1. pending \in Seq(Snapshot \cup {NewSnapshot})
  BY SeqMonotonic DEF TypeOK, DataTypeOK
<1>2. /\ Len(pending) \in Nat /\ Len(pending') = Len(pending) + 1
      /\ \A i \in 1..Len(pending) : pending'[i] = pending[i]
      /\ pending'[Len(pending) + 1] = NewSnapshot
  BY <1>1, AppendProperties DEF Enqueue
<1> QED
  BY <1>2

\* The queue after its oldest share is taken.
LEMMA Taken ==
  ASSUME TypeOK, WorkerTake, pending # <<>>
  PROVE  /\ snap' = pending[1] /\ Len(pending) \in Nat /\ Len(pending) >= 1
         /\ Len(pending') = Len(pending) - 1
         /\ \A i \in 1..Len(pending') : i + 1 \in 1..Len(pending) /\ pending'[i] = pending[i + 1]
<1>1. /\ Len(pending) \in Nat /\ Len(pending) >= 1
      /\ Head(pending) = pending[1]
      /\ Len(Tail(pending)) = Len(pending) - 1
      /\ \A i \in 1..Len(Tail(pending)) : Tail(pending)[i] = pending[i + 1]
  BY HeadTailProperties DEF TypeOK, DataTypeOK
<1>2. snap' = Head(pending) /\ pending' = Tail(pending)
  BY DEF WorkerTake
<1> QED
  BY <1>1, <1>2

LEMMA ApartStep ==
  ASSUME IInv, ApartInv, [Next]_vars
  PROVE  ApartInv'
<1> USE DEF ApartInv, JobOpen, InJob, OfThisJob, ContextIsCurrent, Drained, Holding,
    queueVars, bufferVars, jobVars, minerVars, workerVars, poolVars
<1>0. TypeOK
  BY DEF IInv
<1>1. CASE MinerOnlyStep
  BY <1>1 DEF MinerOnlyStep, ScanBuffersOom, EndJobWith, MinerOnly,
      LoopCheck, GoTo, Scan, Hit, Fetch, EnqueueRefused
<1>2. CASE ReclaimStep
  <2>1. CASE ReclaimForScan
    BY <2>1 DEF ReclaimForScan, Reclaim
  <2>2. CASE ReclaimForShare
    BY <2>2 DEF ReclaimForShare, Reclaim
  <2>3. CASE ReclaimAtEnd
    BY <2>3 DEF ReclaimAtEnd, Reclaim
  <2> QED
    BY <1>2, <2>1, <2>2, <2>3 DEF ReclaimStep
<1>3. CASE EnqueueStep
  <2>1. CASE EnqueueWait
    BY <2>1 DEF EnqueueWait
  <2>2. CASE Enqueue
    <3>1. UNCHANGED <<jobCtx, queueKey, jobNo, sock, wpc, snap>> /\ mpc' = "notify"
      BY <2>2 DEF Enqueue, GoTo
    <3>2. OfThisJob(NewSnapshot)
      BY <2>2 DEF Enqueue, NewSnapshot
    <3>3. \A i \in 1..Len(pending') : OfThisJob(pending'[i])
      BY <1>0, <2>2, <3>2, Appended
    <3> QED
      BY <2>2, <3>1, <3>3 DEF Enqueue
  <2>3. CASE EnqueueNotify
    BY <2>3 DEF EnqueueNotify, GoTo, EndJobWith
  <2> QED
    BY <1>3, <2>1, <2>2, <2>3 DEF EnqueueStep
<1>4. CASE JobStep
  <2>1. CASE StartJob
    BY <2>1, Idle DEF StartJob, GoTo
  <2>2. CASE BeginJob
    BY <2>2, Idle DEF BeginJob, GoTo
  <2>3. CASE EndJob
    BY <2>3 DEF EndJob, GoTo
  <2>4. CASE Drain
    BY <2>4 DEF Drain, GoTo
  <2>5. CASE FinishJob
    BY <2>5 DEF FinishJob, GoTo
  <2> QED
    BY <1>4, <2>1, <2>2, <2>3, <2>4, <2>5 DEF JobStep
<1>5. CASE DestroyStep
  BY <1>5, Idle DEF DestroyStep, DestroyMark, GoTo, DestroyJoin
<1>6. CASE WorkerTake
  <2>1. CASE pending = <<>>
    BY <1>6, <2>1 DEF WorkerTake
  <2>2. CASE pending # <<>>
    <3>1. mpc \in InJob
      BY <2>2, Idle
    <3> QED
      BY <1>0, <1>6, <2>2, <3>1, Taken DEF WorkerTake
  <2> QED
    BY <2>1, <2>2
<1>7. CASE ProofStep
  BY <1>7 DEF ProofStep, WorkerCheck, Proceed, Conclude, WorkerLocal,
      WorkerBuild, WorkerRecheck
<1>8. CASE SubmitStep
  BY <1>8 DEF SubmitStep, WorkerTrack, Proceed, WorkerSend, Conclude
<1>9. CASE ReturnStep
  <2>1. mpc \in InJob
    BY <1>9, Idle DEF ReturnStep, WorkerReturn, WorkerRelease, IInv, CountInv, WorkerBusy, One
  <2> QED
    BY <1>9, <2>1 DEF ReturnStep, WorkerReturn, WorkerRelease, WorkerLocal
<1>10. CASE PoolStep
  BY <1>10 DEF PoolStep, NewJobArrives, PoolOnly, SubmitReply, ReaderGivesUp,
      AuthorizeRejected, ConnectionLost, PoolStalls, PoolResumes
<1>11. CASE Reconnect
  BY <1>11, Idle DEF Reconnect
<1>12. CASE UNCHANGED vars
  BY <1>12 DEF vars
<1> QED
  BY StepCases, <1>1, <1>2, <1>3, <1>4, <1>5, <1>6, <1>7, <1>8, <1>9, <1>10,
      <1>11, <1>12

-----------------------------------------------------------------------------
(***************************************************************************)
(* Buffers: A and B^T travel together and are back when a job ends.         *)
(***************************************************************************)

LEMMA ModeFlags ==
  ASSUME TypeOK
  PROVE  mode.witness \in BOOLEAN /\ mode.handoffBt \in BOOLEAN /\ mode.defer \in BOOLEAN
BY ModesAssumption DEF TypeOK, DataTypeOK, ModeType

\* Once the loan is over the buffers are with the miner or in the slot.
LEMMA BuffersHere ==
  ASSUME IInv, BufferInv, ~mode.witness, ~loaned, ~shutdown
  PROVE  /\ hA \/ returnedA
         /\ ~(hA /\ returnedA)
<1> USE DEF IInv, OwnInv
<1>1. Len(pending) = 0 /\ ~Holding
  <2>1. Len(pending) \in Nat
    BY LenProperties DEF TypeOK, DataTypeOK
  <2> QED
    BY <2>1 DEF LoanInv, One
<1>2. ~QueuedA /\ ~snap.a
  BY <1>1 DEF QueuedA, WorkerInv
<1>3. freedA = 0
  BY DEF OneOwner, TypeOK, CounterTypeOK
<1>4. One(hA) + One(returnedA) = 1
  BY <1>2, <1>3 DEF OneOwner, CopiesOfA, One
<1> QED
  BY <1>4 DEF One

\* A buffer in the slot and one with the miner are never both of A.
LEMMA OneOfBoth ==
  ASSUME IInv
  PROVE  ~(hA /\ returnedA) /\ ~(hBt /\ returnedBt)
BY DEF IInv, OwnInv, OneOwner, CopiesOfA, CopiesOfBt, One, TypeOK, CounterTypeOK

\* Whatever a reclaim finds, it leaves the miner with its buffers.
LEMMA ReclaimFinds ==
  ASSUME IInv, BufferInv, ~mode.witness, NEW at, NEW wantBt \in {TRUE, mode.handoffBt},
         NEW next, NEW checked, mpc = at, at # "join", at # "halted",
         Reclaim(at, wantBt, next, checked)
  PROVE  \/ /\ UNCHANGED <<mpc, rc, bufferVars, returnedA, returnedBt>>
         \/ /\ hA' /\ ~returnedA' /\ (mode.handoffBt => hBt' /\ ~returnedBt')
            /\ mpc' = next /\ rc' = rc
<1>1. ~shutdown /\ TypeOK
  BY DEF BufferInv, IInv
<1>2. CASE ReclaimReady(~hA, wantBt /\ ~hBt) /\ TakeReturned(wantBt)
  <2>1. hA \/ returnedA
    <3>1. CASE ~loaned
      BY <1>1, <3>1, BuffersHere
    <3>2. CASE loaned
      <4>1. mode.handoffBt => hA = hBt /\ returnedA = returnedBt
        BY DEF BufferInv
      <4>2. ~mode.handoffBt => ~hBt /\ ~returnedBt
        BY <1>1, ModeFlags DEF IInv, OwnInv, OneOwner, CopiesOfBt, One, CounterTypeOK, TypeOK
      <4> QED
        BY <1>1, <1>2, <3>2, <4>1, <4>2 DEF ReclaimReady, TypeOK, FlagTypeOK
    <3> QED
      BY <1>1, <3>1, <3>2 DEF TypeOK, FlagTypeOK
  <2>2. hA' /\ ~returnedA'
    BY <1>2, <2>1, OneOfBoth DEF TakeReturned
  <2>3. ASSUME mode.handoffBt PROVE hBt' /\ ~returnedBt'
    <3>1. wantBt = TRUE /\ hA = hBt /\ returnedA = returnedBt
      BY <1>1, <2>3, ModeFlags DEF BufferInv
    <3> QED
      BY <1>2, <2>1, <3>1, OneOfBoth DEF TakeReturned
  <2> QED
    BY <1>2, <2>2, <2>3 DEF Reclaim
<1> QED
  BY <1>2 DEF Reclaim

\* A step that leaves the buffers and the places of the shares alone.
LEMMA BuffersUnchanged ==
  ASSUME BufferInv, UNCHANGED places, shutdown' => mpc' \in {"join", "halted"},
         mpc' \in {"reclaim", "reclaimHit"} => ~mode.witness,
         mpc' \in {"idle", "begin", "finish"} => mpc \in {"idle", "begin", "finish"}
  PROVE  BufferInv'
BY DEF BufferInv, places

LEMMA BufferStep ==
  ASSUME IInv, ApartInv, BufferInv, [Next]_vars
  PROVE  BufferInv'
<1> USE DEF queueVars, bufferVars, jobVars, minerVars, workerVars, poolVars
<1>0. TypeOK /\ (shutdown => mpc \in {"join", "halted"})
  BY DEF IInv, BufferInv
<1>1. CASE MinerOnlyStep
  <2>1. UNCHANGED <<places, shutdown>>
    BY <1>1 DEF MinerOnlyStep, ScanBuffersOom, EndJobWith, MinerOnly,
        LoopCheck, GoTo, Scan, Hit, Fetch, EnqueueRefused, places
  <2>2. mpc' \in {"reclaim", "reclaimHit"} => ~mode.witness
    BY <1>0, <1>1, ModeFlags DEF MinerOnlyStep, ScanBuffersOom, EndJobWith, MinerOnly,
        LoopCheck, GoTo, Scan, Hit, Fetch, EnqueueRefused
  <2>3. mpc' \notin {"idle", "begin", "finish"} /\ mpc \notin {"join", "halted"}
    BY <1>1 DEF MinerOnlyStep, ScanBuffersOom, EndJobWith,
        LoopCheck, GoTo, Scan, Hit, Fetch, EnqueueRefused
  <2> QED
    BY <1>0, <2>1, <2>2, <2>3, BuffersUnchanged
<1>2. CASE ReclaimStep
  <2>1. PICK at \in {"reclaim", "reclaimHit", "reclaimEnd"},
             wantBt \in {TRUE, mode.handoffBt},
             next \in {"scan", "fetch", "enqueue", "finish"}, checked \in BOOLEAN :
          mpc = at /\ Reclaim(at, wantBt, next, checked)
    BY <1>2 DEF ReclaimStep, ReclaimForScan, ReclaimForShare, ReclaimAtEnd, Reclaim
  <2>2. UNCHANGED <<mode, shutdown, pending, snap>> /\ ~shutdown
    BY <1>0, <2>1 DEF Reclaim
  <2>3. CASE UNCHANGED <<mpc, rc, bufferVars, returnedA, returnedBt>>
    BY <2>2, <2>3 DEF BufferInv
  <2>4. CASE ~mode.witness /\ ~UNCHANGED <<mpc, rc, bufferVars, returnedA, returnedBt>>
    <3>1. /\ hA' /\ ~returnedA' /\ (mode.handoffBt => hBt' /\ ~returnedBt')
          /\ mpc' = next
      BY <2>1, <2>4, ReclaimFinds
    <3>2. hA' \in BOOLEAN /\ hBt' \in BOOLEAN /\ returnedA' \in BOOLEAN /\ returnedBt' \in BOOLEAN
      BY TypeStep DEF IInv, TypeOK, FlagTypeOK
    <3> QED
      BY <2>1, <2>2, <2>4, <3>1, <3>2 DEF BufferInv
  <2>5. CASE mode.witness /\ ~UNCHANGED <<mpc, rc, bufferVars, returnedA, returnedBt>>
    <3>1. mpc = "reclaimEnd" /\ mpc' = "finish"
      <4>1. mpc = "reclaimEnd"
        BY <2>1, <2>5 DEF BufferInv
      <4> QED
        BY <1>2, <2>5, <4>1 DEF ReclaimStep, ReclaimForScan, ReclaimForShare, ReclaimAtEnd, Reclaim
    <3> QED
      BY <2>2, <2>5, <3>1 DEF BufferInv
  <2> QED
    BY <2>3, <2>4, <2>5
<1>3. CASE EnqueueStep
  <2>1. CASE EnqueueWait
    BY <1>0, <2>1, BuffersUnchanged DEF EnqueueWait, places, BufferInv
  <2>2. CASE Enqueue
    <3>1. UNCHANGED <<mode, shutdown, snap>> /\ mpc' = "notify" /\ ~shutdown
      BY <1>0, <2>2 DEF Enqueue, GoTo
    <3>2. ASSUME mode.handoffBt, ~mode.witness
          PROVE  /\ hA' = hBt' /\ returnedA' = returnedBt'
                 /\ NewSnapshot.a = NewSnapshot.bt
      <4>1. hA /\ hBt
        BY <2>2, <3>2 DEF IInv, OwnInv, MinerInv, Enqueue
      <4> QED
        BY <1>0, <2>2, <3>2, <4>1 DEF Enqueue, NewSnapshot, TypeOK, FlagTypeOK
    <3>3. ASSUME mode.handoffBt, ~mode.witness
          PROVE  \A i \in 1..Len(pending') : pending'[i].a = pending'[i].bt
      BY <1>0, <2>2, <3>2, <3>3, Appended DEF BufferInv
    <3> QED
      BY <3>1, <3>2, <3>3 DEF BufferInv
  <2>3. CASE EnqueueNotify
    BY <1>0, <2>3, BuffersUnchanged DEF EnqueueNotify, GoTo, EndJobWith, places
  <2> QED
    BY <1>3, <2>1, <2>2, <2>3 DEF EnqueueStep
<1>4. CASE JobStep
  BY <1>0, <1>4, BuffersUnchanged
  DEF JobStep, StartJob, GoTo, BeginJob, EndJob, Drain, FinishJob, places
<1>5. CASE DestroyStep
  <2>1. CASE DestroyMark
    BY <2>1, BuffersUnchanged DEF DestroyMark, GoTo, places
  <2>2. CASE DestroyJoin
    <3>1. pending' = <<>> /\ Len(pending') = 0 /\ mpc' = "halted"
          /\ ~hA' /\ ~hBt' /\ ~returnedA' /\ ~returnedBt' /\ UNCHANGED <<mode, snap>>
      BY <2>2, EmptySeq DEF DestroyJoin, GoTo
    <3>2. hA' = FALSE /\ hBt' = FALSE /\ returnedA' = FALSE /\ returnedBt' = FALSE
      BY <2>2 DEF DestroyJoin
    <3>3. \A i \in 1..Len(pending') : pending'[i].a = pending'[i].bt
      BY <3>1
    <3>4. ~snap.a /\ ~snap.bt /\ snap.a \in BOOLEAN /\ snap.bt \in BOOLEAN
      BY <1>0, <2>2 DEF DestroyJoin, IInv, OwnInv, WorkerInv, Holding, TypeOK, DataTypeOK, Snapshot
    <3> QED
      BY <3>1, <3>2, <3>3, <3>4 DEF BufferInv
  <2> QED
    BY <1>5, <2>1, <2>2 DEF DestroyStep
<1>6. CASE WorkerTake
  <2>1. CASE pending = <<>>
    BY <1>0, <1>6, <2>1, BuffersUnchanged DEF WorkerTake, places, BufferInv
  <2>2. CASE pending # <<>>
    <3>1. UNCHANGED <<mode, shutdown, mpc, hA, hBt, returnedA, returnedBt>>
      BY <1>6, <2>2 DEF WorkerTake
    <3>2. ASSUME mode.handoffBt, ~mode.witness
          PROVE  /\ snap'.a = snap'.bt
                 /\ \A i \in 1..Len(pending') : pending'[i].a = pending'[i].bt
      BY <1>0, <1>6, <2>2, <3>2, Taken DEF BufferInv
    <3> QED
      BY <3>1, <3>2 DEF BufferInv
  <2> QED
    BY <2>1, <2>2
<1>7. CASE ProofStep
  <2>1. UNCHANGED <<places, shutdown, mpc>>
    BY <1>7 DEF ProofStep, WorkerCheck, Proceed, Conclude, WorkerLocal,
        WorkerBuild, WorkerRecheck, places
  <2> QED
    BY <2>1, BuffersUnchanged DEF BufferInv
<1>8. CASE SubmitStep
  <2>1. UNCHANGED <<places, shutdown, mpc>>
    BY <1>8 DEF SubmitStep, WorkerTrack, Proceed, WorkerSend, Conclude, places
  <2> QED
    BY <2>1, BuffersUnchanged DEF BufferInv
<1>9. CASE ReturnStep
  <2>1. CASE WorkerReturn
    <3>1. UNCHANGED <<mode, shutdown, mpc, hA, hBt, pending>>
      BY <2>1 DEF WorkerReturn
    <3>2. snap'.a = FALSE /\ snap'.bt = FALSE
      BY <1>0, <2>1 DEF WorkerReturn, TypeOK, DataTypeOK, Snapshot
    <3>3. mode.handoffBt /\ ~mode.witness => returnedA' = returnedBt'
      BY <2>1 DEF WorkerReturn, BufferInv
    <3>4. mpc \notin {"idle", "begin", "finish"}
      BY <2>1, Idle DEF WorkerReturn, Holding, JobOpen, InJob
    <3> QED
      BY <3>1, <3>2, <3>3, <3>4 DEF BufferInv
  <2>2. CASE WorkerRelease
    <3>1. UNCHANGED <<mode, shutdown, mpc, hA, hBt, pending, returnedA, returnedBt>>
      BY <2>2 DEF WorkerRelease, WorkerLocal
    <3>2. snap'.a = FALSE /\ snap'.bt = FALSE
      BY <2>2 DEF WorkerRelease, NoSnap
    <3> QED
      BY <3>1, <3>2 DEF BufferInv
  <2> QED
    BY <1>9, <2>1, <2>2 DEF ReturnStep
<1>10. CASE PoolStep
  <2>1. UNCHANGED <<places, shutdown, mpc>>
    BY <1>10 DEF PoolStep, NewJobArrives, PoolOnly, SubmitReply, ReaderGivesUp,
        AuthorizeRejected, ConnectionLost, PoolStalls, PoolResumes, places
  <2> QED
    BY <2>1, BuffersUnchanged DEF BufferInv
<1>11. CASE Reconnect
  BY <1>0, <1>11, BuffersUnchanged DEF Reconnect, places, BufferInv
<1>12. CASE UNCHANGED vars
  BY <1>12, BuffersUnchanged DEF vars, places, BufferInv
<1> QED
  BY StepCases, <1>1, <1>2, <1>3, <1>4, <1>5, <1>6, <1>7, <1>8, <1>9, <1>10,
      <1>11, <1>12

-----------------------------------------------------------------------------
(***************************************************************************)
(* Submits: ids are new, and the table follows the wire.                    *)
(***************************************************************************)

\* All steps but the worker's and the pool's leave the connection alone; some
\* of them start a job.
LEMMA ConnectionUnchanged ==
  ASSUME MinerOnlyStep \/ ReclaimStep \/ EnqueueStep \/ JobStep \/ DestroyStep
           \/ UNCHANGED vars
  PROVE  UNCHANGED <<wire, msgId, submitId, wpc, sock, reader, connLost, tracked, snap>>
<1> USE DEF queueVars, bufferVars, jobVars, minerVars, workerVars, poolVars, vars, MinerOnly
<1>1. CASE MinerOnlyStep
  BY <1>1 DEF MinerOnlyStep, ScanBuffersOom, LoopCheck, Scan, Hit, Fetch, EnqueueRefused
<1>2. CASE ReclaimStep
  BY <1>2 DEF ReclaimStep, ReclaimForScan, ReclaimForShare, ReclaimAtEnd, Reclaim
<1>3. CASE EnqueueStep
  BY <1>3 DEF EnqueueStep, EnqueueWait, Enqueue, EnqueueNotify
<1>4. CASE JobStep
  BY <1>4 DEF JobStep, StartJob, BeginJob, EndJob, Drain, FinishJob
<1>5. CASE DestroyStep
  BY <1>5 DEF DestroyStep, DestroyMark, DestroyJoin
<1> QED
  BY <1>1, <1>2, <1>3, <1>4, <1>5

\* Only the start of a job changes its number, and raises it.
LEMMA JobNumberGrows ==
  ASSUME TypeOK, [Next]_vars
  PROVE  /\ jobNo \in Nat /\ jobNo <= jobNo'
         /\ StartJob \/ jobNo' = jobNo
<1> USE DEF TypeOK, CounterTypeOK, queueVars, bufferVars, jobVars, minerVars, workerVars,
    poolVars, vars, MinerOnly
<1>1. CASE MinerOnlyStep
  BY <1>1 DEF MinerOnlyStep, ScanBuffersOom, LoopCheck, Scan, Hit, Fetch, EnqueueRefused
<1>2. CASE ReclaimStep
  <2>1. jobNo' = jobNo
    BY <1>2 DEF ReclaimStep, ReclaimForScan, ReclaimForShare, ReclaimAtEnd, Reclaim
  <2> QED
    BY <2>1
<1>3. CASE EnqueueStep
  BY <1>3 DEF EnqueueStep, EnqueueWait, Enqueue, EnqueueNotify
<1>4. CASE JobStep
  BY <1>4 DEF JobStep, StartJob, BeginJob, EndJob, Drain, FinishJob
<1>5. CASE DestroyStep
  BY <1>5 DEF DestroyStep, DestroyMark, DestroyJoin
<1>6. CASE WorkerTake \/ ProofStep
  BY <1>6 DEF WorkerTake, ProofStep, WorkerCheck, WorkerBuild, WorkerRecheck, WorkerLocal
<1>7. CASE SubmitStep \/ ReturnStep
  BY <1>7 DEF SubmitStep, ReturnStep, WorkerTrack, WorkerSend, WorkerReturn, WorkerRelease,
      WorkerLocal
<1>8. CASE PoolStep \/ Reconnect
  BY <1>8 DEF PoolStep, NewJobArrives, PoolOnly, SubmitReply, ReaderGivesUp,
      AuthorizeRejected, ConnectionLost, PoolStalls, PoolResumes, Reconnect
<1>9. CASE UNCHANGED vars
  BY <1>9
<1> QED
  BY StepCases, <1>1, <1>2, <1>3, <1>4, <1>5, <1>6, <1>7, <1>8, <1>9

\* What the worker puts on the wire.
SentShare == [id |-> submitId, sock |-> jobCtx.sock, key |-> snap.key, nonce |-> snap.nonce]

LEMMA WireStep ==
  ASSUME IInv, ApartInv, WireInv, [Next]_vars
  PROVE  WireInv'
<1> USE DEF WireInv
<1>0. /\ TypeOK /\ jobNo \in Nat /\ jobNo' \in Nat /\ jobNo <= jobNo'
      /\ msgId \in Nat /\ submitId \in Nat
      /\ \A x \in wire : x.id \in Nat /\ x.key \in Nat
  BY JobNumberGrows, TypeStep DEF IInv, TypeOK, CounterTypeOK, SetTypeOK, Submit
<1>1. CASE MinerOnlyStep \/ ReclaimStep \/ EnqueueStep \/ JobStep \/ DestroyStep
             \/ UNCHANGED vars
  BY <1>0, <1>1, ConnectionUnchanged
<1>2. CASE WorkerTake \/ ProofStep \/ ReturnStep
  <2>1. UNCHANGED <<wire, msgId, submitId, sock>> /\ wpc' # "send"
    BY <1>2 DEF WorkerTake, ProofStep, ReturnStep, WorkerCheck, WorkerBuild, WorkerRecheck,
        WorkerLocal, Proceed, Conclude, WorkerReturn, WorkerRelease, poolVars
  <2> QED
    BY <1>0, <2>1
<1>3. CASE WorkerTrack
  BY <1>0, <1>3 DEF WorkerTrack
<1>4. CASE WorkerSend
  <2>1. wpc = "send" /\ UNCHANGED <<msgId, submitId, sock>> /\ wpc' # "send"
        /\ wire' \in {wire, wire \cup {SentShare}}
    BY <1>4 DEF WorkerSend, Conclude, SentShare
  <2>2. /\ SentShare.sock = sock /\ SentShare.key = jobNo /\ SentShare.id = submitId
    BY <2>1 DEF ApartInv, Holding, OfThisJob, ContextIsCurrent, SentShare
  <2> QED
    BY <1>0, <2>1, <2>2
<1>5. CASE SubmitReply
  BY <1>0, <1>5 DEF SubmitReply, PoolOnly, workerVars
<1>6. CASE PoolStep /\ ~SubmitReply
  <2>1. UNCHANGED <<wire, msgId, submitId, wpc, sock>>
    BY <1>6 DEF PoolStep, NewJobArrives, PoolOnly, ReaderGivesUp, AuthorizeRejected,
        ConnectionLost, PoolStalls, PoolResumes, workerVars, poolVars
  <2> QED
    BY <1>0, <2>1
<1>7. CASE Reconnect
  <2>1. wpc # "send"
    BY <1>7, Idle DEF Reconnect, InJob, JobOpen
  <2> QED
    BY <1>7, <2>1 DEF Reconnect
<1> QED
  BY StepCases, <1>1, <1>2, <1>3, <1>4, <1>5, <1>6, <1>7 DEF SubmitStep

LEMMA WatchedStep ==
  ASSUME IInv, ApartInv, WireInv, SubmitsWatched, [Next]_vars
  PROVE  SubmitsWatched'
<1> USE DEF SubmitsWatched
<1>1. CASE MinerOnlyStep \/ ReclaimStep \/ EnqueueStep \/ JobStep \/ DestroyStep
             \/ UNCHANGED vars
  BY <1>1, ConnectionUnchanged
<1>2. CASE WorkerTake \/ ProofStep \/ ReturnStep
  <2>1. UNCHANGED <<wire, tracked, reader, connLost>> /\ wpc' # "send" /\ wpc # "send"
    BY <1>2 DEF WorkerTake, ProofStep, ReturnStep, WorkerCheck, WorkerBuild, WorkerRecheck,
        WorkerLocal, Proceed, Conclude, WorkerReturn, WorkerRelease, poolVars
  <2> QED
    BY <2>1
<1>3. CASE WorkerTrack
  BY <1>3 DEF WorkerTrack, Proceed
<1>4. CASE WorkerSend
  <2>1. wpc = "send" /\ wpc' # "send" /\ UNCHANGED <<reader, connLost>>
    BY <1>4 DEF WorkerSend, Conclude
  <2>2. CASE wire' = wire \cup {SentShare} /\ tracked' = tracked
    <3>0. SentShare.id = submitId
      BY DEF SentShare
    <3>1. {w.id : w \in wire'} = {w.id : w \in wire} \cup {submitId}
      BY <2>2, <3>0
    <3> QED
      BY <2>1, <2>2, <3>1
  <2>3. CASE wire' = wire /\ tracked' = tracked \ {submitId}
    BY <2>1, <2>3 DEF WireInv
  <2> QED
    BY <1>4, <2>2, <2>3 DEF WorkerSend, SentShare
<1>5. CASE SubmitReply
  <2>1. PICK w \in wire : wire' = wire \ {w} /\ tracked' = tracked \ {w.id}
    BY <1>5 DEF SubmitReply
  <2>2. {x.id : x \in wire'} = {x.id : x \in wire} \ {w.id}
    BY <2>1 DEF WireInv
  <2>3. wpc = "send" => w.id # submitId
    BY DEF WireInv
  <2>4. UNCHANGED <<wpc, submitId, reader, connLost>>
    BY <1>5 DEF SubmitReply, PoolOnly, workerVars
  <2> QED
    BY <2>1, <2>2, <2>3, <2>4
<1>6. CASE PoolStep /\ ~SubmitReply
  BY <1>6 DEF PoolStep, NewJobArrives, PoolOnly, ReaderGivesUp, AuthorizeRejected,
      ConnectionLost, PoolStalls, PoolResumes, workerVars, poolVars
<1>7. CASE Reconnect
  <2>1. wpc # "send"
    BY <1>7, Idle DEF Reconnect, InJob, JobOpen
  <2> QED
    BY <1>7, <2>1 DEF Reconnect
<1> QED
  BY StepCases, <1>1, <1>2, <1>3, <1>4, <1>5, <1>6, <1>7 DEF SubmitStep

-----------------------------------------------------------------------------
(***************************************************************************)
(* Nonces: increasing along the way of the shares.                          *)
(***************************************************************************)
way == <<pending, wire, snap, wpc, jobNo>>

LEMMA Nonces ==
  ASSUME TypeOK
  PROVE  /\ nonce \in Nat /\ Limit \in Nat /\ snap.nonce \in Nat
         /\ \A i \in 1..Len(pending) : pending[i].nonce \in Nat
         /\ \A x \in wire : x.nonce \in Nat /\ x.key \in Nat
<1>1. \A i \in 1..Len(pending) : pending[i] \in Snapshot
  BY ElementOfSeq DEF TypeOK, DataTypeOK
<1> QED
  BY <1>1 DEF TypeOK, CounterTypeOK, DataTypeOK, SetTypeOK, Snapshot, Submit, Limit

\* A step that leaves the way of the shares alone may raise the limit.
LEMMA WayUnchanged ==
  ASSUME TypeOK, OrderInv, UNCHANGED way, Limit' \in Nat,
         mpc' \in {"begin"} \cup JobOpen =>
           mpc \in {"begin"} \cup JobOpen /\ Limit <= Limit'
  PROVE  OrderInv'
<1>1. UNCHANGED <<pending, wire, snap, wpc, jobNo>>
  BY DEF way
<1>2. ASSUME mpc' \in {"begin"} \cup JobOpen
      PROVE  AllBelow(Limit)'
  BY <1>1, <1>2, Nonces DEF AllBelow, OrderInv, Unsettled
<1> QED
  BY <1>1, <1>2 DEF OrderInv, Unsettled

LEMMA OrderStep ==
  ASSUME IInv, ApartInv, WireInv, OrderInv, [Next]_vars
  PROVE  OrderInv'
<1> USE DEF queueVars, bufferVars, jobVars, minerVars, workerVars, poolVars
<1>0. /\ TypeOK /\ TypeOK' /\ nonce \in Nat /\ nonce' \in Nat /\ Limit \in Nat /\ Limit' \in Nat
      /\ jobNo \in Nat
  <2>1. TypeOK /\ TypeOK'
    BY TypeStep DEF IInv
  <2>2. nonce \in Nat /\ nonce' \in Nat /\ jobNo \in Nat
    BY <2>1 DEF TypeOK, CounterTypeOK
  <2>3. \A n \in Nat : n + 1 \in Nat
    OBVIOUS
  <2>4. Limit \in {nonce, nonce + 1} /\ Limit' \in {nonce', nonce' + 1}
    BY DEF Limit
  <2> QED
    BY <2>1, <2>2, <2>3, <2>4
<1>1. CASE MinerOnlyStep
  <2>1. UNCHANGED way
    BY <1>1 DEF MinerOnlyStep, ScanBuffersOom, LoopCheck, Scan, Hit, Fetch, EnqueueRefused,
        MinerOnly, way
  <2>2. /\ mpc \in {"begin", "loop", "scan", "hit", "fetch", "enqueue"} /\ mpc' # "notify"
        /\ nonce' = nonce \/ nonce' = nonce + 1
    BY <1>1 DEF MinerOnlyStep, ScanBuffersOom, LoopCheck, Scan, Hit, Fetch, EnqueueRefused,
        EndJobWith, GoTo
  <2> QED
    BY <1>0, <2>1, <2>2, WayUnchanged DEF Limit, JobOpen
<1>2. CASE ReclaimStep
  <2>1. UNCHANGED <<way, nonce>>
    BY <1>2 DEF ReclaimStep, ReclaimForScan, ReclaimForShare, ReclaimAtEnd, Reclaim, way
  <2>2. /\ mpc \in {"reclaim", "reclaimHit", "reclaimEnd"} /\ mpc' # "notify"
        /\ mpc = "reclaimEnd" => mpc' \in {"reclaimEnd", "finish"}
    BY <1>2 DEF ReclaimStep, ReclaimForScan, ReclaimForShare, ReclaimAtEnd, Reclaim
  <2> QED
    BY <1>0, <2>1, <2>2, WayUnchanged DEF Limit, JobOpen
<1>3. CASE EnqueueStep
  <2>1. CASE EnqueueWait
    BY <1>0, <2>1, WayUnchanged DEF EnqueueWait, way, Limit
  <2>2. CASE Enqueue
    <3>1. /\ UNCHANGED <<wire, snap, wpc, jobNo, nonce>> /\ mpc = "enqueue" /\ mpc' = "notify"
          /\ NewSnapshot.nonce = nonce
      BY <2>2 DEF Enqueue, GoTo, NewSnapshot
    <3>2. AllBelow(nonce)
      BY <3>1 DEF OrderInv, Limit, JobOpen
    <3>3. \A i \in 1..Len(pending') : \/ i \in 1..Len(pending) /\ pending'[i] = pending[i]
                                      \/ i = Len(pending) + 1 /\ pending'[i] = NewSnapshot
      BY <1>0, <2>2, Appended
    <3>4. \A i \in 1..Len(pending') : pending'[i].nonce < nonce + 1
      BY <1>0, <3>1, <3>2, <3>3, Nonces DEF AllBelow
    <3>5. AllBelow(Limit)'
      BY <1>0, <3>1, <3>2, <3>4, Nonces DEF AllBelow, Limit, Unsettled
    <3>6. \A i, j \in 1..Len(pending') : i < j => pending'[i].nonce < pending'[j].nonce
      <4>1. Len(pending) \in Nat
        BY <1>0, LenProperties DEF TypeOK, DataTypeOK
      <4> QED
        BY <1>0, <4>1, <3>1, <3>2, <3>3 DEF AllBelow, OrderInv
    <3>7. Unsettled' => \A i \in 1..Len(pending') : snap'.nonce < pending'[i].nonce
      BY <3>1, <3>2, <3>3 DEF AllBelow, OrderInv, Unsettled
    <3>8. \A x \in wire' : x.key = jobNo' =>
            /\ \A i \in 1..Len(pending') : x.nonce < pending'[i].nonce
            /\ Unsettled' => x.nonce < snap'.nonce
      BY <3>1, <3>2, <3>3 DEF AllBelow, OrderInv, Unsettled
    <3> QED
      BY <3>1, <3>5, <3>6, <3>7, <3>8 DEF OrderInv
  <2>3. CASE EnqueueNotify
    <3>1. UNCHANGED way /\ mpc = "notify" /\ nonce' \in {nonce, nonce + 1}
          /\ mpc' \in {"loop", "endJob"} /\ (mpc' = "loop" => nonce' = nonce + 1)
      BY <2>3 DEF EnqueueNotify, EndJobWith, GoTo, way
    <3>2. mpc \in JobOpen /\ Limit = nonce + 1 /\ (mpc' = "loop" => Limit' = nonce + 1)
      BY <3>1 DEF Limit, JobOpen
    <3>3. mpc' \in {"begin"} \cup JobOpen => Limit <= Limit'
      BY <1>0, <3>1, <3>2 DEF JobOpen
    <3> QED
      BY <1>0, <3>1, <3>2, <3>3, WayUnchanged
  <2> QED
    BY <1>3, <2>1, <2>2, <2>3 DEF EnqueueStep
<1>4. CASE JobStep
  <2>1. CASE StartJob
    <3>1. /\ UNCHANGED <<pending, wire, snap, wpc>> /\ jobNo' = jobNo + 1
          /\ mpc = "idle" /\ mpc' = "begin" /\ nonce' = 0
      BY <2>1 DEF StartJob, GoTo
    <3>2. Len(pending') = 0 /\ ~Unsettled'
      BY <3>1, Idle DEF InJob, JobOpen, Unsettled
    <3>3. \A x \in wire' : x.key # jobNo'
      BY <1>0, <3>1, Nonces DEF WireInv
    <3>4. AllBelow(Limit)'
      BY <3>2, <3>3 DEF AllBelow
    <3> QED
      BY <3>1, <3>2, <3>3, <3>4 DEF OrderInv
  <2>2. CASE BeginJob
    BY <1>0, <2>2, WayUnchanged DEF BeginJob, GoTo, way, Limit, JobOpen
  <2>3. CASE EndJob \/ Drain \/ FinishJob
    BY <1>0, <2>3, WayUnchanged DEF EndJob, Drain, FinishJob, GoTo, way, Limit, JobOpen
  <2> QED
    BY <1>4, <2>1, <2>2, <2>3 DEF JobStep
<1>5. CASE DestroyStep
  <2>1. CASE DestroyMark
    BY <1>0, <2>1, WayUnchanged DEF DestroyMark, GoTo, way, JobOpen
  <2>2. CASE DestroyJoin
    <3>1. /\ UNCHANGED <<wire, snap, wpc, jobNo>> /\ mpc' = "halted" /\ pending' = <<>>
          /\ ~Unsettled
      BY <2>2 DEF DestroyJoin, GoTo, Unsettled
    <3>2. Len(pending') = 0 /\ ~Unsettled' /\ 1..0 = {}
      BY <3>1, EmptySeq DEF Unsettled
    <3> QED
      BY <3>1, <3>2 DEF OrderInv, JobOpen
  <2> QED
    BY <1>5, <2>1, <2>2 DEF DestroyStep
<1>6. CASE WorkerTake
  <2>1. CASE pending = <<>>
    <3>1. UNCHANGED <<pending, wire, snap, jobNo, mpc, nonce>> /\ ~Unsettled /\ ~Unsettled'
      BY <1>6, <2>1 DEF WorkerTake, Unsettled
    <3> QED
      BY <3>1 DEF OrderInv, AllBelow, Limit
  <2>2. CASE pending # <<>>
    <3>1. UNCHANGED <<wire, jobNo, mpc, nonce>> /\ Unsettled' /\ ~Unsettled
      BY <1>6, <2>2 DEF WorkerTake, Unsettled
    <3>2. /\ snap' = pending[1] /\ Len(pending) \in Nat /\ 1 \in 1..Len(pending)
          /\ \A i \in 1..Len(pending') :
               i \in Nat /\ i + 1 > 1 /\ i + 1 \in 1..Len(pending) /\ pending'[i] = pending[i + 1]
      BY <1>0, <1>6, <2>2, Taken
    <3>3. mpc' \in {"begin"} \cup JobOpen => AllBelow(Limit)'
      BY <3>1, <3>2 DEF OrderInv, AllBelow, Limit
    <3>4. \A i, j \in 1..Len(pending') : i < j => pending'[i].nonce < pending'[j].nonce
      BY <3>2 DEF OrderInv
    <3>5. \A i \in 1..Len(pending') : snap'.nonce < pending'[i].nonce
      BY <3>2 DEF OrderInv
    <3>6. \A x \in wire' : x.key = jobNo' =>
            /\ \A i \in 1..Len(pending') : x.nonce < pending'[i].nonce
            /\ x.nonce < snap'.nonce
      BY <3>1, <3>2 DEF OrderInv
    <3> QED
      BY <3>1, <3>3, <3>4, <3>5, <3>6 DEF OrderInv
  <2> QED
    BY <2>1, <2>2
<1>7. CASE ProofStep \/ WorkerTrack
  <2>1. UNCHANGED <<pending, wire, snap, jobNo, mpc, nonce>> /\ Unsettled
    BY <1>7 DEF ProofStep, WorkerCheck, WorkerBuild, WorkerRecheck, WorkerLocal, WorkerTrack,
        Unsettled
  <2> QED
    BY <2>1 DEF OrderInv, AllBelow, Limit
<1>8. CASE WorkerSend
  <2>1. /\ UNCHANGED <<pending, snap, jobNo, mpc, nonce>> /\ Unsettled /\ ~Unsettled'
        /\ wire' \in {wire, wire \cup {SentShare}}
    BY <1>8 DEF WorkerSend, Conclude, Unsettled, SentShare
  <2>2. SentShare.key = jobNo /\ SentShare.nonce = snap.nonce
    BY <2>1 DEF ApartInv, Holding, Unsettled, OfThisJob, SentShare
  <2>3. mpc' \in {"begin"} \cup JobOpen => AllBelow(Limit)'
    BY <2>1, <2>2 DEF OrderInv, AllBelow, Limit
  <2>4. \A x \in wire' : x.key = jobNo' => \A i \in 1..Len(pending') : x.nonce < pending'[i].nonce
    BY <2>1, <2>2 DEF OrderInv
  <2>5. \A x \in wire : ~(x.key = SentShare.key /\ x.nonce = SentShare.nonce)
    BY <1>0, <2>1, <2>2, Nonces DEF OrderInv
  <2>6. \A x, y \in wire' : x.key = y.key /\ x.nonce = y.nonce => x = y
    BY <2>1, <2>5 DEF OrderInv
  <2> QED
    BY <2>1, <2>3, <2>4, <2>6 DEF OrderInv
<1>9. CASE ReturnStep
  <2>1. /\ UNCHANGED <<pending, wire, jobNo, mpc, nonce>> /\ ~Unsettled /\ ~Unsettled'
    BY <1>9 DEF ReturnStep, WorkerReturn, WorkerRelease, WorkerLocal, Unsettled
  <2> QED
    BY <2>1 DEF OrderInv, AllBelow, Limit
<1>10. CASE PoolStep
  <2>1. UNCHANGED <<pending, snap, wpc, jobNo, mpc, nonce>> /\ wire' \subseteq wire
    BY <1>10 DEF PoolStep, NewJobArrives, PoolOnly, SubmitReply, ReaderGivesUp,
        AuthorizeRejected, ConnectionLost, PoolStalls, PoolResumes
  <2> QED
    BY <2>1 DEF OrderInv, AllBelow, Limit, Unsettled
<1>11. CASE Reconnect
  <2>1. UNCHANGED <<pending, snap, wpc, jobNo, mpc, nonce>> /\ wire' = {}
    BY <1>11 DEF Reconnect
  <2> QED
    BY <2>1 DEF OrderInv, AllBelow, Limit, Unsettled
<1>12. CASE UNCHANGED vars
  BY <1>0, <1>12, WayUnchanged DEF vars, way, Limit
<1> QED
  BY StepCases, <1>1, <1>2, <1>3, <1>4, <1>5, <1>6, <1>7, <1>8, <1>9, <1>10,
      <1>11, <1>12 DEF SubmitStep

-----------------------------------------------------------------------------
\* The invariant holds initially ...
LEMMA InitJInv == Init => JInv
<1> SUFFICES ASSUME Init PROVE JInv
  OBVIOUS
<1>0. /\ mpc = "idle" /\ wpc = "wait" /\ pending = <<>> /\ Len(pending) = 0
      /\ snap = NoSnap /\ wire = {} /\ mode \in ModeType /\ ~shutdown
  BY EmptySeq, ModesAssumption DEF Init
<1>1. IInv
  BY InitIInv
<1>2. ApartInv
  BY <1>0 DEF Init, ApartInv, InJob, JobOpen, Drained, Holding
<1>3. BufferInv
  <2>1. mode.witness \in BOOLEAN /\ mode.handoffBt \in BOOLEAN
    BY <1>0 DEF ModeType
  <2>2. /\ hA = ~mode.witness /\ hBt = (mode.handoffBt /\ ~mode.witness)
        /\ returnedA = FALSE /\ returnedBt = FALSE /\ snap.a = FALSE /\ snap.bt = FALSE
    BY DEF Init, NoSnap
  <2>3. \A i \in 1..Len(pending) : pending[i].a = pending[i].bt
    BY <1>0
  <2> QED
    BY <1>0, <2>1, <2>2, <2>3 DEF BufferInv
<1>4. WireInv /\ OrderInv
  BY <1>0 DEF WireInv, OrderInv, AllBelow, JobOpen, Unsettled
<1>5. SubmitsWatched
  BY <1>0 DEF Init, SubmitsWatched
<1> QED
  BY <1>1, <1>2, <1>3, <1>4, <1>5 DEF JInv

\* ... is kept by every step ...
LEMMA StepJInv == JInv /\ [Next]_vars => JInv'
BY StepIInv, ApartStep, BufferStep, WireStep, OrderStep, WatchedStep DEF JInv

(* ... and so holds throughout. *)
THEOREM JobInvariance == Spec => []JInv
<1>1. Init => JInv
  BY InitJInv
<1>2. JInv /\ [Next]_vars => JInv'
  BY StepJInv
<1> QED
  BY <1>1, <1>2, PTL DEF Spec

(***************************************************************************)
(* The unlocked reads of the worker (job_ctx and the mining key) are always *)
(* of the job that found its share, and between jobs the queue is empty and *)
(* the miner has its buffers: what cp_share_queue_end_job waits for.        *)
(***************************************************************************)
THEOREM JobsKeptApart == Spec => []JobsApart
<1>1. JInv => JobsApart
  <2> SUFFICES ASSUME JInv PROVE JobsApart
    OBVIOUS
  <2> USE DEF JInv
  <2>1. JobContextStable
    <3>1. WorkerBusy /\ wpc # "release" => Holding
      BY DEF WorkerBusy, Holding, IInv, TypeOK, LabelTypeOK, WorkerLabels
    <3> QED
      BY <3>1 DEF JobContextStable, ApartInv, OfThisJob, ContextIsCurrent, KeyMatches
  <2>2. QuietBetweenJobs
    <3> SUFFICES ASSUME mpc \in {"idle", "begin", "finish"}
                 PROVE  /\ Drained /\ ~WorkerBusy
                        /\ ~mode.witness => hA /\ ~returnedA
                        /\ mode.handoffBt /\ ~mode.witness => hBt /\ ~returnedBt
      BY DEF QuietBetweenJobs
    <3>1. Drained /\ ~WorkerBusy
      BY DEF ApartInv, InJob, JobOpen, IInv, CountInv, Drained, One
    <3>2. ~mode.witness => hA /\ ~returnedA
      BY DEF BufferInv
    <3>3. mode.handoffBt /\ ~mode.witness => hBt /\ ~returnedBt
      BY <3>2 DEF BufferInv
    <3> QED
      BY <3>1, <3>2, <3>3
  <2> QED
    BY <2>1, <2>2 DEF JobsApart
<1> QED
  BY <1>1, JobInvariance, PTL

(***************************************************************************)
(* The mining thread never misses its buffers after a reclaim, whatever     *)
(* became of the share they were lent for.                                  *)
(***************************************************************************)
THEOREM BuffersReclaimed == Spec => ReclaimFindsBuffers
<1>1. ASSUME JInv, [Next]_vars
      PROVE  [ /\ mpc \in {"reclaim", "reclaimHit"} => mpc' # "endJob"
               /\ mpc = "reclaimEnd" /\ mpc' = "finish" /\ ~mode.witness
                    => hA' /\ (mode.handoffBt => hBt') ]_vars
  <2>1. IInv /\ BufferInv
    BY <1>1 DEF JInv
  <2>2. CASE ReclaimForScan \/ ReclaimForShare
    <3>1. PICK at \in {"reclaim", "reclaimHit"}, next \in {"scan", "fetch", "enqueue"} :
            mpc = at /\ Reclaim(at, mode.handoffBt, next, TRUE)
      BY <2>2 DEF ReclaimForScan, ReclaimForShare, Reclaim
    <3>2. ~mode.witness
      BY <2>1, <3>1 DEF BufferInv
    <3> QED
      BY <2>1, <3>1, <3>2, ReclaimFinds
  <2>3. CASE ReclaimAtEnd
    <3>1. mpc = "reclaimEnd"
      BY <2>3 DEF ReclaimAtEnd, Reclaim
    <3>2. ASSUME ~mode.witness, mpc' = "finish" PROVE hA' /\ (mode.handoffBt => hBt')
      BY <2>1, <2>3, <3>1, <3>2, ReclaimFinds DEF ReclaimAtEnd
    <3> QED
      BY <3>1, <3>2
  <2>4. CASE ~ReclaimForScan /\ ~ReclaimForShare /\ ~ReclaimAtEnd
    <3>1. mpc \in {"reclaim", "reclaimHit", "reclaimEnd"} => mpc' = mpc
      BY <1>1, <2>4 DEF Next, Rest, StartJob, Reconnect, MinerStep, WorkerStep, PoolStep,
        ScanBuffersOom, BeginJob, LoopCheck, Scan, Hit, Fetch, EnqueueRefused, EnqueueWait,
        Enqueue, EnqueueNotify, EndJob, Drain, FinishJob, DestroyMark, DestroyJoin,
        WorkerTake, WorkerCheck, WorkerBuild, WorkerRecheck, WorkerTrack, WorkerSend,
        WorkerReturn, WorkerRelease, WorkerLocal, NewJobArrives, SubmitReply, ReaderGivesUp,
        AuthorizeRejected, ConnectionLost, PoolStalls, PoolResumes, PoolOnly, minerVars, vars
    <3> QED
      BY <3>1
  <2> QED
    BY <2>2, <2>3, <2>4
<1> QED
  BY <1>1, JobInvariance, PTL DEF Spec, ReclaimFindsBuffers

(***************************************************************************)
(* While the connection is up the submit table is what the pool owes, no    *)
(* share goes out twice, and none on the socket of another session.         *)
(***************************************************************************)
THEOREM SubmitsAreAccounted == Spec => []SubmitsAccounted
<1>1. JInv => SubmitsWatched
  BY DEF JInv
<1>2. JInv => SentOnceOnOwnSocket
  BY DEF JInv, WireInv, OrderInv, SentOnceOnOwnSocket
<1>3. JInv => SubmitsAccounted
  BY <1>1, <1>2 DEF SubmitsAccounted
<1> QED
  BY <1>3, JobInvariance, PTL

-----------------------------------------------------------------------------
(***************************************************************************)
(* The share queue keeps the safety part of its contract, for all values of *)
(* its constants: initial states of ShareQueue are initial states of        *)
(* ShareHandoff, and every step maps to a step of it or to none.  Fairness  *)
(* and with it the rest of ImplementsHandoff is left to the model checker.  *)
(*                                                                         *)
(* Besides the invariants above the mapping needs that a share              *)
(* with host buffers carries A (HandInv), so that the holder of A is known  *)
(* at every step, and that what is settled is older than what is waiting    *)
(* (SettledInv), so that a share is handed over once.                       *)
(***************************************************************************)

HandInv ==
  /\ ~mode.witness => /\ \A i \in 1..Len(pending) : pending[i].a
                      /\ Holding => snap.a
  /\ mpc \in {"destroy", "join"} /\ ~mode.witness => hA /\ ~returnedA
  /\ jobActive => mpc \in JobOpen \cup {"endJob"}
  /\ mpc \in {"begin"} \cup JobOpen => jobNo \in 1..MaxJobs
  /\ mpc \in JobOpen \ {"loop"} => nonce < MaxNonce

SettledInv ==
  \A share \in settled :
    /\ share[1] <= jobNo
    /\ share[1] = jobNo =>
         /\ mpc \in {"begin"} \cup JobOpen => share[2] < Limit
         /\ \A i \in 1..Len(pending) : share[2] < pending[i].nonce
         /\ Unsettled => share[2] < snap.nonce

HInv == JInv /\ HandInv /\ SettledInv

-----------------------------------------------------------------------------
(***************************************************************************)
(* The invariant.                                                           *)
(***************************************************************************)

\* Type facts about settled shares and bounds.
LEMMA SettledShares ==
  ASSUME TypeOK
  PROVE  /\ \A share \in settled : share[1] \in Nat /\ share[2] \in Nat
         /\ jobNo \in Nat /\ MaxJobs \in Nat /\ MaxNonce \in Nat
BY BoundsAssumption DEF TypeOK, SetTypeOK, ShareId, CounterTypeOK

\* A step that leaves the places of A, the job and its limits alone.
handed == <<mode, pending, snap, hA, returnedA, jobNo>>

LEMMA HandUnchanged ==
  ASSUME HandInv, UNCHANGED handed, Holding' => Holding,
         mpc' \in {"destroy", "join"} => mpc \in {"destroy", "join"},
         jobActive' => mpc' \in JobOpen \cup {"endJob"},
         mpc' \in {"begin"} \cup JobOpen => mpc \in {"begin"} \cup JobOpen,
         mpc' \in JobOpen \ {"loop"} => nonce' < MaxNonce
  PROVE  HandInv'
BY DEF HandInv, handed

LEMMA HandStep ==
  ASSUME JInv, HandInv, [Next]_vars
  PROVE  HandInv'
<1> USE DEF queueVars, bufferVars, jobVars, minerVars, workerVars, poolVars
<1>0. /\ IInv /\ ApartInv /\ BufferInv /\ TypeOK /\ nonce \in Nat
      /\ jobActive => mpc \in JobOpen \cup {"endJob"}
      /\ mpc \in JobOpen \ {"loop"} => nonce < MaxNonce
  BY DEF JInv, IInv, HandInv, TypeOK, CounterTypeOK
<1>1. CASE MinerOnlyStep
  <2>1. UNCHANGED <<handed, wpc, jobActive>>
    BY <1>1 DEF MinerOnlyStep, ScanBuffersOom, EndJobWith, MinerOnly,
        LoopCheck, GoTo, Scan, Hit, Fetch, EnqueueRefused, handed
  <2>2. /\ mpc' \in {"endJob"} \cup JobOpen
        /\ mpc' \in JobOpen => mpc \in JobOpen
        /\ mpc' \in JobOpen \ {"loop"} => nonce' < MaxNonce
    BY <1>0, <1>1, SettledShares DEF MinerOnlyStep, ScanBuffersOom, EndJobWith, JobOpen,
        LoopCheck, NonceLimit, GoTo, Scan, Hit, Fetch, EnqueueRefused
  <2> QED
    BY <1>0, <2>1, <2>2, HandUnchanged DEF Holding, JobOpen
<1>2. CASE ReclaimStep
  <2>1. PICK at \in {"reclaim", "reclaimHit", "reclaimEnd"},
             wantBt \in {TRUE, mode.handoffBt},
             next \in {"scan", "fetch", "enqueue", "finish"}, checked \in BOOLEAN :
          /\ mpc = at /\ Reclaim(at, wantBt, next, checked)
          /\ at = "reclaimEnd" => next = "finish" /\ checked = FALSE
          /\ at # "reclaimEnd" => next # "finish"
    BY <1>2 DEF ReclaimStep, ReclaimForScan, ReclaimForShare, ReclaimAtEnd, Reclaim
  <2>2. UNCHANGED <<mode, pending, snap, wpc, jobNo, jobActive, nonce>>
    BY <2>1 DEF Reclaim
  <2>3. /\ mpc' \in {mpc, next, "endJob"} /\ (mpc' = "endJob" => mpc # "reclaimEnd")
    BY <2>1 DEF Reclaim
  <2> QED
    BY <1>0, <2>1, <2>2, <2>3 DEF HandInv, Holding, JobOpen
<1>3. CASE EnqueueStep
  <2>1. CASE EnqueueWait
    BY <1>0, <2>1, HandUnchanged DEF EnqueueWait, handed, Holding
  <2>2. CASE Enqueue
    <3>1. /\ UNCHANGED <<mode, snap, wpc, jobNo, jobActive, nonce>>
          /\ mpc = "enqueue" /\ mpc' = "notify"
      BY <2>2 DEF Enqueue, GoTo
    <3>2. ~mode.witness => NewSnapshot.a
      BY <2>2 DEF Enqueue, Refused, NewSnapshot
    <3>3. ~mode.witness => \A i \in 1..Len(pending') : pending'[i].a
      BY <1>0, <2>2, <3>2, Appended DEF HandInv
    <3> QED
      BY <3>1, <3>3 DEF HandInv, Holding, JobOpen
  <2>3. CASE EnqueueNotify
    BY <1>0, <2>3, HandUnchanged DEF EnqueueNotify, GoTo, EndJobWith, handed, Holding, JobOpen
  <2> QED
    BY <1>3, <2>1, <2>2, <2>3 DEF EnqueueStep
<1>4. CASE JobStep
  <2>1. CASE StartJob
    <3>1. /\ UNCHANGED <<mode, pending, snap, wpc, hA, returnedA, jobActive>>
          /\ mpc = "idle" /\ mpc' = "begin" /\ jobNo' = jobNo + 1 /\ jobNo < MaxJobs
      BY <2>1 DEF StartJob, GoTo
    <3>2. jobNo' \in 1..MaxJobs
      BY <1>0, <3>1, SettledShares
    <3> QED
      BY <1>0, <3>1, <3>2 DEF HandInv, Holding, JobOpen
  <2>2. CASE BeginJob
    BY <1>0, <2>2, HandUnchanged DEF BeginJob, GoTo, handed, Holding, JobOpen
  <2>3. CASE EndJob \/ Drain
    BY <1>0, <2>3, HandUnchanged DEF EndJob, Drain, GoTo, handed, Holding, JobOpen
  <2>4. CASE FinishJob
    <3>1. ~mode.witness => hA /\ ~returnedA
      BY <1>0, <2>4 DEF BufferInv, FinishJob
    <3>2. /\ UNCHANGED <<mode, pending, snap, wpc, hA, returnedA, jobActive, jobNo>>
          /\ mpc = "finish" /\ mpc' \in {"destroy", "idle"}
      BY <2>4 DEF FinishJob, GoTo
    <3> QED
      BY <1>0, <3>1, <3>2 DEF HandInv, Holding, JobOpen
  <2> QED
    BY <1>4, <2>1, <2>2, <2>3, <2>4 DEF JobStep
<1>5. CASE DestroyStep
  <2>1. CASE DestroyMark
    BY <1>0, <2>1, HandUnchanged DEF DestroyMark, GoTo, handed, Holding, JobOpen
  <2>2. CASE DestroyJoin
    <3>1. pending' = <<>> /\ Len(pending') = 0 /\ mpc' = "halted" /\ mpc = "join"
          /\ wpc = "exit" /\ UNCHANGED <<mode, snap, wpc, jobActive>>
      BY <2>2, EmptySeq DEF DestroyJoin, GoTo
    <3>2. ~Holding'
      BY <3>1 DEF Holding
    <3>3. \A i \in 1..Len(pending') : pending'[i].a
      BY <3>1
    <3> QED
      BY <1>0, <3>1, <3>2, <3>3 DEF HandInv, JobOpen
  <2> QED
    BY <1>5, <2>1, <2>2 DEF DestroyStep
<1>6. CASE WorkerTake
  <2>1. CASE pending = <<>>
    <3>1. UNCHANGED <<handed, mpc, jobActive, nonce>> /\ ~Holding /\ ~Holding'
      BY <1>6, <2>1 DEF WorkerTake, handed, Holding
    <3> QED
      BY <1>0, <3>1, HandUnchanged DEF HandInv
  <2>2. CASE pending # <<>>
    <3>1. UNCHANGED <<mode, mpc, jobActive, nonce, jobNo, hA, returnedA>>
      BY <1>6, <2>2 DEF WorkerTake
    <3>2. ASSUME ~mode.witness
          PROVE  snap'.a /\ \A i \in 1..Len(pending') : pending'[i].a
      BY <1>0, <1>6, <2>2, <3>2, Taken DEF HandInv
    <3> QED
      BY <3>1, <3>2 DEF HandInv
  <2> QED
    BY <2>1, <2>2
<1>7. CASE ProofStep \/ SubmitStep
  <2>1. UNCHANGED <<handed, mpc, jobActive, nonce>> /\ (Holding' => Holding)
    BY <1>7 DEF ProofStep, WorkerCheck, Proceed, Conclude, WorkerLocal,
        WorkerBuild, WorkerRecheck, SubmitStep, WorkerTrack, WorkerSend, handed, Holding
  <2> QED
    BY <1>0, <2>1, HandUnchanged DEF HandInv
<1>8. CASE ReturnStep
  <2>1. UNCHANGED <<mode, pending, hA, jobNo, mpc, jobActive, nonce>> /\ ~Holding'
    BY <1>8 DEF ReturnStep, WorkerReturn, WorkerRelease, WorkerLocal, Holding
  <2>2. mpc \notin {"destroy", "join"}
    <3>1. mpc \in InJob
      BY <1>0, <1>8, Idle DEF ReturnStep, WorkerReturn, WorkerRelease, IInv, CountInv,
          WorkerBusy, One, ApartInv, Drained
    <3> QED
      BY <3>1 DEF InJob, JobOpen
  <2> QED
    BY <2>1, <2>2 DEF HandInv
<1>9. CASE PoolStep \/ Reconnect \/ UNCHANGED vars
  <2>1. UNCHANGED <<handed, mpc, wpc, jobActive, nonce>>
    BY <1>9 DEF PoolStep, NewJobArrives, PoolOnly, SubmitReply, ReaderGivesUp,
        AuthorizeRejected, ConnectionLost, PoolStalls, PoolResumes, handed, Reconnect, vars
  <2> QED
    BY <1>0, <2>1, HandUnchanged DEF HandInv, Holding
<1> QED
  BY StepCases, <1>1, <1>2, <1>3, <1>4, <1>5, <1>6, <1>7, <1>8, <1>9

\* A step that settles nothing and adds nothing to the queue may raise the
\* limit, or leave the part of the job that accepts shares.
LEMMA SettledUnchanged ==
  ASSUME TypeOK, SettledInv, UNCHANGED <<settled, pending, snap, jobNo>>,
         Unsettled' => Unsettled, Limit' \in Nat,
         mpc' \in {"begin"} \cup JobOpen =>
           mpc \in {"begin"} \cup JobOpen /\ Limit <= Limit'
  PROVE  SettledInv'
<1> SUFFICES ASSUME NEW share \in settled, share[1] = jobNo,
                    mpc' \in {"begin"} \cup JobOpen
             PROVE  share[2] < Limit'
  BY DEF SettledInv
<1> QED
  BY SettledShares, Nonces DEF SettledInv

LEMMA SettledStep ==
  ASSUME JInv, SettledInv, [Next]_vars
  PROVE  SettledInv'
<1> USE DEF queueVars, bufferVars, jobVars, minerVars, workerVars, poolVars
<1>0. /\ IInv /\ ApartInv /\ OrderInv /\ TypeOK /\ nonce \in Nat /\ nonce + 1 \in Nat
      /\ Limit \in Nat /\ Limit' \in Nat /\ TypeOK'
  <2>1. IInv /\ ApartInv /\ OrderInv /\ TypeOK /\ TypeOK'
    BY TypeStep DEF JInv, IInv
  <2> \A n \in Nat : n + 1 \in Nat
    OBVIOUS
  <2>2. nonce \in Nat /\ nonce' \in Nat /\ nonce + 1 \in Nat /\ nonce' + 1 \in Nat
    BY <2>1 DEF TypeOK, CounterTypeOK
  <2>3. Limit' \in Nat
    BY <2>2 DEF Limit
  <2> QED
    BY <2>1, <2>2, <2>3, Nonces
<1>1. CASE MinerOnlyStep
  <2>1. UNCHANGED <<settled, pending, snap, jobNo, wpc>>
    BY <1>1 DEF MinerOnlyStep, ScanBuffersOom, MinerOnly, LoopCheck, Scan, Hit, Fetch,
        EnqueueRefused
  <2>2. /\ mpc' \in {"endJob"} \cup JobOpen /\ mpc # "notify" /\ mpc' # "notify"
        /\ mpc' \in JobOpen => mpc \in JobOpen
        /\ nonce' \in {nonce, nonce + 1}
    BY <1>1 DEF MinerOnlyStep, ScanBuffersOom, EndJobWith, JobOpen, LoopCheck, GoTo, Scan,
        Hit, Fetch, EnqueueRefused
  <2>3. mpc' \in {"begin"} \cup JobOpen => mpc \in {"begin"} \cup JobOpen
    BY <2>2 DEF JobOpen
  <2>4. Limit = nonce /\ Limit' = nonce'
    BY <2>2 DEF Limit
  <2>5. Limit <= Limit'
    BY <1>0, <2>2, <2>4
  <2> QED
    BY <1>0, <2>1, <2>3, <2>5, SettledUnchanged DEF Unsettled
<1>2. CASE ReclaimStep
  <2>1. PICK at \in {"reclaim", "reclaimHit", "reclaimEnd"},
             wantBt \in {TRUE, mode.handoffBt},
             next \in {"scan", "fetch", "enqueue", "finish"}, checked \in BOOLEAN :
          /\ mpc = at /\ Reclaim(at, wantBt, next, checked)
          /\ at = "reclaimEnd" => next = "finish" /\ checked = FALSE
    BY <1>2 DEF ReclaimStep, ReclaimForScan, ReclaimForShare, ReclaimAtEnd, Reclaim
  <2>2. UNCHANGED <<settled, pending, snap, wpc, jobNo, nonce>>
    BY <2>1 DEF Reclaim
  <2>3. mpc' \in {mpc, next, "endJob"} /\ (mpc = "reclaimEnd" => mpc' \in {mpc, "finish"})
    BY <2>1 DEF Reclaim
  <2>4. mpc' \in {"begin"} \cup JobOpen => mpc \in {"begin"} \cup JobOpen
    BY <2>1, <2>3 DEF JobOpen
  <2>5. Limit = nonce /\ Limit' = nonce
    BY <2>1, <2>2, <2>3 DEF Limit
  <2>6. Limit <= Limit'
    BY <1>0, <2>5
  <2> QED
    BY <1>0, <2>2, <2>4, <2>6, SettledUnchanged DEF Unsettled
<1>3. CASE EnqueueStep
  <2>1. CASE EnqueueWait
    <3>1. UNCHANGED <<settled, pending, snap, wpc, jobNo, nonce, mpc>>
      BY <2>1 DEF EnqueueWait
    <3> QED
      BY <3>1 DEF SettledInv, Unsettled, Limit
  <2>2. CASE Enqueue
    <3>1. /\ UNCHANGED <<settled, snap, wpc, jobNo, nonce>>
          /\ mpc = "enqueue" /\ mpc' = "notify" /\ NewSnapshot.nonce = nonce
      BY <2>2 DEF Enqueue, GoTo, NewSnapshot
    <3>2. Limit = nonce /\ Limit' = nonce + 1 /\ mpc \in JobOpen
      BY <3>1 DEF Limit, JobOpen
    <3>3. \A share \in settled : share[1] = jobNo => share[2] < nonce
      BY <3>2 DEF SettledInv
    <3>4. \A share \in settled : share[1] = jobNo =>
            \A i \in 1..Len(pending') : share[2] < pending'[i].nonce
      BY <1>0, <2>2, <3>1, <3>3, Appended DEF SettledInv
    <3>5. \A share \in settled : share[1] = jobNo => share[2] < Limit'
      BY <1>0, <3>2, <3>3, SettledShares
    <3> QED
      BY <3>1, <3>4, <3>5 DEF SettledInv, Unsettled
  <2>3. CASE EnqueueNotify
    <3>1. UNCHANGED <<settled, pending, snap, wpc, jobNo>> /\ mpc = "notify"
          /\ mpc' \in {"loop", "endJob"} /\ (mpc' = "loop" => nonce' = nonce + 1)
      BY <2>3 DEF EnqueueNotify, EndJobWith, GoTo
    <3>2. mpc \in JobOpen /\ Limit = nonce + 1 /\ (mpc' = "loop" => Limit' = nonce + 1)
      BY <3>1 DEF Limit, JobOpen
    <3>3. mpc' \in {"begin"} \cup JobOpen => Limit <= Limit'
      BY <1>0, <3>1, <3>2 DEF JobOpen
    <3> QED
      BY <1>0, <3>1, <3>2, <3>3, SettledUnchanged DEF Unsettled
  <2> QED
    BY <1>3, <2>1, <2>2, <2>3 DEF EnqueueStep
<1>4. CASE JobStep
  <2>1. CASE StartJob
    <3>1. UNCHANGED <<settled, pending, snap, wpc>> /\ jobNo' = jobNo + 1
      BY <2>1 DEF StartJob
    <3>2. \A share \in settled : share[1] <= jobNo' /\ share[1] # jobNo'
      BY <1>0, <3>1, SettledShares DEF SettledInv
    <3> QED
      BY <3>1, <3>2 DEF SettledInv
  <2>2. CASE BeginJob
    <3>1. UNCHANGED <<settled, pending, snap, wpc, jobNo, nonce>> /\ mpc = "begin" /\ mpc' = "loop"
      BY <2>2 DEF BeginJob, GoTo
    <3> QED
      BY <3>1 DEF SettledInv, Limit, Unsettled
  <2>3. CASE EndJob \/ Drain \/ FinishJob
    <3>1. UNCHANGED <<settled, pending, snap, wpc, jobNo>> /\ mpc' \notin {"begin"} \cup JobOpen
      BY <2>3 DEF EndJob, Drain, FinishJob, GoTo, JobOpen
    <3> QED
      BY <3>1 DEF SettledInv, Unsettled
  <2> QED
    BY <1>4, <2>1, <2>2, <2>3 DEF JobStep
<1>5. CASE DestroyStep
  <2>1. CASE DestroyMark
    <3>1. UNCHANGED <<settled, pending, snap, wpc, jobNo>> /\ mpc' = "join"
      BY <2>1 DEF DestroyMark, GoTo
    <3> QED
      BY <3>1 DEF SettledInv, Unsettled, JobOpen
  <2>2. CASE DestroyJoin
    <3>1. /\ UNCHANGED <<settled, snap, wpc, jobNo>> /\ mpc' = "halted" /\ wpc = "exit"
          /\ pending' = <<>> /\ Len(pending') = 0
      BY <2>2, EmptySeq DEF DestroyJoin, GoTo
    <3> QED
      BY <3>1 DEF SettledInv, Unsettled, JobOpen
  <2> QED
    BY <1>5, <2>1, <2>2 DEF DestroyStep
<1>6. CASE WorkerTake
  <2>1. UNCHANGED <<settled, jobNo, nonce, mpc>>
    BY <1>6 DEF WorkerTake
  <2>2. CASE pending = <<>>
    <3>1. UNCHANGED <<pending, snap>> /\ ~Unsettled'
      BY <1>6, <2>2 DEF WorkerTake, Unsettled
    <3> QED
      BY <2>1, <3>1 DEF SettledInv, Limit
  <2>3. CASE pending # <<>>
    <3>1. /\ snap' = pending[1] /\ 1 \in 1..Len(pending)
          /\ \A i \in 1..Len(pending') : i + 1 \in 1..Len(pending) /\ pending'[i] = pending[i + 1]
      BY <1>0, <1>6, <2>3, Taken
    <3> QED
      BY <2>1, <3>1 DEF SettledInv, Limit
  <2> QED
    BY <2>2, <2>3
<1>7. CASE ProofStep \/ SubmitStep
  <2>1. UNCHANGED <<pending, snap, jobNo, nonce, mpc>> /\ Unsettled
    BY <1>7 DEF ProofStep, WorkerCheck, WorkerBuild, WorkerRecheck, WorkerLocal, SubmitStep,
        WorkerTrack, WorkerSend, Unsettled
  <2>2. \/ settled' = settled
        \/ settled' = settled \cup {ShareOf(snap)} /\ ~Unsettled'
    BY <1>7 DEF ProofStep, WorkerCheck, WorkerBuild, WorkerRecheck, SubmitStep, WorkerTrack,
        WorkerSend, Proceed, Conclude, Unsettled
  <2>3. ShareOf(snap)[1] = jobNo /\ ShareOf(snap)[2] = snap.nonce
    BY <1>0, <2>1 DEF ApartInv, OfThisJob, Holding, Unsettled, ShareOf
  <2>4. /\ \A i \in 1..Len(pending) : snap.nonce < pending[i].nonce
        /\ mpc \in {"begin"} \cup JobOpen => snap.nonce < Limit
    BY <1>0, <2>1 DEF OrderInv, AllBelow
  <2>5. jobNo <= jobNo
    BY <1>0 DEF TypeOK, CounterTypeOK
  <2> QED
    BY <2>1, <2>2, <2>3, <2>4, <2>5 DEF SettledInv, Limit
<1>8. CASE ReturnStep
  <2>1. /\ UNCHANGED <<pending, settled, jobNo, nonce, mpc>> /\ ~Unsettled'
    BY <1>8 DEF ReturnStep, WorkerReturn, WorkerRelease, WorkerLocal, Unsettled
  <2> QED
    BY <2>1 DEF SettledInv, Limit
<1>9. CASE PoolStep \/ Reconnect \/ UNCHANGED vars
  <2>1. UNCHANGED <<pending, settled, snap, wpc, jobNo, nonce, mpc>>
    BY <1>9 DEF PoolStep, NewJobArrives, PoolOnly, SubmitReply, ReaderGivesUp,
        AuthorizeRejected, ConnectionLost, PoolStalls, PoolResumes, Reconnect, vars
  <2> QED
    BY <2>1 DEF SettledInv, Limit, Unsettled
<1> QED
  BY StepCases, <1>1, <1>2, <1>3, <1>4, <1>5, <1>6, <1>7, <1>8, <1>9

-----------------------------------------------------------------------------
\* The invariant holds initially ...
LEMMA InitHInv == Init => HInv
<1> SUFFICES ASSUME Init PROVE HInv
  OBVIOUS
<1>1. JInv
  BY InitJInv
<1>2. HandInv
  <2>1. Len(pending) = 0 /\ mpc = "idle" /\ wpc = "wait" /\ jobActive = FALSE
    BY EmptySeq DEF Init
  <2> QED
    BY <2>1 DEF HandInv, JobOpen, Holding
<1>3. SettledInv
  BY DEF Init, SettledInv
<1> QED
  BY <1>1, <1>2, <1>3 DEF HInv

\* ... is kept by every step ...
LEMMA StepHInv == HInv /\ [Next]_vars => HInv'
BY StepJInv, HandStep, SettledStep DEF HInv

(* ... and so holds throughout: a share in the queue carries its matrices,   *)
(* and what is settled is older than what waits.                             *)
THEOREM HandoffInvariance == Spec => []HInv
<1>1. Init => HInv
  BY InitHInv
<1>2. HInv /\ [Next]_vars => HInv'
  BY StepHInv
<1> QED
  BY <1>1, <1>2, PTL DEF Spec

-----------------------------------------------------------------------------
(***************************************************************************)
(* The mapping: the waiting shares, as a sequence.                          *)
(***************************************************************************)

\* The shares of a queue of snapshots, and with one the worker holds.
SharesOf(queue) == [i \in 1..Len(queue) |-> ShareOf(queue[i])]
InFrontOf(share, queue) == <<share>> \o SharesOf(queue)

LEMMA SharesOfQueue ==
  ASSUME NEW queue \in Seq(Snapshot)
  PROVE  /\ SharesOf(queue) \in Seq(ShareId) /\ Len(SharesOf(queue)) = Len(queue)
         /\ \A i \in 1..Len(queue) : SharesOf(queue)[i] = ShareOf(queue[i])
<1>1. \A i \in 1..Len(queue) : ShareOf(queue[i]) \in ShareId
  <2>1. \A i \in 1..Len(queue) : queue[i] \in Snapshot
    BY ElementOfSeq
  <2>2. \A shot \in Snapshot : ShareOf(shot) \in ShareId
    BY DEF Snapshot, ShareOf, ShareId
  <2> QED
    BY <2>1, <2>2
<1>2. Len(queue) \in Nat
  BY LenProperties
<1> QED
  BY <1>1, <1>2, IsASeq DEF SharesOf

\* Nothing in front of the queue.
LEMMA NothingInFront ==
  ASSUME NEW queue \in Seq(Snapshot)
  PROVE  <<>> \o SharesOf(queue) = SharesOf(queue)
BY SharesOfQueue, ConcatEmptySeq

\* The share in front is the head, the queue the tail.
LEMMA ShareInFront ==
  ASSUME NEW queue \in Seq(Snapshot), NEW share \in ShareId
  PROVE  /\ InFrontOf(share, queue) # <<>>
         /\ Head(InFrontOf(share, queue)) = share
         /\ Tail(InFrontOf(share, queue)) = SharesOf(queue)
<1> DEFINE s == InFrontOf(share, queue)
<1>1. <<share>> \in Seq(ShareId) /\ Len(<<share>>) = 1 /\ <<share>>[1] = share
  OBVIOUS
<1>2. SharesOf(queue) \in Seq(ShareId) /\ Len(SharesOf(queue)) \in Nat
  BY SharesOfQueue, LenProperties
<1>3. /\ s \in Seq(ShareId) /\ Len(s) = 1 + Len(SharesOf(queue))
      /\ s[1] = share
      /\ \A i \in 1..Len(SharesOf(queue)) : s[i + 1] = SharesOf(queue)[i]
  BY <1>1, <1>2, ConcatProperties DEF InFrontOf
<1>4. s # <<>>
  BY <1>2, <1>3, EmptySeq
<1>5. /\ Head(s) = s[1] /\ Tail(s) \in Seq(ShareId)
      /\ Len(Tail(s)) = Len(s) - 1
      /\ \A i \in 1..Len(Tail(s)) : Tail(s)[i] = s[i + 1]
  BY <1>3, <1>4, HeadTailProperties
<1>6. Tail(s) = SharesOf(queue)
  BY <1>2, <1>3, <1>5, SeqEqual
<1> QED
  BY <1>3, <1>4, <1>5, <1>6

\* Taking the oldest snapshot leaves the waiting shares as they are.
LEMMA TakenShares ==
  ASSUME NEW queue \in Seq(Snapshot), queue # <<>>
  PROVE  InFrontOf(ShareOf(Head(queue)), Tail(queue)) = SharesOf(queue)
<1> DEFINE share == ShareOf(Head(queue))
           s == InFrontOf(share, Tail(queue))
<1>1. /\ Len(queue) \in Nat /\ Len(queue) >= 1
      /\ Head(queue) = queue[1] /\ Head(queue) \in Snapshot
      /\ Tail(queue) \in Seq(Snapshot) /\ Len(Tail(queue)) = Len(queue) - 1
      /\ \A i \in 1..Len(Tail(queue)) : Tail(queue)[i] = queue[i + 1]
  BY HeadTailProperties
<1>2. share \in ShareId
  BY <1>1 DEF Snapshot, ShareOf, ShareId
<1>3. <<share>> \in Seq(ShareId) /\ Len(<<share>>) = 1 /\ <<share>>[1] = share
  BY <1>2
<1>4. /\ SharesOf(Tail(queue)) \in Seq(ShareId)
      /\ Len(SharesOf(Tail(queue))) = Len(queue) - 1
      /\ \A i \in 1..(Len(queue) - 1) : SharesOf(Tail(queue))[i] = ShareOf(queue[i + 1])
  <2>1. /\ SharesOf(Tail(queue)) \in Seq(ShareId)
        /\ Len(SharesOf(Tail(queue))) = Len(Tail(queue))
        /\ \A i \in 1..Len(Tail(queue)) : SharesOf(Tail(queue))[i] = ShareOf(Tail(queue)[i])
    BY <1>1, SharesOfQueue
  <2>2. \A i \in 1..Len(Tail(queue)) : SharesOf(Tail(queue))[i] = ShareOf(queue[i + 1])
    BY <1>1, <2>1
  <2> QED
    BY <1>1, <2>1, <2>2
<1>5. /\ s \in Seq(ShareId) /\ Len(s) = Len(queue) /\ s[1] = share
      /\ \A i \in 1..(Len(queue) - 1) : s[i + 1] = ShareOf(queue[i + 1])
  <2>1. /\ s \in Seq(ShareId) /\ Len(s) = 1 + Len(SharesOf(Tail(queue)))
        /\ s[1] = share
        /\ \A i \in 1..Len(SharesOf(Tail(queue))) : s[i + 1] = SharesOf(Tail(queue))[i]
    BY <1>3, <1>4, ConcatProperties DEF InFrontOf
  <2>2. Len(s) = Len(queue)
    BY <1>1, <1>4, <2>1
  <2>3. \A i \in 1..(Len(queue) - 1) : s[i + 1] = SharesOf(Tail(queue))[i]
    BY <1>4, <2>1
  <2>4. \A i \in 1..(Len(queue) - 1) : s[i + 1] = ShareOf(queue[i + 1])
    BY <1>4, <2>3
  <2> QED
    BY <2>1, <2>2, <2>4
<1>6. \A i \in 1..Len(queue) : i = 1 \/ (i - 1 \in 1..(Len(queue) - 1) /\ (i - 1) + 1 = i)
  BY <1>1
<1>7. \A i \in 1..Len(queue) : s[i] = ShareOf(queue[i])
  BY <1>1, <1>5, <1>6
<1> QED
  BY <1>5, <1>7, SharesOfQueue, SeqEqual

\* Appending a snapshot appends its share.
LEMMA AppendedShares ==
  ASSUME NEW queue \in Seq(Snapshot), NEW new \in Snapshot
  PROVE  SharesOf(Append(queue, new)) = Append(SharesOf(queue), ShareOf(new))
<1> DEFINE longer == Append(queue, new)
<1>1. /\ longer \in Seq(Snapshot) /\ Len(longer) = Len(queue) + 1 /\ Len(queue) \in Nat
      /\ \A i \in 1..Len(queue) : longer[i] = queue[i]
      /\ longer[Len(queue) + 1] = new
  BY AppendProperties, LenProperties
<1>2. ShareOf(new) \in ShareId
  BY DEF Snapshot, ShareOf, ShareId
<1>3. /\ Append(SharesOf(queue), ShareOf(new)) \in Seq(ShareId)
      /\ Len(Append(SharesOf(queue), ShareOf(new))) = Len(queue) + 1
      /\ \A i \in 1..Len(queue) :
           Append(SharesOf(queue), ShareOf(new))[i] = ShareOf(queue[i])
      /\ Append(SharesOf(queue), ShareOf(new))[Len(queue) + 1] = ShareOf(new)
  BY <1>2, SharesOfQueue, AppendProperties
<1>4. /\ SharesOf(longer) \in Seq(ShareId) /\ Len(SharesOf(longer)) = Len(queue) + 1
      /\ \A i \in 1..(Len(queue) + 1) : SharesOf(longer)[i] = ShareOf(longer[i])
  BY <1>1, SharesOfQueue
<1>5. \A i \in 1..(Len(queue) + 1) :
        SharesOf(longer)[i] = Append(SharesOf(queue), ShareOf(new))[i]
  BY <1>1, <1>3, <1>4
<1> QED
  BY <1>3, <1>4, <1>5, SeqEqual

-----------------------------------------------------------------------------
(***************************************************************************)
(* The mapping: every step is one of the contract, or none.                 *)
(***************************************************************************)
HandoffStep == [Handoff!HandoffNext]_(Handoff!abstractVars)

\* The waiting shares before and after a step.
LEMMA WaitingBeforeAndAfter ==
  ASSUME TypeOK, TypeOK'
  PROVE  /\ WaitingShares = IF Unsettled THEN InFrontOf(ShareOf(snap), pending)
                                         ELSE SharesOf(pending)
         /\ WaitingShares' = IF Unsettled' THEN InFrontOf(ShareOf(snap'), pending')
                                           ELSE SharesOf(pending')
         /\ pending \in Seq(Snapshot) /\ pending' \in Seq(Snapshot)
         /\ ShareOf(snap) \in ShareId /\ ShareOf(snap') \in ShareId
         /\ SharesOf(<<>>) = <<>>
<1>1. /\ pending \in Seq(Snapshot) /\ pending' \in Seq(Snapshot)
      /\ snap \in Snapshot /\ snap' \in Snapshot
  BY DEF TypeOK, DataTypeOK
<1>2. ShareOf(snap) \in ShareId /\ ShareOf(snap') \in ShareId
  BY <1>1 DEF Snapshot, ShareOf, ShareId
<1>3. SharesOf(<<>>) = <<>>
  BY SharesOfQueue, EmptySeq
<1>4. /\ <<>> \o SharesOf(pending) = SharesOf(pending)
      /\ <<>> \o SharesOf(pending') = SharesOf(pending')
  BY <1>1, NothingInFront
<1>5. /\ WaitingShares = IF Unsettled THEN InFrontOf(ShareOf(snap), pending)
                                      ELSE SharesOf(pending)
      /\ WaitingShares' = IF Unsettled' THEN InFrontOf(ShareOf(snap'), pending')
                                        ELSE SharesOf(pending')
  BY <1>4 DEF WaitingShares, InFrontOf, SharesOf
<1> QED
  BY <1>1, <1>2, <1>3, <1>5

\* A step that leaves the mapped state alone.
mapped == <<jobActive, settled, mode, freedA, hA, returnedA>>

LEMMA Stutter ==
  ASSUME UNCHANGED <<mapped, WaitingShares>>
  PROVE  HandoffStep
BY DEF HandoffStep, Handoff!abstractVars, mapped, MatrixHolder

\* Nothing is freed before the program ends.
LEMMA NothingFreed ==
  ASSUME IInv, BufferInv, mpc \notin {"join", "halted"}
  PROVE  freedA = 0 /\ ~shutdown
BY DEF BufferInv, IInv, OwnInv, OneOwner, TypeOK, CounterTypeOK

LEMMA ReclaimMapped ==
  ASSUME HInv, TypeOK', ReclaimStep
  PROVE  HandoffStep
<1> USE DEF queueVars, bufferVars, jobVars, minerVars, workerVars, poolVars
<1>1. /\ UNCHANGED <<jobActive, settled, mode, pending, wpc, snap>>
      /\ mpc \notin {"join", "halted"}
      /\ \/ UNCHANGED <<freedA, hA, returnedA>>
         \/ freedA' = freedA /\ hA' = (hA \/ returnedA) /\ returnedA' = (returnedA /\ hA)
  BY DEF ReclaimStep, ReclaimForScan, ReclaimForShare, ReclaimAtEnd, Reclaim, TakeReturned
<1>2. UNCHANGED WaitingShares
  BY <1>1 DEF WaitingShares, Unsettled
<1>3. TypeOK /\ freedA = 0 /\ ~(hA /\ returnedA)
  BY <1>1, NothingFreed, OneOfBoth DEF HInv, JInv, IInv
<1>4. CASE UNCHANGED <<freedA, hA, returnedA>>
  BY <1>1, <1>2, <1>4, Stutter DEF mapped
<1>5. CASE freedA' = freedA /\ hA' = (hA \/ returnedA) /\ returnedA' = (returnedA /\ hA)
  <2>1. CASE hA \/ ~returnedA \/ mode.witness
    <3>1. UNCHANGED MatrixHolder
      BY <1>1, <1>3, <1>5, <2>1 DEF MatrixHolder
    <3> QED
      BY <1>1, <1>2, <3>1 DEF HandoffStep, Handoff!abstractVars
  <2>2. CASE ~hA /\ returnedA /\ ~mode.witness
    <3>0. hA' /\ freedA' = 0 /\ ~mode'.witness
      BY <1>1, <1>3, <1>5, <2>2
    <3>1. MatrixHolder = "slot" /\ MatrixHolder' = "miner"
      BY <1>3, <2>2, <3>0 DEF MatrixHolder
    <3>2. Handoff!TakeBack
      BY <1>1, <1>2, <3>1 DEF Handoff!TakeBack
    <3> QED
      BY <3>2 DEF HandoffStep, Handoff!HandoffNext
  <2> QED
    BY <2>1, <2>2
<1> QED
  BY <1>1, <1>4, <1>5

\* A hit is handed over under a name that is new.
LEMMA EnqueueMapped ==
  ASSUME HInv, TypeOK', Enqueue
  PROVE  HandoffStep
<1> DEFINE share == <<jobNo, nonce>>
<1>0. /\ JInv /\ IInv /\ ApartInv /\ OrderInv /\ TypeOK /\ HandInv /\ SettledInv
      /\ BufferInv
  BY DEF HInv, JInv, IInv
<1>1. /\ mpc = "enqueue" /\ mpc \in JobOpen /\ jobActive
      /\ UNCHANGED <<jobActive, settled, mode, wpc, snap>>
      /\ pending' = Append(pending, NewSnapshot)
      /\ freedA = 0 /\ ~shutdown
  BY <1>0, NothingFreed DEF Enqueue, Refused, JobOpen, queueVars, workerVars
<1>2. Len(pending) < MaxDepth /\ inFlight = 0
  BY <1>1 DEF Enqueue, EnqueueReady
<1>3. ~Unsettled /\ ~Unsettled'
  BY <1>0, <1>1, <1>2 DEF IInv, CountInv, WorkerBusy, One, Unsettled
<1>4. NewSnapshot \in Snapshot /\ ShareOf(NewSnapshot) = share
  <2>1. NewSnapshot.key = jobNo /\ NewSnapshot.nonce = nonce
    BY <1>0, <1>1 DEF ApartInv, NewSnapshot
  <2>2. NewSnapshot \in Snapshot
    BY <1>0 DEF TypeOK, DataTypeOK, CounterTypeOK, FlagTypeOK, NewSnapshot, Snapshot
  <2> QED
    BY <2>1, <2>2 DEF ShareOf
<1>5. /\ WaitingShares = SharesOf(pending) /\ Len(WaitingShares) = Len(pending)
      /\ WaitingShares' = Append(WaitingShares, share)
      /\ \A i \in 1..Len(pending) : WaitingShares[i] = ShareOf(pending[i])
  BY <1>0, <1>1, <1>3, <1>4, WaitingBeforeAndAfter, SharesOfQueue, AppendedShares
<1>6. share \in (1..MaxJobs) \X (0..MaxNonce)
  <2>1. jobNo \in 1..MaxJobs /\ nonce < MaxNonce
    BY <1>0, <1>1 DEF HandInv, JobOpen
  <2> QED
    BY <1>0, <2>1, SettledShares, Nonces
<1>7. Limit = nonce
  BY <1>1 DEF Limit
<1>8. share \notin settled
  BY <1>0, <1>1, <1>7, Nonces DEF SettledInv
<1>9. \A i \in 1..Len(WaitingShares) : WaitingShares[i] # share
  BY <1>0, <1>1, <1>5, <1>7, Nonces DEF OrderInv, AllBelow, ShareOf
<1>10. /\ MatrixHolder \in {"miner", "nobody"}
       /\ MatrixHolder' = IF MatrixHolder = "miner" THEN "queue" ELSE MatrixHolder
  <2>1. CASE mode.witness
    BY <1>1, <2>1 DEF MatrixHolder
  <2>2. CASE ~mode.witness
    <3>1. hA /\ ~returnedA
      BY <1>0, <2>2, OneOfBoth DEF Enqueue, Refused
    <3>2. freedA' = 0 /\ hA' = FALSE /\ returnedA' = FALSE
      BY <1>0, <1>1, <2>2, <3>1 DEF Enqueue, TypeOK, CounterTypeOK
    <3> QED
      BY <1>1, <2>2, <3>1, <3>2 DEF MatrixHolder
  <2> QED
    BY <2>1, <2>2
<1>11. Handoff!HandOver(share)
  BY <1>1, <1>2, <1>5, <1>8, <1>9, <1>10 DEF Handoff!HandOver
<1> QED
  BY <1>6, <1>11 DEF HandoffStep, Handoff!HandoffNext

LEMMA JobMapped ==
  ASSUME HInv, TypeOK', JobStep
  PROVE  HandoffStep
<1> USE DEF queueVars, bufferVars, jobVars, minerVars, workerVars, poolVars
<1>0. IInv /\ ApartInv /\ BufferInv /\ HandInv /\ TypeOK
  BY DEF HInv, JInv, IInv
<1>1. UNCHANGED <<settled, mode, freedA, hA, returnedA, pending, wpc, snap>>
  BY DEF JobStep, StartJob, BeginJob, EndJob, Drain, FinishJob
<1>2. UNCHANGED <<WaitingShares, MatrixHolder>>
  BY <1>1 DEF WaitingShares, Unsettled, MatrixHolder
<1>3. CASE BeginJob
  <2>1. mpc = "begin" /\ ~jobActive /\ jobActive' = TRUE
    BY <1>0, <1>3 DEF BeginJob, HandInv, JobOpen
  <2>2. WaitingShares = <<>>
    BY <1>0, <2>1, Idle, WaitingBeforeAndAfter DEF InJob, JobOpen
  <2>3. MatrixHolder \in {"miner", "nobody"}
    BY <1>0, <2>1, NothingFreed DEF MatrixHolder, BufferInv
  <2>4. Handoff!Open
    BY <1>1, <1>2, <2>1, <2>2, <2>3 DEF Handoff!Open
  <2> QED
    BY <2>4 DEF HandoffStep, Handoff!HandoffNext
<1>4. CASE EndJob
  <2>1. jobActive' = FALSE /\ jobActive \in BOOLEAN
    BY <1>0, <1>4 DEF EndJob, TypeOK, FlagTypeOK
  <2>2. CASE jobActive
    <3>1. Handoff!Close
      BY <1>1, <1>2, <2>1, <2>2 DEF Handoff!Close
    <3> QED
      BY <3>1 DEF HandoffStep, Handoff!HandoffNext
  <2>3. CASE ~jobActive
    BY <1>1, <1>2, <2>1, <2>3, Stutter DEF mapped
  <2> QED
    BY <2>2, <2>3
<1>5. CASE StartJob \/ Drain \/ FinishJob
  <2>1. UNCHANGED jobActive
    BY <1>5 DEF StartJob, Drain, FinishJob
  <2> QED
    BY <1>1, <1>2, <2>1, Stutter DEF mapped
<1> QED
  BY <1>3, <1>4, <1>5 DEF JobStep

LEMMA DestroyMapped ==
  ASSUME HInv, TypeOK', DestroyStep
  PROVE  HandoffStep
<1> USE DEF queueVars, bufferVars, jobVars, minerVars, workerVars, poolVars
<1>0. IInv /\ ApartInv /\ BufferInv /\ HandInv /\ TypeOK
  BY DEF HInv, JInv, IInv
<1>1. CASE DestroyMark
  <2>1. UNCHANGED <<mapped, pending, wpc, snap>>
    BY <1>1 DEF DestroyMark, mapped
  <2> QED
    BY <2>1, Stutter DEF WaitingShares, Unsettled
<1>2. CASE DestroyJoin
  <2>1. /\ UNCHANGED <<jobActive, settled, mode, wpc, snap>> /\ mpc = "join"
        /\ pending' = <<>> /\ ~Unsettled'
    BY <1>2 DEF DestroyJoin, Unsettled
  <2>2. WaitingShares = <<>> /\ WaitingShares' = <<>>
    BY <1>0, <2>1, Idle, WaitingBeforeAndAfter DEF InJob, JobOpen
  <2>3. ~jobActive
    BY <1>0, <2>1 DEF HandInv, JobOpen
  <2>4. CASE mode.witness
    <3>1. UNCHANGED MatrixHolder
      BY <2>1, <2>4 DEF MatrixHolder
    <3> QED
      BY <2>1, <2>2, <3>1 DEF HandoffStep, Handoff!abstractVars
  <2>5. CASE ~mode.witness
    <3>1. hA /\ ~returnedA
      BY <1>0, <2>1, <2>5 DEF HandInv
    <3>2. freedA = 0
      BY <1>0, <2>5, <3>1 DEF IInv, OwnInv, OneOwner, CopiesOfA, One, TypeOK, CounterTypeOK
    <3>3. freedA' > 0
      BY <1>2, <3>1, <3>2 DEF DestroyJoin, One
    <3>4. MatrixHolder = "miner" /\ MatrixHolder' = "freed"
      BY <2>1, <2>5, <3>1, <3>2, <3>3 DEF MatrixHolder
    <3>5. Handoff!Free
      BY <2>1, <2>2, <2>3, <3>4 DEF Handoff!Free
    <3> QED
      BY <3>5 DEF HandoffStep, Handoff!HandoffNext
  <2> QED
    BY <2>4, <2>5
<1> QED
  BY <1>1, <1>2 DEF DestroyStep

\* Taking a share from the queue hides nothing: it waits until it is settled.
LEMMA TakeMapped ==
  ASSUME HInv, TypeOK', WorkerTake
  PROVE  HandoffStep
<1>0. TypeOK /\ UNCHANGED mapped /\ ~Unsettled
  BY DEF HInv, JInv, IInv, WorkerTake, mapped, minerVars, bufferVars, Unsettled
<1>1. CASE pending = <<>>
  <2>1. UNCHANGED <<pending, snap>> /\ ~Unsettled'
    BY <1>1 DEF WorkerTake, Unsettled
  <2> QED
    BY <1>0, <2>1, Stutter, WaitingBeforeAndAfter
<1>2. CASE pending # <<>>
  <2>1. snap' = Head(pending) /\ pending' = Tail(pending) /\ Unsettled'
    BY <1>2 DEF WorkerTake, Unsettled
  <2>2. WaitingShares = SharesOf(pending)
    BY <1>0, WaitingBeforeAndAfter
  <2>3. WaitingShares' = InFrontOf(ShareOf(Head(pending)), Tail(pending))
    BY <1>0, <2>1, WaitingBeforeAndAfter
  <2>4. UNCHANGED WaitingShares
    BY <1>0, <1>2, <2>2, <2>3, TakenShares, WaitingBeforeAndAfter
  <2> QED
    BY <1>0, <2>4, Stutter
<1> QED
  BY <1>1, <1>2

\* An outcome settles the oldest share.
LEMMA ProofMapped ==
  ASSUME HInv, TypeOK', ProofStep \/ SubmitStep
  PROVE  HandoffStep
<1>0. /\ TypeOK /\ UNCHANGED <<jobActive, mode, freedA, hA, returnedA, pending, snap>>
      /\ Unsettled
  BY DEF HInv, JInv, IInv, ProofStep, WorkerCheck, WorkerBuild, WorkerRecheck, SubmitStep,
      WorkerTrack, WorkerSend, WorkerLocal, minerVars, bufferVars, queueVars, Unsettled
<1>1. \/ UNCHANGED settled /\ Unsettled'
      \/ settled' = settled \cup {ShareOf(snap)} /\ ~Unsettled'
  BY DEF ProofStep, WorkerCheck, WorkerBuild, WorkerRecheck, SubmitStep, WorkerTrack,
      WorkerSend, Proceed, Conclude, Unsettled
<1>2. CASE UNCHANGED settled /\ Unsettled'
  BY <1>0, <1>2, Stutter, WaitingBeforeAndAfter DEF mapped
<1>3. CASE settled' = settled \cup {ShareOf(snap)} /\ ~Unsettled'
  <2>1. /\ WaitingShares = InFrontOf(ShareOf(snap), pending)
        /\ WaitingShares' = SharesOf(pending)
        /\ pending \in Seq(Snapshot) /\ ShareOf(snap) \in ShareId
    BY <1>0, <1>3, WaitingBeforeAndAfter
  <2>2. /\ WaitingShares # <<>> /\ Head(WaitingShares) = ShareOf(snap)
        /\ Tail(WaitingShares) = WaitingShares'
    BY <2>1, ShareInFront
  <2>3. UNCHANGED MatrixHolder
    BY <1>0 DEF MatrixHolder
  <2>4. Handoff!Settle
    BY <1>0, <1>3, <2>2, <2>3 DEF Handoff!Settle
  <2> QED
    BY <2>4 DEF HandoffStep, Handoff!HandoffNext
<1> QED
  BY <1>1, <1>2, <1>3

\* The matrices come back when nothing is waiting.
LEMMA ReturnMapped ==
  ASSUME HInv, TypeOK', ReturnStep
  PROVE  HandoffStep
<1> USE DEF queueVars, bufferVars, jobVars, minerVars, workerVars, poolVars
<1>0. IInv /\ ApartInv /\ BufferInv /\ HandInv /\ TypeOK
  BY DEF HInv, JInv, IInv
<1>1. /\ UNCHANGED <<jobActive, settled, mode, hA, pending>> /\ ~Unsettled /\ ~Unsettled'
  BY DEF ReturnStep, WorkerReturn, WorkerRelease, WorkerLocal, Unsettled
<1>2. UNCHANGED WaitingShares
  BY <1>0, <1>1, WaitingBeforeAndAfter
<1>3. CASE mode.witness
  <2>1. UNCHANGED MatrixHolder
    BY <1>1, <1>3 DEF MatrixHolder
  <2> QED
    BY <1>1, <1>2, <2>1 DEF HandoffStep, Handoff!abstractVars
<1>4. CASE WorkerRelease
  <2>1. UNCHANGED <<freedA, returnedA>>
    BY <1>4 DEF WorkerRelease, WorkerLocal
  <2> QED
    BY <1>1, <1>2, <2>1, Stutter DEF mapped
<1>5. CASE WorkerReturn /\ ~mode.witness
  <2>1. wpc = "return" /\ Holding /\ snap.a
    BY <1>0, <1>5 DEF WorkerReturn, Holding, HandInv
  <2>2. mpc \notin {"join", "halted"}
    BY <1>0, <2>1, Idle DEF InJob, JobOpen
  <2>3. freedA = 0 /\ ~shutdown
    BY <1>0, <2>2, NothingFreed
  <2>4. ~hA /\ ~returnedA
    BY <1>0, <2>1, <2>3 DEF IInv, OwnInv, OneOwner, CopiesOfA, One, TypeOK
  <2>5. pending = <<>>
    <3>1. Len(pending) \in Nat
      BY <1>0, LenProperties DEF TypeOK, DataTypeOK
    <3>2. Len(pending) = 0
      BY <1>0, <1>5, <2>1, <3>1 DEF IInv, OwnInv, LoanInv, One
    <3> QED
      BY <1>0, <3>2, EmptySeq DEF TypeOK, DataTypeOK
  <2>6. WaitingShares = <<>>
    BY <1>0, <1>1, <2>5, WaitingBeforeAndAfter
  <2>7. returnedA' /\ freedA' = 0
    <3>1. returnedA' = (returnedA \/ (snap.a /\ ~shutdown))
      BY <1>5 DEF WorkerReturn
    <3>2. freedA' = freedA + One(snap.a /\ (shutdown \/ returnedA))
      BY <1>5 DEF WorkerReturn
    <3>3. One(snap.a /\ (shutdown \/ returnedA)) = 0
      BY <2>3, <2>4 DEF One
    <3>4. freedA' = 0
      BY <2>3, <3>2, <3>3
    <3>5. snap.a /\ ~shutdown
      BY <2>1, <2>3
    <3> QED
      BY <3>1, <3>4, <3>5
  <2>8. MatrixHolder = "queue" /\ MatrixHolder' = "slot"
    BY <1>1, <1>5, <2>3, <2>4, <2>7 DEF MatrixHolder
  <2>9. Handoff!GiveBack
    BY <1>1, <1>2, <2>6, <2>8 DEF Handoff!GiveBack
  <2> QED
    BY <2>9 DEF HandoffStep, Handoff!HandoffNext
<1> QED
  BY <1>3, <1>4, <1>5 DEF ReturnStep

LEMMA StepMapped ==
  ASSUME HInv, [Next]_vars
  PROVE  HandoffStep
<1> USE DEF queueVars, bufferVars, jobVars, minerVars, workerVars, poolVars
<1>0. TypeOK'
  BY TypeStep DEF HInv, JInv, IInv
<1>1. CASE MinerOnlyStep
  <2>1. UNCHANGED <<mapped, pending, snap, wpc>>
    BY <1>1 DEF MinerOnlyStep, ScanBuffersOom, MinerOnly, LoopCheck, Scan, Hit, Fetch,
        EnqueueRefused, mapped
  <2> QED
    BY <2>1, Stutter DEF WaitingShares, Unsettled
<1>2. CASE EnqueueWait \/ EnqueueNotify
  <2>1. UNCHANGED <<mapped, pending, snap, wpc>>
    BY <1>2 DEF EnqueueWait, EnqueueNotify, mapped
  <2> QED
    BY <2>1, Stutter DEF WaitingShares, Unsettled
<1>3. CASE PoolStep \/ Reconnect \/ UNCHANGED vars
  <2>1. UNCHANGED <<mapped, pending, snap, wpc>>
    BY <1>3 DEF PoolStep, NewJobArrives, PoolOnly, SubmitReply, ReaderGivesUp,
        AuthorizeRejected, ConnectionLost, PoolStalls, PoolResumes, Reconnect, vars, mapped
  <2> QED
    BY <2>1, Stutter DEF WaitingShares, Unsettled
<1> QED
  BY StepCases, <1>0, <1>1, <1>2, <1>3, ReclaimMapped, EnqueueMapped, JobMapped,
      DestroyMapped, TakeMapped, ProofMapped, ReturnMapped DEF EnqueueStep

LEMMA InitMapped == Init => Handoff!HandoffInit
<1> SUFFICES ASSUME Init PROVE Handoff!HandoffInit
  OBVIOUS
<1>1. WaitingShares = <<>>
  <2>1. pending = <<>> /\ ~Unsettled
    BY DEF Init, Unsettled
  <2>2. pending \in Seq(Snapshot) /\ SharesOf(<<>>) = <<>>
    BY <2>1, SharesOfQueue, EmptySeq
  <2> QED
    BY <2>1, <2>2, NothingInFront DEF WaitingShares, SharesOf
<1>2. MatrixHolder \in {"miner", "nobody"}
  <2>1. mode.witness \in BOOLEAN
    BY ModesAssumption DEF Init, ModeType
  <2>2. freedA = 0 /\ (hA <=> ~mode.witness)
    BY <2>1 DEF Init
  <2> QED
    BY <2>1, <2>2 DEF MatrixHolder
<1> QED
  BY <1>1, <1>2 DEF Init, Handoff!HandoffInit

(***************************************************************************)
(* The queue does nothing the contract of include/cp_share_queue.h does not *)
(* allow: shares are settled once and in the order they were handed over,   *)
(* the matrices come back after that, and a job is opened only when nothing *)
(* of the last one is left.                                                 *)
(***************************************************************************)
THEOREM QueueKeepsContract == Spec => Handoff!HandoffSafety
<1>1. Init => Handoff!HandoffInit
  BY InitMapped
<1>2. HInv /\ [Next]_vars => [Handoff!HandoffNext]_(Handoff!abstractVars)
  BY StepMapped DEF HandoffStep
<1> QED
  BY <1>1, <1>2, HandoffInvariance, PTL DEF Spec, Handoff!HandoffSafety
=============================================================================
