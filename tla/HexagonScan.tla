---------------------------- MODULE HexagonScan ------------------------------
(***************************************************************************)
(* One attempt of the Hexagon backend: the mining thread                    *)
(* (src/pearl/hexagon/cp_pearl_hexagon_worker.cpp), the host thread that    *)
(* makes the DSP calls (class DspThread there), and the DSP itself, which   *)
(* runs the launches of an attempt without a call per launch                *)
(* (pearlx_scan_run in src/pearl/hexagon/dsp/src/pearlx_imp.c).             *)
(*                                                                         *)
(* Host and DSP meet in a block of memory without locks.  Each writes its   *)
(* own half: the DSP how many launches are finished and of which epoch, the *)
(* host how many it has checked and whether to stop.  Launch s writes its   *)
(* records to slot s % 2 while the host reads those of launch s - 1.        *)
(*                                                                         *)
(* In "fused" mode (--fused-jackpot) the DSP checks its launches itself and *)
(* only reports a hit.  The words of the block are uncached on the host and *)
(* pulled or pushed by the DSP at every use, so one step is one such word   *)
(* (two when nothing can tell them apart) or one critical section of the    *)
(* DspThread's mutex.  scan_run is called and returns on the DspThread, so  *)
(* one program counter stands for that thread and the DSP.                  *)
(***************************************************************************)
EXTENDS Integers, FiniteSets

CONSTANTS
  ScanModes,    \* of {"records", "fused"}: the modes the program may run in
  Launches,     \* launches of an attempt (S)
  PerPanel,     \* launches of one row panel (column blocks)
  SegLaunches,  \* launches of one scan_run call: whole panels of kSegmentBytes
  MaxMarked,    \* bound: launches of an attempt whose records show a hit
  MaxAttempts   \* bound: attempts

ASSUME ModesAssumption == ScanModes \subseteq {"records", "fused"}
ASSUME GridAssumption == /\ Launches \in Nat \ {0}
                         /\ PerPanel \in Nat \ {0} /\ SegLaunches \in Nat \ {0}
ASSUME ScanBoundsAssumption == MaxMarked \in Nat /\ MaxAttempts \in Nat

VARIABLES
  mode,       \* g_fused_jackpot, set before the program mines
  \* the attempt: what its launches hold, and cp_job_should_cancel()
  content, cancel,
  \* mining thread: program counter, s, the hit (-1: none), tiles_done in
  \* launches, and what mine_attempt last returned
  hpc, next, hit, tiles, result,
  \* struct Run; err is read only after done
  runStop, runDone, runErr,
  \* DspThread: busy_, job_ is set, quit_, and who waits on cv_
  busy, jobSet, quit, hostAsleep,
  \* control block, host half: CHECKED, STOP, EPOCH (g_buf.epoch)
  checked, stop, epoch,
  \* control block, DSP half: LAUNCHED, EPOCH_ACK, STATE, the hit's launch
  launched, ack, state, hitAt,
  \* DspThread and scan_run: program counter, launch, end of the segment,
  \* how the call ends
  dpc, s, segEnd, dres,
  slot        \* the records in memory: of which launch, whether all are there

hostVars == <<hpc, next, hit, tiles, result>>
runVars  == <<runStop, runDone, runErr>>
threadVars == <<busy, jobSet, quit, hostAsleep>>
hostHalf == <<checked, stop, epoch>>
dspHalf  == <<launched, ack, state, hitAt>>
dspVars  == <<dpc, s, segEnd, dres>>
vars == <<mode, content, cancel, hostVars, runVars, threadVars, hostHalf,
          dspHalf, dspVars, slot>>

Launch == 0..(Launches - 1)
NoLaunch == -1
Slots == {0, 1}

\* What the records of a launch show: nothing, a tile that beats the target,
\* or one a faulty kernel made up, which verify_hit drops.
Contents == [Launch -> {"none", "hit", "false"}]
Marked(c) == {l \in Launch : c[l] # "none"}

\* The records in a slot.
Records == [epoch: Nat, launch: Nat, whole: BOOLEAN]
SlotOf(l) == l % 2
FirstOfPanel(l) == l % PerPanel = 0
SmallerOf(a, b) == IF a < b THEN a ELSE b

Init ==
  /\ mode \in ScanModes
  /\ content = [l \in Launch |-> "none"] /\ cancel = FALSE
  /\ hpc = "idle" /\ next = 0 /\ hit = NoLaunch /\ tiles = 0 /\ result = "idle"
  /\ runStop = FALSE /\ runDone = FALSE /\ runErr = FALSE
  /\ busy = FALSE /\ jobSet = FALSE /\ quit = FALSE /\ hostAsleep = FALSE
  /\ checked = 0 /\ stop = FALSE /\ epoch = 0
  /\ launched = 0 /\ ack = 0 /\ state = "none" /\ hitAt = NoLaunch
  /\ dpc = "idle" /\ s = 0 /\ segEnd = 0 /\ dres = "ok"
  /\ slot = [i \in Slots |-> [epoch |-> 0, launch |-> 0, whole |-> FALSE]]

-----------------------------------------------------------------------------
(***************************************************************************)
(* Mining thread: mine_attempt                                              *)
(***************************************************************************)

DspKeeps == UNCHANGED <<dspHalf, dspVars, slot>>

\* prepare_job or the CSPRNG failed (-2), or the new row of A (-1, which is also
\* what a cancelled attempt returns): no scan is begun.
PrepareFails ==
  /\ hpc = "idle" /\ ~quit /\ epoch < MaxAttempts
  /\ result' \in {"failed", "cancelled"} /\ hit' = NoLaunch /\ tiles' = 0
  /\ UNCHANGED <<mode, content, cancel, hpc, next, runVars, threadVars, hostHalf>>
  /\ DspKeeps

(***************************************************************************)
(* The attempt's words and DspThread::start.  The DSP is idle, nobody reads *)
(* the words meanwhile.  A new attempt is begun only while its job is not   *)
(* cancelled.                                                               *)
(***************************************************************************)
StartScan ==
  /\ hpc = "idle" /\ ~quit /\ epoch < MaxAttempts
  /\ \E c \in Contents :
       /\ Cardinality(Marked(c)) <= MaxMarked
       /\ content' = c
  /\ cancel' = FALSE
  /\ next' = 0 /\ hit' = NoLaunch /\ tiles' = 0 /\ result' = "running"
  /\ runStop' = FALSE /\ runDone' = FALSE /\ runErr' = FALSE
  /\ checked' = 0 /\ stop' = FALSE /\ epoch' = epoch + 1
  /\ busy' = TRUE /\ jobSet' = TRUE
  /\ hpc' = "notify"
  /\ UNCHANGED <<mode, quit, hostAsleep>> /\ DspKeeps

\* ... notify_all, after the mutex was released.
NotifyDsp ==
  /\ hpc = "notify"
  /\ hpc' = (IF mode = "fused" THEN "watch" ELSE "poll")
  /\ dpc' = (IF dpc = "asleep" THEN "idle" ELSE dpc)
  /\ UNCHANGED <<mode, content, cancel, next, hit, tiles, result, runVars,
                 threadVars, hostHalf, dspHalf, s, segEnd, dres, slot>>

(***************************************************************************)
(* finished(): launches the DSP has finished in this attempt.  It loads the *)
(* epoch, then the count; within an attempt neither goes back, so that one  *)
(* step for both loads sees what two can see.                               *)
(***************************************************************************)
Finished == IF ack = epoch THEN launched ELSE 0

HostStep(at) ==
  /\ hpc = at
  /\ UNCHANGED <<mode, content, cancel, threadVars, epoch>> /\ DspKeeps

(***************************************************************************)
(* Records mode: wait for launch `next`, or for the call to have ended; a   *)
(* cancelled job ends the wait.                                             *)
(***************************************************************************)
Poll ==
  /\ HostStep("poll")
  /\ \/ (Finished > next \/ runDone) /\ hpc' = "recheck"
     \/ ~(Finished > next \/ runDone) /\ cancel /\ hpc' = "stopRun"
  /\ UNCHANGED <<next, hit, tiles, result, runVars, checked, stop>>

\* The count once more: a call that ended may have finished the launch first.
Recheck ==
  /\ HostStep("recheck")
  /\ IF Finished > next THEN hpc' = "check" /\ UNCHANGED result
     ELSE /\ hpc' = "stopRun"
          /\ result' = IF runErr THEN "failed" ELSE result
  /\ UNCHANGED <<next, hit, tiles, runVars, checked, stop>>

\* The slot holds all records of launch `next` of this attempt.
RecordsOfNext == slot[SlotOf(next)] = [epoch |-> epoch, launch |-> next, whole |-> TRUE]

\* Mutant: a hit is taken as it is.
CheckUnverified ==
  /\ HostStep("check") /\ hpc' = "mark"
  /\ hit' = (IF RecordsOfNext /\ content[next] # "none" THEN next ELSE NoLaunch)
  /\ tiles' = tiles + 1
  /\ UNCHANGED <<next, result, runVars, checked, stop>>

(***************************************************************************)
(* check_launch reads the slot all the while hpc is "check"; verify_hit     *)
(* recomputes the tile it found from signal A and the job's seed, so that   *)
(* only a tile of launch `next` that beats the target is taken.             *)
(***************************************************************************)
Check ==
  /\ HostStep("check") /\ hpc' = "mark"
  /\ hit' = (IF RecordsOfNext /\ content[next] = "hit" THEN next ELSE NoLaunch)
  /\ tiles' = tiles + 1
  /\ UNCHANGED <<next, result, runVars, checked, stop>>

\* Mutant: the launch is marked before it is checked.
MarkEarlier ==
  /\ HostStep("mark") /\ hpc' = "after" /\ checked' = next + 2
  /\ UNCHANGED <<next, hit, tiles, result, runVars, stop>>

Mark ==
  /\ HostStep("mark") /\ hpc' = "after" /\ checked' = next + 1
  /\ UNCHANGED <<next, hit, tiles, result, runVars, stop>>

\* The hit or a cancelled job ends the loop, and so does the last launch.
After ==
  /\ HostStep("after")
  /\ IF hit # NoLaunch \/ cancel \/ next + 1 = Launches
     THEN hpc' = "stopRun" /\ UNCHANGED next
     ELSE hpc' = "poll" /\ next' = next + 1
  /\ UNCHANGED <<hit, tiles, result, runVars, checked, stop>>

\* Fused mode: the loop that only reports progress.
Watch ==
  /\ HostStep("watch") /\ (runDone \/ cancel) /\ hpc' = "stopRun"
  /\ UNCHANGED <<next, hit, tiles, result, runVars, checked, stop>>

\* run.stop, for the segments not called yet ...
StopRun ==
  /\ HostStep("stopRun") /\ hpc' = "stopDsp" /\ runStop' = TRUE
  /\ UNCHANGED <<next, hit, tiles, result, runDone, runErr, checked, stop>>

\* Mutant: the DSP is not told.
StopDspNot ==
  /\ HostStep("stopDsp") /\ hpc' = "await"
  /\ UNCHANGED <<next, hit, tiles, result, runVars, checked, stop>>

\* ... and the stop word, for the one that runs.
StopDsp ==
  /\ HostStep("stopDsp") /\ hpc' = "await" /\ stop' = TRUE
  /\ UNCHANGED <<next, hit, tiles, result, runVars, checked>>

\* Mutant: the attempt ends when run.done is set.
AwaitDone ==
  /\ hpc = "await" /\ ~hostAsleep
  /\ runDone /\ hpc' = "result" /\ UNCHANGED hostAsleep
  /\ UNCHANGED <<mode, content, cancel, next, hit, tiles, result, runVars, busy,
                 jobSet, quit, hostHalf>>
  /\ DspKeeps

\* DspThread::wait.
Await ==
  /\ hpc = "await" /\ ~hostAsleep
  /\ IF busy THEN hostAsleep' = TRUE /\ UNCHANGED hpc
     ELSE hpc' = "result" /\ UNCHANGED hostAsleep
  /\ UNCHANGED <<mode, content, cancel, next, hit, tiles, result, runVars, busy,
                 jobSet, quit, hostHalf>>
  /\ DspKeeps

\* The hit the DSP reported, recomputed on the host.
FusedHit ==
  IF ~runErr /\ ack = epoch /\ state = "hit" /\ content[hitAt] = "hit"
  THEN hitAt ELSE NoLaunch

\* What mine_attempt returns: -2, 1, -1 or 0.
Outcome(failed, found) ==
  IF failed THEN "failed"
  ELSE IF found # NoLaunch THEN "hit"
  ELSE IF cancel THEN "cancelled" ELSE "none"

Result ==
  /\ HostStep("result") /\ hpc' = "idle"
  /\ IF mode = "fused"
     THEN /\ hit' = FusedHit /\ tiles' = Finished
          /\ result' = Outcome(runErr, hit')
     ELSE /\ result' = Outcome(result = "failed", hit)
          /\ UNCHANGED <<hit, tiles>>
  /\ UNCHANGED <<next, runVars, checked, stop>>

-----------------------------------------------------------------------------
\* Shutdown: the DspThread is told to quit, woken and joined; then the buffers
\* are freed.

Quit ==
  /\ hpc = "idle" /\ ~quit /\ quit' = TRUE /\ hpc' = "quitNotify"
  /\ UNCHANGED <<mode, content, cancel, next, hit, tiles, result, runVars, busy,
                 jobSet, hostAsleep, hostHalf>>
  /\ DspKeeps

QuitNotify ==
  /\ hpc = "quitNotify" /\ hpc' = "join"
  /\ dpc' = (IF dpc = "asleep" THEN "idle" ELSE dpc)
  /\ UNCHANGED <<mode, content, cancel, next, hit, tiles, result, runVars,
                 threadVars, hostHalf, dspHalf, s, segEnd, dres, slot>>

Join ==
  /\ HostStep("join") /\ dpc = "gone" /\ hpc' = "freed"
  /\ UNCHANGED <<next, hit, tiles, result, runVars, checked, stop>>

-----------------------------------------------------------------------------
(***************************************************************************)
(* DspThread and the DSP                                                    *)
(***************************************************************************)

DspStep(at) ==
  /\ dpc = at
  /\ UNCHANGED <<mode, content, cancel, hostVars, quit, runStop, hostHalf>>

\* DspThread::loop: quit, take the job, or wait.
TakeJob ==
  /\ DspStep("idle")
  /\ \/ quit /\ dpc' = "gone" /\ UNCHANGED <<jobSet, s>>
     \/ ~quit /\ busy /\ jobSet /\ jobSet' = FALSE /\ s' = 0 /\ dpc' = "segment"
     \/ ~quit /\ ~(busy /\ jobSet) /\ dpc' = "asleep" /\ UNCHANGED <<jobSet, s>>
  /\ UNCHANGED <<busy, hostAsleep, runDone, runErr, dspHalf, segEnd, dres, slot>>

\* The next segment, unless the attempt is over.
NextSegment ==
  /\ DspStep("segment")
  /\ IF runStop THEN dpc' = "finish" /\ UNCHANGED <<segEnd, dres>>
     ELSE /\ dpc' = "announce" /\ dres' = "ok"
          /\ segEnd' = SmallerOf(s + SegLaunches, Launches)
  /\ UNCHANGED <<busy, jobSet, hostAsleep, runDone, runErr, dspHalf, s, slot>>

\* Mutant: the epoch is acknowledged before the count is set.
AnnounceAck ==
  /\ DspStep("announce") /\ dpc' = "ack" /\ ack' = epoch
  /\ UNCHANGED <<busy, jobSet, hostAsleep, runDone, runErr, launched, state, hitAt,
                 s, segEnd, dres, slot>>

\* scan_run: the count before the epoch it belongs to ...
Announce ==
  /\ DspStep("announce") /\ dpc' = "ack" /\ launched' = s
  /\ UNCHANGED <<busy, jobSet, hostAsleep, runDone, runErr, ack, state, hitAt,
                 s, segEnd, dres, slot>>

\* ... then the epoch and the state.
Acknowledge ==
  /\ DspStep("ack") /\ dpc' = "panel" /\ ack' = epoch /\ state' = "running"
  /\ UNCHANGED <<busy, jobSet, hostAsleep, runDone, runErr, launched, hitAt,
                 s, segEnd, dres, slot>>

\* gen_a_panel: the noisy rows of the panel, which may fail.
Panel ==
  /\ DspStep("panel")
  /\ \/ stop /\ dpc' = "report" /\ dres' = "stopped"
     \/ ~stop /\ dpc' = "slot" /\ UNCHANGED dres
     \/ ~stop /\ dpc' = "report" /\ dres' = "err"
  /\ UNCHANGED <<busy, jobSet, hostAsleep, runDone, runErr, dspHalf, s, segEnd, slot>>

\* Launch s may write its slot once the host has checked launch s - 2.
SlotFree == checked >= s - 1

(***************************************************************************)
(* The wait for the slot, a poll of the stop word and the checked count;    *)
(* then the launch begins to write its records.                             *)
(***************************************************************************)
WaitSlot ==
  /\ DspStep("slot")
  /\ \/ stop /\ dpc' = "report" /\ dres' = "stopped" /\ UNCHANGED slot
     \/ /\ ~stop /\ (mode = "fused" \/ SlotFree)
        /\ dpc' = "run" /\ UNCHANGED dres
        /\ slot' = IF mode = "fused" THEN slot
                   ELSE [slot EXCEPT ![SlotOf(s)] =
                           [epoch |-> epoch, launch |-> s, whole |-> FALSE]]
  /\ UNCHANGED <<busy, jobSet, hostAsleep, runDone, runErr, dspHalf, s, segEnd>>

\* run_panel ends: out of memory or no HVX context; a thread saw the stop word
\* before its last column tile; or all tiles are done.
RunPanel ==
  /\ DspStep("run")
  /\ \/ dpc' = "report" /\ dres' = "err" /\ UNCHANGED slot
     \/ stop /\ dpc' = "report" /\ dres' = "stopped" /\ UNCHANGED slot
     \/ /\ dpc' = "publish"
        /\ dres' = IF mode = "fused" /\ content[s] # "none" THEN "hit" ELSE "ok"
        /\ slot' = IF mode = "fused" THEN slot
                   ELSE [slot EXCEPT ![SlotOf(s)] =
                           [epoch |-> epoch, launch |-> s, whole |-> TRUE]]
  /\ UNCHANGED <<busy, jobSet, hostAsleep, runDone, runErr, dspHalf, s, segEnd>>

\* The count, after the records were written out; a hit ends the call.
Publish ==
  /\ DspStep("publish") /\ launched' = s + 1
  /\ IF dres = "hit" THEN dpc' = "report" /\ hitAt' = s /\ UNCHANGED s
     ELSE /\ s' = s + 1 /\ UNCHANGED hitAt
          /\ dpc' = (IF s' = segEnd THEN "report"
                     ELSE IF FirstOfPanel(s') THEN "panel" ELSE "slot")
  /\ UNCHANGED <<busy, jobSet, hostAsleep, runDone, runErr, ack, state, segEnd,
                 dres, slot>>

\* scan_run returns.
Report ==
  /\ DspStep("report") /\ dpc' = "return"
  /\ state' = (CASE dres = "err" -> "failed" [] dres = "hit" -> "hit"
                 [] dres = "stopped" -> "stopped" [] OTHER -> "done")
  /\ UNCHANGED <<busy, jobSet, hostAsleep, runDone, runErr, launched, ack, hitAt,
                 s, segEnd, dres, slot>>

\* The job's loop over the segments ends after an error, a call that was stopped
\* or found a hit, and the last segment.
Return ==
  /\ DspStep("return")
  /\ runErr' = (dres = "err")
  /\ dpc' = IF dres = "ok" /\ s < Launches THEN "segment" ELSE "finish"
  /\ UNCHANGED <<busy, jobSet, hostAsleep, runDone, dspHalf, s, segEnd, dres, slot>>

Finish ==
  /\ DspStep("finish") /\ dpc' = "release" /\ runDone' = TRUE
  /\ UNCHANGED <<busy, jobSet, hostAsleep, runErr, dspHalf, s, segEnd, dres, slot>>

\* busy_ is cleared and the waiters are notified under the mutex.
Release ==
  /\ DspStep("release") /\ dpc' = "idle" /\ busy' = FALSE /\ hostAsleep' = FALSE
  /\ UNCHANGED <<jobSet, runDone, runErr, dspHalf, s, segEnd, dres, slot>>

-----------------------------------------------------------------------------
\* The pool sends another job or is lost (cp_job_should_cancel).
CancelJob ==
  /\ hpc \notin {"idle", "quitNotify", "join", "freed"} /\ ~cancel /\ cancel' = TRUE
  /\ UNCHANGED <<mode, content, hostVars, runVars, threadVars, hostHalf>> /\ DspKeeps

HostNext ==
  \/ NotifyDsp \/ Poll \/ Recheck \/ Check \/ Mark \/ After \/ Watch \/ StopRun
  \/ StopDsp \/ Await \/ Result \/ QuitNotify \/ Join

DspNext ==
  \/ TakeJob \/ NextSegment \/ Announce \/ Acknowledge \/ Panel \/ WaitSlot
  \/ RunPanel \/ Publish \/ Report \/ Return \/ Finish \/ Release

\* The program has ended.
Ended == hpc = "freed" /\ UNCHANGED vars

Next == PrepareFails \/ StartScan \/ Quit \/ HostNext \/ DspNext \/ CancelJob \/ Ended

Spec == Init /\ [][Next]_vars

\* Both threads run, and so does the DSP.
FairSpec == Spec /\ WF_vars(HostNext) /\ WF_vars(DspNext)

-----------------------------------------------------------------------------
(***************************************************************************)
(* Properties                                                               *)
(***************************************************************************)

HostLabels == {"idle", "notify", "poll", "recheck", "check", "mark", "after",
               "watch", "stopRun", "stopDsp", "await", "result", "quitNotify",
               "join", "freed"}
DspLabels == {"idle", "asleep", "segment", "announce", "ack", "panel", "slot",
              "run", "publish", "report", "return", "finish", "release", "gone"}

\* Every variable has its type; the counts of both halves stay within the grid.
TypeOK ==
  /\ mode \in {"records", "fused"} /\ content \in Contents /\ cancel \in BOOLEAN
  /\ hpc \in HostLabels /\ next \in Launch /\ hit \in Launch \cup {NoLaunch}
  /\ tiles \in 0..Launches
  /\ result \in {"idle", "running", "failed", "hit", "cancelled", "none"}
  /\ runStop \in BOOLEAN /\ runDone \in BOOLEAN /\ runErr \in BOOLEAN
  /\ busy \in BOOLEAN /\ jobSet \in BOOLEAN /\ quit \in BOOLEAN
  /\ hostAsleep \in BOOLEAN
  /\ checked \in 0..Launches /\ stop \in BOOLEAN /\ epoch \in Nat
  /\ launched \in 0..Launches /\ ack \in 0..epoch
  /\ state \in {"none", "running", "done", "stopped", "failed", "hit"}
  /\ hitAt \in Launch \cup {NoLaunch}
  /\ dpc \in DspLabels /\ s \in 0..Launches /\ segEnd \in 0..Launches
  /\ dres \in {"ok", "err", "stopped", "hit"}
  /\ slot \in [Slots -> Records]

(***************************************************************************)
(* While the host checks a launch its slot holds all records of that launch *)
(* of this attempt: the DSP neither writes the slot again before the launch *)
(* is marked as checked, nor does the host take the count of an earlier     *)
(* attempt for one of this attempt (cp_pearl_hexagon_worker.cpp:155-157,    *)
(* 734-736; pearlx_imp.c:1231-1245).                                        *)
(***************************************************************************)
CheckedInPlace == hpc = "check" => RecordsOfNext

(***************************************************************************)
(* What an attempt reports is so.  A hit is the first of the launches; an   *)
(* attempt without one has looked at every launch, and missed no hit in     *)
(* those it counts.  Only in fused mode may an attempt end early without    *)
(* either: at a tile the DSP made up.                                       *)
(***************************************************************************)
ResultIsRight ==
  /\ result = "hit" => /\ hit \in Launch /\ content[hit] = "hit"
                       /\ \A l \in Launch : l < hit => content[l] # "hit"
  /\ result \in {"none", "cancelled"} =>
       \A l \in Launch : l < tiles => content[l] # "hit"
  /\ result = "none" => \/ tiles = Launches
                        \/ mode = "fused" /\ \E l \in Launch : content[l] = "false"

(***************************************************************************)
(* Between attempts, and once the buffers are freed, the DSP does not touch *)
(* the attempt's variables, the slots or the packed matrices: mine_attempt  *)
(* returns only after DspThread::wait, whose job captures its locals by     *)
(* reference.                                                               *)
(***************************************************************************)
DspIdleBetweenAttempts ==
  hpc \in {"idle", "quitNotify", "join", "freed"} => dpc \in {"idle", "asleep", "gone"}

(***************************************************************************)
(* Every attempt returns, and so does the shutdown, whether the job is      *)
(* cancelled, a call fails or a hit stops the DSP at any point.             *)
(***************************************************************************)
AttemptReturns == /\ hpc = "notify" ~> hpc = "idle"
                  /\ hpc = "quitNotify" ~> hpc = "freed"
=============================================================================
