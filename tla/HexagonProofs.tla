---------------------------- MODULE HexagonProofs ----------------------------
(***************************************************************************)
(* Theorems about HexagonScan: for any grid of launches, any number of      *)
(* attempts and false or true hits, both modes.                             *)
(*                                                                         *)
(* The host reads a slot safely because of three facts that hold together:  *)
(* the epoch acknowledged tells whether the count is of this attempt        *)
(* (CountInv), the DSP is at most two launches ahead of the mark, so that   *)
(* it writes the slot the host is done with (SlotInv), and the host looks   *)
(* at the launch after its mark (HostInv).  What an attempt reports rests   *)
(* on how its run can end (EndInv).                                         *)
(***************************************************************************)
EXTENDS HexagonScan, TLAPS

Between == {"idle", "quitNotify", "join", "freed"}
Running == HostLabels \ Between
DspOff  == {"idle", "asleep", "gone"}

\* Who is at work: the DSP has a job only while busy_ is set, the host
\* returns only when it is not, and the run is done then.
ThreadInv ==
  /\ dpc \notin DspOff => busy /\ ~jobSet /\ hpc \notin Between
  /\ hpc \in Between \cup {"result"} => ~busy
  /\ jobSet => busy /\ dpc # "gone"
  /\ dpc = "gone" => quit
  /\ quit => hpc \in Between
  /\ hpc \in Running => busy \/ runDone
  /\ runDone => ~jobSet /\ dpc \in DspOff \cup {"release"}
  /\ dpc = "release" => runDone
  /\ busy /\ dpc \in DspOff => jobSet

\* Where the DSP is in the grid.
GridInv ==
  /\ dpc = "segment" => s < Launches
  /\ dpc \in {"announce", "ack", "panel", "slot", "run", "publish"} =>
       s < segEnd /\ segEnd <= Launches
  /\ dpc \in {"announce", "ack", "panel", "slot", "run"} => dres = "ok"
  /\ dpc = "publish" =>
       \/ dres = "ok" /\ (mode = "fused" => content[s] = "none")
       \/ dres = "hit" /\ mode = "fused" /\ content[s] # "none"

\* The count belongs to this attempt once its epoch is acknowledged.
CountInv ==
  /\ jobSet => ack < epoch
  /\ dpc \in {"segment", "announce", "ack"} => IF s = 0 THEN ack < epoch
                                               ELSE ack = epoch /\ launched = s
  /\ dpc = "ack" => launched = s
  /\ dpc \in {"panel", "slot", "run", "publish"} => ack = epoch /\ launched = s
  /\ dpc \in {"report", "return"} => ack = epoch

\* Finished launches that are not marked lie in their slots, whole.
SlotInv ==
  mode = "records" =>
    /\ ack = epoch => \A l \in Launch : checked <= l /\ l < launched =>
         slot[SlotOf(l)] = [epoch |-> epoch, launch |-> l, whole |-> TRUE]
    /\ dpc \in {"run", "publish"} => checked >= s - 1
    /\ dpc = "run" =>
         slot[SlotOf(s)] = [epoch |-> epoch, launch |-> s, whole |-> FALSE]
    /\ dpc = "publish" =>
         slot[SlotOf(s)] = [epoch |-> epoch, launch |-> s, whole |-> TRUE]

\* Where the host is in the grid.
HostInv ==
  /\ hpc \in {"poll", "recheck", "check", "mark", "after"} => mode = "records"
  /\ hpc = "watch" => mode = "fused"
  /\ hpc = "notify" => next = 0 /\ checked = 0
  /\ hpc \in {"poll", "recheck", "check", "mark"} => checked = next
  /\ hpc = "after" => checked = next + 1
  /\ hpc = "check" => ack = epoch /\ launched > next
  /\ hpc = "recheck" => runDone \/ (ack = epoch /\ launched > next)

NoHitBelow(n) == \A l \in Launch : l < n => content[l] # "hit"

\* The stop words are the host's last.
StopInv ==
  /\ runStop => hpc \notin {"notify", "poll", "recheck", "check", "mark", "after",
                            "watch", "stopRun"}
  /\ stop => hpc \notin {"notify", "poll", "recheck", "check", "mark", "after",
                         "watch", "stopRun", "stopDsp"}

\* All launches are finished, or (fused) the DSP reports a hit.
Completed ==
  /\ ack = epoch
  /\ launched = Launches \/ (mode = "fused" /\ state = "hit")

\* How a call of scan_run ends, and how the run does.
EndInv ==
  /\ dpc \in {"report", "return"} =>
       /\ dres = "ok" => launched = s /\ s > 0 /\ (s < Launches \/ launched = Launches)
       /\ dres = "stopped" => stop
       /\ dres = "hit" => mode = "fused" /\ (dpc = "return" => state = "hit")
  /\ dpc \in {"finish", "release"} \/ runDone =>
       runErr \/ runStop \/ stop \/ Completed

\* Fused: no launch up to the one reported shows anything.
FusedInv ==
  mode = "fused" /\ ack = epoch =>
    \/ /\ \A l \in Launch : l < launched => content[l] = "none"
       /\ state # "hit" /\ (dpc \in {"report", "return"} => dres # "hit")
    \/ /\ hitAt \in Launch /\ launched = hitAt + 1 /\ content[hitAt] # "none"
       /\ \A l \in Launch : l < hitAt => content[l] = "none"
       /\ dpc \in {"report", "return", "finish", "release"} \cup DspOff
       /\ dpc \in {"report", "return"} => dres = "hit"
       /\ dpc = "report" \/ state = "hit"
       /\ ~jobSet

\* What the host knows of the launches it has checked.
ReportInv ==
  /\ hpc \in Running => result \in {"running", "failed"}
  /\ hpc \in {"notify", "poll", "recheck", "check"} =>
       hit = NoLaunch /\ result = "running"
         /\ (mode = "records" => tiles = next /\ NoHitBelow(next))
  /\ hpc \in {"mark", "after"} =>
       /\ result = "running" /\ tiles = next + 1 /\ NoHitBelow(next)
       /\ hit = NoLaunch \/ hit = next
       /\ hit = next <=> content[next] = "hit"
  /\ hpc \in {"stopRun", "stopDsp", "await", "result"} =>
       IF mode = "records"
       THEN /\ hit = NoLaunch => NoHitBelow(tiles)
            /\ hit # NoLaunch => content[hit] = "hit" /\ NoHitBelow(hit)
            /\ hit # NoLaunch \/ cancel \/ result = "failed" \/ tiles = Launches
       ELSE /\ result = "running"
            /\ cancel \/ (runDone /\ (runErr \/ Completed))
  /\ hpc = "watch" => result = "running"
  /\ hpc \in Between => ResultIsRight /\ result # "running"

\* The inductive invariant.
IInv == /\ TypeOK /\ ThreadInv /\ GridInv /\ CountInv /\ SlotInv /\ HostInv
        /\ StopInv /\ EndInv /\ FusedInv /\ ReportInv

USE ModesAssumption, GridAssumption, ScanBoundsAssumption
\* The sets and the frames of the actions, known to every step below.
USE DEF HostStep, DspStep, DspKeeps, hostVars, runVars, threadVars, hostHalf,
        dspHalf, dspVars, Between, Running, DspOff, HostLabels, DspLabels,
        Completed, Launch, NoLaunch, SlotOf

(***************************************************************************)
(* The steps.  Each lemma names one action and shows every part of the      *)
(* invariant after it.                                                      *)
(***************************************************************************)

\* No scan is begun: the DSP stays idle.
LEMMA PrepareFailsKeeps == ASSUME IInv, PrepareFails PROVE IInv'
<1> USE DEF PrepareFails
<1>1. TypeOK'
  BY DEF IInv, TypeOK, HostInv, GridInv, ReportInv
<1>2. ThreadInv' /\ GridInv' /\ CountInv'
  BY DEF IInv, TypeOK, ThreadInv, GridInv, CountInv, EndInv
<1>3. SlotInv'
  BY DEF IInv, TypeOK, ThreadInv, GridInv, CountInv, SlotInv, HostInv
<1>4. HostInv' /\ StopInv'
  BY DEF IInv, TypeOK, ThreadInv, CountInv, HostInv, StopInv
<1>5. EndInv' /\ FusedInv'
  BY DEF IInv, TypeOK, ThreadInv, GridInv, CountInv, EndInv, FusedInv
<1>6. ReportInv'
  BY DEF IInv, TypeOK, ThreadInv, CountInv, HostInv, StopInv, EndInv, FusedInv,
         ReportInv, NoHitBelow, ResultIsRight
<1> QED BY <1>1, <1>2, <1>3, <1>4, <1>5, <1>6 DEF IInv

\* The new epoch is not acknowledged yet, so that no old count is taken.
LEMMA StartScanKeeps == ASSUME IInv, StartScan PROVE IInv'
<1> USE DEF StartScan
<1>1. TypeOK'
  <2>1. content' \in Contents
    OBVIOUS
  <2>2. (cancel' \in BOOLEAN /\ runStop' \in BOOLEAN /\ runDone' \in BOOLEAN
         /\ runErr' \in BOOLEAN /\ busy' \in BOOLEAN /\ jobSet' \in BOOLEAN
         /\ stop' \in BOOLEAN)
    BY Zenon
  <2> QED BY <2>1, <2>2 DEF IInv, TypeOK
<1>2. ThreadInv' /\ GridInv' /\ CountInv'
  BY DEF IInv, TypeOK, ThreadInv, GridInv, CountInv, EndInv
<1>3. SlotInv'
  BY DEF IInv, TypeOK, ThreadInv, GridInv, CountInv, SlotInv, HostInv
<1>4. HostInv' /\ StopInv'
  BY DEF IInv, TypeOK, ThreadInv, CountInv, HostInv, StopInv
<1>5. EndInv' /\ FusedInv'
  BY DEF IInv, TypeOK, ThreadInv, GridInv, CountInv, EndInv, FusedInv
<1>6. ReportInv'
  BY DEF IInv, TypeOK, ThreadInv, CountInv, HostInv, StopInv, EndInv, FusedInv,
         ReportInv, NoHitBelow, ResultIsRight
<1> QED BY <1>1, <1>2, <1>3, <1>4, <1>5, <1>6 DEF IInv

\* The DSP's thread wakes; nothing is scanned yet.
LEMMA NotifyDspKeeps == ASSUME IInv, NotifyDsp PROVE IInv'
<1> USE DEF NotifyDsp
<1>1. TypeOK'
  BY DEF IInv, TypeOK, HostInv, GridInv, ReportInv
<1>2. ThreadInv' /\ GridInv' /\ CountInv'
  BY DEF IInv, TypeOK, ThreadInv, GridInv, CountInv, EndInv
<1>3. SlotInv'
  BY DEF IInv, TypeOK, ThreadInv, GridInv, CountInv, SlotInv, HostInv
<1>4. HostInv' /\ StopInv'
  BY DEF IInv, TypeOK, ThreadInv, CountInv, HostInv, StopInv
<1>5. EndInv' /\ FusedInv'
  BY DEF IInv, TypeOK, ThreadInv, GridInv, CountInv, EndInv, FusedInv
<1>6. ReportInv'
  BY DEF IInv, TypeOK, ThreadInv, CountInv, HostInv, StopInv, EndInv, FusedInv,
         ReportInv, NoHitBelow, ResultIsRight
<1> QED BY <1>1, <1>2, <1>3, <1>4, <1>5, <1>6 DEF IInv

\* A count seen belongs to this attempt.
LEMMA PollKeeps == ASSUME IInv, Poll PROVE IInv'
<1> USE DEF Poll, Finished
<1>1. TypeOK'
  BY DEF IInv, TypeOK, HostInv, GridInv, ReportInv
<1>2. ThreadInv' /\ GridInv' /\ CountInv'
  BY DEF IInv, TypeOK, ThreadInv, GridInv, CountInv, EndInv
<1>3. SlotInv'
  BY DEF IInv, TypeOK, ThreadInv, GridInv, CountInv, SlotInv, HostInv
<1>4. HostInv' /\ StopInv'
  BY DEF IInv, TypeOK, ThreadInv, CountInv, HostInv, StopInv
<1>5. EndInv' /\ FusedInv'
  BY DEF IInv, TypeOK, ThreadInv, GridInv, CountInv, EndInv, FusedInv
<1>6. ReportInv'
  BY DEF IInv, TypeOK, ThreadInv, CountInv, HostInv, StopInv, EndInv, FusedInv,
         ReportInv, NoHitBelow, ResultIsRight
<1> QED BY <1>1, <1>2, <1>3, <1>4, <1>5, <1>6 DEF IInv

\* A call that ended without the launch failed, was stopped or is complete.
LEMMA RecheckKeeps == ASSUME IInv, Recheck PROVE IInv'
<1> USE DEF Recheck, Finished
<1>1. TypeOK'
  BY DEF IInv, TypeOK, HostInv, GridInv, ReportInv
<1>2. ThreadInv' /\ GridInv' /\ CountInv'
  BY DEF IInv, TypeOK, ThreadInv, GridInv, CountInv, EndInv
<1>3. SlotInv'
  BY DEF IInv, TypeOK, ThreadInv, GridInv, CountInv, SlotInv, HostInv
<1>4. HostInv' /\ StopInv'
  BY DEF IInv, TypeOK, ThreadInv, CountInv, HostInv, StopInv
<1>5. EndInv' /\ FusedInv'
  BY DEF IInv, TypeOK, ThreadInv, GridInv, CountInv, EndInv, FusedInv
<1>6. ReportInv'
  BY DEF IInv, TypeOK, ThreadInv, CountInv, HostInv, StopInv, EndInv, FusedInv,
         ReportInv, NoHitBelow, ResultIsRight
<1> QED BY <1>1, <1>2, <1>3, <1>4, <1>5, <1>6 DEF IInv

\* The slot is whole, so that a launch without a hit is known to have none.
LEMMA CheckKeeps == ASSUME IInv, Check PROVE IInv'
<1> USE DEF Check, RecordsOfNext
<1>1. TypeOK'
  BY DEF IInv, TypeOK, HostInv, GridInv, ReportInv
<1>2. ThreadInv' /\ GridInv' /\ CountInv'
  BY DEF IInv, TypeOK, ThreadInv, GridInv, CountInv, EndInv
<1>3. SlotInv'
  BY DEF IInv, TypeOK, ThreadInv, GridInv, CountInv, SlotInv, HostInv
<1>4. HostInv' /\ StopInv'
  BY DEF IInv, TypeOK, ThreadInv, CountInv, HostInv, StopInv
<1>5. EndInv' /\ FusedInv'
  BY DEF IInv, TypeOK, ThreadInv, GridInv, CountInv, EndInv, FusedInv
<1>6. ReportInv'
  <2>1. RecordsOfNext
    BY DEF IInv, TypeOK, CountInv, HostInv, SlotInv, RecordsOfNext
  <2> QED BY <2>1 DEF IInv, TypeOK, HostInv, ReportInv, NoHitBelow, ResultIsRight
<1> QED BY <1>1, <1>2, <1>3, <1>4, <1>5, <1>6 DEF IInv

\* One launch fewer is to be kept.
LEMMA MarkKeeps == ASSUME IInv, Mark PROVE IInv'
<1> USE DEF Mark
<1>1. TypeOK'
  BY DEF IInv, TypeOK, HostInv, GridInv, ReportInv
<1>2. ThreadInv' /\ GridInv' /\ CountInv'
  BY DEF IInv, TypeOK, ThreadInv, GridInv, CountInv, EndInv
<1>3. SlotInv'
  BY DEF IInv, TypeOK, ThreadInv, GridInv, CountInv, SlotInv, HostInv
<1>4. HostInv' /\ StopInv'
  BY DEF IInv, TypeOK, ThreadInv, CountInv, HostInv, StopInv
<1>5. EndInv' /\ FusedInv'
  BY DEF IInv, TypeOK, ThreadInv, GridInv, CountInv, EndInv, FusedInv
<1>6. ReportInv'
  BY DEF IInv, TypeOK, ThreadInv, CountInv, HostInv, StopInv, EndInv, FusedInv,
         ReportInv, NoHitBelow, ResultIsRight
<1> QED BY <1>1, <1>2, <1>3, <1>4, <1>5, <1>6 DEF IInv

\* The next launch, or the end.
LEMMA AfterKeeps == ASSUME IInv, After PROVE IInv'
<1> USE DEF After
<1>1. TypeOK'
  BY DEF IInv, TypeOK, HostInv, GridInv, ReportInv
<1>2. ThreadInv' /\ GridInv' /\ CountInv'
  BY DEF IInv, TypeOK, ThreadInv, GridInv, CountInv, EndInv
<1>3. SlotInv'
  BY DEF IInv, TypeOK, ThreadInv, GridInv, CountInv, SlotInv, HostInv
<1>4. HostInv' /\ StopInv'
  BY DEF IInv, TypeOK, ThreadInv, CountInv, HostInv, StopInv
<1>5. EndInv' /\ FusedInv'
  BY DEF IInv, TypeOK, ThreadInv, GridInv, CountInv, EndInv, FusedInv
<1>6. ReportInv'
  BY DEF IInv, TypeOK, ThreadInv, CountInv, HostInv, StopInv, EndInv, FusedInv,
         ReportInv, NoHitBelow, ResultIsRight
<1> QED BY <1>1, <1>2, <1>3, <1>4, <1>5, <1>6 DEF IInv

\* In fused mode the host waits for the run only.
LEMMA WatchKeeps == ASSUME IInv, Watch PROVE IInv'
<1> USE DEF Watch
<1>1. TypeOK'
  BY DEF IInv, TypeOK, HostInv, GridInv, ReportInv
<1>2. ThreadInv' /\ GridInv' /\ CountInv'
  BY DEF IInv, TypeOK, ThreadInv, GridInv, CountInv, EndInv
<1>3. SlotInv'
  BY DEF IInv, TypeOK, ThreadInv, GridInv, CountInv, SlotInv, HostInv
<1>4. HostInv' /\ StopInv'
  BY DEF IInv, TypeOK, ThreadInv, CountInv, HostInv, StopInv
<1>5. EndInv' /\ FusedInv'
  BY DEF IInv, TypeOK, ThreadInv, GridInv, CountInv, EndInv, FusedInv
<1>6. ReportInv'
  BY DEF IInv, TypeOK, ThreadInv, CountInv, HostInv, StopInv, EndInv, FusedInv,
         ReportInv, NoHitBelow, ResultIsRight
<1> QED BY <1>1, <1>2, <1>3, <1>4, <1>5, <1>6 DEF IInv

\* The stop words come after the last launch is checked.
LEMMA StopRunKeeps == ASSUME IInv, StopRun PROVE IInv'
<1> USE DEF StopRun
<1>1. TypeOK'
  BY DEF IInv, TypeOK, HostInv, GridInv, ReportInv
<1>2. ThreadInv' /\ GridInv' /\ CountInv'
  BY DEF IInv, TypeOK, ThreadInv, GridInv, CountInv, EndInv
<1>3. SlotInv'
  BY DEF IInv, TypeOK, ThreadInv, GridInv, CountInv, SlotInv, HostInv
<1>4. HostInv' /\ StopInv'
  BY DEF IInv, TypeOK, ThreadInv, CountInv, HostInv, StopInv
<1>5. EndInv' /\ FusedInv'
  BY DEF IInv, TypeOK, ThreadInv, GridInv, CountInv, EndInv, FusedInv
<1>6. ReportInv'
  BY DEF IInv, TypeOK, ThreadInv, CountInv, HostInv, StopInv, EndInv, FusedInv,
         ReportInv, NoHitBelow, ResultIsRight
<1> QED BY <1>1, <1>2, <1>3, <1>4, <1>5, <1>6 DEF IInv

\* From here on a call may end stopped.
LEMMA StopDspKeeps == ASSUME IInv, StopDsp PROVE IInv'
<1> USE DEF StopDsp
<1>1. TypeOK'
  BY DEF IInv, TypeOK, HostInv, GridInv, ReportInv
<1>2. ThreadInv' /\ GridInv' /\ CountInv'
  BY DEF IInv, TypeOK, ThreadInv, GridInv, CountInv, EndInv
<1>3. SlotInv'
  BY DEF IInv, TypeOK, ThreadInv, GridInv, CountInv, SlotInv, HostInv
<1>4. HostInv' /\ StopInv'
  BY DEF IInv, TypeOK, ThreadInv, CountInv, HostInv, StopInv
<1>5. EndInv' /\ FusedInv'
  BY DEF IInv, TypeOK, ThreadInv, GridInv, CountInv, EndInv, FusedInv
<1>6. ReportInv'
  BY DEF IInv, TypeOK, ThreadInv, CountInv, HostInv, StopInv, EndInv, FusedInv,
         ReportInv, NoHitBelow, ResultIsRight
<1> QED BY <1>1, <1>2, <1>3, <1>4, <1>5, <1>6 DEF IInv

\* The host leaves only when the DSP has no job.
LEMMA AwaitKeeps == ASSUME IInv, Await PROVE IInv'
<1> USE DEF Await
<1>1. TypeOK'
  <2>1. hostAsleep' \in BOOLEAN
    BY Zenon DEF IInv, TypeOK
  <2> QED BY <2>1 DEF IInv, TypeOK
<1>2. ThreadInv' /\ GridInv' /\ CountInv'
  BY DEF IInv, TypeOK, ThreadInv, GridInv, CountInv, EndInv
<1>3. SlotInv'
  BY DEF IInv, TypeOK, ThreadInv, GridInv, CountInv, SlotInv, HostInv
<1>4. HostInv' /\ StopInv'
  BY DEF IInv, TypeOK, ThreadInv, CountInv, HostInv, StopInv
<1>5. EndInv' /\ FusedInv'
  BY DEF IInv, TypeOK, ThreadInv, GridInv, CountInv, EndInv, FusedInv
<1>6. ReportInv'
  BY DEF IInv, TypeOK, ThreadInv, CountInv, HostInv, StopInv, EndInv, FusedInv,
         ReportInv, NoHitBelow, ResultIsRight
<1> QED BY <1>1, <1>2, <1>3, <1>4, <1>5, <1>6 DEF IInv

\* What is reported follows from how the run ended.
LEMMA ResultKeeps == ASSUME IInv, Result PROVE IInv'
<1> USE DEF Result, FusedHit, Outcome, Finished
<1>1. TypeOK'
  BY DEF IInv, TypeOK, HostInv, GridInv, ReportInv
<1>2. ThreadInv' /\ GridInv' /\ CountInv'
  BY DEF IInv, TypeOK, ThreadInv, GridInv, CountInv, EndInv
<1>3. SlotInv'
  BY DEF IInv, TypeOK, ThreadInv, GridInv, CountInv, SlotInv, HostInv
<1>4. HostInv' /\ StopInv'
  BY DEF IInv, TypeOK, ThreadInv, CountInv, HostInv, StopInv
<1>5. EndInv' /\ FusedInv'
  BY DEF IInv, TypeOK, ThreadInv, GridInv, CountInv, EndInv, FusedInv
<1>6. ReportInv'
  <2>1. CASE mode = "records"
    BY <2>1 DEF IInv, TypeOK, ReportInv, NoHitBelow, ResultIsRight
  <2>2. CASE mode = "fused"
    <3>1. /\ dpc \in DspOff /\ ~busy /\ result = "running"
          /\ cancel \/ (runDone /\ (runErr \/ Completed))
      BY <2>2 DEF IInv, ThreadInv, ReportInv
    <3>2. CASE runErr \/ ack # epoch
      BY <2>2, <3>1, <3>2 DEF IInv, TypeOK, ReportInv, ResultIsRight
    <3>3. CASE ~runErr /\ ack = epoch /\ state # "hit"
      <4>1. \A l \in Launch : l < launched => content[l] = "none"
        BY <2>2, <3>1, <3>3 DEF IInv, FusedInv
      <4> QED BY <2>2, <3>1, <3>3, <4>1 DEF IInv, TypeOK, ReportInv, ResultIsRight
    <3>4. CASE ~runErr /\ ack = epoch /\ state = "hit"
      <4>1. /\ hitAt \in Launch /\ launched = hitAt + 1 /\ content[hitAt] # "none"
            /\ \A l \in Launch : l < hitAt => content[l] = "none"
        BY <2>2, <3>4 DEF IInv, FusedInv
      <4>2. content[hitAt] \in {"hit", "false"}
        BY <4>1 DEF IInv, TypeOK, Contents
      <4> QED BY <2>2, <3>1, <3>4, <4>1, <4>2 DEF IInv, TypeOK, ReportInv,
                                                 ResultIsRight
    <3> QED BY <3>2, <3>3, <3>4
  <2> QED BY <2>1, <2>2 DEF IInv, TypeOK
<1> QED BY <1>1, <1>2, <1>3, <1>4, <1>5, <1>6 DEF IInv

\* Shutdown begins between attempts.
LEMMA QuitKeeps == ASSUME IInv, Quit PROVE IInv'
<1> USE DEF Quit
<1>1. TypeOK'
  BY DEF IInv, TypeOK, HostInv, GridInv, ReportInv
<1>2. ThreadInv' /\ GridInv' /\ CountInv'
  BY DEF IInv, TypeOK, ThreadInv, GridInv, CountInv, EndInv
<1>3. SlotInv'
  BY DEF IInv, TypeOK, ThreadInv, GridInv, CountInv, SlotInv, HostInv
<1>4. HostInv' /\ StopInv'
  BY DEF IInv, TypeOK, ThreadInv, CountInv, HostInv, StopInv
<1>5. EndInv' /\ FusedInv'
  BY DEF IInv, TypeOK, ThreadInv, GridInv, CountInv, EndInv, FusedInv
<1>6. ReportInv'
  BY DEF IInv, TypeOK, ThreadInv, CountInv, HostInv, StopInv, EndInv, FusedInv,
         ReportInv, NoHitBelow, ResultIsRight
<1> QED BY <1>1, <1>2, <1>3, <1>4, <1>5, <1>6 DEF IInv

\* The DSP's thread wakes to end.
LEMMA QuitNotifyKeeps == ASSUME IInv, QuitNotify PROVE IInv'
<1> USE DEF QuitNotify
<1>1. TypeOK'
  BY DEF IInv, TypeOK, HostInv, GridInv, ReportInv
<1>2. ThreadInv' /\ GridInv' /\ CountInv'
  BY DEF IInv, TypeOK, ThreadInv, GridInv, CountInv, EndInv
<1>3. SlotInv'
  BY DEF IInv, TypeOK, ThreadInv, GridInv, CountInv, SlotInv, HostInv
<1>4. HostInv' /\ StopInv'
  BY DEF IInv, TypeOK, ThreadInv, CountInv, HostInv, StopInv
<1>5. EndInv' /\ FusedInv'
  BY DEF IInv, TypeOK, ThreadInv, GridInv, CountInv, EndInv, FusedInv
<1>6. ReportInv'
  BY DEF IInv, TypeOK, ThreadInv, CountInv, HostInv, StopInv, EndInv, FusedInv,
         ReportInv, NoHitBelow, ResultIsRight
<1> QED BY <1>1, <1>2, <1>3, <1>4, <1>5, <1>6 DEF IInv

\* The buffers are freed after the thread ended.
LEMMA JoinKeeps == ASSUME IInv, Join PROVE IInv'
<1> USE DEF Join
<1>1. TypeOK'
  BY DEF IInv, TypeOK, HostInv, GridInv, ReportInv
<1>2. ThreadInv' /\ GridInv' /\ CountInv'
  BY DEF IInv, TypeOK, ThreadInv, GridInv, CountInv, EndInv
<1>3. SlotInv'
  BY DEF IInv, TypeOK, ThreadInv, GridInv, CountInv, SlotInv, HostInv
<1>4. HostInv' /\ StopInv'
  BY DEF IInv, TypeOK, ThreadInv, CountInv, HostInv, StopInv
<1>5. EndInv' /\ FusedInv'
  BY DEF IInv, TypeOK, ThreadInv, GridInv, CountInv, EndInv, FusedInv
<1>6. ReportInv'
  BY DEF IInv, TypeOK, ThreadInv, CountInv, HostInv, StopInv, EndInv, FusedInv,
         ReportInv, NoHitBelow, ResultIsRight
<1> QED BY <1>1, <1>2, <1>3, <1>4, <1>5, <1>6 DEF IInv

\* A cancelled job weakens what the attempt must have seen, nothing else.
LEMMA CancelJobKeeps == ASSUME IInv, CancelJob PROVE IInv'
<1> USE DEF CancelJob
<1>1. TypeOK'
  BY DEF IInv, TypeOK, HostInv, GridInv, ReportInv
<1>2. ThreadInv' /\ GridInv' /\ CountInv'
  BY DEF IInv, TypeOK, ThreadInv, GridInv, CountInv, EndInv
<1>3. SlotInv'
  BY DEF IInv, TypeOK, ThreadInv, GridInv, CountInv, SlotInv, HostInv
<1>4. HostInv' /\ StopInv'
  BY DEF IInv, TypeOK, ThreadInv, CountInv, HostInv, StopInv
<1>5. EndInv' /\ FusedInv'
  BY DEF IInv, TypeOK, ThreadInv, GridInv, CountInv, EndInv, FusedInv
<1>6. ReportInv'
  BY DEF IInv, TypeOK, ThreadInv, CountInv, HostInv, StopInv, EndInv, FusedInv,
         ReportInv, NoHitBelow, ResultIsRight
<1> QED BY <1>1, <1>2, <1>3, <1>4, <1>5, <1>6 DEF IInv

\* The job is begun at launch 0.
LEMMA TakeJobKeeps == ASSUME IInv, TakeJob PROVE IInv'
<1> USE DEF TakeJob
<1>1. TypeOK'
  <2>1. jobSet' \in BOOLEAN
    BY Zenon DEF IInv, TypeOK
  <2> QED BY <2>1 DEF IInv, TypeOK
<1>2. ThreadInv' /\ GridInv' /\ CountInv'
  BY DEF IInv, TypeOK, ThreadInv, GridInv, CountInv, EndInv
<1>3. SlotInv'
  BY DEF IInv, TypeOK, ThreadInv, GridInv, CountInv, SlotInv, HostInv
<1>4. HostInv' /\ StopInv'
  BY DEF IInv, TypeOK, ThreadInv, CountInv, HostInv, StopInv
<1>5. EndInv' /\ FusedInv'
  BY DEF IInv, TypeOK, ThreadInv, GridInv, CountInv, EndInv, FusedInv
<1>6. ReportInv'
  BY DEF IInv, TypeOK, ThreadInv, CountInv, HostInv, StopInv, EndInv, FusedInv,
         ReportInv, NoHitBelow, ResultIsRight
<1> QED BY <1>1, <1>2, <1>3, <1>4, <1>5, <1>6 DEF IInv

\* A segment ends at the grid's end at the latest; a stopped run ends here.
LEMMA NextSegmentKeeps == ASSUME IInv, NextSegment PROVE IInv'
<1> USE DEF NextSegment, SmallerOf
<1>1. TypeOK'
  BY DEF IInv, TypeOK, HostInv, GridInv, ReportInv
<1>2. ThreadInv' /\ GridInv' /\ CountInv'
  BY DEF IInv, TypeOK, ThreadInv, GridInv, CountInv, EndInv
<1>3. SlotInv'
  BY DEF IInv, TypeOK, ThreadInv, GridInv, CountInv, SlotInv, HostInv
<1>4. HostInv' /\ StopInv'
  BY DEF IInv, TypeOK, ThreadInv, CountInv, HostInv, StopInv
<1>5. EndInv' /\ FusedInv'
  BY DEF IInv, TypeOK, ThreadInv, GridInv, CountInv, EndInv, FusedInv
<1>6. ReportInv'
  BY DEF IInv, TypeOK, ThreadInv, CountInv, HostInv, StopInv, EndInv, FusedInv,
         ReportInv, NoHitBelow, ResultIsRight
<1> QED BY <1>1, <1>2, <1>3, <1>4, <1>5, <1>6 DEF IInv

\* The count is set while the epoch is old, or to what it was.
LEMMA AnnounceKeeps == ASSUME IInv, Announce PROVE IInv'
<1> USE DEF Announce
<1>1. TypeOK'
  BY DEF IInv, TypeOK, HostInv, GridInv, ReportInv
<1>2. ThreadInv' /\ GridInv' /\ CountInv'
  BY DEF IInv, TypeOK, ThreadInv, GridInv, CountInv, EndInv
<1>3. SlotInv'
  BY DEF IInv, TypeOK, ThreadInv, GridInv, CountInv, SlotInv, HostInv
<1>4. HostInv' /\ StopInv'
  BY DEF IInv, TypeOK, ThreadInv, CountInv, HostInv, StopInv
<1>5. EndInv' /\ FusedInv'
  BY DEF IInv, TypeOK, ThreadInv, GridInv, CountInv, EndInv, FusedInv
<1>6. ReportInv'
  BY DEF IInv, TypeOK, ThreadInv, CountInv, HostInv, StopInv, EndInv, FusedInv,
         ReportInv, NoHitBelow, ResultIsRight
<1> QED BY <1>1, <1>2, <1>3, <1>4, <1>5, <1>6 DEF IInv

\* The epoch covers the count just set.
LEMMA AcknowledgeKeeps == ASSUME IInv, Acknowledge PROVE IInv'
<1> USE DEF Acknowledge
<1>1. TypeOK'
  BY DEF IInv, TypeOK, HostInv, GridInv, ReportInv
<1>2. ThreadInv' /\ GridInv' /\ CountInv'
  BY DEF IInv, TypeOK, ThreadInv, GridInv, CountInv, EndInv
<1>3. SlotInv'
  BY DEF IInv, TypeOK, ThreadInv, GridInv, CountInv, SlotInv, HostInv
<1>4. HostInv' /\ StopInv'
  BY DEF IInv, TypeOK, ThreadInv, CountInv, HostInv, StopInv
<1>5. EndInv' /\ FusedInv'
  BY DEF IInv, TypeOK, ThreadInv, GridInv, CountInv, EndInv, FusedInv
<1>6. ReportInv'
  BY DEF IInv, TypeOK, ThreadInv, CountInv, HostInv, StopInv, EndInv, FusedInv,
         ReportInv, NoHitBelow, ResultIsRight
<1> QED BY <1>1, <1>2, <1>3, <1>4, <1>5, <1>6 DEF IInv

\* A call stopped or failed here has finished no further launch.
LEMMA PanelKeeps == ASSUME IInv, Panel PROVE IInv'
<1> USE DEF Panel
<1>1. TypeOK'
  BY DEF IInv, TypeOK, HostInv, GridInv, ReportInv
<1>2. ThreadInv' /\ GridInv' /\ CountInv'
  BY DEF IInv, TypeOK, ThreadInv, GridInv, CountInv, EndInv
<1>3. SlotInv'
  BY DEF IInv, TypeOK, ThreadInv, GridInv, CountInv, SlotInv, HostInv
<1>4. HostInv' /\ StopInv'
  BY DEF IInv, TypeOK, ThreadInv, CountInv, HostInv, StopInv
<1>5. EndInv' /\ FusedInv'
  BY DEF IInv, TypeOK, ThreadInv, GridInv, CountInv, EndInv, FusedInv
<1>6. ReportInv'
  BY DEF IInv, TypeOK, ThreadInv, CountInv, HostInv, StopInv, EndInv, FusedInv,
         ReportInv, NoHitBelow, ResultIsRight
<1> QED BY <1>1, <1>2, <1>3, <1>4, <1>5, <1>6 DEF IInv

\* The slot written is not the one of the launch that is not marked.
LEMMA WaitSlotKeeps == ASSUME IInv, WaitSlot PROVE IInv'
<1> USE DEF WaitSlot, SlotFree
<1>0. /\ slot \in [Slots -> Records] /\ s % 2 \in Slots /\ s \in Nat
      /\ epoch \in Nat /\ mode \in {"records", "fused"}
  BY DEF IInv, TypeOK, Slots
<1>1. TypeOK'
  <2>1. slot' \in [Slots -> Records]
    <3>1. [epoch |-> epoch, launch |-> s, whole |-> FALSE] \in Records
      BY <1>0 DEF Records
    <3> QED BY <1>0, <3>1
  <2> QED BY <2>1 DEF IInv, TypeOK
<1>2. ThreadInv' /\ GridInv' /\ CountInv'
  BY DEF IInv, TypeOK, ThreadInv, GridInv, CountInv, EndInv
<1>3. SlotInv'
  <2> SUFFICES ASSUME mode = "records" PROVE SlotInv'
    BY DEF SlotInv
  <2>1. CASE dpc' = "report"
    BY <2>1 DEF IInv, SlotInv
  <2>2. CASE dpc' = "run"
    <3>1. slot' = [slot EXCEPT ![s % 2] =
                     [epoch |-> epoch, launch |-> s, whole |-> FALSE]]
      BY <2>2
    <3>2. /\ ack = epoch /\ launched = s /\ checked \in Nat /\ checked >= s - 1
      BY <2>2 DEF IInv, TypeOK, CountInv, SlotFree
    <3>3. ASSUME NEW l \in Launch, checked <= l, l < launched
          PROVE  slot'[l % 2] = [epoch |-> epoch, launch |-> l, whole |-> TRUE]
      <4>1. l = s - 1 /\ l % 2 # s % 2 /\ l % 2 \in Slots
        BY <1>0, <3>2, <3>3 DEF Slots
      <4>2. slot[l % 2] = [epoch |-> epoch, launch |-> l, whole |-> TRUE]
        BY <3>2, <3>3 DEF IInv, SlotInv
      <4> QED BY <1>0, <3>1, <4>1, <4>2
    <3>4. slot'[s % 2] = [epoch |-> epoch, launch |-> s, whole |-> FALSE]
      BY <1>0, <3>1
    <3> QED BY <2>2, <3>2, <3>3, <3>4 DEF SlotInv
  <2> QED BY <2>1, <2>2
<1>4. HostInv' /\ StopInv'
  BY DEF IInv, TypeOK, ThreadInv, CountInv, HostInv, StopInv
<1>5. EndInv' /\ FusedInv'
  BY DEF IInv, TypeOK, ThreadInv, GridInv, CountInv, EndInv, FusedInv
<1>6. ReportInv'
  BY DEF IInv, TypeOK, ThreadInv, CountInv, HostInv, StopInv, EndInv, FusedInv,
         ReportInv, NoHitBelow, ResultIsRight
<1> QED BY <1>1, <1>2, <1>3, <1>4, <1>5, <1>6 DEF IInv

\* The slot is whole when the launch is done.
LEMMA RunPanelKeeps == ASSUME IInv, RunPanel PROVE IInv'
<1> USE DEF RunPanel
<1>0. /\ slot \in [Slots -> Records] /\ s % 2 \in Slots /\ s \in Nat
      /\ epoch \in Nat /\ mode \in {"records", "fused"}
  BY DEF IInv, TypeOK, Slots
<1>1. TypeOK'
  <2>1. slot' \in [Slots -> Records]
    <3>1. [epoch |-> epoch, launch |-> s, whole |-> TRUE] \in Records
      BY <1>0 DEF Records
    <3> QED BY <1>0, <3>1
  <2> QED BY <2>1 DEF IInv, TypeOK
<1>2. ThreadInv' /\ GridInv' /\ CountInv'
  BY DEF IInv, TypeOK, ThreadInv, GridInv, CountInv, EndInv
<1>3. SlotInv'
  <2> SUFFICES ASSUME mode = "records" PROVE SlotInv'
    BY DEF SlotInv
  <2>1. CASE dpc' = "report"
    BY <2>1 DEF IInv, SlotInv
  <2>2. CASE dpc' = "publish"
    <3>1. slot' = [slot EXCEPT ![s % 2] =
                     [epoch |-> epoch, launch |-> s, whole |-> TRUE]]
      BY <2>2
    <3>2. /\ ack = epoch /\ launched = s /\ checked \in Nat /\ checked >= s - 1
      BY <2>2 DEF IInv, TypeOK, CountInv, SlotInv
    <3>3. ASSUME NEW l \in Launch, checked <= l, l < launched
          PROVE  slot'[l % 2] = [epoch |-> epoch, launch |-> l, whole |-> TRUE]
      <4>1. l = s - 1 /\ l % 2 # s % 2 /\ l % 2 \in Slots
        BY <1>0, <3>2, <3>3 DEF Slots
      <4>2. slot[l % 2] = [epoch |-> epoch, launch |-> l, whole |-> TRUE]
        BY <3>2, <3>3 DEF IInv, SlotInv
      <4> QED BY <1>0, <3>1, <4>1, <4>2
    <3>4. slot'[s % 2] = [epoch |-> epoch, launch |-> s, whole |-> TRUE]
      BY <1>0, <3>1
    <3>5. /\ s' = s /\ epoch' = epoch /\ ack' = ack /\ launched' = launched
          /\ checked' = checked
      OBVIOUS
    <3> QED BY <2>2, <3>2, <3>3, <3>4, <3>5 DEF SlotInv
  <2> QED BY <2>1, <2>2
<1>4. HostInv' /\ StopInv'
  BY DEF IInv, TypeOK, ThreadInv, CountInv, HostInv, StopInv
<1>5. EndInv' /\ FusedInv'
  BY DEF IInv, TypeOK, ThreadInv, GridInv, CountInv, EndInv, FusedInv
<1>6. ReportInv'
  BY DEF IInv, TypeOK, ThreadInv, CountInv, HostInv, StopInv, EndInv, FusedInv,
         ReportInv, NoHitBelow, ResultIsRight
<1> QED BY <1>1, <1>2, <1>3, <1>4, <1>5, <1>6 DEF IInv

\* The launch is counted, its slot whole; in fused mode a hit is reported.
LEMMA PublishKeeps == ASSUME IInv, Publish PROVE IInv'
<1> USE DEF Publish, FirstOfPanel
<1>1. TypeOK'
  BY DEF IInv, TypeOK, HostInv, GridInv, ReportInv
<1>2. ThreadInv' /\ GridInv' /\ CountInv'
  BY DEF IInv, TypeOK, ThreadInv, GridInv, CountInv, EndInv
<1>3. SlotInv'
  <2> SUFFICES ASSUME mode = "records" PROVE SlotInv'
    BY DEF SlotInv
  <2>1. /\ launched = s /\ s \in Nat /\ checked \in Nat /\ dpc = "publish"
        /\ launched' = s + 1 /\ slot' = slot /\ ack' = ack /\ epoch' = epoch
        /\ slot[s % 2] = [epoch |-> epoch, launch |-> s, whole |-> TRUE]
    BY DEF IInv, TypeOK, CountInv, SlotInv
  <2>2. ASSUME NEW l \in Launch, checked <= l, l < launched', ack = epoch
        PROVE  slot[l % 2] = [epoch |-> epoch, launch |-> l, whole |-> TRUE]
    <3>1. CASE l = s
      BY <2>1, <3>1
    <3>2. CASE l < launched
      BY <2>2, <3>2 DEF IInv, SlotInv
    <3> QED BY <2>1, <2>2, <3>1, <3>2
  <2>3. dpc' \notin {"run", "publish"} /\ checked' = checked
    OBVIOUS
  <2> QED BY <2>1, <2>2, <2>3 DEF SlotInv
<1>4. HostInv' /\ StopInv'
  BY DEF IInv, TypeOK, ThreadInv, CountInv, HostInv, StopInv
<1>5. EndInv' /\ FusedInv'
  BY DEF IInv, TypeOK, ThreadInv, GridInv, CountInv, EndInv, FusedInv
<1>6. ReportInv'
  BY DEF IInv, TypeOK, ThreadInv, CountInv, HostInv, StopInv, EndInv, FusedInv,
         ReportInv, NoHitBelow, ResultIsRight
<1> QED BY <1>1, <1>2, <1>3, <1>4, <1>5, <1>6 DEF IInv

\* The state tells how the call ended.
LEMMA ReportKeeps == ASSUME IInv, Report PROVE IInv'
<1> USE DEF Report
<1>1. TypeOK'
  BY DEF IInv, TypeOK, HostInv, GridInv, ReportInv
<1>2. ThreadInv' /\ GridInv' /\ CountInv'
  BY DEF IInv, TypeOK, ThreadInv, GridInv, CountInv, EndInv
<1>3. SlotInv'
  BY DEF IInv, TypeOK, ThreadInv, GridInv, CountInv, SlotInv, HostInv
<1>4. HostInv' /\ StopInv'
  BY DEF IInv, TypeOK, ThreadInv, CountInv, HostInv, StopInv
<1>5. EndInv' /\ FusedInv'
  BY DEF IInv, TypeOK, ThreadInv, GridInv, CountInv, EndInv, FusedInv
<1>6. ReportInv'
  BY DEF IInv, TypeOK, ThreadInv, CountInv, HostInv, StopInv, EndInv, FusedInv,
         ReportInv, NoHitBelow, ResultIsRight
<1> QED BY <1>1, <1>2, <1>3, <1>4, <1>5, <1>6 DEF IInv

\* The run goes on or ends; without failure or stop it is complete.
LEMMA ReturnKeeps == ASSUME IInv, Return PROVE IInv'
<1> USE DEF Return
<1>1. TypeOK'
  BY DEF IInv, TypeOK, HostInv, GridInv, ReportInv
<1>2. ThreadInv' /\ GridInv' /\ CountInv'
  BY DEF IInv, TypeOK, ThreadInv, GridInv, CountInv, EndInv
<1>3. SlotInv'
  BY DEF IInv, TypeOK, ThreadInv, GridInv, CountInv, SlotInv, HostInv
<1>4. HostInv' /\ StopInv'
  BY DEF IInv, TypeOK, ThreadInv, CountInv, HostInv, StopInv
<1>5. EndInv' /\ FusedInv'
  BY DEF IInv, TypeOK, ThreadInv, GridInv, CountInv, EndInv, FusedInv
<1>6. ReportInv'
  BY DEF IInv, TypeOK, ThreadInv, CountInv, HostInv, StopInv, EndInv, FusedInv,
         ReportInv, NoHitBelow, ResultIsRight
<1> QED BY <1>1, <1>2, <1>3, <1>4, <1>5, <1>6 DEF IInv

\* The run is done, for a reason the host can tell.
LEMMA FinishKeeps == ASSUME IInv, Finish PROVE IInv'
<1> USE DEF Finish
<1>1. TypeOK'
  BY DEF IInv, TypeOK, HostInv, GridInv, ReportInv
<1>2. ThreadInv' /\ GridInv' /\ CountInv'
  BY DEF IInv, TypeOK, ThreadInv, GridInv, CountInv, EndInv
<1>3. SlotInv'
  BY DEF IInv, TypeOK, ThreadInv, GridInv, CountInv, SlotInv, HostInv
<1>4. HostInv' /\ StopInv'
  BY DEF IInv, TypeOK, ThreadInv, CountInv, HostInv, StopInv
<1>5. EndInv' /\ FusedInv'
  BY DEF IInv, TypeOK, ThreadInv, GridInv, CountInv, EndInv, FusedInv
<1>6. ReportInv'
  BY DEF IInv, TypeOK, ThreadInv, CountInv, HostInv, StopInv, EndInv, FusedInv,
         ReportInv, NoHitBelow, ResultIsRight
<1> QED BY <1>1, <1>2, <1>3, <1>4, <1>5, <1>6 DEF IInv

\* The thread is free, the run done.
LEMMA ReleaseKeeps == ASSUME IInv, Release PROVE IInv'
<1> USE DEF Release
<1>1. TypeOK'
  <2>1. busy' \in BOOLEAN /\ hostAsleep' \in BOOLEAN
    BY Zenon
  <2> QED BY <2>1 DEF IInv, TypeOK
<1>2. ThreadInv' /\ GridInv' /\ CountInv'
  BY DEF IInv, TypeOK, ThreadInv, GridInv, CountInv, EndInv
<1>3. SlotInv'
  BY DEF IInv, TypeOK, ThreadInv, GridInv, CountInv, SlotInv, HostInv
<1>4. HostInv' /\ StopInv'
  BY DEF IInv, TypeOK, ThreadInv, CountInv, HostInv, StopInv
<1>5. EndInv' /\ FusedInv'
  BY DEF IInv, TypeOK, ThreadInv, GridInv, CountInv, EndInv, FusedInv
<1>6. ReportInv'
  BY DEF IInv, TypeOK, ThreadInv, CountInv, HostInv, StopInv, EndInv, FusedInv,
         ReportInv, NoHitBelow, ResultIsRight
<1> QED BY <1>1, <1>2, <1>3, <1>4, <1>5, <1>6 DEF IInv

\* The state before the first attempt.
LEMMA InitIInv == Init => IInv
<1> SUFFICES ASSUME Init PROVE IInv
  OBVIOUS
<1> USE DEF Init
<1>1. TypeOK
  <2>1. content \in Contents
    BY DEF Contents
  <2>2. slot \in [Slots -> Records]
    BY DEF Slots, Records
  <2>3. /\ cancel \in BOOLEAN /\ runStop \in BOOLEAN /\ runDone \in BOOLEAN
        /\ runErr \in BOOLEAN /\ busy \in BOOLEAN /\ jobSet \in BOOLEAN
        /\ quit \in BOOLEAN /\ hostAsleep \in BOOLEAN /\ stop \in BOOLEAN
    BY Zenon
  <2> QED BY <2>1, <2>2, <2>3 DEF TypeOK
<1>2. ThreadInv /\ GridInv /\ CountInv /\ SlotInv /\ HostInv /\ StopInv
  BY DEF ThreadInv, GridInv, CountInv, SlotInv, HostInv, StopInv
<1>3. EndInv /\ FusedInv /\ ReportInv
  BY DEF EndInv, FusedInv, ReportInv, ResultIsRight
<1> QED BY <1>1, <1>2, <1>3 DEF IInv

\* Nothing changes.
LEMMA StutterKeeps == ASSUME IInv, UNCHANGED vars PROVE IInv'
<1> USE DEF vars
<1>1. TypeOK' /\ ThreadInv' /\ GridInv' /\ CountInv' /\ SlotInv'
  BY DEF IInv, TypeOK, ThreadInv, GridInv, CountInv, SlotInv
<1>2. HostInv' /\ StopInv' /\ EndInv' /\ FusedInv'
  BY DEF IInv, HostInv, StopInv, EndInv, FusedInv
<1>3. ReportInv'
  BY DEF IInv, ReportInv, NoHitBelow, ResultIsRight
<1> QED BY <1>1, <1>2, <1>3 DEF IInv

\* The steps together.
LEMMA StepKeeps == ASSUME IInv, [Next]_vars PROVE IInv'
<1>1. CASE PrepareFails \/ StartScan \/ Quit \/ CancelJob
  BY <1>1, PrepareFailsKeeps, StartScanKeeps, QuitKeeps, CancelJobKeeps
<1>2. CASE HostNext
  BY <1>2, NotifyDspKeeps, PollKeeps, RecheckKeeps, CheckKeeps, MarkKeeps,
     AfterKeeps, WatchKeeps, StopRunKeeps, StopDspKeeps, AwaitKeeps, ResultKeeps,
     QuitNotifyKeeps, JoinKeeps DEF HostNext
<1>3. CASE DspNext
  BY <1>3, TakeJobKeeps, NextSegmentKeeps, AnnounceKeeps, AcknowledgeKeeps,
     PanelKeeps, WaitSlotKeeps, RunPanelKeeps, PublishKeeps, ReportKeeps,
     ReturnKeeps, FinishKeeps, ReleaseKeeps DEF DspNext
<1>4. CASE Ended \/ UNCHANGED vars
  BY <1>4, StutterKeeps DEF Ended
<1> QED BY <1>1, <1>2, <1>3, <1>4 DEF Next

(***************************************************************************)
(* The invariant holds in every behaviour; the theorems below are parts of  *)
(* it.                                                                      *)
(***************************************************************************)
THEOREM Invariance == Spec => []IInv
<1>1. IInv /\ [Next]_vars => IInv'
  BY StepKeeps
<1> QED BY InitIInv, <1>1, PTL DEF Spec

\* Every variable keeps its type: no count leaves the grid of launches.
THEOREM TypeCorrect == Spec => []TypeOK
<1>1. IInv => TypeOK
  BY DEF IInv
<1> QED BY Invariance, <1>1, PTL

(***************************************************************************)
(* The slot the host reads holds all records of its launch                  *)
(* (cp_pearl_hexagon_worker.cpp:155-157, 734-736; pearlx_imp.c:1231-1245),  *)
(* for any number of launches and attempts.                                 *)
(***************************************************************************)
THEOREM RecordsInPlace == Spec => []CheckedInPlace
<1>1. IInv => CheckedInPlace
  BY DEF IInv, TypeOK, CountInv, HostInv, SlotInv, CheckedInPlace, RecordsOfNext
<1> QED BY Invariance, <1>1, PTL

(***************************************************************************)
(* An attempt reports the first hit of its launches, or that there is none, *)
(* and counts no launch that it did not look at: in both modes, whenever    *)
(* the job is cancelled or a call fails.                                    *)
(***************************************************************************)
THEOREM ReportsAreRight == Spec => []ResultIsRight
<1>1. IInv => ResultIsRight
  <2> SUFFICES ASSUME IInv PROVE ResultIsRight
    OBVIOUS
  <2>1. CASE hpc \in Between
    BY <2>1 DEF IInv, ReportInv
  <2>2. CASE hpc \in Running
    BY <2>2 DEF IInv, ReportInv, ResultIsRight
  <2> QED BY <2>1, <2>2 DEF IInv, TypeOK
<1> QED BY Invariance, <1>1, PTL

(***************************************************************************)
(* mine_attempt leaves no job behind: the DSP is idle between attempts and  *)
(* once the buffers are freed (cp_pearl_hexagon_worker.cpp, DspThread).     *)
(***************************************************************************)
THEOREM NoJobLeftBehind == Spec => []DspIdleBetweenAttempts
<1>1. IInv => DspIdleBetweenAttempts
  BY DEF IInv, ThreadInv, DspIdleBetweenAttempts
<1> QED BY Invariance, <1>1, PTL
=============================================================================
