------------------------------- MODULE NpuScan -------------------------------
(***************************************************************************)
(* The scan of one attempt on the Intel NPU                                 *)
(* (src/pearl/intel_npu/cp_pearl_npu_worker.cpp): a prep thread builds the  *)
(* panels of noisy A, a panel being the rows of a row of launches, in a few *)
(* slots; the mining thread queues a launch for each idle infer request,    *)
(* takes the results in the order of the launches, and says when a panel is *)
(* no longer needed.  The NPU reads a panel in place while a launch runs.   *)
(*                                                                         *)
(* Both threads wait on one condition variable: the prep thread for a slot  *)
(* whose launches are all checked, the mining thread, with nothing queued,  *)
(* for the panel of its next launch.                                        *)
(***************************************************************************)
EXTENDS Integers, Sequences, FiniteSets, SequencesExt

CONSTANTS
  Panels,          \* row panels of an attempt
  ColumnBlocks,    \* nb: launches of a panel
  PanelSlots,      \* kPanelSlots
  Requests,        \* infer requests
  MaxOddLaunches,  \* bound: launches of an attempt that show a hit
  MaxNpuAttempts   \* bound: attempts

ASSUME NpuAssumption == {Panels, ColumnBlocks, PanelSlots, Requests} \subseteq Nat \ {0}
ASSUME NpuBoundsAssumption == {MaxOddLaunches, MaxNpuAttempts} \subseteq Nat

VARIABLES
  \* the attempt: what its launches show, cp_job_should_cancel()
  shows, npuCancel, npuAttempts,
  \* mining thread: where it is, queued, idle, next, and what it concludes
  driver, queued, idle, upNext, npuHit, npuTiles, npuError, npuOutcome,
  \* struct Scan: stop, slot_panel, panel_done
  halted, slotPanel, panelDone,
  \* prep thread: where it is, the panel it is at
  prep, panel,
  \* the panel in the memory of each slot, and what each request is doing
  memory, request

driverVars == <<driver, queued, idle, upNext, npuHit, npuTiles, npuError, npuOutcome>>
sharedVars == <<halted, slotPanel, panelDone>>
prepVars == <<prep, panel>>
npuVars == <<shows, npuCancel, npuAttempts, driverVars, sharedVars, prepVars,
             memory, request>>

NpuLaunches == Panels * ColumnBlocks
NpuLaunch == 0..(NpuLaunches - 1)
AllPanels == 0..(Panels - 1)
PanelSlot == 0..(PanelSlots - 1)
Nothing == -1   \* no panel, no launch, or a panel half written
PanelOf(l) == l \div ColumnBlocks
SlotOfPanel(r) == r % PanelSlots

\* A launch shows nothing, a hit, or one that the host's recomputation refutes.
Showings == [NpuLaunch -> {"none", "hit", "false"}]

\* Requests 1 .. Requests; idle is a stack.
AllRequests == 1..Requests
AllIdle == [n \in AllRequests |-> Requests + 1 - n]
Idling == [runs |-> "nothing", launch |-> Nothing]

NpuInit ==
  /\ shows = [l \in NpuLaunch |-> "none"] /\ npuCancel = FALSE /\ npuAttempts = 0
  /\ driver = "idle" /\ queued = <<>> /\ idle = AllIdle /\ upNext = 0
  /\ npuHit = Nothing /\ npuTiles = 0 /\ npuError = FALSE /\ npuOutcome = "idle"
  /\ halted = FALSE /\ slotPanel = [s \in PanelSlot |-> Nothing]
  /\ panelDone = [r \in AllPanels |-> 0]
  /\ prep = "gone" /\ panel = 0
  /\ memory = [s \in PanelSlot |-> Nothing]
  /\ request = [q \in AllRequests |-> Idling]

-----------------------------------------------------------------------------
(***************************************************************************)
(* Mining thread: mine_attempt and drive_scan                               *)
(***************************************************************************)

AttemptKeeps == UNCHANGED <<shows, npuCancel, npuAttempts>>

\* No NPU, random bytes or memory for the panels (-2), or no new row of A (-1, as a
\* cancelled attempt): nothing is begun.
NpuPrepareFails ==
  /\ driver = "idle" /\ npuAttempts < MaxNpuAttempts
  /\ npuOutcome' \in {"failed", "cancelled"} /\ npuAttempts' = npuAttempts + 1
  /\ npuHit' = Nothing /\ npuTiles' = 0
  /\ UNCHANGED <<shows, npuCancel, driver, queued, idle, upNext, npuError,
                 sharedVars, prepVars, memory, request>>

\* A new Scan with panels of its own, and a new prep thread.
NpuBegin ==
  /\ driver = "idle" /\ npuAttempts < MaxNpuAttempts
  /\ npuAttempts' = npuAttempts + 1 /\ npuCancel' = FALSE
  /\ \E c \in Showings :
       Cardinality({l \in NpuLaunch : c[l] # "none"}) <= MaxOddLaunches /\ shows' = c
  /\ driver' = "top" /\ queued' = <<>> /\ idle' = AllIdle /\ upNext' = 0
  /\ npuHit' = Nothing /\ npuTiles' = 0 /\ npuError' = FALSE /\ npuOutcome' = "running"
  /\ halted' = FALSE /\ slotPanel' = [s \in PanelSlot |-> Nothing]
  /\ panelDone' = [r \in AllPanels |-> 0]
  /\ prep' = "wait" /\ panel' = 0
  /\ memory' = [s \in PanelSlot |-> Nothing]
  /\ UNCHANGED request

DriverAt(place) == driver = place /\ AttemptKeeps /\ UNCHANGED <<npuOutcome, panel, memory>>

\* notify_all.
WakePrep == prep' = (IF prep = "asleep" THEN "wait" ELSE prep)

\* The head of the loop: halted, cancelled, or the next thing to do.
Top ==
  /\ DriverAt("top")
  /\ driver' = (IF halted THEN "drain"
                ELSE IF npuCancel THEN "halt"
                ELSE IF upNext < NpuLaunches /\ idle # <<>> THEN "look"
                ELSE IF queued = <<>> THEN "drain" ELSE "take")
  /\ UNCHANGED <<queued, idle, upNext, npuHit, npuTiles, npuError, sharedVars, prep, request>>

NextReady == slotPanel[SlotOfPanel(PanelOf(upNext))] = PanelOf(upNext)

\* Under the mutex: is the panel of the next launch built?  With nothing queued
\* the thread waits for it, otherwise it takes a result first.
Look ==
  /\ DriverAt("look")
  /\ driver' = (IF NextReady THEN "submit"
                ELSE IF queued = <<>> /\ ~halted THEN "asleep"
                ELSE IF queued = <<>> THEN "drain" ELSE "take")
  /\ UNCHANGED <<queued, idle, upNext, npuHit, npuTiles, npuError, sharedVars, prep, request>>

\* An exception ends the scan.
Throws == npuError' = TRUE /\ driver' = "halt"

\* start_async on an idle request, which may throw.
Submit ==
  /\ DriverAt("submit")
  /\ idle' = Front(idle)
  /\ \/ /\ request' = [request EXCEPT ![Last(idle)] = [runs |-> "launch", launch |-> upNext]]
        /\ queued' = Append(queued, Last(idle)) /\ upNext' = upNext + 1
        /\ driver' = "top" /\ UNCHANGED npuError
     \/ Throws /\ UNCHANGED <<request, queued, upNext>>
  /\ UNCHANGED <<npuHit, npuTiles, sharedVars, prep>>

\* The oldest launch is waited for, which may throw, and its output checked.
Take ==
  LET q == Head(queued)  l == request[q].launch IN
  /\ DriverAt("take") /\ request[q].runs # "launch"
  /\ queued' = Tail(queued)
  /\ IF request[q].runs = "failed"
     THEN Throws /\ UNCHANGED <<idle, npuHit, npuTiles>>
     ELSE /\ npuHit' = (IF shows[l] # "none" THEN l ELSE Nothing)
          /\ idle' = Append(idle, q) /\ npuTiles' = npuTiles + 1
          /\ driver' = "count" /\ UNCHANGED npuError
  /\ UNCHANGED <<upNext, sharedVars, prep, request>>

\* The launch just checked; results are taken in the order of the launches.
JustChecked == npuTiles - 1

\* panel_done, and notify_all, under the mutex.  A hit halts the scan.
Count ==
  /\ DriverAt("count")
  /\ panelDone' = [panelDone EXCEPT ![PanelOf(JustChecked)] = @ + 1]
  /\ WakePrep
  /\ driver' = (IF npuHit # Nothing THEN "halt" ELSE "top")
  /\ UNCHANGED <<queued, idle, upNext, npuHit, npuTiles, npuError, halted, slotPanel, request>>

\* halt(): the flag first, then notify_all under the mutex.
Halt ==
  /\ driver \in {"halt", "end"} /\ AttemptKeeps
  /\ halted' = TRUE /\ driver' = (IF driver = "halt" THEN "haltNotify" ELSE "endNotify")
  /\ UNCHANGED <<queued, idle, upNext, npuHit, npuTiles, npuError, npuOutcome,
                 slotPanel, panelDone, prepVars, memory, request>>

HaltNotify ==
  /\ driver \in {"haltNotify", "endNotify"} /\ AttemptKeeps
  /\ WakePrep /\ driver' = (IF driver = "haltNotify" THEN "drain" ELSE "join")
  /\ UNCHANGED <<queued, idle, upNext, npuHit, npuTiles, npuError, npuOutcome,
                 sharedVars, panel, memory, request>>

\* The panels go with the scan: every queued launch ends first.
DrainQueued ==
  /\ DriverAt("drain") /\ \A n \in DOMAIN queued : request[queued[n]].runs # "launch"
  /\ driver' = "end"
  /\ UNCHANGED <<queued, idle, upNext, npuHit, npuTiles, npuError, sharedVars, prep, request>>

\* The prep thread is joined; a hit is computed again on the host.
JoinPrep ==
  /\ driver = "join" /\ prep = "gone" /\ driver' = "idle"
  /\ npuOutcome' = (IF npuError THEN "failed"
                    ELSE IF npuHit # Nothing /\ shows[npuHit] = "hit" THEN "hit"
                    ELSE IF npuCancel THEN "cancelled" ELSE "none")
  /\ AttemptKeeps
  /\ UNCHANGED <<queued, idle, upNext, npuHit, npuTiles, npuError, sharedVars,
                 prepVars, memory, request>>

-----------------------------------------------------------------------------
(***************************************************************************)
(* Prep thread: prep_panels                                                 *)
(***************************************************************************)

\* Mutant: the slot is free when its last launch is queued, not checked.
SlotWasRead ==
  \A r \in AllPanels : r = panel - PanelSlots => panelDone[r] >= ColumnBlocks - 1

\* The launches of the panel that was in the slot are all checked.
SlotUnused ==
  \A r \in AllPanels : r = panel - PanelSlots => panelDone[r] = ColumnBlocks

PrepStep(place) == prep = place /\ AttemptKeeps /\ UNCHANGED <<halted, panelDone, request>>

\* Under the mutex: stop, or begin to write the slot, or wait.
PrepWait ==
  /\ PrepStep("wait")
  /\ \/ halted /\ prep' = "gone" /\ UNCHANGED memory
     \/ /\ ~halted /\ SlotUnused /\ prep' = "build"
        /\ memory' = [memory EXCEPT ![SlotOfPanel(panel)] = Nothing]
     \/ ~halted /\ ~SlotUnused /\ prep' = "asleep" /\ UNCHANGED memory
  /\ UNCHANGED <<driverVars, slotPanel, panel>>

\* The panel is complete; slot_panel and notify_all, under the mutex.
PrepPublish ==
  /\ PrepStep("build")
  /\ memory' = [memory EXCEPT ![SlotOfPanel(panel)] = panel]
  /\ slotPanel' = [slotPanel EXCEPT ![SlotOfPanel(panel)] = panel]
  /\ panel' = panel + 1 /\ prep' = (IF panel' = Panels THEN "gone" ELSE "wait")
  /\ driver' = (IF driver = "asleep" THEN "look" ELSE driver)
  /\ UNCHANGED <<queued, idle, upNext, npuHit, npuTiles, npuError, npuOutcome>>

-----------------------------------------------------------------------------
\* The NPU ends a launch, any of those it has, or fails it.
NpuRuns ==
  /\ \E q \in AllRequests :
       /\ request[q].runs = "launch"
       /\ \E how \in {"done", "failed"} : request' = [request EXCEPT ![q].runs = how]
  /\ AttemptKeeps /\ UNCHANGED <<driverVars, sharedVars, prepVars, memory>>

\* The pool sends another job or is lost.
NpuCancelled ==
  /\ driver # "idle" /\ ~npuCancel /\ npuCancel' = TRUE
  /\ UNCHANGED <<shows, npuAttempts, driverVars, sharedVars, prepVars, memory, request>>

NpuNext ==
  \/ NpuPrepareFails \/ NpuBegin \/ Top \/ Look \/ Submit \/ Take \/ Count \/ Halt
  \/ HaltNotify \/ DrainQueued \/ JoinPrep \/ PrepWait \/ PrepPublish \/ NpuRuns
  \/ NpuCancelled

-----------------------------------------------------------------------------
(***************************************************************************)
(* Properties                                                               *)
(***************************************************************************)

\* Every variable has its type (struct Scan and the locals of drive_scan).
NpuTypeOK ==
  /\ shows \in Showings /\ npuCancel \in BOOLEAN /\ npuAttempts \in 0..MaxNpuAttempts
  /\ driver \in {"idle", "top", "look", "asleep", "submit", "take", "count", "halt",
                 "haltNotify", "drain", "end", "endNotify", "join"}
  /\ queued \in Seq(AllRequests) /\ idle \in Seq(AllRequests)
  /\ upNext \in 0..NpuLaunches
  /\ npuHit \in NpuLaunch \cup {Nothing} /\ npuTiles \in 0..NpuLaunches
  /\ npuError \in BOOLEAN
  /\ npuOutcome \in {"idle", "running", "failed", "hit", "cancelled", "none"}
  /\ halted \in BOOLEAN /\ slotPanel \in [PanelSlot -> AllPanels \cup {Nothing}]
  /\ panelDone \in [AllPanels -> 0..ColumnBlocks]
  /\ prep \in {"gone", "wait", "asleep", "build"} /\ panel \in 0..Panels
  /\ memory \in [PanelSlot -> AllPanels \cup {Nothing}]
  /\ request \in [AllRequests -> [runs: {"nothing", "launch", "done", "failed"},
                               launch: NpuLaunch \cup {Nothing}]]

(***************************************************************************)
(* How panels change hands (cp_pearl_npu_worker.cpp:275-305, 348-420): the  *)
(* slot of a launch that runs holds its whole panel, neither half written   *)
(* nor refilled; the prep thread and the mining thread never wait for each  *)
(* other; and when the attempt is over, and its panels go, no launch runs   *)
(* and the prep thread has ended.                                           *)
(***************************************************************************)
PanelHandover ==
  /\ \A q \in AllRequests :
       request[q].runs = "launch" =>
         memory[SlotOfPanel(PanelOf(request[q].launch))] = PanelOf(request[q].launch)
  /\ driver = "asleep" => prep \in {"wait", "build"}
  /\ driver = "join" => prep # "asleep"
  /\ driver = "idle" => prep = "gone" /\ \A q \in AllRequests : request[q].runs # "launch"

(***************************************************************************)
(* What an attempt reports is so: its hit is the first launch that shows    *)
(* one, though launches end in any order, and without a hit none of the     *)
(* launches counted had one; it is complete unless a launch showed a hit    *)
(* that is none.                                                            *)
(***************************************************************************)
NpuReportIsRight ==
  /\ npuOutcome = "hit" => /\ shows[npuHit] = "hit"
                           /\ \A l \in 0..(npuHit - 1) : shows[l] = "none"
  /\ npuOutcome \in {"none", "cancelled"} => \A l \in 0..(npuTiles - 1) : shows[l] # "hit"
  /\ npuOutcome = "none" =>
       \/ npuTiles = NpuLaunches
       \/ npuTiles > 0 /\ shows[JustChecked] = "false"
=============================================================================
