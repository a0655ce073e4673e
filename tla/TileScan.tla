------------------------------ MODULE TileScan -------------------------------
(***************************************************************************)
(* The scan of one attempt over all tiles, on the backends that share its   *)
(* shape: the device is given the tiles launch by launch, latches the first *)
(* hit in a flag of its own, and the host looks at the flag after each      *)
(* launch.  They differ in how far the host runs ahead:                     *)
(*                                                                         *)
(* "opencl"  one launch ahead on an in-order queue                          *)
(*           (Case33GemmOcl::scan_for_share);                               *)
(* "onednn"  one launch ahead on an out-of-order queue, where events alone  *)
(*           keep product, hash and read of a launch apart from those of    *)
(*           its neighbours (Case33GemmOnednn::scan_pipelined_);            *)
(* "onebyone" the host waits for each launch (PearlEngine::scan of wgpu,    *)
(*           and oneDNN without the pipeline);                              *)
(* "cuda"    so it does, for each of its devices (gpu_scan_device);         *)
(* "cpu"     a team of threads takes the tiles (run_online_tile_scan).      *)
(*                                                                         *)
(* A launch is marked when one of its tiles beats the target.               *)
(***************************************************************************)
EXTENDS Integers, Sequences, SequencesExt

CONSTANTS
  ScanBackends,    \* of the five above
  ScanLaunches,    \* launches of an attempt; tiles of the CPU's
  ScanDevices,     \* GPUs of the CUDA backend, threads of the CPU's team
  MaxScanAttempts  \* bound: attempts

ASSUME ScanAssumption ==
  /\ ScanBackends \subseteq {"opencl", "onednn", "onebyone", "cuda", "cpu"}
  /\ {ScanLaunches, ScanDevices} \subseteq Nat \ {0} /\ MaxScanAttempts \in Nat

VARIABLES
  \* the attempt: where it runs, its marked launches, cp_job_should_cancel()
  backend, marked, cancelled, scans,
  \* host: where it is, the next launch, what it knows of the result
  spc, upcoming, counted, found, ok, hitAt, outcome,
  \* host memory the device writes: found_slot, pipe_found_host_
  hostFlag,
  \* the commands queued; found flag and out_t_rows, out_t_cols (the launch)
  \* of each device; the launch whose product is in each tile_xor buffer
  commands, flag, winner, xorOf,
  \* the CPU's team: the tile of each thread, the threads that won the flag
  \* and have not yet stored where, stop
  task, won, stopScan

hostScanVars == <<spc, upcoming, counted, found, ok, hitAt, outcome>>
gpuVars == <<hostFlag, commands, xorOf>>
latchVars == <<flag, winner>>
cpuVars == <<task, won, stopScan>>
attemptVars == <<backend, marked, cancelled, scans>>
scanVars == <<attemptVars, hostScanVars, gpuVars, latchVars, cpuVars>>

ScanLaunch == 0..(ScanLaunches - 1)
Nowhere == -1
Devices == 1..ScanDevices
Overlapped == backend \in {"opencl", "onednn"}
SlotFor(l) == l % 2

ScanInit ==
  /\ backend \in ScanBackends /\ marked = {} /\ cancelled = FALSE /\ scans = 0
  /\ spc = "idle" /\ upcoming = 0 /\ counted = 0 /\ found = FALSE /\ ok = TRUE
  /\ hitAt = Nowhere /\ outcome = "idle"
  /\ hostFlag = [s \in {0, 1} |-> FALSE] /\ commands = <<>>
  /\ xorOf = [s \in {0, 1} |-> Nowhere]
  /\ flag = [d \in Devices |-> FALSE] /\ winner = [d \in Devices |-> Nowhere]
  /\ task = [d \in Devices |-> Nowhere] /\ won = {} /\ stopScan = FALSE

-----------------------------------------------------------------------------
(***************************************************************************)
(* Host                                                                     *)
(***************************************************************************)

(***************************************************************************)
(* A new attempt: the flags are cleared, what the winner wrote and the      *)
(* tile_xor buffers stay.  Attempts begin only while the job goes on.       *)
(***************************************************************************)
BeginScan ==
  /\ spc = "idle" /\ scans < MaxScanAttempts
  /\ scans' = scans + 1 /\ cancelled' = FALSE
  /\ marked' \in SUBSET ScanLaunch
  /\ spc' = (IF backend = "cpu" THEN "team" ELSE "loop")
  /\ upcoming' = 0 /\ counted' = 0 /\ found' = FALSE /\ ok' = TRUE /\ hitAt' = Nowhere
  /\ outcome' = "running"
  /\ hostFlag' = [s \in {0, 1} |-> FALSE]
  /\ flag' = [d \in Devices |-> FALSE] /\ stopScan' = FALSE
  /\ UNCHANGED <<backend, commands, xorOf, winner, task, won>>

HostAt(place) ==
  /\ spc = place /\ UNCHANGED <<attemptVars, latchVars, cpuVars, xorOf>>

\* The scan is over without a result: a cancelled job or a failed call.
GiveUp == /\ ok' = FALSE /\ spc' = (IF Overlapped THEN "drain" ELSE "return")
          /\ UNCHANGED <<upcoming, counted, found, hitAt, outcome, hostFlag>>

Command(op, l, d) == [op |-> op, launch |-> l, dev |-> d]

\* What one launch queues, in this order.
CommandsOf(l) ==
  CASE backend = "opencl" -> <<Command("kernel", l, 1), Command("read", l, 1)>>
    [] backend = "onednn" -> <<Command("gemm", l, 1), Command("jackpot", l, 1),
                               Command("read", l, 1)>>
    [] backend = "onebyone" -> <<Command("kernel", l, 1)>>
    [] OTHER -> [d \in Devices |-> Command("kernel", l, d)]

\* should_cancel at the head of the loop; gpu_scan_device_period looks only at
\* the first launch of a row of launches, so that CUDA may go on.
SeesCancel ==
  /\ HostAt("loop") /\ upcoming < ScanLaunches /\ cancelled /\ GiveUp
  /\ UNCHANGED commands

\* All commands of the launch are queued, or a call fails after some of them;
\* a CUDA call that fails ends the program.
Launch ==
  /\ HostAt("loop") /\ upcoming < ScanLaunches /\ (cancelled => backend = "cuda")
  /\ \/ /\ commands' = commands \o CommandsOf(upcoming)
        /\ hostFlag' = (IF backend = "opencl" THEN [hostFlag EXCEPT ![SlotFor(upcoming)] = FALSE]
                        ELSE hostFlag)
        /\ spc' = "await" /\ UNCHANGED <<upcoming, counted, found, ok, hitAt, outcome>>
     \/ /\ backend # "cuda" /\ GiveUp
        /\ \E n \in 0..(Len(CommandsOf(upcoming)) - 1) :
             commands' = commands \o SubSeq(CommandsOf(upcoming), 1, n)

Queued(op, l) == \E k \in DOMAIN commands : commands[k].op = op /\ commands[k].launch = l

\* The host looks at what launch l left in its slot.
Account(l) == counted' = counted + 1 /\ found' = hostFlag[SlotFor(l)]

\* With the upcoming launch queued, the host waits for the read of the one before.
AwaitPrevious ==
  /\ HostAt("await") /\ Overlapped /\ UNCHANGED <<hostFlag, commands>>
  /\ \/ upcoming = 0 /\ spc' = "loop" /\ upcoming' = 1 /\ UNCHANGED <<counted, found, ok>>
     \/ /\ upcoming > 0 /\ ~Queued("read", upcoming - 1)
        /\ Account(upcoming - 1) /\ UNCHANGED ok
        /\ IF found' THEN spc' = "drain" /\ UNCHANGED upcoming
           ELSE spc' = "loop" /\ upcoming' = upcoming + 1
     \/ upcoming > 0 /\ ok' = FALSE /\ spc' = "drain" /\ UNCHANGED <<upcoming, counted, found>>
  /\ UNCHANGED <<hitAt, outcome>>

\* After the last launch: OpenCL waits for its read, oneDNN looks at it later.
AwaitLast ==
  /\ HostAt("loop") /\ upcoming = ScanLaunches /\ Overlapped
  /\ spc' = "drain" /\ UNCHANGED <<upcoming, hitAt, outcome, hostFlag, commands>>
  /\ \/ backend = "onednn" /\ UNCHANGED <<counted, found, ok>>
     \/ /\ backend = "opencl" /\ ~Queued("read", upcoming - 1)
        /\ Account(upcoming - 1) /\ UNCHANGED ok
     \/ backend = "opencl" /\ ok' = FALSE /\ UNCHANGED <<counted, found>>

\* clFinish, on every way out of the loop.
Drain ==
  /\ HostAt("drain") /\ spc' = "report" /\ commands = <<>>
  /\ UNCHANGED <<upcoming, counted, found, ok, hitAt, outcome, hostFlag, commands>>

\* The place of the hit is read, which may fail.
Report ==
  /\ HostAt("report") /\ spc' = "return"
  /\ IF backend = "onednn" /\ ok /\ ~found THEN Account(ScanLaunches - 1)
     ELSE UNCHANGED <<counted, found>>
  /\ \/ /\ hitAt' = (IF ok /\ found' THEN winner[1] ELSE hitAt) /\ UNCHANGED ok
     \/ found' /\ ok' = FALSE /\ UNCHANGED hitAt
  /\ UNCHANGED <<upcoming, outcome, hostFlag, commands>>

\* One launch at a time: the first device with its flag set has the hit.  The
\* wait itself may fail; then the device has nothing more to do.
AwaitThis ==
  /\ HostAt("await") /\ ~Overlapped /\ UNCHANGED <<hostFlag, commands, outcome>>
  /\ \/ /\ commands = <<>>
        /\ counted' = counted + 1 /\ found' = (\E d \in Devices : flag[d])
        /\ hitAt' = (IF found'
                     THEN winner[CHOOSE d \in Devices : flag[d] /\ \A e \in 1..(d - 1) : ~flag[e]]
                     ELSE hitAt)
        /\ upcoming' = upcoming + 1 /\ UNCHANGED ok
        /\ spc' = (IF found' \/ upcoming' = ScanLaunches THEN "return" ELSE "loop")
     \/ /\ backend = "onebyone" /\ commands = <<>> /\ ok' = FALSE /\ spc' = "return"
        /\ UNCHANGED <<upcoming, counted, found, hitAt>>

\* What the worker makes of it: 1, 0, or -1 for a cancelled job or an error.
\* CUDA does not look at the cancellation again.
Return ==
  /\ HostAt("return") /\ spc' = "idle"
  /\ outcome' = (IF (cancelled /\ backend # "cuda") \/ ~ok THEN "stopped"
                 ELSE IF found THEN "hit" ELSE "none")
  /\ UNCHANGED <<upcoming, counted, found, ok, hitAt, hostFlag, commands>>

-----------------------------------------------------------------------------
(***************************************************************************)
(* Device                                                                   *)
(***************************************************************************)

\* Mutant: the read waits for the product, not for the hash that sets the flag.
WaitsForProduct(c, b) ==
  \/ c.op = "gemm" /\ b.op = "jackpot" /\ b.launch = c.launch - 2
  \/ c.op \in {"jackpot", "read"} /\ b.op = "gemm" /\ b.launch = c.launch

(***************************************************************************)
(* c has the event of b in its wait list.  The first is a precaution: the   *)
(* host queues a launch only after it has read the flag of the one two back. *)
(***************************************************************************)
WaitsFor(c, b) ==
  \/ c.op = "gemm" /\ b.op = "jackpot" /\ b.launch = c.launch - 2
  \/ c.op = "jackpot" /\ b.op = "gemm" /\ b.launch = c.launch
  \/ c.op = "read" /\ b.op = "jackpot" /\ b.launch = c.launch

MayRun(k) ==
  \A b \in 1..(k - 1) :
    IF backend = "onednn" THEN ~WaitsFor(commands[k], commands[b])
    ELSE commands[b].dev # commands[k].dev

\* The first tile that beats the target takes the flag and says where; with
\* the flag set a kernel ends at once.
Latch(l, isHit, d) ==
  IF isHit /\ ~flag[d]
  THEN flag' = [flag EXCEPT ![d] = TRUE] /\ winner' = [winner EXCEPT ![d] = l]
  ELSE UNCHANGED latchVars

Execute ==
  \E k \in DOMAIN commands :
    LET c == commands[k]  l == c.launch IN
    /\ MayRun(k) /\ commands' = RemoveAt(commands, k)
    /\ CASE c.op = "gemm" -> /\ xorOf' = [xorOf EXCEPT ![SlotFor(l)] = l]
                             /\ UNCHANGED <<latchVars, hostFlag>>
         [] c.op = "jackpot" -> /\ Latch(l, xorOf[SlotFor(l)] \in marked, 1)
                                /\ UNCHANGED <<xorOf, hostFlag>>
         [] c.op = "kernel" -> Latch(l, l \in marked, c.dev) /\ UNCHANGED <<xorOf, hostFlag>>
         [] c.op = "read" -> /\ hostFlag' = [hostFlag EXCEPT ![SlotFor(l)] = flag[1]]
                             /\ UNCHANGED <<latchVars, xorOf>>
    /\ UNCHANGED <<attemptVars, hostScanVars, cpuVars>>

-----------------------------------------------------------------------------
(***************************************************************************)
(* CPU                                                                      *)
(***************************************************************************)

TeamStep == /\ backend = "cpu" /\ spc = "team"
            /\ UNCHANGED <<attemptVars, gpuVars, spc, found, ok, hitAt, outcome>>

\* A thread takes the next tile, unless the scan is to stop; the first to see
\* the cancellation stops it.
TakeTile(t) ==
  /\ TeamStep /\ task[t] = Nowhere /\ upcoming < ScanLaunches /\ upcoming' = upcoming + 1
  /\ task' = (IF stopScan \/ cancelled THEN task ELSE [task EXCEPT ![t] = upcoming])
  /\ stopScan' = (stopScan \/ cancelled)
  /\ UNCHANGED <<counted, latchVars, won>>

\* on_tile: a tile found later than another ends the scan and nothing more; a
\* hit takes the flag, and its place is stored afterwards.
OnTile(t) ==
  /\ TeamStep /\ task[t] # Nowhere /\ t \notin won /\ counted' = counted + 1
  /\ IF task[t] \in marked /\ ~flag[1]
     THEN /\ flag' = [flag EXCEPT ![1] = TRUE] /\ won' = {t}
          /\ UNCHANGED <<task, stopScan>>
     ELSE /\ task' = [task EXCEPT ![t] = Nowhere]
          /\ stopScan' = (stopScan \/ flag[1]) /\ UNCHANGED <<flag, won>>
  /\ UNCHANGED <<upcoming, winner>>

StoreHit(t) ==
  /\ TeamStep /\ t \in won /\ won' = {}
  /\ winner' = [winner EXCEPT ![1] = task[t]]
  /\ task' = [task EXCEPT ![t] = Nowhere] /\ stopScan' = TRUE
  /\ UNCHANGED <<upcoming, counted, flag>>

\* The end of the parallel loop, and what the worker reads after it.
TeamEnds ==
  /\ HostAt("team") /\ upcoming = ScanLaunches /\ \A t \in Devices : task[t] = Nowhere
  /\ spc' = "return" /\ found' = flag[1] /\ ok' = (flag[1] \/ ~cancelled)
  /\ hitAt' = (IF flag[1] THEN winner[1] ELSE hitAt)
  /\ UNCHANGED <<upcoming, counted, outcome, hostFlag, commands>>

\* The pool sends another job or is lost.
CancelScan ==
  /\ spc # "idle" /\ ~cancelled /\ cancelled' = TRUE
  /\ UNCHANGED <<backend, marked, scans, hostScanVars, gpuVars, latchVars, cpuVars>>

ScanNext ==
  \/ BeginScan \/ SeesCancel \/ Launch \/ AwaitPrevious \/ AwaitLast \/ Drain
  \/ Report \/ AwaitThis \/ Return \/ Execute \/ TeamEnds \/ CancelScan
  \/ \E t \in Devices : TakeTile(t) \/ OnTile(t) \/ StoreHit(t)

-----------------------------------------------------------------------------
(***************************************************************************)
(* Properties                                                               *)
(***************************************************************************)

\* Every variable has its type (the locals of the scan loops and the device memory).
ScanTypeOK ==
  /\ backend \in ScanBackends /\ marked \subseteq ScanLaunch
  /\ cancelled \in BOOLEAN /\ scans \in 0..MaxScanAttempts
  /\ spc \in {"idle", "loop", "await", "drain", "report", "return", "team"}
  /\ upcoming \in 0..ScanLaunches /\ counted \in 0..ScanLaunches
  /\ found \in BOOLEAN /\ ok \in BOOLEAN /\ hitAt \in ScanLaunch \cup {Nowhere}
  /\ outcome \in {"idle", "running", "stopped", "hit", "none"}
  /\ hostFlag \in [{0, 1} -> BOOLEAN]
  /\ commands \in Seq([op: {"gemm", "jackpot", "kernel", "read"},
                       launch: ScanLaunch, dev: Devices])
  /\ flag \in [Devices -> BOOLEAN]
  /\ winner \in [Devices -> ScanLaunch \cup {Nowhere}]
  /\ xorOf \in [{0, 1} -> ScanLaunch \cup {Nowhere}]
  /\ task \in [Devices -> ScanLaunch \cup {Nowhere}]
  /\ won \subseteq Devices /\ stopScan \in BOOLEAN

(***************************************************************************)
(* When an attempt has returned nothing of it is left: no command that      *)
(* could still write to found_slot on its stack, or take the flag of the    *)
(* next attempt, and no thread at a tile.  What it reported is so: a hit is *)
(* where a marked launch of this attempt is, and without one every launch   *)
(* was looked at and none is marked (cp_worker.h's mine_attempt: 1 or 0).   *)
(***************************************************************************)
ScanReportIsRight ==
  spc = "idle" =>
    /\ commands = <<>> /\ \A t \in Devices : task[t] = Nowhere
    /\ outcome = "hit" => hitAt \in marked
    /\ outcome = "none" => counted = ScanLaunches /\ marked = {}
=============================================================================
