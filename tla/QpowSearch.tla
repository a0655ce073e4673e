----------------------------- MODULE QpowSearch -----------------------------
(***************************************************************************)
(* The search pipeline of the Quantus GPU backends                          *)
(* (src/qpow/opencl/cp_qpow_opencl_worker.cpp with one device,              *)
(* src/qpow/cuda/cp_qpow_cuda.cu with several) and the job loop above it    *)
(* (mine_job_gpu in src/common/cp_qpow_mine.cpp).                           *)
(*                                                                         *)
(* Two rounds of launches, one launch per device each, stay queued on the   *)
(* devices between calls of search().  A call collects the older round and  *)
(* fills its slot again; a call that does not continue where the last one   *)
(* stopped forgets the rounds without waiting for them, so that launches    *)
(* nobody wants still run, on the buffers the next ones use.                *)
(*                                                                         *)
(* Counters are small numbers beside the attempt they belong to (the random *)
(* salt of build_start_nonce).  The kernel's constants stand for what they  *)
(* are computed from: the job and the line of LineSpan counters.  One step  *)
(* is one launch or one collected launch, or one of a device.               *)
(***************************************************************************)
EXTENDS Naturals, Sequences

CONSTANTS
  Devices,       \* number of devices; 1 for OpenCL
  LineSpan,      \* kTSpan, 2^26: counters of one line
  LaunchSizes,   \* sizes the automatic batch size may take
  MaxCounter,    \* bound: no search is begun at or after this counter
  MaxAttempts    \* bound: jobs mined

ASSUME DevicesAssumption == Devices \in Nat \ {0}
ASSUME SizesAssumption == /\ LineSpan \in Nat \ {0}
                          /\ LaunchSizes # {} /\ LaunchSizes \subseteq Nat \ {0}
ASSUME SearchBoundsAssumption == MaxCounter \in Nat /\ MaxAttempts \in Nat

VARIABLES
  \* job loop: where the thread is, the job (its header and target), the
  \* attempt, cur, whether the job is cancelled or the connection lost
  pc, job, attempt, cur, cancel,
  \* search(): the device it is at, the slot it fills, the counters collected
  dev, fill, found,
  \* Pipe: active, head, header and target, expect, next, the job of the
  \* cached midstate (0: have_mid is false), and the slots of each device
  active, head, header, expect, next, mid, slot,
  \* Dev: launch size, the launches queued on its stream or in-order queue,
  \* and what it last read back for each slot
  launch, stream, readBack,
  freed,         \* the buffers of the devices are released
  \* history: first counter of the attempt, counters whose results were used
  first, searched

loopVars == <<pc, job, attempt, cur, first, searched>>
hostVars == <<dev, fill, found>>
pipeVars == <<active, head, header, expect, next, mid>>
devVars  == <<launch, stream, readBack, freed>>
vars == <<loopVars, cancel, hostVars, pipeVars, slot, devVars>>

Devs == 1..Devices
Slots == {0, 1}

\* A counter of an attempt, the constants of the line it lies on, and a launch.
Counter == [try: Nat, c: Nat]
Constant == [job: Nat, try: Nat, line: Nat]
NoCounter == [try |-> 0, c |-> 0]
NoConstant == [job |-> 0, try |-> 0, line |-> 0]
NoSlot == [base |-> NoCounter, n |-> 0, pk |-> NoConstant]
NoResult == [pk |-> NoConstant, t |-> 0, n |-> 0]

Least(a, b) == IF a < b THEN a ELSE b
Plus(counter, n) == [counter EXCEPT !.c = @ + n]
LineOf(c) == c \div LineSpan
PlaceOf(c) == c % LineSpan

\* The worker is initialised and ready.
Init ==
  /\ pc = "idle" /\ job = 0 /\ attempt = 0 /\ cur = NoCounter /\ cancel = FALSE
  /\ dev = 1 /\ fill = 0 /\ found = 0
  /\ active = FALSE /\ head = 0 /\ header = 0 /\ expect = NoCounter
  /\ next = NoCounter /\ mid = 0
  /\ slot = [d \in Devs |-> [i \in Slots |-> NoSlot]]
  /\ launch \in [Devs -> LaunchSizes]
  /\ stream = [d \in Devs |-> <<>>]
  /\ readBack = [d \in Devs |-> [i \in Slots |-> NoResult]]
  /\ freed = FALSE /\ first = 0 /\ searched = {}

-----------------------------------------------------------------------------
\* Job loop: mine_job_gpu

\* cp_job_should_cancel() || cp_pool_conn_lost()
Cancelled == cancel

\* A job, new or sent again, from a random start nonce.
StartJob ==
  /\ pc = "idle" /\ attempt < MaxAttempts /\ pc' = "loop"
  /\ attempt' = attempt + 1 /\ job' \in {job, job + 1} \ {0}
  /\ first' \in 0..(LineSpan - 1) /\ cur' = [try |-> attempt', c |-> first']
  /\ cancel' = FALSE /\ searched' = {}
  /\ UNCHANGED <<hostVars, pipeVars, slot, devVars>>

LoopCheck ==
  /\ pc = "loop" /\ (Cancelled \/ cur.c < MaxCounter)
  /\ pc' = IF Cancelled THEN "idle" ELSE "search"
  /\ UNCHANGED <<job, attempt, cur, first, searched, cancel, hostVars, pipeVars,
                 slot, devVars>>

(***************************************************************************)
(* The shares of a round are submitted and the loop goes on behind it,      *)
(* unless the wallet is to change.  A share of a job cancelled meanwhile is *)
(* dropped and the job ends.                                                *)
(***************************************************************************)
RoundDone ==
  /\ pc = "round"
  /\ \/ Cancelled /\ pc' = "idle" /\ UNCHANGED cur
     \/ pc' \in {"loop", "idle"} /\ cur' = Plus(cur, found)
  /\ UNCHANGED <<job, attempt, first, searched, cancel, hostVars, pipeVars, slot,
                 devVars>>

-----------------------------------------------------------------------------
\* search(): cp_qpow_opencl_worker_search, cp_qpow_cuda_worker_search

Forget(slots) == [d \in Devs |-> [i \in Slots |-> [slots[d][i] EXCEPT !.n = 0]]]

\* discard: forget the queued rounds.
Discard == active' = FALSE /\ slot' = Forget(slot)

\* Mutant: a job sent again continues the search of the old one.
ContinuesByHeader == active /\ header = job

\* Do the queued rounds belong to this call?
Continues == active /\ header = job /\ expect = cur

\* Mutant: the midstate of the job before is kept.
StartOverKeepsMid ==
  /\ header' = job /\ expect' = cur /\ next' = cur
  /\ head' = 0 /\ active' = TRUE /\ UNCHANGED mid

StartOver ==
  /\ header' = job /\ expect' = cur /\ next' = cur
  /\ mid' = 0 /\ head' = 0 /\ active' = TRUE

\* Collect the older round, or start over with two new ones.
SearchEnter ==
  /\ pc = "search" /\ dev' = 1 /\ found' = 0
  /\ \/ /\ Cancelled /\ pc' = "idle" /\ Discard
        /\ UNCHANGED <<fill, head, header, expect, next, mid>>
     \/ /\ ~Cancelled /\ Continues /\ pc' = "collect"
        /\ UNCHANGED <<fill, pipeVars, slot>>
     \/ /\ ~Cancelled /\ ~Continues /\ pc' = "fill" /\ fill' = 0
        /\ slot' = (IF active THEN Forget(slot) ELSE slot) /\ StartOver
  /\ UNCHANGED <<job, attempt, cur, first, searched, cancel, devVars>>

\* A launch must not cross the end of a line: its constants hold for one.
LaunchLength(d) == Least(launch[d], LineSpan - PlaceOf(next.c))

\* The cached midstate; it depends on the job alone when its extranonce fills
\* the first 32 bytes of every nonce.
Midstate == IF mid = 0 THEN header ELSE mid

\* The launch at q.next in the slot to fill.
Planned(d) == [slot EXCEPT ![d][fill] =
  [base |-> next, n |-> LaunchLength(d),
   pk |-> [job |-> Midstate, try |-> next.try, line |-> LineOf(next.c)]]]

Plan(d) == mid' = Midstate /\ next' = Plus(next, LaunchLength(d))

\* The place in the line and the count go with the launch; its constants are
\* read from the slot when the device gets there.
Queued(d) == [stream EXCEPT ![d] =
  Append(@, [slot |-> fill, t |-> PlaceOf(next.c), n |-> LaunchLength(d)])]

\* After the last device of a round: the second round, the wait, the return.
AfterRound ==
  IF dev < Devices
  THEN dev' = dev + 1 /\ UNCHANGED <<pc, fill>>
  ELSE /\ dev' = 1
       /\ CASE pc = "refill"             -> pc' = "round" /\ UNCHANGED fill
            [] pc = "fill" /\ fill = 0   -> fill' = 1 /\ UNCHANGED pc
            [] pc = "fill" /\ fill = 1   -> pc' = "collect" /\ UNCHANGED fill

\* enqueue_launch, or enqueue_round for one device.
Enqueue ==
  /\ pc \in {"fill", "refill"}
  /\ Plan(dev) /\ slot' = Planned(dev) /\ stream' = Queued(dev) /\ AfterRound
  /\ UNCHANGED <<job, attempt, cur, first, searched, cancel, found, active, head,
                 header, expect, launch, readBack, freed>>

(***************************************************************************)
(* The launch could not be queued, or its read-back could not: everything   *)
(* is forgotten.  After a collected round the call still succeeds.          *)
(***************************************************************************)
EnqueueFails ==
  /\ pc \in {"fill", "refill"} /\ pc' = (IF pc = "refill" THEN "round" ELSE "error")
  /\ Plan(dev) /\ active' = FALSE /\ slot' = Forget(Planned(dev))
  /\ stream' \in {stream, Queued(dev)}
  /\ UNCHANGED <<job, attempt, cur, first, searched, cancel, hostVars, head,
                 header, expect, launch, readBack, freed>>

\* Mutant: the host does not wait for the device.
EventDoneAlways(d) == TRUE

\* The event of the older launch: recorded behind it, in order.
EventDone(d) == \A i \in 1..Len(stream[d]) : stream[d][i].slot # head

\* Mutant: the slots are not taken in turn.
NextSlot == head + 1
OtherSlot == 1 - head

Counters(s) == s.base.c..(s.base.c + s.n - 1)

\* A round is collected device by device; its sizes may change the batch size.
Collect ==
  /\ pc = "collect" /\ EventDone(dev)
  /\ found' = found + slot[dev][head].n
  /\ searched' = searched \cup Counters(slot[dev][head])
  /\ \E size \in LaunchSizes : launch' = [launch EXCEPT ![dev] = size]
  /\ IF dev < Devices
     THEN dev' = dev + 1 /\ UNCHANGED <<pc, expect, head, fill>>
     ELSE /\ dev' = 1 /\ pc' = "refill" /\ fill' = head /\ head' = OtherSlot
          /\ expect' = Plus(expect, found')
  /\ UNCHANGED <<job, attempt, cur, first, cancel, active, header, next, mid,
                 slot, stream, readBack, freed>>

\* The wait fails.
CollectFails ==
  /\ pc = "collect" /\ pc' = "error" /\ Discard
  /\ UNCHANGED <<job, attempt, cur, first, searched, cancel, hostVars, head,
                 header, expect, next, mid, devVars>>

-----------------------------------------------------------------------------
\* Devices, cancellation and the end

\* A device runs its oldest launch and reads the candidates back.
DeviceRuns(d) ==
  /\ stream[d] # <<>> /\ stream' = [stream EXCEPT ![d] = Tail(@)]
  /\ LET l == Head(stream[d]) IN
       readBack' = [readBack EXCEPT ![d][l.slot] =
                      [pk |-> slot[d][l.slot].pk, t |-> l.t, n |-> l.n]]
  /\ UNCHANGED <<loopVars, cancel, hostVars, pipeVars, slot, launch, freed>>

\* A new job, or the connection is lost.
Cancel ==
  /\ pc # "off" /\ ~cancel /\ cancel' = TRUE
  /\ UNCHANGED <<loopVars, hostVars, pipeVars, slot, devVars>>

\* cp_qpow_*_worker_shutdown; a failed job ends the program.
Shutdown ==
  /\ pc \in {"idle", "error"} /\ pc' = "finish" /\ Discard
  /\ UNCHANGED <<job, attempt, cur, first, searched, cancel, hostVars, head,
                 header, expect, next, mid, devVars>>

\* clFinish, cudaStreamSynchronize: launches still queued use the buffers.
Finished == \A d \in Devs : stream[d] = <<>>

Release ==
  /\ pc = "finish" /\ Finished /\ pc' = "off" /\ freed' = TRUE
  /\ UNCHANGED <<job, attempt, cur, first, searched, cancel, hostVars, pipeVars,
                 slot, launch, stream, readBack>>

HostStep == \/ LoopCheck \/ RoundDone \/ SearchEnter \/ Enqueue \/ EnqueueFails
            \/ Collect \/ CollectFails \/ Release

\* The program has ended.
Rest == pc = "off" /\ UNCHANGED vars

Next == StartJob \/ HostStep \/ (\E d \in Devs : DeviceRuns(d)) \/ Cancel
        \/ Shutdown \/ Rest

Spec == Init /\ [][Next]_vars

-----------------------------------------------------------------------------
(***************************************************************************)
(* Properties                                                               *)
(***************************************************************************)

Labels == {"idle", "loop", "search", "fill", "collect", "refill", "round",
           "error", "finish", "off"}
Slot == [base: Counter, n: Nat, pk: Constant]
Queue == Seq([slot: Slots, t: Nat, n: Nat])
Result == [pk: Constant, t: Nat, n: Nat]

\* Every variable has its type (Pipe, Slot and Dev of the two workers).
TypeOK ==
  /\ pc \in Labels /\ job \in Nat /\ attempt \in Nat /\ cur \in Counter
  /\ cancel \in BOOLEAN /\ first \in Nat /\ searched \in SUBSET Nat
  /\ dev \in Devs /\ fill \in Slots /\ found \in Nat
  /\ active \in BOOLEAN /\ head \in Slots /\ header \in Nat
  /\ expect \in Counter /\ next \in Counter /\ mid \in Nat
  /\ slot \in [Devs -> [Slots -> Slot]]
  /\ launch \in [Devs -> LaunchSizes]
  /\ stream \in [Devs -> Queue]
  /\ readBack \in [Devs -> [Slots -> Result]]
  /\ freed \in BOOLEAN

(***************************************************************************)
(* "one round of the backend's pipeline ... the next call continues right   *)
(* after them" (cp_qpow_mine.cpp:479-481): the counters whose results the   *)
(* job loop has used are exactly those from the start of the attempt to     *)
(* cur, none left out and none twice, whatever was forgotten, cut off at a  *)
(* line or lost to a failed refill on the way.                              *)
(***************************************************************************)
SearchedOnce == pc = "loop" => searched = first..(cur.c - 1)

(***************************************************************************)
(* The results collected are those of the launch they are taken for: its    *)
(* job, attempt and line, its place and its length, all on one line,        *)
(* although forgotten launches of other jobs run on the same buffers and    *)
(* read the same constants.                                                 *)
(***************************************************************************)
ResultsOfTheirLaunch ==
  pc = "collect" /\ EventDone(dev) =>
    LET s == slot[dev][head] IN
      /\ readBack[dev][head] =
           [pk |-> [job |-> job, try |-> attempt, line |-> LineOf(s.base.c)],
            t |-> PlaceOf(s.base.c), n |-> s.n]
      /\ s.base.try = attempt /\ PlaceOf(s.base.c) + s.n <= LineSpan

(***************************************************************************)
(* A new job waits for few launches of an old one: forgetting rounds        *)
(* without waiting never piles up more than two on a device behind which    *)
(* two new ones queue (the comments at discard).                            *)
(***************************************************************************)
DeviceQueueBounded == \A d \in Devs : Len(stream[d]) <= 4

\* Buffers are released only when no launch can still use them.
FreedWhenUnused == freed => \A d \in Devs : stream[d] = <<>>

\* Launches left running on a device are few, and none is left when it is freed.
ForgottenLaunchesKept == DeviceQueueBounded /\ FreedWhenUnused
=============================================================================
