-------------------------- MODULE QpowSearchProofs ---------------------------
(***************************************************************************)
(* Theorems about QpowSearch, for all numbers of devices, line spans, batch *)
(* sizes and bounds.                                                        *)
(*                                                                         *)
(* The slots that hold a launch of the current search (Filled) form one     *)
(* chain of counters from q.expect to q.next, device after device and round *)
(* after round (ChainInv); what was collected ends where the chain begins   *)
(* (FoundInv).  The constants of a filled slot are those of its job,        *)
(* attempt and line (ConstantInv); the last launch queued for it, or else   *)
(* what was read back, is its own, whatever forgotten launches run before   *)
(* (ResultInv).  A device has few launches because a round collected leaves *)
(* at most one behind (RoomInv).                                            *)
(***************************************************************************)
EXTENDS QpowSearch, SequenceTheorems, TLAPS

\* Is launch i of device d queued for the search that is going on?
Filled(d, i) ==
  /\ active
  /\ pc \in {"fill", "refill"} =>
       \/ i # fill /\ (pc = "refill" \/ fill = 1)
       \/ i = fill /\ d < dev

\* The counter behind a launch.
Behind(d, i) == Plus(slot[d][i].base, slot[d][i].n)

\* Where the next launch goes on, and the round before the one being filled.
NextPlace ==
  IF pc \in {"fill", "refill"}
  THEN IF dev > 1 THEN next = Behind(dev - 1, fill)
       ELSE IF fill = head THEN next = expect ELSE next = Behind(Devices, head)
  ELSE next = Behind(Devices, OtherSlot)

StageInv ==
  /\ pc \in {"fill", "collect", "refill"} => active
  /\ pc \in {"fill", "collect"} => expect = cur /\ header = job
  /\ pc = "fill" => head = 0 /\ found = 0
  /\ pc = "refill" => fill = OtherSlot
  /\ cur.try = attempt

ChainInv ==
  active =>
    /\ NextPlace
    /\ Filled(1, head) => slot[1][head].base = expect
    /\ Filled(1, OtherSlot) => slot[1][OtherSlot].base = Behind(Devices, head)
    /\ \A d \in Devs, i \in Slots : d > 1 /\ Filled(d, i) =>
         slot[d][i].base = Behind(d - 1, i)

\* The counters used are those of the attempt before k.
SearchedTo(k) == first <= k /\ searched = first..(k - 1)

FoundInv ==
  /\ pc \in {"loop", "search", "fill"} => SearchedTo(cur.c)
  /\ pc \in {"collect", "refill", "round"} => SearchedTo(cur.c + found)
  /\ pc = "collect" => slot[dev][head].base = Plus(cur, found)

ConstantInv ==
  active =>
    /\ mid \in {0, header} /\ next.try = expect.try
    /\ \A d \in Devs, i \in Slots : Filled(d, i) =>
         /\ slot[d][i].base.try = expect.try
         /\ slot[d][i].pk = [job |-> header, try |-> expect.try,
                             line |-> LineOf(slot[d][i].base.c)]
         /\ PlaceOf(slot[d][i].base.c) + slot[d][i].n <= LineSpan

\* Does a queue hold no launch for slot i from place k on?
NoneFrom(queue, k, i) == \A m \in k..Len(queue) : queue[m].slot # i

ResultInv ==
  \A d \in Devs, i \in Slots : Filled(d, i) =>
    /\ \A k \in 1..Len(stream[d]) :
         stream[d][k].slot = i /\ NoneFrom(stream[d], k + 1, i) =>
           stream[d][k].t = PlaceOf(slot[d][i].base.c) /\ stream[d][k].n = slot[d][i].n
    /\ NoneFrom(stream[d], 1, i) =>
         readBack[d][i] = [pk |-> slot[d][i].pk, t |-> PlaceOf(slot[d][i].base.c),
                           n |-> slot[d][i].n]

\* At most n launches, at most b of them behind the last one for slot i.
Room(queue, n, i, b) ==
  /\ Len(queue) <= n
  /\ Len(queue) > b => ~NoneFrom(queue, Len(queue) - b, i)

RoomInv ==
  \A d \in Devs :
    /\ Len(stream[d]) <= 4
    /\ pc \in {"idle", "loop", "search", "round"} =>
         Len(stream[d]) <= 2 /\ (active => Room(stream[d], 2, head, 1))
    /\ pc = "fill" /\ fill = 0 =>
         IF d < dev THEN Room(stream[d], 3, 0, 0) ELSE Len(stream[d]) <= 2
    /\ pc = "fill" /\ fill = 1 =>
         IF d < dev THEN Room(stream[d], 4, 0, 1) ELSE Room(stream[d], 3, 0, 0)
    /\ pc = "collect" =>
         IF d < dev THEN Len(stream[d]) <= 1 /\ NoneFrom(stream[d], 1, head)
         ELSE Room(stream[d], 4, head, 1)
    /\ pc = "refill" =>
         IF d < dev THEN Room(stream[d], 2, head, 1)
         ELSE Len(stream[d]) <= 1 /\ NoneFrom(stream[d], 1, fill)

FreedInv == freed => pc = "off" /\ \A d \in Devs : stream[d] = <<>>

SearchInv ==
  TypeOK /\ StageInv /\ ChainInv /\ FoundInv /\ ConstantInv /\ ResultInv /\ RoomInv
  /\ FreedInv

-----------------------------------------------------------------------------
(***************************************************************************)
(* Types.                                                                   *)
(***************************************************************************)

LEMMA Bounds ==
  /\ Devices \in Nat /\ Devices >= 1 /\ LineSpan \in Nat /\ LineSpan >= 1
  /\ LaunchSizes \subseteq Nat \ {0}
  /\ 1 \in Devs /\ Devices \in Devs
BY DevicesAssumption, SizesAssumption DEF Devs

\* A counter has a place in its line.
LEMMA PlaceInLine ==
  ASSUME NEW c \in Nat
  PROVE  PlaceOf(c) \in Nat /\ PlaceOf(c) < LineSpan /\ LineOf(c) \in Nat
BY Bounds DEF PlaceOf, LineOf

\* A launch is not empty and stays on its line.
LEMMA LaunchOnLine ==
  ASSUME TypeOK, NEW d \in Devs
  PROVE  LaunchLength(d) \in Nat /\ PlaceOf(next.c) + LaunchLength(d) <= LineSpan
<1>1. launch[d] \in Nat /\ next.c \in Nat
  BY Bounds DEF TypeOK, Counter
<1>2. LineSpan - PlaceOf(next.c) \in Nat /\ PlaceOf(next.c) \in Nat
  BY <1>1, Bounds, PlaceInLine
<1> QED
  BY <1>1, <1>2, Bounds DEF LaunchLength, Least

LEMMA CounterPlus ==
  ASSUME NEW counter \in Counter, NEW n \in Nat
  PROVE  /\ Plus(counter, n) \in Counter /\ Plus(counter, n).c = counter.c + n
         /\ Plus(counter, n).try = counter.try
BY DEF Counter, Plus

LEMMA PlusPlus ==
  ASSUME NEW counter \in Counter, NEW m \in Nat, NEW n \in Nat
  PROVE  Plus(Plus(counter, m), n) = Plus(counter, m + n) /\ Plus(counter, 0) = counter
<1> USE DEF Plus, Counter
<1>1. \A a \in Nat : (a + m) + n = a + (m + n) /\ a + 0 = a /\ a + m \in Nat /\ m + n \in Nat
  OBVIOUS
<1>2. \A x \in Counter, k \in Nat :
        Plus(x, k) = [try |-> x.try, c |-> x.c + k] /\ x = [try |-> x.try, c |-> x.c]
  OBVIOUS
<1>3. Plus(counter, m) \in Counter /\ Plus(counter, m).c = counter.c + m
        /\ Plus(counter, m).try = counter.try
  BY CounterPlus
<1>4. Plus(Plus(counter, m), n) = [try |-> counter.try, c |-> (counter.c + m) + n]
  BY <1>2, <1>3
<1>5. counter.c \in Nat
  OBVIOUS
<1>6. Plus(counter, 0) = [try |-> counter.try, c |-> counter.c + 0]
  BY <1>2
<1> QED
  BY <1>1, <1>2, <1>4, <1>5, <1>6

\* The launches queued on a device after one more.
LEMMA QueuedType ==
  ASSUME TypeOK, NEW d \in Devs
  PROVE  Queued(d) \in [Devs -> Queue]
<1>1. PlaceOf(next.c) \in Nat /\ LaunchLength(d) \in Nat
  BY LaunchOnLine, PlaceInLine DEF TypeOK, Counter
<1>2. [slot |-> fill, t |-> PlaceOf(next.c), n |-> LaunchLength(d)]
        \in [slot: Slots, t: Nat, n: Nat]
  BY <1>1 DEF TypeOK
<1>3. Append(stream[d], [slot |-> fill, t |-> PlaceOf(next.c), n |-> LaunchLength(d)]) \in Queue
  BY <1>2, AppendProperties DEF TypeOK, Queue
<1> QED
  BY <1>3 DEF Queued, TypeOK

LEMMA MidstateType ==
  ASSUME TypeOK
  PROVE  Midstate \in Nat
BY DEF Midstate, TypeOK

LEMMA PlannedType ==
  ASSUME TypeOK, NEW d \in Devs
  PROVE  Planned(d) \in [Devs -> [Slots -> Slot]]
<1> DEFINE new == [base |-> next, n |-> LaunchLength(d),
                   pk |-> [job |-> Midstate, try |-> next.try, line |-> LineOf(next.c)]]
<1>1. new \in Slot
  BY LaunchOnLine, PlaceInLine, MidstateType DEF TypeOK, Counter, Slot, Constant
<1>2. [slot[d] EXCEPT ![fill] = new] \in [Slots -> Slot]
  BY <1>1 DEF TypeOK
<1> QED
  BY <1>2 DEF Planned, TypeOK

LEMMA ForgetType ==
  ASSUME NEW slots \in [Devs -> [Slots -> Slot]]
  PROVE  Forget(slots) \in [Devs -> [Slots -> Slot]]
<1>1. \A d \in Devs, i \in Slots : [slots[d][i] EXCEPT !.n = 0] \in Slot
  BY DEF Slot
<1> QED
  BY <1>1 DEF Forget

\* Only Enqueue moves on in a round; it ends with the last device.
LEMMA AfterRoundType ==
  ASSUME TypeOK, pc \in {"fill", "refill"}, AfterRound
  PROVE  pc' \in Labels /\ dev' \in Devs /\ fill' \in Slots
<1>1. CASE dev < Devices
  BY <1>1, Bounds DEF AfterRound, TypeOK, Devs
<1>2. CASE ~(dev < Devices)
  <2>1. dev' = 1
    BY <1>2 DEF AfterRound
  <2>2. pc' \in Labels /\ fill' \in Slots
    BY <1>2 DEF AfterRound, TypeOK, Labels, Slots
  <2> QED
    BY <2>1, <2>2, Bounds
<1> QED
  BY <1>1, <1>2

LEMMA SlotsInTurn == head \in Slots => OtherSlot \in Slots /\ OtherSlot # head
BY DEF Slots, OtherSlot

LEMMA TypeStep ==
  ASSUME TypeOK, [Next]_vars
  PROVE  TypeOK'
<1> USE DEF loopVars, hostVars, pipeVars, devVars
<1>1. CASE StartJob
  <2>1. attempt' \in Nat /\ job' \in Nat /\ first' \in Nat /\ cur' \in Counter
    BY <1>1, Bounds DEF StartJob, TypeOK, Counter
  <2> QED
    BY <1>1, <2>1 DEF StartJob, TypeOK, Labels
<1>2. CASE LoopCheck
  BY <1>2 DEF LoopCheck, TypeOK, Labels
<1>3. CASE RoundDone
  <2>1. cur' \in Counter
    BY <1>3, CounterPlus DEF RoundDone, TypeOK
  <2> QED
    BY <1>3, <2>1 DEF RoundDone, TypeOK, Labels
<1>4. CASE SearchEnter
  <2>1. slot' \in [Devs -> [Slots -> Slot]]
    BY <1>4, ForgetType DEF SearchEnter, Discard, TypeOK
  <2>2. /\ active' \in BOOLEAN /\ head' \in Slots /\ header' \in Nat /\ expect' \in Counter
        /\ next' \in Counter /\ mid' \in Nat /\ fill' \in Slots /\ pc' \in Labels
    <3>1. CASE pc' = "idle" /\ Discard /\ UNCHANGED <<fill, head, header, expect, next, mid>>
      BY <3>1 DEF Discard, TypeOK, Labels
    <3>2. CASE pc' = "collect" /\ UNCHANGED <<fill, pipeVars, slot>>
      BY <3>2 DEF TypeOK, Labels
    <3>3. CASE pc' = "fill" /\ fill' = 0 /\ StartOver
      BY <3>3 DEF StartOver, TypeOK, Labels, Slots
    <3> QED
      BY <1>4, <3>1, <3>2, <3>3 DEF SearchEnter
  <2>3. dev' \in Devs /\ found' \in Nat
    BY <1>4, Bounds DEF SearchEnter
  <2> QED
    BY <1>4, <2>1, <2>2, <2>3 DEF SearchEnter, TypeOK
<1>5. CASE Enqueue
  <2>1. dev \in Devs /\ next \in Counter
    BY DEF TypeOK
  <2>2. slot' \in [Devs -> [Slots -> Slot]] /\ stream' \in [Devs -> Queue]
    BY <1>5, <2>1, PlannedType, QueuedType DEF Enqueue
  <2>3. mid' \in Nat /\ next' \in Counter
    BY <1>5, <2>1, MidstateType, LaunchOnLine, CounterPlus DEF Enqueue, Plan
  <2>4. pc' \in Labels /\ dev' \in Devs /\ fill' \in Slots
    BY <1>5, AfterRoundType DEF Enqueue
  <2> QED
    BY <1>5, <2>2, <2>3, <2>4 DEF Enqueue, TypeOK
<1>6. CASE EnqueueFails
  <2>1. dev \in Devs /\ next \in Counter
    BY DEF TypeOK
  <2>2. slot' \in [Devs -> [Slots -> Slot]] /\ stream' \in [Devs -> Queue]
    BY <1>6, <2>1, PlannedType, QueuedType, ForgetType DEF EnqueueFails, TypeOK
  <2>3. mid' \in Nat /\ next' \in Counter
    BY <1>6, <2>1, MidstateType, LaunchOnLine, CounterPlus DEF EnqueueFails, Plan
  <2>4. pc' \in Labels /\ active' \in BOOLEAN
    BY <1>6 DEF EnqueueFails, Labels
  <2> QED
    BY <1>6, <2>2, <2>3, <2>4 DEF EnqueueFails, TypeOK
<1>7. CASE Collect
  <2>1. slot[dev][head].n \in Nat /\ slot[dev][head].base.c \in Nat /\ dev \in Devs
    BY DEF TypeOK, Slot, Counter
  <2>2. found' \in Nat
    BY <1>7, <2>1 DEF Collect, TypeOK
  <2>3. searched' \in SUBSET Nat
    <3>1. Counters(slot[dev][head]) \subseteq Nat
      BY <2>1 DEF Counters
    <3> QED
      BY <1>7, <3>1 DEF Collect, TypeOK
  <2>4. launch' \in [Devs -> LaunchSizes]
    BY <1>7 DEF Collect, TypeOK
  <2>5. dev' \in Devs /\ pc' \in Labels /\ fill' \in Slots /\ head' \in Slots /\ expect' \in Counter
    <3>1. CASE dev < Devices
      BY <1>7, <3>1, Bounds DEF Collect, TypeOK, Devs
    <3>2. CASE ~(dev < Devices)
      <4>1. expect' \in Counter
        BY <1>7, <2>2, <3>2, CounterPlus DEF Collect, TypeOK
      <4>2. fill' \in Slots /\ head' \in Slots
        BY <1>7, <3>2, SlotsInTurn DEF Collect, TypeOK
      <4>3. dev' \in Devs /\ pc' \in Labels
        BY <1>7, <3>2, Bounds DEF Collect, Labels
      <4> QED
        BY <4>1, <4>2, <4>3
    <3> QED
      BY <3>1, <3>2
  <2> QED
    BY <1>7, <2>2, <2>3, <2>4, <2>5 DEF Collect, TypeOK
<1>8. CASE CollectFails
  BY <1>8, ForgetType DEF CollectFails, Discard, TypeOK, Labels
<1>9. CASE \E d \in Devs : DeviceRuns(d)
  <2>1. PICK d \in Devs : DeviceRuns(d)
    BY <1>9
  <2>2. Head(stream[d]) \in [slot: Slots, t: Nat, n: Nat] /\ Tail(stream[d]) \in Queue
    BY <2>1, HeadTailProperties DEF DeviceRuns, TypeOK, Queue
  <2>3. stream' \in [Devs -> Queue]
    BY <2>1, <2>2 DEF DeviceRuns, TypeOK
  <2> DEFINE l == Head(stream[d])
             result == [pk |-> slot[d][l.slot].pk, t |-> l.t, n |-> l.n]
  <2>4. result \in Result
    BY <2>2 DEF TypeOK, Slot, Result
  <2>5. [readBack[d] EXCEPT ![l.slot] = result] \in [Slots -> Result]
    BY <2>4 DEF TypeOK
  <2>6. readBack' \in [Devs -> [Slots -> Result]]
    BY <2>1, <2>5 DEF DeviceRuns, TypeOK
  <2> QED
    BY <2>1, <2>3, <2>6 DEF DeviceRuns, TypeOK
<1>10. CASE Cancel
  BY <1>10 DEF Cancel, TypeOK
<1>11. CASE Shutdown
  BY <1>11, ForgetType DEF Shutdown, Discard, TypeOK, Labels
<1>12. CASE Release
  BY <1>12 DEF Release, TypeOK, Labels
<1>13. CASE UNCHANGED vars
  BY <1>13 DEF vars, TypeOK
<1> QED
  BY <1>1, <1>2, <1>3, <1>4, <1>5, <1>6, <1>7, <1>8, <1>9, <1>10, <1>11, <1>12, <1>13
  DEF Next, HostStep, Rest

-----------------------------------------------------------------------------
(***************************************************************************)
(* The steps in groups, and what they do to the filled slots.               *)
(***************************************************************************)
LoopStep == StartJob \/ LoopCheck \/ RoundDone \/ Release
OutsideStep == (\E d \in Devs : DeviceRuns(d)) \/ Cancel \/ UNCHANGED vars
ForgetStep == EnqueueFails \/ CollectFails \/ Shutdown

LEMMA StepCases ==
  ASSUME [Next]_vars
  PROVE  LoopStep \/ OutsideStep \/ ForgetStep \/ SearchEnter \/ Enqueue \/ Collect
BY DEF Next, HostStep, Rest, LoopStep, OutsideStep, ForgetStep

\* Steps of the loop and of others leave the pipe alone.
LEMMA PipeUnchanged ==
  ASSUME LoopStep \/ OutsideStep
  PROVE  /\ UNCHANGED <<pipeVars, slot, dev, fill, found, launch>>
         /\ \A d, i : Filled(d, i)' <=> Filled(d, i)
         /\ LoopStep => pc \notin {"search", "fill", "collect", "refill"}
                        /\ pc' \notin {"fill", "collect", "refill"}
                        /\ UNCHANGED <<stream, readBack>>
         /\ OutsideStep => UNCHANGED loopVars
<1> USE DEF loopVars, hostVars, pipeVars, devVars, vars
<1>1. /\ UNCHANGED <<pipeVars, slot, dev, fill, found, launch>>
      /\ LoopStep => pc \notin {"search", "fill", "collect", "refill"}
                     /\ pc' \notin {"fill", "collect", "refill"}
                     /\ UNCHANGED <<stream, readBack>>
      /\ OutsideStep => UNCHANGED loopVars
  BY DEF LoopStep, OutsideStep, StartJob, LoopCheck, RoundDone, Release, DeviceRuns, Cancel
<1>2. \A d, i : Filled(d, i)' <=> Filled(d, i)
  BY <1>1 DEF Filled
<1> QED
  BY <1>1, <1>2

\* After a failure the pipe is inactive.
LEMMA Forgotten ==
  ASSUME ForgetStep
  PROVE  ~active' /\ pc' \in {"error", "round", "finish"}
         /\ UNCHANGED <<job, attempt, cur, first, searched, found>>
BY DEF ForgetStep, EnqueueFails, CollectFails, Shutdown, Discard, hostVars

\* The three ways of search().
LEMMA SearchWays ==
  ASSUME SearchEnter
  PROVE  /\ pc = "search" /\ dev' = 1 /\ found' = 0
         /\ UNCHANGED <<job, attempt, cur, first, searched, devVars>>
         /\ \/ pc' = "idle" /\ ~active'
            \/ /\ pc' = "collect" /\ active /\ header = job /\ expect = cur
               /\ UNCHANGED <<pipeVars, slot, fill>>
               /\ \A d, i : Filled(d, i)' /\ Filled(d, i)
            \/ /\ pc' = "fill" /\ fill' = 0 /\ head' = 0 /\ active' /\ mid' = 0
               /\ header' = job /\ expect' = cur /\ next' = cur
               /\ \A d \in Devs, i \in Slots : ~Filled(d, i)'
<1>1. /\ pc = "search" /\ dev' = 1 /\ found' = 0
      /\ UNCHANGED <<job, attempt, cur, first, searched, devVars>>
      /\ \/ pc' = "idle" /\ ~active'
         \/ /\ pc' = "collect" /\ active /\ header = job /\ expect = cur
            /\ UNCHANGED <<pipeVars, slot, fill>>
         \/ /\ pc' = "fill" /\ fill' = 0 /\ head' = 0 /\ active' /\ mid' = 0
            /\ header' = job /\ expect' = cur /\ next' = cur
  BY DEF SearchEnter, Discard, Continues, StartOver
<1>2. CASE pc' = "collect" /\ active /\ UNCHANGED <<pipeVars, slot, fill>>
  BY <1>1, <1>2 DEF Filled, pipeVars
<1>3. CASE pc' = "fill" /\ fill' = 0
  BY <1>1, <1>3 DEF Filled, Devs
<1> QED
  BY <1>1, <1>2, <1>3

\* The launch Enqueue plans, and where it puts it.
NewSlot(d) == [base |-> next, n |-> LaunchLength(d),
               pk |-> [job |-> Midstate, try |-> next.try, line |-> LineOf(next.c)]]

LEMMA OneMoreFilled ==
  ASSUME TypeOK, StageInv, Enqueue
  PROVE  /\ active /\ active' /\ dev \in Devs /\ fill \in Slots /\ ~Filled(dev, fill)
         /\ \A d \in Devs, i \in Slots :
              /\ Filled(d, i)' <=> Filled(d, i) \/ (d = dev /\ i = fill)
              /\ slot'[d][i] = IF d = dev /\ i = fill THEN NewSlot(dev) ELSE slot[d][i]
         /\ UNCHANGED <<head, header, expect, cur, found>>
         /\ next' = Plus(next, LaunchLength(dev)) /\ mid' = Midstate
         /\ \/ dev < Devices /\ dev' = dev + 1 /\ UNCHANGED <<pc, fill>>
            \/ dev = Devices /\ dev' = 1 /\ pc = "fill" /\ fill = 0 /\ fill' = 1 /\ pc' = "fill"
            \/ dev = Devices /\ dev' = 1 /\ pc = "fill" /\ fill = 1 /\ fill' = 1
               /\ pc' = "collect"
            \/ dev = Devices /\ dev' = 1 /\ pc = "refill" /\ pc' = "round" /\ fill' = fill
<1>1. /\ active /\ active' /\ dev \in Devs /\ fill \in Slots /\ ~Filled(dev, fill)
      /\ UNCHANGED <<head, header, expect, cur, found>>
      /\ next' = Plus(next, LaunchLength(dev)) /\ mid' = Midstate
      /\ pc \in {"fill", "refill"} /\ fill \in {0, 1} /\ dev \in 1..Devices
  BY DEF Enqueue, StageInv, Filled, TypeOK, Devs, Slots, Plan
<1>2. \/ dev < Devices /\ dev' = dev + 1 /\ UNCHANGED <<pc, fill>>
      \/ dev = Devices /\ dev' = 1 /\ pc = "fill" /\ fill = 0 /\ fill' = 1 /\ pc' = "fill"
      \/ dev = Devices /\ dev' = 1 /\ pc = "fill" /\ fill = 1 /\ fill' = 1 /\ pc' = "collect"
      \/ dev = Devices /\ dev' = 1 /\ pc = "refill" /\ pc' = "round" /\ fill' = fill
  <2>1. dev < Devices \/ dev = Devices
    BY <1>1, Bounds
  <2>2. CASE dev < Devices
    BY <2>2 DEF Enqueue, AfterRound
  <2>3. CASE dev = Devices
    <3>1. ~(dev < Devices)
      BY <1>1, <2>3, Bounds
    <3> QED
      BY <1>1, <2>3, <3>1 DEF Enqueue, AfterRound
  <2> QED
    BY <2>1, <2>2, <2>3
<1>3. \A d \in Devs, i \in Slots :
        slot'[d][i] = IF d = dev /\ i = fill THEN NewSlot(dev) ELSE slot[d][i]
  BY <1>1 DEF Enqueue, Planned, NewSlot, TypeOK
<1>4. \A d \in Devs, i \in Slots : Filled(d, i)' <=> Filled(d, i) \/ (d = dev /\ i = fill)
  <2>1. \A d \in Devs : d \in 1..Devices
    BY DEF Devs
  <2> QED
    BY <1>1, <1>2, <2>1, Bounds DEF Filled, Slots
<1> QED
  BY <1>1, <1>2, <1>3, <1>4

\* A round collected, or a part of it.
LEMMA PartCollected ==
  ASSUME TypeOK, StageInv, Collect
  PROVE  /\ pc = "collect" /\ active /\ active' /\ dev \in Devs
         /\ UNCHANGED <<slot, next, header, mid, cur, job, attempt, first, stream, readBack>>
         /\ \A d, i : Filled(d, i)
         /\ found' = found + slot[dev][head].n
         /\ searched' = searched \cup Counters(slot[dev][head])
         /\ \/ /\ dev < Devices /\ dev' = dev + 1 /\ UNCHANGED <<pc, expect, head, fill>>
               /\ \A d, i : Filled(d, i)'
            \/ /\ dev = Devices /\ dev' = 1 /\ pc' = "refill" /\ fill' = head
               /\ head' = OtherSlot /\ OtherSlot' = head /\ expect' = Plus(expect, found')
               /\ \A d \in Devs, i \in Slots : Filled(d, i)' <=> i = head'
<1>1. /\ pc = "collect" /\ active /\ active' /\ dev \in 1..Devices /\ head \in {0, 1}
      /\ UNCHANGED <<slot, next, header, mid, cur, job, attempt, first, stream, readBack>>
      /\ found' = found + slot[dev][head].n
      /\ searched' = searched \cup Counters(slot[dev][head])
  BY DEF Collect, StageInv, TypeOK, Devs, Slots
<1>2. CASE dev < Devices
  BY <1>1, <1>2 DEF Collect, Filled, Devs
<1>3. CASE ~(dev < Devices)
  <2>1. /\ dev = Devices /\ dev' = 1 /\ pc' = "refill" /\ fill' = head
        /\ head' = OtherSlot /\ expect' = Plus(expect, found')
    BY <1>1, <1>3, Bounds DEF Collect
  <2>2. OtherSlot' = head
    BY <1>1, <2>1 DEF OtherSlot
  <2>3. \A d \in Devs, i \in Slots : Filled(d, i)' <=> i = head'
    <3>1. \A d \in Devs : ~(d < 1)
      BY DEF Devs
    <3>2. \A i \in Slots : i # head <=> i = OtherSlot
      BY <1>1 DEF Slots, OtherSlot
    <3> QED
      BY <1>1, <2>1, <3>1, <3>2 DEF Filled
  <2> QED
    BY <1>1, <2>1, <2>2, <2>3 DEF Filled, Devs
<1> QED
  BY <1>2, <1>3

LEMMA StageStep ==
  ASSUME TypeOK, StageInv, [Next]_vars
  PROVE  StageInv'
<1> USE DEF StageInv
<1>1. CASE LoopStep
  <2>1. cur'.try = attempt'
    BY <1>1 DEF LoopStep, StartJob, LoopCheck, RoundDone, Release, Plus, TypeOK, Counter
  <2> QED
    BY <1>1, <2>1, PipeUnchanged
<1>2. CASE OutsideStep
  BY <1>2, PipeUnchanged DEF pipeVars, loopVars, OtherSlot
<1>3. CASE ForgetStep
  BY <1>3, Forgotten
<1>4. CASE SearchEnter
  BY <1>4, SearchWays DEF pipeVars
<1>5. CASE Enqueue
  <2>1. UNCHANGED <<job, attempt>>
    BY <1>5 DEF Enqueue
  <2> QED
    BY <1>5, <2>1, OneMoreFilled DEF OtherSlot
<1>6. CASE Collect
  BY <1>6, PartCollected
<1> QED
  BY StepCases, <1>1, <1>2, <1>3, <1>4, <1>5, <1>6

-----------------------------------------------------------------------------
(***************************************************************************)
(* The chain of counters, and what was collected of it.                     *)
(***************************************************************************)

\* The chain goes on with the launch at q.next.
LEMMA EnqueueChains ==
  ASSUME TypeOK, StageInv, ChainInv, Enqueue
  PROVE  ChainInv'
<1> USE OneMoreFilled
<1>0. /\ pc \in {"fill", "refill"} /\ head \in {0, 1} /\ fill \in {0, 1} /\ Devices >= 1
      /\ Devices \in Nat /\ dev \in 1..Devices /\ active /\ Devs = 1..Devices
      /\ 1 \in Devs /\ Devices \in Devs /\ Slots = {0, 1} /\ OtherSlot \in Slots
      /\ OtherSlot' = OtherSlot /\ OtherSlot # head /\ head \in Slots
  BY Bounds, SlotsInTurn DEF Enqueue, StageInv, TypeOK, Slots, Devs, OtherSlot
<1>1. /\ \A d \in Devs, i \in Slots : ~(d = dev /\ i = fill) => Behind(d, i)' = Behind(d, i)
      /\ Plus(slot'[dev][fill].base, slot'[dev][fill].n) = next'
  BY <1>0 DEF Behind, NewSlot
<1>2. \A i \in Slots : i # fill /\ i = head => pc = "refill" \/ fill = 1
  BY <1>0 DEF StageInv
<1>3. fill = head \/ fill = OtherSlot
  BY <1>0 DEF OtherSlot
<1>4. dev = 1 => next = (IF fill = head THEN expect ELSE Behind(Devices, head))
  BY <1>0 DEF ChainInv, NextPlace
<1>5. dev > 1 => next = Behind(dev - 1, fill)
  BY <1>0 DEF ChainInv, NextPlace
<1>6. NextPlace'
  <2>1. CASE dev < Devices
    <3>1. dev' = dev + 1 /\ UNCHANGED <<pc, fill>> /\ dev' > 1 /\ dev' - 1 = dev
      BY <1>0, <2>1
    <3> QED
      BY <1>0, <1>1, <3>1 DEF NextPlace, Behind
  <2>2. CASE dev = Devices /\ dev' = 1 /\ pc = "fill" /\ fill = 0 /\ fill' = 1 /\ pc' = "fill"
    <3>1. head' = 0 /\ fill = head
      BY <1>0, <2>2 DEF StageInv
    <3> QED
      BY <1>0, <1>1, <2>2, <3>1 DEF NextPlace, Behind
  <2>3. CASE dev = Devices /\ pc' \in {"collect", "round"} /\ fill = OtherSlot
    BY <1>0, <1>1, <2>3 DEF NextPlace, Behind
  <2>4. pc = "fill" /\ fill = 1 => fill = OtherSlot
    BY <1>0 DEF StageInv, OtherSlot
  <2>5. pc = "refill" => fill = OtherSlot
    BY DEF StageInv
  <2> QED
    BY <1>0, <2>1, <2>2, <2>3, <2>4, <2>5
<1>7. Filled(1, head)' => slot'[1][head] .base = expect
  <2>1. CASE dev = 1 /\ fill = head
    BY <1>0, <1>4, <2>1 DEF NewSlot
  <2>2. CASE ~(dev = 1 /\ fill = head)
    BY <1>0, <2>2 DEF ChainInv
  <2> QED
    BY <2>1, <2>2
<1>8. Filled(1, OtherSlot)' => slot'[1][OtherSlot].base = Behind(Devices, head)'
  <2>1. CASE dev = 1 /\ fill = OtherSlot
    BY <1>0, <1>1, <1>4, <2>1 DEF NewSlot
  <2>2. CASE ~(dev = 1 /\ fill = OtherSlot)
    <3>1. Filled(1, OtherSlot)' <=> Filled(1, OtherSlot)
      BY <1>0, <2>2
    <3>2. Filled(1, OtherSlot) => fill # head
      BY <1>0, <1>3 DEF Filled, StageInv
    <3> QED
      BY <1>0, <1>1, <2>2, <3>1, <3>2 DEF ChainInv
  <2> QED
    BY <2>1, <2>2
<1>9. ASSUME NEW d \in Devs, NEW i \in Slots, d > 1, Filled(d, i)'
      PROVE  slot'[d][i].base = Behind(d - 1, i)'
  <2>0. d - 1 \in Devs /\ d - 1 # d
    BY <1>0, <1>9
  <2>1. CASE d = dev /\ i = fill
    BY <1>0, <1>1, <1>5, <1>9, <2>0, <2>1 DEF NewSlot
  <2>2. CASE ~(d = dev /\ i = fill)
    <3>1. Filled(d, i)
      BY <1>9, <2>2
    <3>2. ~(d - 1 = dev /\ i = fill)
      BY <1>0, <1>9, <3>1 DEF Filled
    <3> QED
      BY <1>0, <1>1, <1>9, <2>0, <2>2, <3>1, <3>2 DEF ChainInv
  <2> QED
    BY <2>1, <2>2
<1>10. UNCHANGED <<head, expect, OtherSlot>>
  BY <1>0
<1> QED
  BY <1>6, <1>7, <1>8, <1>9, <1>10 DEF ChainInv

\* A round less: the chain begins behind it.
LEMMA CollectChains ==
  ASSUME TypeOK, StageInv, ChainInv, FoundInv, Collect
  PROVE  ChainInv'
<1> USE PartCollected
<1>0. head \in Slots /\ OtherSlot \in Slots /\ OtherSlot # head /\ 1 \in Devs /\ Devices \in Devs
      /\ slot[dev][head].n \in Nat /\ found \in Nat /\ expect = cur /\ cur \in Counter
  BY Bounds, SlotsInTurn DEF TypeOK, Slot, StageInv
<1>1. CASE /\ dev < Devices /\ UNCHANGED <<pc, expect, head, fill>> /\ \A d, i : Filled(d, i)'
  BY <1>1 DEF ChainInv, NextPlace, Behind, OtherSlot
<1>2. CASE /\ dev = Devices /\ dev' = 1 /\ pc' = "refill" /\ fill' = head
           /\ head' = OtherSlot /\ OtherSlot' = head /\ expect' = Plus(expect, found')
           /\ \A d \in Devs, i \in Slots : Filled(d, i)' <=> i = head'
  <2>1. NextPlace'
    BY <1>0, <1>2 DEF ChainInv, NextPlace, Behind
  <2>2. slot[1][OtherSlot].base = Behind(Devices, head)
    BY DEF ChainInv
  <2>3. Behind(Devices, head) = Plus(Plus(cur, found), slot[dev][head].n)
    BY <1>2 DEF Behind, FoundInv
  <2>4. Behind(Devices, head) = expect'
    <3>1. /\ Plus(Plus(cur, found), slot[dev][head].n) = Plus(cur, found + slot[dev][head].n)
          /\ found' = found + slot[dev][head].n
      BY <1>0, PlusPlus
    <3> QED
      BY <1>0, <1>2, <2>3, <3>1
  <2>5. slot'[1][head'].base = expect'
    BY <1>2, <2>2, <2>4
  <2>6. ~Filled(1, OtherSlot)'
    BY <1>0, <1>2
  <2>7. \A d \in Devs, i \in Slots : d > 1 /\ Filled(d, i)' => slot'[d][i].base = Behind(d - 1, i)'
    BY DEF ChainInv, Behind
  <2> QED
    BY <2>1, <2>5, <2>6, <2>7 DEF ChainInv
<1> QED
  BY <1>1, <1>2

LEMMA ChainStep ==
  ASSUME TypeOK, StageInv, ChainInv, FoundInv, [Next]_vars
  PROVE  ChainInv'
<1>1. CASE LoopStep
  BY <1>1, PipeUnchanged DEF ChainInv, NextPlace, Behind, OtherSlot, pipeVars
<1>2. CASE OutsideStep
  BY <1>2, PipeUnchanged DEF ChainInv, NextPlace, Behind, OtherSlot, pipeVars, loopVars
<1>3. CASE ForgetStep
  BY <1>3, Forgotten DEF ChainInv
<1>4. CASE SearchEnter
  <2>1. CASE pc' = "idle" /\ ~active'
    BY <2>1 DEF ChainInv
  <2>2. CASE pc' = "collect"
    BY <1>4, <2>2, SearchWays DEF ChainInv, NextPlace, Behind, OtherSlot, pipeVars
  <2>3. CASE pc' = "fill"
    <3>1. /\ \A d \in Devs, i \in Slots : ~Filled(d, i)'
          /\ dev' = 1 /\ fill' = 0 /\ head' = 0 /\ next' = expect' /\ OtherSlot' = 1
      BY <1>4, <2>3, SearchWays DEF OtherSlot
    <3> QED
      BY <2>3, <3>1, Bounds DEF ChainInv, NextPlace, Slots
  <2> QED
    BY <1>4, <2>1, <2>2, <2>3, SearchWays
<1>5. CASE Enqueue
  BY <1>5, EnqueueChains
<1>6. CASE Collect
  BY <1>6, CollectChains
<1> QED
  BY StepCases, <1>1, <1>2, <1>3, <1>4, <1>5, <1>6

LEMMA FoundStep ==
  ASSUME TypeOK, StageInv, ChainInv, FoundInv, [Next]_vars
  PROVE  FoundInv'
<1>0. cur \in Counter /\ cur.c \in Nat /\ found \in Nat /\ head \in Slots /\ dev \in Devs
      /\ first \in Nat
  BY DEF TypeOK, Counter
<1>1. CASE LoopStep
  <2>1. CASE StartJob
    <3>1. /\ pc' = "loop" /\ cur' = [try |-> attempt', c |-> first'] /\ searched' = {}
          /\ first' \in Nat
      BY <2>1, Bounds DEF StartJob
    <3>2. \A a \in Nat : a..(a - 1) = {} /\ a <= a
      OBVIOUS
    <3>3. cur'.c = first'
      BY <3>1
    <3> QED
      BY <3>1, <3>2, <3>3 DEF FoundInv, SearchedTo
  <2>2. CASE LoopCheck \/ Release
    BY <2>2 DEF LoopCheck, Release, FoundInv, SearchedTo, loopVars
  <2>3. CASE RoundDone
    <3>1. UNCHANGED <<first, searched>> /\ pc = "round" /\ pc' \in {"idle", "loop"}
          /\ (pc' = "loop" => cur' = Plus(cur, found))
      BY <2>3 DEF RoundDone
    <3>2. pc' = "loop" => cur'.c = cur.c + found
      BY <1>0, <3>1, CounterPlus
    <3> QED
      BY <3>1, <3>2 DEF FoundInv, SearchedTo
  <2> QED
    BY <1>1, <2>1, <2>2, <2>3 DEF LoopStep
<1>2. CASE OutsideStep
  BY <1>2, PipeUnchanged DEF FoundInv, SearchedTo, loopVars, pipeVars
<1>3. CASE ForgetStep
  <2>1. pc' = "round" => pc = "refill"
    BY <1>3 DEF ForgetStep, EnqueueFails, CollectFails, Shutdown
  <2> QED
    BY <1>3, <2>1, Forgotten DEF FoundInv, SearchedTo
<1>4. CASE SearchEnter
  <2>1. CASE pc' = "idle"
    BY <2>1 DEF FoundInv, SearchedTo
  <2>2. CASE pc' = "collect"
    <3>1. /\ pc = "search" /\ dev' = 1 /\ found' = 0 /\ expect = cur /\ Filled(1, head)
          /\ active /\ UNCHANGED <<pipeVars, slot, cur, first, searched>>
      BY <1>4, <2>2, SearchWays
    <3>2. slot'[dev'][head'].base = cur'
      BY <3>1 DEF ChainInv, pipeVars
    <3>3. Plus(cur, 0) = cur /\ cur.c + 0 = cur.c
      BY <1>0, PlusPlus
    <3> QED
      BY <2>2, <3>1, <3>2, <3>3 DEF FoundInv, SearchedTo
  <2>3. CASE pc' = "fill"
    BY <1>4, <2>3, SearchWays DEF FoundInv, SearchedTo
  <2> QED
    BY <1>4, <2>1, <2>2, <2>3, SearchWays
<1>5. CASE Enqueue
  <2>1. UNCHANGED <<first, searched, cur, found>> /\ pc \in {"fill", "refill"}
    BY <1>5 DEF Enqueue
  <2>2. CASE pc' = pc
    BY <2>1, <2>2 DEF FoundInv, SearchedTo
  <2>3. CASE pc' = "round" /\ pc = "refill"
    BY <2>1, <2>3 DEF FoundInv, SearchedTo
  <2>4. CASE pc = "fill" /\ pc' = "collect"
    <3>1. ChainInv' /\ StageInv' /\ active' /\ dev' = 1 /\ \A d, i : Filled(d, i)'
      <4>1. ChainInv' /\ StageInv'
        BY <1>5, EnqueueChains, StageStep DEF Next, HostStep
      <4>2. dev' = 1 /\ active'
        BY <1>5, <2>4, OneMoreFilled
      <4> QED
        BY <2>4, <4>1, <4>2 DEF Filled
    <3>2. slot'[dev'][head'].base = expect' /\ expect' = cur' /\ found' = 0
      BY <2>1, <2>4, <3>1 DEF ChainInv, StageInv
    <3>3. Plus(cur, 0) = cur /\ cur.c + 0 = cur.c
      BY <1>0, PlusPlus
    <3> QED
      BY <2>1, <2>4, <3>2, <3>3 DEF FoundInv, SearchedTo
  <2> QED
    BY <1>5, <2>2, <2>3, <2>4, OneMoreFilled
<1>6. CASE Collect
  <2> DEFINE n == slot[dev][head].n
  <2>1. /\ pc = "collect" /\ found' = found + n /\ n \in Nat
        /\ UNCHANGED <<cur, first, slot>>
        /\ slot[dev][head].base = Plus(cur, found)
    BY <1>0, <1>6, PartCollected DEF FoundInv, TypeOK, Slot
  <2>2. slot[dev][head].base.c = cur.c + found
    BY <1>0, <2>1, CounterPlus
  <2>3. searched' = (first..(cur.c + found - 1)) \cup ((cur.c + found)..(cur.c + found + n - 1))
    <3>1. Counters(slot[dev][head]) = (cur.c + found)..(cur.c + found + n - 1)
      BY <2>2 DEF Counters
    <3>2. searched = first..(cur.c + found - 1)
      BY <1>0, <2>1 DEF FoundInv, SearchedTo
    <3> QED
      BY <1>6, <3>1, <3>2, PartCollected
  <2>4. first <= cur.c + found
    BY <2>1 DEF FoundInv, SearchedTo
  <2>5. searched' = first..(cur.c + found' - 1) /\ first <= cur.c + found'
    <3>1. \A a, b, m \in Nat : a <= b =>
            (a..(b - 1)) \cup (b..(b + m - 1)) = a..(b + m - 1) /\ a <= b + m
      OBVIOUS
    <3>2. cur.c + found \in Nat /\ cur.c + found' = cur.c + found + n
      BY <1>0, <2>1
    <3> QED
      BY <1>0, <2>1, <2>3, <2>4, <3>1, <3>2
  <2>7. SearchedTo(cur.c + found)'
    <3>1. found' \in Nat
      BY <1>0, <2>1
    <3> QED
      BY <1>0, <2>1, <2>5, <3>1 DEF SearchedTo
  <2>8. pc' \in {"collect", "refill"}
    BY <1>6, PartCollected
  <2>6. pc' = "collect" => slot'[dev'][head'].base = Plus(cur', found')
    <3> SUFFICES ASSUME pc' = "collect" PROVE slot'[dev'][head'].base = Plus(cur', found')
      OBVIOUS
    <3>1. dev' = dev + 1 /\ dev < Devices /\ head' = head /\ Filled(dev + 1, head) /\ active
      BY <1>6, PartCollected
    <3>2. dev + 1 \in Devs /\ dev + 1 > 1 /\ (dev + 1) - 1 = dev
      BY <1>0, <3>1, Bounds DEF Devs
    <3>3. slot[dev + 1][head].base = Behind(dev, head)
      BY <1>0, <3>1, <3>2 DEF ChainInv
    <3>4. Behind(dev, head) = Plus(cur, found + n)
      BY <1>0, <2>1, PlusPlus DEF Behind
    <3> QED
      BY <2>1, <3>1, <3>3, <3>4
  <2> QED
    BY <2>6, <2>7, <2>8 DEF FoundInv
<1> QED
  BY StepCases, <1>1, <1>2, <1>3, <1>4, <1>5, <1>6

-----------------------------------------------------------------------------
(***************************************************************************)
(* Constants and results.                                                   *)
(***************************************************************************)

LEMMA ConstantStep ==
  ASSUME TypeOK, StageInv, ChainInv, ConstantInv, [Next]_vars
  PROVE  ConstantInv'
<1>0. expect \in Counter /\ next \in Counter /\ expect' \in Counter
  BY TypeStep DEF TypeOK
<1>1. CASE LoopStep \/ OutsideStep
  BY <1>1, PipeUnchanged DEF ConstantInv, pipeVars
<1>2. CASE ForgetStep
  BY <1>2, Forgotten DEF ConstantInv
<1>3. CASE SearchEnter
  BY <1>3, SearchWays DEF ConstantInv, pipeVars
<1>4. CASE Enqueue
  <2>1. /\ active /\ UNCHANGED <<header, expect>> /\ dev \in Devs
        /\ next' = Plus(next, LaunchLength(dev)) /\ mid' = Midstate
    BY <1>4, OneMoreFilled
  <2>2. Midstate = header /\ next.try = expect.try
    BY <2>1 DEF ConstantInv, Midstate
  <2>3. next'.try = expect'.try
    BY <1>0, <2>1, <2>2, LaunchOnLine, CounterPlus
  <2>4. /\ NewSlot(dev).base.try = expect.try
        /\ NewSlot(dev).pk = [job |-> header, try |-> expect.try,
                              line |-> LineOf(NewSlot(dev).base.c)]
        /\ PlaceOf(NewSlot(dev).base.c) + NewSlot(dev).n <= LineSpan
    BY <2>1, <2>2, LaunchOnLine DEF NewSlot
  <2>5. \A d \in Devs, i \in Slots : Filled(d, i)' =>
          \/ slot'[d][i] = NewSlot(dev)
          \/ Filled(d, i) /\ slot'[d][i] = slot[d][i]
    BY <1>4, OneMoreFilled
  <2> QED
    BY <2>1, <2>2, <2>3, <2>4, <2>5 DEF ConstantInv
<1>5. CASE Collect
  <2>1. /\ active /\ UNCHANGED <<slot, next, header, mid>>
        /\ \A d, i : Filled(d, i)
        /\ expect' = expect \/ expect' = Plus(expect, found')
    BY <1>5, PartCollected
  <2>2. found' \in Nat
    BY TypeStep DEF TypeOK
  <2>3. expect'.try = expect.try
    BY <1>0, <2>1, <2>2, CounterPlus
  <2> QED
    BY <2>1, <2>3 DEF ConstantInv
<1> QED
  BY StepCases, <1>1, <1>2, <1>3, <1>4, <1>5

\* A device that has run its oldest launch.
LEMMA OneLaunchLess ==
  ASSUME TypeOK, NEW d \in Devs, DeviceRuns(d)
  PROVE  /\ Len(stream[d]) \in Nat /\ Len(stream[d]) >= 1
         /\ Len(stream'[d]) = Len(stream[d]) - 1
         /\ \A k \in 1..Len(stream'[d]) :
              k + 1 \in 1..Len(stream[d]) /\ stream'[d][k] = stream[d][k + 1]
         /\ \A i : \A k \in Nat \ {0} :
              NoneFrom(stream'[d], k, i) <=> NoneFrom(stream[d], k + 1, i)
         /\ stream[d][1].slot \in Slots
         /\ \A i \in Slots : readBack'[d][i] =
              IF stream[d][1].slot = i
              THEN [pk |-> slot[d][i].pk, t |-> stream[d][1].t, n |-> stream[d][1].n]
              ELSE readBack[d][i]
         /\ \A o \in Devs \ {d} : stream'[o] = stream[o] /\ readBack'[o] = readBack[o]
<1>1. /\ stream[d] \in Queue /\ stream[d] # <<>> /\ stream \in [Devs -> Queue]
      /\ readBack \in [Devs -> [Slots -> Result]]
  BY DEF DeviceRuns, TypeOK
<1>2. /\ Len(stream[d]) \in Nat /\ Len(stream[d]) >= 1
      /\ Head(stream[d]) = stream[d][1] /\ Head(stream[d]) \in [slot: Slots, t: Nat, n: Nat]
      /\ Len(Tail(stream[d])) = Len(stream[d]) - 1
      /\ \A k \in 1..Len(Tail(stream[d])) : Tail(stream[d])[k] = stream[d][k + 1]
  <2> DEFINE Launch == [slot: Slots, t: Nat, n: Nat]
             q == stream[d]
  <2>1. q \in Seq(Launch) /\ q # <<>>
    BY <1>1 DEF Queue
  <2> HIDE DEF Launch, q
  <2>2. /\ Len(q) \in Nat /\ Len(q) >= 1 /\ Head(q) = q[1] /\ Head(q) \in Launch
        /\ Len(Tail(q)) = Len(q) - 1
        /\ \A k \in 1..Len(Tail(q)) : Tail(q)[k] = q[k + 1]
    BY <2>1, HeadTailProperties, LenProperties
  <2> QED
    BY <2>2 DEF q, Launch
<1>3. stream'[d] = Tail(stream[d]) /\ \A o \in Devs \ {d} : stream'[o] = stream[o]
  BY <1>1 DEF DeviceRuns
<1>4. /\ \A o \in Devs \ {d} : readBack'[o] = readBack[o]
      /\ \A i \in Slots : readBack'[d][i] =
           IF stream[d][1].slot = i
           THEN [pk |-> slot[d][i].pk, t |-> stream[d][1].t, n |-> stream[d][1].n]
           ELSE readBack[d][i]
  BY <1>1, <1>2 DEF DeviceRuns
<1>5. ASSUME NEW i, NEW k \in Nat \ {0}
      PROVE  NoneFrom(stream'[d], k, i) <=> NoneFrom(stream[d], k + 1, i)
  <2>1. Len(stream'[d]) = Len(stream[d]) - 1 /\ Len(stream[d]) \in Nat
    BY <1>2, <1>3
  <2>2. \A m \in 1..Len(stream'[d]) : stream'[d][m] = stream[d][m + 1]
    BY <1>2, <1>3
  <2>3. ASSUME NoneFrom(stream'[d], k, i), NEW m \in (k + 1)..Len(stream[d])
        PROVE  stream[d][m].slot # i
    <3>1. m - 1 \in k..Len(stream'[d]) /\ m - 1 \in 1..Len(stream'[d]) /\ (m - 1) + 1 = m
      BY <1>5, <2>1, <2>3
    <3> QED
      BY <2>2, <2>3, <3>1 DEF NoneFrom
  <2>4. ASSUME NoneFrom(stream[d], k + 1, i), NEW m \in k..Len(stream'[d])
        PROVE  stream'[d][m].slot # i
    <3>1. m + 1 \in (k + 1)..Len(stream[d]) /\ m \in 1..Len(stream'[d])
      BY <1>5, <2>1, <2>4
    <3> QED
      BY <2>2, <2>4, <3>1 DEF NoneFrom
  <2> QED
    BY <2>3, <2>4 DEF NoneFrom
<1> QED
  BY <1>2, <1>3, <1>4, <1>5

\* A device with one launch more.
LEMMA OneLaunchMore ==
  ASSUME TypeOK, NEW d \in Devs
  PROVE  /\ Len(stream[d]) \in Nat /\ Len(Queued(d)[d]) = Len(stream[d]) + 1
         /\ \A k \in 1..Len(stream[d]) : Queued(d)[d][k] = stream[d][k]
         /\ Queued(d)[d][Len(stream[d]) + 1] =
              [slot |-> fill, t |-> PlaceOf(next.c), n |-> LaunchLength(d)]
         /\ \A o \in Devs \ {d} : Queued(d)[o] = stream[o]
<1> DEFINE Launch == [slot: Slots, t: Nat, n: Nat]
           new == [slot |-> fill, t |-> PlaceOf(next.c), n |-> LaunchLength(d)]
           q == stream[d]
<1>1. PlaceOf(next.c) \in Nat /\ LaunchLength(d) \in Nat
  BY LaunchOnLine, PlaceInLine DEF TypeOK, Counter
<1>2. new \in Launch /\ q \in Seq(Launch)
  BY <1>1 DEF TypeOK, Queue
<1>3. Queued(d)[d] = Append(q, new) /\ \A o \in Devs \ {d} : Queued(d)[o] = stream[o]
  BY DEF Queued, TypeOK
<1> HIDE DEF Launch, new, q
<1>4. /\ Len(q) \in Nat /\ Len(Append(q, new)) = Len(q) + 1
      /\ \A k \in 1..Len(q) : Append(q, new)[k] = q[k]
      /\ Append(q, new)[Len(q) + 1] = new
  BY <1>2, AppendProperties, LenProperties
<1> QED
  BY <1>3, <1>4 DEF new, q

LEMMA ResultStep ==
  ASSUME TypeOK, StageInv, ResultInv, [Next]_vars
  PROVE  ResultInv'
<1>1. CASE LoopStep \/ Cancel \/ UNCHANGED vars
  <2>1. UNCHANGED <<stream, readBack, slot>> /\ \A d, i : Filled(d, i)' <=> Filled(d, i)
    BY <1>1, PipeUnchanged DEF OutsideStep, Cancel, vars, devVars
  <2> QED
    BY <2>1 DEF ResultInv
<1>2. ASSUME NEW d \in Devs, DeviceRuns(d)
      PROVE  ResultInv'
  <2>1. slot' = slot /\ \A o, i : Filled(o, i)' <=> Filled(o, i)
    BY <1>2, PipeUnchanged DEF OutsideStep
  <2> SUFFICES ASSUME NEW o \in Devs, NEW i \in Slots, Filled(o, i)
               PROVE  /\ \A k \in 1..Len(stream'[o]) :
                           stream'[o][k].slot = i /\ NoneFrom(stream'[o], k + 1, i) =>
                             /\ stream'[o][k].t = PlaceOf(slot[o][i].base.c)
                             /\ stream'[o][k].n = slot[o][i].n
                      /\ NoneFrom(stream'[o], 1, i) =>
                           readBack'[o][i] = [pk |-> slot[o][i].pk,
                             t |-> PlaceOf(slot[o][i].base.c), n |-> slot[o][i].n]
    BY <2>1 DEF ResultInv
  <2>2. CASE o # d
    BY <1>2, <2>2, OneLaunchLess DEF ResultInv
  <2>3. CASE o = d
    <3>0. /\ \A k \in 1..Len(stream[d]) :
               stream[d][k].slot = i /\ NoneFrom(stream[d], k + 1, i) =>
                 /\ stream[d][k].t = PlaceOf(slot[d][i].base.c)
                 /\ stream[d][k].n = slot[d][i].n
          /\ NoneFrom(stream[d], 1, i) =>
               readBack[d][i] = [pk |-> slot[d][i].pk,
                 t |-> PlaceOf(slot[d][i].base.c), n |-> slot[d][i].n]
      BY <2>3 DEF ResultInv
    <3>1. ASSUME NEW k \in 1..Len(stream'[d]), stream'[d][k].slot = i,
                 NoneFrom(stream'[d], k + 1, i)
          PROVE  stream'[d][k].t = PlaceOf(slot[d][i].base.c) /\ stream'[d][k].n = slot[d][i].n
      <4>1. k + 1 \in 1..Len(stream[d]) /\ stream'[d][k] = stream[d][k + 1]
        BY <1>2, OneLaunchLess
      <4>2. Len(stream[d]) \in Nat
        BY <1>2, OneLaunchLess
      <4>3. k + 1 \in Nat \ {0}
        BY <4>1, <4>2
      <4>4. NoneFrom(stream[d], (k + 1) + 1, i)
        BY <1>2, <3>1, <4>3, OneLaunchLess
      <4> QED
        BY <3>0, <3>1, <4>1, <4>4
    <3>2. ASSUME NoneFrom(stream'[d], 1, i)
          PROVE  readBack'[d][i] = [pk |-> slot[d][i].pk,
                                    t |-> PlaceOf(slot[d][i].base.c), n |-> slot[d][i].n]
      <4>0. Len(stream[d]) \in Nat /\ 1 \in 1..Len(stream[d])
        BY <1>2, OneLaunchLess
      <4>1. NoneFrom(stream[d], 1 + 1, i)
        <5>1. 1 \in Nat \ {0}
          OBVIOUS
        <5> QED
          BY <1>2, <3>2, <5>1, OneLaunchLess
      <4>2. CASE stream[d][1].slot = i
        <5>1. stream[d][1].t = PlaceOf(slot[d][i].base.c) /\ stream[d][1].n = slot[d][i].n
          BY <3>0, <4>0, <4>1, <4>2
        <5> QED
          BY <1>2, <4>2, <5>1, OneLaunchLess
      <4>3. CASE stream[d][1].slot # i
        <5>1. NoneFrom(stream[d], 1, i)
          BY <4>0, <4>1, <4>3 DEF NoneFrom
        <5>2. readBack'[d][i] = readBack[d][i]
          BY <1>2, <4>3, OneLaunchLess
        <5> QED
          BY <3>0, <5>1, <5>2
      <4> QED
        BY <4>2, <4>3
    <3> QED
      BY <2>3, <3>1, <3>2
  <2> QED
    BY <2>2, <2>3
<1>3. CASE ForgetStep
  <2>1. \A d, i : ~Filled(d, i)'
    BY <1>3, Forgotten DEF Filled
  <2> QED
    BY <2>1 DEF ResultInv
<1>4. CASE SearchEnter
  <2>1. CASE pc' \in {"idle", "fill"}
    <3>1. \A d \in Devs, i \in Slots : ~Filled(d, i)'
      BY <1>4, <2>1, SearchWays DEF Filled
    <3> QED
      BY <3>1 DEF ResultInv
  <2>2. CASE pc' = "collect"
    BY <1>4, <2>2, SearchWays DEF ResultInv, devVars
  <2> QED
    BY <1>4, <2>1, <2>2, SearchWays
<1>5. CASE Enqueue
  <2>0. /\ dev \in Devs /\ stream' = Queued(dev) /\ readBack' = readBack
        /\ \A d \in Devs, i \in Slots :
             /\ Filled(d, i)' <=> Filled(d, i) \/ (d = dev /\ i = fill)
             /\ slot'[d][i] = IF d = dev /\ i = fill THEN NewSlot(dev) ELSE slot[d][i]
    BY <1>5, OneMoreFilled DEF Enqueue
  <2> SUFFICES ASSUME NEW d \in Devs, NEW i \in Slots, Filled(d, i)'
               PROVE  /\ \A k \in 1..Len(stream'[d]) :
                           stream'[d][k].slot = i /\ NoneFrom(stream'[d], k + 1, i) =>
                             /\ stream'[d][k].t = PlaceOf(slot'[d][i].base.c)
                             /\ stream'[d][k].n = slot'[d][i].n
                      /\ NoneFrom(stream'[d], 1, i) =>
                           readBack'[d][i] = [pk |-> slot'[d][i].pk,
                             t |-> PlaceOf(slot'[d][i].base.c), n |-> slot'[d][i].n]
    BY DEF ResultInv
  <2>1. CASE d # dev
    <3>1. stream'[d] = stream[d] /\ slot'[d][i] = slot[d][i] /\ Filled(d, i)
      BY <2>0, <2>1, OneLaunchMore
    <3> QED
      BY <2>0, <3>1 DEF ResultInv
  <2>2. CASE d = dev
    <3> DEFINE q == stream[dev]
               r == stream'[dev]
               last == Len(q) + 1
    <3>1. /\ Len(q) \in Nat /\ Len(r) = last
          /\ \A k \in 1..Len(q) : r[k] = q[k]
          /\ r[last] = [slot |-> fill, t |-> PlaceOf(next.c), n |-> LaunchLength(dev)]
      BY <2>0, OneLaunchMore
    <3> HIDE DEF q, r
    <3>2. last \in Nat /\ last >= 1 /\ \A k \in 1..last : k \in 1..Len(q) \/ k = last
      BY <3>1
    <3>3. CASE i = fill
      <4>1. slot'[d][i].base.c = next.c /\ slot'[d][i].n = LaunchLength(dev)
        BY <2>0, <2>2, <3>3 DEF NewSlot
      <4>2. \A k \in 1..last : NoneFrom(r, k + 1, i) => k = last
        BY <3>1, <3>2, <3>3 DEF NoneFrom
      <4>3. ~NoneFrom(r, 1, i)
        BY <3>1, <3>2, <3>3 DEF NoneFrom
      <4>4. \A k \in 1..Len(r) : r[k].slot = i /\ NoneFrom(r, k + 1, i) =>
              r[k].t = PlaceOf(slot'[d][i].base.c) /\ r[k].n = slot'[d][i].n
        BY <3>1, <4>1, <4>2
      <4> QED
        BY <2>2, <4>3, <4>4 DEF r
    <3>4. CASE i # fill
      <4>1. Filled(dev, i) /\ slot'[d][i] = slot[dev][i]
        BY <2>0, <2>2, <3>4
      <4>2. \A k \in 1..last : NoneFrom(r, k, i) => NoneFrom(q, k, i)
        BY <3>1, <3>2 DEF NoneFrom
      <4>3. \A k \in 1..last : r[k].slot = i => k \in 1..Len(q) /\ k + 1 \in 1..last
        BY <3>1, <3>2, <3>4
      <4>4. \A k \in 1..Len(r) : r[k].slot = i /\ NoneFrom(r, k + 1, i) =>
              q[k].slot = i /\ NoneFrom(q, k + 1, i) /\ r[k] = q[k] /\ k \in 1..Len(q)
        BY <3>1, <4>2, <4>3
      <4>5. NoneFrom(r, 1, i) => NoneFrom(q, 1, i)
        BY <3>2, <4>2
      <4>6. /\ \A k \in 1..Len(q) : q[k].slot = i /\ NoneFrom(q, k + 1, i) =>
                 q[k].t = PlaceOf(slot[dev][i].base.c) /\ q[k].n = slot[dev][i].n
            /\ NoneFrom(q, 1, i) =>
                 readBack[dev][i] = [pk |-> slot[dev][i].pk,
                   t |-> PlaceOf(slot[dev][i].base.c), n |-> slot[dev][i].n]
        BY <2>0, <4>1 DEF ResultInv, q
      <4>7. \A k \in 1..Len(r) : r[k].slot = i /\ NoneFrom(r, k + 1, i) =>
              r[k].t = PlaceOf(slot[dev][i].base.c) /\ r[k].n = slot[dev][i].n
        BY <4>4, <4>6
      <4> QED
        BY <2>0, <2>2, <4>1, <4>5, <4>6, <4>7 DEF r
    <3> QED
      BY <3>3, <3>4
  <2> QED
    BY <2>1, <2>2
<1>6. CASE Collect
  BY <1>6, PartCollected DEF ResultInv
<1> QED
  BY StepCases, <1>1, <1>2, <1>3, <1>4, <1>5, <1>6 DEF OutsideStep

-----------------------------------------------------------------------------
(***************************************************************************)
(* Launches on the devices.                                                 *)
(***************************************************************************)

LEMMA QueueLength ==
  ASSUME TypeOK
  PROVE  \A d \in Devs : Len(stream[d]) \in Nat
<1>1. \A d \in Devs : stream[d] \in Seq([slot: Slots, t: Nat, n: Nat])
  BY DEF TypeOK, Queue
<1> QED
  BY <1>1, LenProperties

\* A launch run leaves as much room or more.
LEMMA RoomLess ==
  ASSUME TypeOK, NEW d \in Devs, DeviceRuns(d)
  PROVE  \A o \in Devs, i \in Slots :
           /\ Len(stream'[o]) <= Len(stream[o]) /\ Len(stream'[o]) \in Nat
           /\ \A n, b \in 0..4 : Room(stream[o], n, i, b) => Room(stream'[o], n, i, b)
           /\ NoneFrom(stream[o], 1, i) => NoneFrom(stream'[o], 1, i)
<1> TAKE o \in Devs, i \in Slots
<1>1. CASE o # d
  <2>1. stream'[o] = stream[o]
    BY <1>1, OneLaunchLess
  <2> QED
    BY <2>1, QueueLength DEF Room
<1>2. CASE o = d
  <2> DEFINE len == Len(stream[d])
  <2>1. len \in Nat /\ len >= 1 /\ Len(stream'[d]) = len - 1
    BY OneLaunchLess
  <2>2. ASSUME NEW n \in 0..4, NEW b \in 0..4, Room(stream[d], n, i, b)
        PROVE  Room(stream'[d], n, i, b)
    <3>1. len <= n /\ (len > b => ~NoneFrom(stream[d], len - b, i))
      BY <2>2 DEF Room
    <3> HIDE DEF len
    <3>2. len - 1 <= n
      BY <2>1, <3>1
    <3>3. ASSUME len - 1 > b
          PROVE  ~NoneFrom(stream'[d], (len - 1) - b, i)
      <4>1. len > b /\ (len - 1) - b \in Nat \ {0} /\ ((len - 1) - b) + 1 = len - b
        BY <2>1, <3>3
      <4>2. NoneFrom(stream'[d], (len - 1) - b, i) <=> NoneFrom(stream[d], ((len - 1) - b) + 1, i)
        BY <4>1, OneLaunchLess
      <4> QED
        BY <3>1, <4>1, <4>2
    <3> QED
      BY <2>1, <3>2, <3>3 DEF Room
  <2>3. NoneFrom(stream[d], 1, i) => NoneFrom(stream'[d], 1, i)
    <3>1. \A k \in Nat \ {0} : NoneFrom(stream'[d], k, i) <=> NoneFrom(stream[d], k + 1, i)
      BY OneLaunchLess
    <3>4. 1 \in Nat \ {0} /\ 1 + 1 = 2
      OBVIOUS
    <3>5. NoneFrom(stream'[d], 1, i) <=> NoneFrom(stream[d], 1 + 1, i)
      BY <3>1, <3>4
    <3>2. NoneFrom(stream'[d], 1, i) <=> NoneFrom(stream[d], 2, i)
      BY <3>4, <3>5
    <3>3. NoneFrom(stream[d], 1, i) => NoneFrom(stream[d], 2, i)
      BY <2>1 DEF NoneFrom
    <3> QED
      BY <3>2, <3>3
  <2>4. Len(stream'[d]) <= Len(stream[d]) /\ Len(stream'[d]) \in Nat
    BY <2>1
  <2> QED
    BY <1>2, <2>2, <2>3, <2>4
<1> QED
  BY <1>1, <1>2

\* What one launch more for the slot being filled does to the room.
LEMMA RoomMore ==
  ASSUME TypeOK, NEW d \in Devs, stream' = Queued(d)
  PROVE  /\ \A o \in Devs \ {d} : stream'[o] = stream[o]
         /\ Len(stream'[d]) = Len(stream[d]) + 1
         /\ fill = 0 /\ Len(stream[d]) <= 2 => Room(stream'[d], 3, 0, 0)
         /\ fill = 1 /\ Room(stream[d], 3, 0, 0) => Room(stream'[d], 4, 0, 1)
         /\ \A h \in Slots :
              h # fill /\ Len(stream[d]) <= 1 /\ NoneFrom(stream[d], 1, fill) => Room(stream'[d], 2, h, 1)
<1> DEFINE q == stream[d]
           r == stream'[d]
           len == Len(q)
<1>1. /\ len \in Nat /\ Len(r) = len + 1
      /\ \A k \in 1..len : r[k] = q[k]
      /\ r[len + 1].slot = fill
      /\ \A o \in Devs \ {d} : stream'[o] = stream[o]
  <2>1. /\ len \in Nat /\ Len(Queued(d)[d]) = len + 1
        /\ \A k \in 1..len : Queued(d)[d][k] = q[k]
        /\ Queued(d)[d][len + 1] =
             [slot |-> fill, t |-> PlaceOf(next.c), n |-> LaunchLength(d)]
        /\ \A o \in Devs \ {d} : Queued(d)[o] = stream[o]
    BY OneLaunchMore
  <2>2. Queued(d)[d][len + 1].slot = fill
    BY <2>1
  <2> QED
    BY <2>1, <2>2
<1>2. \A k \in 1..len : q[k].slot \in Slots
  <2> DEFINE Launch == [slot: Slots, t: Nat, n: Nat]
  <2>1. q \in Seq(Launch)
    BY DEF TypeOK, Queue
  <2>2. \A l \in Launch : l.slot \in Slots
    OBVIOUS
  <2> HIDE DEF Launch, q
  <2>3. \A k \in 1..Len(q) : q[k] \in Launch
    BY <2>1, ElementOfSeq
  <2> QED
    BY <2>2, <2>3 DEF q
<1>3. ASSUME fill = 0, len <= 2
      PROVE  Room(stream'[d], 3, 0, 0)
  <2>1. len + 1 \in (len + 1)..(len + 1) /\ len + 1 <= 3 /\ (len + 1) - 0 = len + 1
    BY <1>1, <1>3
  <2>2. ~NoneFrom(r, Len(r) - 0, 0)
    BY <1>1, <1>3, <2>1 DEF NoneFrom
  <2> QED
    BY <1>1, <2>1, <2>2 DEF Room
<1>4. ASSUME fill = 1, Room(stream[d], 3, 0, 0)
      PROVE  Room(stream'[d], 4, 0, 1)
  <2>1. len <= 3 /\ (len > 0 => ~NoneFrom(q, len - 0, 0))
    BY <1>4 DEF Room
  <2>2. ASSUME len + 1 > 1
        PROVE  ~NoneFrom(r, (len + 1) - 1, 0)
    <3>1. len > 0 /\ len - 0 = len /\ (len + 1) - 1 = len /\ len \in 1..len
          /\ len \in len..(len + 1) /\ \A m \in len..len : m = len
      BY <1>1, <2>2
    <3>2. q[len].slot = 0
      BY <2>1, <3>1 DEF NoneFrom
    <3> QED
      BY <1>1, <3>1, <3>2 DEF NoneFrom
  <2>3. len + 1 <= 4
    BY <1>1, <2>1
  <2> QED
    BY <1>1, <2>2, <2>3 DEF Room
<1>5. ASSUME NEW h \in Slots, h # fill, len <= 1, NoneFrom(q, 1, fill)
      PROVE  Room(stream'[d], 2, h, 1)
  <2>1. ASSUME len + 1 > 1
        PROVE  ~NoneFrom(r, (len + 1) - 1, h)
    <3>0. \A k \in Nat : k <= 1 /\ k + 1 > 1 => k = 1
      OBVIOUS
    <3>1. len = 1
      BY <1>1, <1>5, <2>1, <3>0
    <3>5. 1 \in 1..len /\ 1 \in 1..2 /\ (len + 1) - 1 = 1 /\ len + 1 = 2
      BY <3>1
    <3>2. q[1].slot \in Slots /\ q[1].slot # fill
      BY <1>2, <1>5, <3>1, <3>5 DEF NoneFrom
    <3>3. q[1].slot = h
      BY <1>5, <3>2 DEF TypeOK, Slots
    <3>4. r[1].slot = h
      BY <1>1, <3>3, <3>5
    <3> QED
      BY <1>1, <3>4, <3>5 DEF NoneFrom
  <2>2. len + 1 <= 2
    BY <1>1, <1>5
  <2> QED
    BY <1>1, <2>1, <2>2 DEF Room
<1> QED
  BY <1>1, <1>3, <1>4, <1>5

\* The room of a wider bound.
LEMMA RoomWider ==
  ASSUME NEW queue, NEW i, Len(queue) \in Nat, Room(queue, 2, i, 1)
  PROVE  Room(queue, 4, i, 1)
BY DEF Room

LEMMA RoomStep ==
  ASSUME TypeOK, StageInv, RoomInv, [Next]_vars
  PROVE  RoomInv'
<1>0. \A d \in Devs : Len(stream[d]) \in Nat /\ Len(stream[d]) <= 4
  BY QueueLength DEF RoomInv
<1>1. CASE LoopStep
  <2>1. UNCHANGED <<stream, active, head, dev, fill>> /\ pc' \notin {"fill", "collect", "refill"}
    BY <1>1, PipeUnchanged DEF pipeVars
  <2>2. pc' \in {"idle", "loop", "search", "round"} => pc \in {"idle", "loop", "search", "round"}
    BY <1>1 DEF LoopStep, StartJob, LoopCheck, RoundDone, Release
  <2>3. \A d, n, i, b : Room(stream'[d], n, i, b) <=> Room(stream[d], n, i, b)
    BY <2>1 DEF Room
  <2> QED
    BY <2>1, <2>2, <2>3 DEF RoomInv
<1>2. CASE Cancel \/ UNCHANGED vars
  <2>1. UNCHANGED <<stream, active, head, dev, fill, pc>>
    BY <1>2 DEF Cancel, vars, devVars, hostVars, pipeVars, loopVars
  <2>2. \A d, n, i, b : Room(stream'[d], n, i, b) <=> Room(stream[d], n, i, b)
    BY <2>1 DEF Room
  <2> QED
    BY <2>1, <2>2 DEF RoomInv
<1>3. ASSUME NEW d \in Devs, DeviceRuns(d)
      PROVE  RoomInv'
  <2>1. UNCHANGED <<active, head, dev, fill, pc>>
    BY <1>3 DEF DeviceRuns, hostVars, pipeVars, loopVars
  <2>2. \A o \in Devs, i \in Slots :
          /\ Len(stream'[o]) <= Len(stream[o]) /\ Len(stream'[o]) \in Nat
          /\ \A n, b \in 0..4 : Room(stream[o], n, i, b) => Room(stream'[o], n, i, b)
          /\ NoneFrom(stream[o], 1, i) => NoneFrom(stream'[o], 1, i)
    BY <1>3, RoomLess
  <2>3. head \in Slots /\ fill \in Slots /\ 0 \in Slots
        /\ 0 \in 0..4 /\ 1 \in 0..4 /\ 2 \in 0..4 /\ 3 \in 0..4 /\ 4 \in 0..4
    BY DEF TypeOK, Slots
  <2> SUFFICES ASSUME NEW o \in Devs
               PROVE  /\ Len(stream'[o]) <= 4
                      /\ pc \in {"idle", "loop", "search", "round"} =>
                           Len(stream'[o]) <= 2 /\ (active => Room(stream'[o], 2, head, 1))
                      /\ pc = "fill" /\ fill = 0 =>
                           IF o < dev THEN Room(stream'[o], 3, 0, 0) ELSE Len(stream'[o]) <= 2
                      /\ pc = "fill" /\ fill = 1 =>
                           IF o < dev THEN Room(stream'[o], 4, 0, 1) ELSE Room(stream'[o], 3, 0, 0)
                      /\ pc = "collect" =>
                           IF o < dev THEN Len(stream'[o]) <= 1 /\ NoneFrom(stream'[o], 1, head)
                           ELSE Room(stream'[o], 4, head, 1)
                      /\ pc = "refill" =>
                           IF o < dev THEN Room(stream'[o], 2, head, 1)
                           ELSE Len(stream'[o]) <= 1 /\ NoneFrom(stream'[o], 1, fill)
    BY <2>1 DEF RoomInv, Room
  <2>4. Len(stream'[o]) <= Len(stream[o]) /\ Len(stream'[o]) \in Nat
    BY <2>2, <2>3
  <2>5. /\ Len(stream[o]) <= 1 => Len(stream'[o]) <= 1
        /\ Len(stream[o]) <= 2 => Len(stream'[o]) <= 2
        /\ Len(stream[o]) <= 4 => Len(stream'[o]) <= 4
    BY <1>0, <2>4
  <2>6. \A i \in Slots :
          /\ Room(stream[o], 2, i, 1) => Room(stream'[o], 2, i, 1)
          /\ Room(stream[o], 3, i, 0) => Room(stream'[o], 3, i, 0)
          /\ Room(stream[o], 4, i, 1) => Room(stream'[o], 4, i, 1)
          /\ NoneFrom(stream[o], 1, i) => NoneFrom(stream'[o], 1, i)
    BY <2>2, <2>3
  <2>7. CASE pc \in {"idle", "loop", "search", "round"}
    BY <2>3, <2>5, <2>6, <2>7 DEF RoomInv
  <2>8. CASE pc = "fill"
    BY <2>3, <2>5, <2>6, <2>8 DEF RoomInv
  <2>9. CASE pc = "collect"
    BY <2>3, <2>5, <2>6, <2>9 DEF RoomInv
  <2>10. CASE pc = "refill"
    BY <2>3, <2>5, <2>6, <2>10 DEF RoomInv
  <2>11. CASE pc \notin {"idle", "loop", "search", "round", "fill", "collect", "refill"}
    BY <2>5, <2>11 DEF RoomInv
  <2> QED
    BY <2>7, <2>8, <2>9, <2>10, <2>11
<1>4. CASE ForgetStep
  <2>1. ~active' /\ pc' \in {"error", "round", "finish"}
    BY <1>4, Forgotten
  <2>2. ASSUME NEW d \in Devs
        PROVE  Len(stream'[d]) <= 4 /\ (pc' = "round" => Len(stream'[d]) <= 2)
    <3>1. CASE CollectFails \/ Shutdown
      BY <1>0, <3>1 DEF CollectFails, Shutdown, devVars
    <3>2. CASE EnqueueFails
      <4>1. /\ pc \in {"fill", "refill"} /\ stream' \in {stream, Queued(dev)}
            /\ pc' = "round" => pc = "refill"
            /\ dev \in Devs /\ fill \in {0, 1}
        BY <3>2 DEF EnqueueFails, TypeOK, Slots
      <4>2. ~(dev < dev)
        BY <4>1 DEF Devs
      <4>3. Len(stream[dev]) <= 3 /\ (pc = "refill" => Len(stream[dev]) <= 1)
        <5>1. CASE pc = "refill"
          BY <1>0, <4>1, <4>2, <5>1 DEF RoomInv
        <5>2. CASE pc = "fill" /\ fill = 0
          BY <1>0, <4>1, <4>2, <5>2 DEF RoomInv
        <5>3. CASE pc = "fill" /\ fill = 1
          BY <1>0, <4>1, <4>2, <5>3 DEF RoomInv, Room
        <5> QED
          BY <4>1, <5>1, <5>2, <5>3
      <4>4. pc = "refill" => Len(stream[d]) <= 2
        BY <1>0 DEF RoomInv, Room
      <4>5. CASE stream' = stream
        BY <1>0, <4>1, <4>4, <4>5
      <4>6. CASE stream' = Queued(dev)
        <5>1. d # dev => stream'[d] = stream[d]
          BY <4>1, <4>6, RoomMore
        <5>2. Len(stream'[dev]) = Len(stream[dev]) + 1
          BY <4>1, <4>6, RoomMore
        <5>3. CASE d = dev
          BY <1>0, <4>1, <4>3, <5>2, <5>3
        <5>4. CASE d # dev
          BY <1>0, <4>1, <4>4, <5>1, <5>4
        <5> QED
          BY <5>3, <5>4
      <4> QED
        BY <4>1, <4>5, <4>6
    <3> QED
      BY <1>4, <3>1, <3>2 DEF ForgetStep
  <2> QED
    BY <2>1, <2>2 DEF RoomInv
<1>5. CASE SearchEnter
  <2>1. pc = "search" /\ dev' = 1 /\ stream' = stream
    BY <1>5, SearchWays DEF devVars
  <2>2. \A d \in Devs : Len(stream[d]) <= 2 /\ (active => Room(stream[d], 2, head, 1))
    BY <2>1 DEF RoomInv
  <2>3. \A d \in Devs : ~(d < dev')
    BY <2>1 DEF Devs
  <2>4. CASE pc' = "idle" /\ ~active'
    BY <1>0, <2>1, <2>2, <2>4 DEF RoomInv
  <2>5. CASE pc' = "collect" /\ active /\ head' = head
    <3>1. \A d \in Devs : Room(stream[d], 4, head, 1)
      BY <1>0, <2>2, <2>5, RoomWider
    <3>2. \A d \in Devs : Room(stream'[d], 4, head, 1)
      BY <2>1, <2>5, <3>1 DEF Room
    <3> QED
      BY <1>0, <2>1, <2>3, <2>5, <3>2 DEF RoomInv
  <2>6. CASE pc' = "fill" /\ fill' = 0
    BY <1>0, <2>1, <2>2, <2>3, <2>6 DEF RoomInv
  <2> QED
    BY <1>5, <2>4, <2>5, <2>6, SearchWays DEF pipeVars
<1>6. CASE Enqueue
  <2>0. /\ dev \in Devs /\ fill \in {0, 1} /\ head \in Slots /\ stream' = Queued(dev)
        /\ UNCHANGED <<head, active>> /\ pc \in {"fill", "refill"}
    BY <1>6, OneMoreFilled DEF Enqueue, TypeOK, Slots
  <2>1. /\ \A o \in Devs \ {dev} : stream'[o] = stream[o]
        /\ Len(stream'[dev]) = Len(stream[dev]) + 1
        /\ fill = 0 /\ Len(stream[dev]) <= 2 => Room(stream'[dev], 3, 0, 0)
        /\ fill = 1 /\ Room(stream[dev], 3, 0, 0) => Room(stream'[dev], 4, 0, 1)
        /\ \A h \in Slots :
             h # fill /\ Len(stream[dev]) <= 1 /\ NoneFrom(stream[dev], 1, fill)
               => Room(stream'[dev], 2, h, 1)
    BY <2>0, RoomMore
  <2>2. \A o \in Devs \ {dev} : \A i, n, b :
         Room(stream'[o], n, i, b) <=> Room(stream[o], n, i, b)
    BY <2>0, <2>1 DEF Room
  <2>3. ~(dev < dev) /\ \A o \in Devs : o # dev => (o < dev + 1 <=> o < dev)
    BY <2>0 DEF Devs
  <2>4. dev < dev + 1 /\ \A o \in Devs : ~(o < 1) /\ (dev = Devices /\ o # dev => o < dev)
    BY <2>0, Bounds DEF Devs
  <2>5. CASE pc = "fill" /\ fill = 0
    <3>1. Room(stream'[dev], 3, 0, 0)
      BY <2>0, <2>1, <2>3, <2>5 DEF RoomInv
    <3>2. \A o \in Devs \ {dev} :
            IF o < dev THEN Room(stream'[o], 3, 0, 0) ELSE Len(stream'[o]) <= 2
      BY <2>1, <2>2, <2>5 DEF RoomInv
    <3>3. \A o \in Devs : Len(stream'[o]) <= 4
      <4>1. Len(stream'[dev]) <= 3 /\ Len(stream'[dev]) \in Nat
        BY <1>0, <2>0, <2>1, <3>1 DEF Room
      <4>2. Len(stream'[dev]) <= 4
        BY <4>1
      <4> QED
        BY <1>0, <2>1, <4>2
    <3>4. CASE pc' = "fill" /\ fill' = 0 /\ dev' = dev + 1
      BY <2>3, <2>4, <3>1, <3>2, <3>3, <3>4 DEF RoomInv
    <3>5. CASE pc' = "fill" /\ fill' = 1 /\ dev' = 1 /\ dev = Devices
      BY <2>3, <2>4, <3>1, <3>2, <3>3, <3>5 DEF RoomInv
    <3> QED
      BY <1>6, <2>5, <3>4, <3>5, OneMoreFilled
  <2>6. CASE pc = "fill" /\ fill = 1
    <3>1. Room(stream'[dev], 4, 0, 1)
      BY <2>0, <2>1, <2>3, <2>6 DEF RoomInv
    <3>2. \A o \in Devs \ {dev} :
            IF o < dev THEN Room(stream'[o], 4, 0, 1) ELSE Room(stream'[o], 3, 0, 0)
      BY <2>2, <2>6 DEF RoomInv
    <3>3. \A o \in Devs : Len(stream'[o]) <= 4
      <4>1. Len(stream'[dev]) <= 4
        BY <3>1 DEF Room
      <4> QED
        BY <1>0, <2>1, <4>1
    <3>4. CASE pc' = "fill" /\ fill' = 1 /\ dev' = dev + 1
      BY <2>3, <2>4, <3>1, <3>2, <3>3, <3>4 DEF RoomInv
    <3>5. CASE pc' = "collect" /\ dev' = 1 /\ dev = Devices
      <4>1. head' = 0
        BY <2>0, <2>6 DEF StageInv
      <4>2. \A o \in Devs : Room(stream'[o], 4, 0, 1)
        BY <2>4, <3>1, <3>2, <3>5
      <4> QED
        BY <2>4, <3>3, <3>5, <4>1, <4>2 DEF RoomInv
    <3> QED
      BY <1>6, <2>6, <3>4, <3>5, OneMoreFilled
  <2>7. CASE pc = "refill"
    <3>1. head # fill
      BY <2>0, <2>7, SlotsInTurn DEF StageInv
    <3>2. Len(stream[dev]) <= 1 /\ NoneFrom(stream[dev], 1, fill)
      BY <2>0, <2>3, <2>7 DEF RoomInv
    <3>3. Room(stream'[dev], 2, head, 1)
      BY <2>0, <2>1, <3>1, <3>2
    <3>4. \A o \in Devs \ {dev} :
            IF o < dev THEN Room(stream'[o], 2, head, 1)
            ELSE Len(stream'[o]) <= 1 /\ NoneFrom(stream'[o], 1, fill)
      <4>1. \A o \in Devs \ {dev} : Room(stream'[o], 2, head, 1) <=> Room(stream[o], 2, head, 1)
        BY <2>0, <2>1 DEF Room
      <4> QED
        BY <2>1, <2>7, <4>1 DEF RoomInv
    <3>5. \A o \in Devs : Len(stream'[o]) <= 4
      <4>1. Len(stream'[dev]) <= 4
        BY <1>0, <2>0, <2>1, <3>2
      <4> QED
        BY <1>0, <2>1, <4>1
    <3>6. CASE pc' = "refill" /\ fill' = fill /\ dev' = dev + 1
      BY <2>0, <2>3, <2>4, <3>3, <3>4, <3>5, <3>6 DEF RoomInv
    <3>7. CASE pc' = "round" /\ dev = Devices
      <4>1. \A o \in Devs : Room(stream'[o], 2, head, 1)
        BY <2>4, <3>3, <3>4, <3>7
      <4>2. \A o \in Devs : Len(stream'[o]) <= 2
        BY <4>1 DEF Room
      <4> QED
        BY <2>0, <3>5, <3>7, <4>1, <4>2 DEF RoomInv
    <3> QED
      BY <1>6, <2>7, <3>6, <3>7, OneMoreFilled
  <2> QED
    BY <2>0, <2>5, <2>6, <2>7
<1>7. CASE Collect
  <2>0. pc = "collect" /\ dev \in Devs /\ stream' = stream /\ EventDone(dev)
    BY <1>7, PartCollected DEF Collect
  <2>1. NoneFrom(stream[dev], 1, head)
    BY <2>0 DEF EventDone, NoneFrom
  <2>2. Len(stream[dev]) <= 1
    <3> DEFINE len == Len(stream[dev])
    <3>1. len \in Nat /\ (len > 1 => ~NoneFrom(stream[dev], len - 1, head))
      <4>1. ~(dev < dev)
        BY <2>0 DEF Devs
      <4> QED
        BY <1>0, <2>0, <4>1 DEF RoomInv, Room
    <3>2. len > 1 => NoneFrom(stream[dev], len - 1, head)
      BY <2>1, <3>1 DEF NoneFrom
    <3> QED
      BY <3>1, <3>2
  <2>3. \A o \in Devs : o # dev => (o < dev + 1 <=> o < dev)
    BY <2>0 DEF Devs
  <2>4. \A o \in Devs : ~(o < 1) /\ (dev = Devices /\ o # dev => o < dev)
    BY <2>0, Bounds DEF Devs
  <2>5. CASE dev < Devices /\ dev' = dev + 1 /\ UNCHANGED <<pc, head, fill>>
    <3>1. \A o \in Devs : IF o < dev THEN Len(stream[o]) <= 1 /\ NoneFrom(stream[o], 1, head)
                          ELSE Room(stream[o], 4, head, 1)
      BY <2>0 DEF RoomInv
    <3>2. \A o \in Devs : IF o < dev' THEN Len(stream[o]) <= 1 /\ NoneFrom(stream[o], 1, head)
                          ELSE Room(stream[o], 4, head, 1)
      <4> TAKE o \in Devs
      <4>1. CASE o = dev
        BY <2>0, <2>1, <2>2, <2>5, <4>1 DEF Devs
      <4>2. CASE o # dev
        BY <2>3, <2>5, <3>1, <4>2
      <4> QED
        BY <4>1, <4>2
    <3> QED
      BY <1>0, <2>0, <2>5, <3>2 DEF RoomInv
  <2>6. CASE dev = Devices /\ dev' = 1 /\ pc' = "refill" /\ fill' = head
    <3>1. \A o \in Devs : Len(stream[o]) <= 1 /\ NoneFrom(stream[o], 1, head)
      BY <2>0, <2>1, <2>2, <2>4, <2>6 DEF RoomInv
    <3> QED
      BY <1>0, <2>0, <2>4, <2>6, <3>1 DEF RoomInv
  <2> QED
    BY <1>7, <2>5, <2>6, PartCollected
<1> QED
  BY StepCases, <1>1, <1>2, <1>3, <1>4, <1>5, <1>6, <1>7 DEF OutsideStep

LEMMA FreedStep ==
  ASSUME TypeOK, StageInv, FreedInv, [Next]_vars
  PROVE  FreedInv'
<1>1. CASE Release
  BY <1>1 DEF Release, Finished, FreedInv
<1>2. ASSUME NEW d \in Devs, DeviceRuns(d)
      PROVE  FreedInv'
  BY <1>2 DEF DeviceRuns, FreedInv
<1>3. CASE UNCHANGED vars \/ Cancel
  BY <1>3 DEF vars, Cancel, FreedInv, loopVars, devVars
<1>4. CASE StartJob \/ LoopCheck \/ RoundDone
  BY <1>4 DEF StartJob, LoopCheck, RoundDone, FreedInv, devVars
<1>5. CASE ForgetStep
  BY <1>5 DEF ForgetStep, EnqueueFails, CollectFails, Shutdown, FreedInv, devVars
<1>6. CASE SearchEnter
  BY <1>6 DEF SearchEnter, FreedInv, devVars
<1>7. CASE Enqueue \/ Collect
  BY <1>7 DEF Enqueue, Collect, FreedInv
<1> QED
  BY StepCases, <1>1, <1>2, <1>3, <1>4, <1>5, <1>6, <1>7 DEF LoopStep, OutsideStep

-----------------------------------------------------------------------------
(***************************************************************************)
(* The theorems.                                                            *)
(***************************************************************************)

LEMMA SearchInvInit == Init => SearchInv
<1> SUFFICES ASSUME Init PROVE SearchInv
  OBVIOUS
<1>1. \A d \in Devs : stream[d] = <<>> /\ Len(stream[d]) = 0
  BY DEF Init
<1>2. TypeOK
  <2>1. <<>> \in Queue
    BY DEF Queue
  <2>2. NoCounter \in Counter /\ NoSlot \in Slot /\ NoResult \in Result
    BY DEF NoCounter, NoSlot, NoResult, NoConstant, Counter, Slot, Constant, Result
  <2>3. /\ slot \in [Devs -> [Slots -> Slot]] /\ stream \in [Devs -> Queue]
        /\ readBack \in [Devs -> [Slots -> Result]]
    BY <2>1, <2>2 DEF Init
  <2> QED
    BY <2>2, <2>3, Bounds DEF Init, TypeOK, Labels, Slots
<1>3. \A d, i : ~Filled(d, i)
  BY DEF Init, Filled
<1>4. StageInv /\ FoundInv
  BY DEF Init, StageInv, FoundInv, NoCounter
<1>5. ChainInv /\ ConstantInv /\ FreedInv
  BY DEF Init, ChainInv, ConstantInv, FreedInv
<1>6. ResultInv
  BY <1>3 DEF ResultInv
<1>7. RoomInv
  BY <1>1 DEF Init, RoomInv
<1> QED
  BY <1>2, <1>4, <1>5, <1>6, <1>7 DEF SearchInv

\* The inductive invariant: the filled slots are one chain of launches whose
\* constants and results are their own, with room on every device.
THEOREM SearchInvariance == Spec => []SearchInv
<1>1. SearchInv /\ [Next]_vars => SearchInv'
  BY TypeStep, StageStep, ChainStep, FoundStep, ConstantStep, ResultStep, RoomStep, FreedStep
  DEF SearchInv
<1> QED
  BY SearchInvInit, <1>1, PTL DEF Spec

\* Every variable of the pipeline always has its type.
THEOREM SearchTypes == Spec => []TypeOK
<1>1. SearchInv => TypeOK
  BY DEF SearchInv
<1> QED
  BY SearchInvariance, <1>1, PTL

\* Whatever is forgotten, fails or is cut off at a line, the job loop's position
\* says exactly which counters of the attempt were searched.
THEOREM CountersSearchedOnce == Spec => []SearchedOnce
<1>1. SearchInv => SearchedOnce
  BY DEF SearchInv, FoundInv, SearchedTo, SearchedOnce
<1> QED
  BY SearchInvariance, <1>1, PTL

\* What search() collects was computed by the launch it takes it for.
THEOREM ResultsAreOfTheirLaunch == Spec => []ResultsOfTheirLaunch
<1>1. ASSUME SearchInv
      PROVE  ResultsOfTheirLaunch
  <2> SUFFICES ASSUME pc = "collect", EventDone(dev)
               PROVE  LET s == slot[dev][head] IN
                        /\ readBack[dev][head] =
                             [pk |-> [job |-> job, try |-> attempt, line |-> LineOf(s.base.c)],
                              t |-> PlaceOf(s.base.c), n |-> s.n]
                        /\ s.base.try = attempt /\ PlaceOf(s.base.c) + s.n <= LineSpan
    BY DEF ResultsOfTheirLaunch
  <2>1. active /\ expect = cur /\ header = job /\ cur.try = attempt
    BY <1>1 DEF SearchInv, StageInv
  <2>2. dev \in Devs /\ head \in Slots /\ Filled(dev, head)
    BY <1>1, <2>1 DEF SearchInv, TypeOK, Filled
  <2>3. NoneFrom(stream[dev], 1, head)
    BY DEF EventDone, NoneFrom
  <2>4. readBack[dev][head] = [pk |-> slot[dev][head].pk,
          t |-> PlaceOf(slot[dev][head].base.c), n |-> slot[dev][head].n]
    BY <1>1, <2>2, <2>3 DEF SearchInv, ResultInv
  <2> QED
    BY <1>1, <2>1, <2>2, <2>4 DEF SearchInv, ConstantInv
<1> QED
  BY SearchInvariance, <1>1, PTL

\* Forgotten launches never pile up on a device and none runs on freed buffers.
THEOREM ForgottenLaunchesBounded == Spec => []ForgottenLaunchesKept
<1>1. SearchInv => ForgottenLaunchesKept
  BY DEF SearchInv, RoomInv, FreedInv, ForgottenLaunchesKept, DeviceQueueBounded,
         FreedWhenUnused
<1> QED
  BY SearchInvariance, <1>1, PTL
=============================================================================
