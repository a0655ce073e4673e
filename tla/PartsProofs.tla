------------------------------ MODULE PartsProofs ------------------------------
(***************************************************************************)
(* Proofs about the parts that MCParts runs side by side: the scan on the   *)
(* NPU, connecting to the pool, framing what it sends, the team of the CPU  *)
(* search, and with AttemptProofs the tree of A and the scan of the tiles.  *)
(* The parts share no variable, so each part's invariant is kept by its own *)
(* steps and by those that leave its variables alone.                       *)
(*                                                                         *)
(* The NPU: the driver queues the launches of a panel in the slots of its   *)
(* buffers that the preparing thread filled.  That a slot is never          *)
(* overwritten while a launch needs it follows from what is counted: the    *)
(* launches done are exactly those before the oldest queued (CountInv), so  *)
(* panelDone says which panels are finished, and the slot of a new panel is *)
(* that of a finished one (PanelInv).                                       *)
(***************************************************************************)
EXTENDS MCParts, AttemptProofs, SequenceTheorems, TLAPS

\* What the assumptions on the constants give.
LEMMA NpuConstants ==
  /\ Panels \in Nat /\ Panels > 0 /\ ColumnBlocks \in Nat /\ ColumnBlocks > 0
  /\ PanelSlots \in Nat /\ PanelSlots > 0 /\ Requests \in Nat /\ Requests > 0
  /\ MaxOddLaunches \in Nat /\ MaxNpuAttempts \in Nat
  BY NpuAssumption, NpuBoundsAssumption

\* The first launch of a panel.
FirstLaunch(r) == r * ColumnBlocks

\* The first launches of panels are as far apart as panels have column blocks.
LEMMA FirstLaunches ==
  ASSUME NEW a \in Int, NEW b \in Int
  PROVE  /\ FirstLaunch(a) \in Int
         /\ FirstLaunch(a + 1) = FirstLaunch(a) + ColumnBlocks
         /\ a < b <=> FirstLaunch(a) < FirstLaunch(b)
         /\ a <= b <=> FirstLaunch(a) <= FirstLaunch(b)
         /\ FirstLaunch(0) = 0
  BY NpuConstants DEF FirstLaunch

\* The launches of a scan are those of its panels.
LEMMA LaunchCount ==
  NpuLaunches \in Nat /\ NpuLaunches > 0 /\ NpuLaunches = FirstLaunch(Panels)
  BY NpuConstants DEF NpuLaunches, FirstLaunch

\* A launch is between the first of its panel and the first of the next.
LEMMA PanelBounds ==
  ASSUME NEW l \in Nat
  PROVE  /\ PanelOf(l) \in Nat /\ FirstLaunch(PanelOf(l)) <= l
         /\ l < FirstLaunch(PanelOf(l) + 1)
  BY NpuConstants DEF PanelOf, FirstLaunch

\* A launch is of the panels between those whose launches are around it.
LEMMA PanelBetween ==
  ASSUME NEW l \in Nat, NEW r \in Int
  PROVE  /\ FirstLaunch(r) <= l <=> r <= PanelOf(l)
         /\ l < FirstLaunch(r) <=> PanelOf(l) < r
  <1>. DEFINE p == PanelOf(l)
  <1>1. /\ p \in Nat /\ FirstLaunch(p) <= l /\ l < FirstLaunch(p + 1)
    BY PanelBounds
  <1>. HIDE DEF p
  <1>2. /\ FirstLaunch(r) \in Int /\ FirstLaunch(p) \in Int /\ FirstLaunch(p + 1) \in Int
    BY <1>1, FirstLaunches
  <1>3. r <= p <=> FirstLaunch(r) <= FirstLaunch(p)
    BY <1>1, FirstLaunches
  <1>4. p + 1 <= r <=> FirstLaunch(p + 1) <= FirstLaunch(r)
    BY <1>1, FirstLaunches
  <1>5. FirstLaunch(r) <= l <=> r <= p
    BY <1>1, <1>2, <1>3, <1>4
  <1>6. l < FirstLaunch(r) <=> p < r
    BY <1>1, <1>2, <1>5
  <1>. QED  BY <1>5, <1>6 DEF p

\* Every launch is of a panel.
LEMMA LaunchPanel ==
  ASSUME NEW l \in NpuLaunch
  PROVE  l \in Nat /\ l < NpuLaunches /\ PanelOf(l) \in AllPanels
  <1>1. l \in Nat /\ l < NpuLaunches
    BY LaunchCount DEF NpuLaunch
  <1>2. PanelOf(l) \in Nat /\ PanelOf(l) < Panels
    BY <1>1, PanelBounds, PanelBetween, LaunchCount, NpuConstants
  <1>. QED  BY <1>1, <1>2, NpuConstants DEF AllPanels

\* Multiples of the number of slots.
LEMMA TimesSlots ==
  ASSUME NEW a \in Int
  PROVE  /\ a <= 0 => PanelSlots * a <= 0
         /\ a >= 1 => PanelSlots * a >= PanelSlots
         /\ PanelSlots * a \in Int
  BY NpuConstants

\* Panels closer than the number of slots use different slots.
LEMMA SlotsApart ==
  ASSUME NEW a \in Nat, NEW b \in Nat, a < b, b - a < PanelSlots
  PROVE  SlotOfPanel(a) # SlotOfPanel(b)
  <1>1. /\ a = PanelSlots * (a \div PanelSlots) + (a % PanelSlots)
        /\ b = PanelSlots * (b \div PanelSlots) + (b % PanelSlots)
        /\ a \div PanelSlots \in Int /\ b \div PanelSlots \in Int
        /\ a % PanelSlots \in Int /\ b % PanelSlots \in Int
    BY NpuConstants
  <1>. DEFINE k == (b \div PanelSlots) - (a \div PanelSlots)
  <1>2. SUFFICES ASSUME a % PanelSlots = b % PanelSlots PROVE FALSE
    BY DEF SlotOfPanel
  <1>3. k \in Int
    BY <1>1
  <1>4. PanelSlots * k = PanelSlots * (b \div PanelSlots) - PanelSlots * (a \div PanelSlots)
    BY <1>1, NpuConstants
  <1>5. b - a = PanelSlots * k
    BY <1>1, <1>2, <1>4, NpuConstants
  <1>. HIDE DEF k
  <1>. QED  BY <1>3, <1>5, TimesSlots, NpuConstants

\* Every panel has a slot.
LEMMA SlotType ==
  ASSUME NEW a \in Nat
  PROVE  SlotOfPanel(a) \in PanelSlot
  BY NpuConstants DEF SlotOfPanel, PanelSlot

\* How many launches of panel r are among the first n.
DoneOf(r, n) == IF n <= FirstLaunch(r) THEN 0
                ELSE IF n >= FirstLaunch(r + 1) THEN ColumnBlocks
                ELSE n - FirstLaunch(r)

\* Counting one more launch adds one to its panel only.
LEMMA DoneOfFacts ==
  ASSUME NEW r \in Nat, NEW n \in Nat
  PROVE  /\ DoneOf(r, n) \in 0..ColumnBlocks
         /\ DoneOf(r, n) = ColumnBlocks <=> n >= FirstLaunch(r + 1)
         /\ DoneOf(r, n + 1) = IF r = PanelOf(n) THEN DoneOf(r, n) + 1 ELSE DoneOf(r, n)
         /\ DoneOf(r, 0) = 0
  <1>. DEFINE f == FirstLaunch(r)  g == FirstLaunch(r + 1)
  <1>1. f \in Int /\ g \in Int /\ g = f + ColumnBlocks /\ f >= 0
    BY FirstLaunches
  <1>2. r = PanelOf(n) <=> f <= n /\ n < g
    BY PanelBetween, PanelBounds
  <1>. HIDE DEF f, g
  <1>. QED  BY <1>1, <1>2, NpuConstants DEF DoneOf, f, g

\* What Front and Last give.
LEMMA FrontFacts ==
  ASSUME NEW S, NEW s \in Seq(S), s # <<>>
  PROVE  /\ Front(s) \in Seq(S) /\ Len(Front(s)) = Len(s) - 1
         /\ Len(s) \in Nat \ {0} /\ Last(s) = s[Len(s)] /\ Last(s) \in S
         /\ DOMAIN s = 1..Len(s) /\ DOMAIN Front(s) = 1..(Len(s) - 1)
         /\ \A i \in DOMAIN Front(s) : Front(s)[i] = s[i]
  <1>1. Len(s) \in Nat \ {0} /\ DOMAIN s = 1..Len(s)
    BY EmptySeq, SeqDef, LenProperties
  <1>2. Last(s) = s[Len(s)] /\ Last(s) \in S
    BY <1>1, ElementOfSeq DEF Last
  <1>3. /\ Front(s) \in Seq(S) /\ Len(Front(s)) = Len(s) - 1
        /\ \A i \in 1..(Len(s) - 1) : Front(s)[i] = s[i]
    BY <1>1, SubSeqProperties DEF Front
  <1>4. DOMAIN Front(s) = 1..(Len(s) - 1)
    BY <1>3, LenProperties
  <1>. QED  BY <1>1, <1>2, <1>3, <1>4

\* What Tail and Head give.
LEMMA TailFacts ==
  ASSUME NEW S, NEW s \in Seq(S), s # <<>>
  PROVE  /\ Tail(s) \in Seq(S) /\ Len(Tail(s)) = Len(s) - 1
         /\ Len(s) \in Nat \ {0} /\ Head(s) = s[1] /\ Head(s) \in S
         /\ DOMAIN s = 1..Len(s) /\ DOMAIN Tail(s) = 1..(Len(s) - 1)
         /\ \A i \in DOMAIN Tail(s) : Tail(s)[i] = s[i + 1]
  <1>1. Len(s) \in Nat \ {0} /\ DOMAIN s = 1..Len(s)
    BY EmptySeq, LenProperties
  <1>2. /\ Tail(s) \in Seq(S) /\ Len(Tail(s)) = Len(s) - 1 /\ Head(s) = s[1] /\ Head(s) \in S
        /\ \A i \in 1..(Len(s) - 1) : Tail(s)[i] = s[i + 1]
    BY <1>1, HeadTailProperties, ElementOfSeq
  <1>3. DOMAIN Tail(s) = 1..(Len(s) - 1)
    BY <1>2, LenProperties
  <1>. QED  BY <1>1, <1>2, <1>3

\* What Append gives.
LEMMA AppendFacts ==
  ASSUME NEW S, NEW s \in Seq(S), NEW e \in S
  PROVE  /\ Append(s, e) \in Seq(S) /\ Len(Append(s, e)) = Len(s) + 1
         /\ Len(s) \in Nat /\ DOMAIN s = 1..Len(s)
         /\ DOMAIN Append(s, e) = 1..(Len(s) + 1)
         /\ \A i \in DOMAIN s : Append(s, e)[i] = s[i]
         /\ Append(s, e)[Len(s) + 1] = e
  BY AppendProperties, LenProperties

\* The idle requests at the start of a scan are all of them, once each.
LEMMA AllIdleFacts ==
  /\ AllIdle \in Seq(AllRequests) /\ Len(AllIdle) = Requests
  /\ \A m, n \in DOMAIN AllIdle : AllIdle[m] = AllIdle[n] => m = n
  <1>1. AllIdle \in [1..Requests -> AllRequests]
    BY NpuConstants DEF AllIdle, AllRequests
  <1>2. AllIdle \in Seq(AllRequests)
    BY <1>1, NpuConstants, SeqDef
  <1>3. Len(AllIdle) = Requests
    BY <1>1, <1>2, LenProperties, NpuConstants
  <1>4. \A m, n \in DOMAIN AllIdle : AllIdle[m] = AllIdle[n] => m = n
    BY NpuConstants DEF AllIdle, AllRequests
  <1>. QED  BY <1>2, <1>3, <1>4

-----------------------------------------------------------------------------
\* Where the driver is in its loop.
Working == {"top", "look", "asleep", "submit", "take"}

\* Where it is after the queue was drained.
Leaving == {"end", "endNotify", "join"}

\* The launch of the oldest request queued.
Base == upNext - Len(queued)

\* How many launches panelDone has counted: the last one is counted after npuTiles.
Counted == IF driver = "count" THEN npuTiles - 1 ELSE npuTiles

\* The queued requests run consecutive launches, oldest first, and are not idle.
QueueInv ==
  /\ \A n \in DOMAIN queued : /\ request[queued[n]].launch = Base + n - 1
                              /\ request[queued[n]].runs # "nothing"
  /\ \A q \in AllRequests :
       request[q].runs = "launch" => \E n \in DOMAIN queued : queued[n] = q
  /\ \A m \in DOMAIN idle, n \in DOMAIN queued : idle[m] # queued[n]
  /\ \A m, n \in DOMAIN idle : idle[m] = idle[n] => m = n

\* The launches counted are those before the oldest queued.
CountInv ==
  /\ npuTiles <= Base
  /\ ~npuError => npuTiles = Base /\ Len(idle) + Len(queued) = Requests
  /\ driver \in {"look", "submit", "asleep"} => upNext < NpuLaunches
  /\ driver \in {"look", "submit", "asleep"} => idle # <<>>
  /\ driver = "take" => queued # <<>>
  /\ driver = "asleep" => queued = <<>>
  /\ driver = "count" => npuTiles > 0
  /\ driver \in Working \cup {"count"} => ~npuError
  /\ panelDone = [r \in AllPanels |-> DoneOf(r, Counted)]

\* The oldest panel whose slot is not given away.
Low == IF prep = "build" THEN panel - PanelSlots + 1 ELSE panel - PanelSlots

\* No launch was queued of a panel that was not built, and every panel that still has a
\* launch to run has its slot to itself.
PanelInv ==
  /\ upNext <= FirstLaunch(panel)
  /\ FirstLaunch(Low) <= Counted
  /\ \A r \in AllPanels : r < panel /\ panel - PanelSlots <= r => slotPanel[SlotOfPanel(r)] = r
  /\ \A r \in AllPanels : r < panel /\ Low <= r => memory[SlotOfPanel(r)] = r
  /\ \A s \in PanelSlot : slotPanel[s] < panel
  /\ driver = "submit" => PanelOf(upNext) < panel

\* An attempt is under way.
Begun == driver # "idle"

\* The types of the data of the driver.
NpuDataTypeOK ==
  /\ driver \in {"idle", "top", "look", "asleep", "submit", "take", "count", "halt",
                 "haltNotify", "drain", "end", "endNotify", "join"}
  /\ queued \in Seq(AllRequests) /\ idle \in Seq(AllRequests)
  /\ upNext \in 0..NpuLaunches
  /\ npuHit \in NpuLaunch \cup {Nothing} /\ npuTiles \in 0..NpuLaunches
  /\ panel \in 0..Panels
  /\ request \in [AllRequests -> [runs: {"nothing", "launch", "done", "failed"},
                               launch: NpuLaunch \cup {Nothing}]]

\* They are part of the type invariant.
LEMMA DataTypes == NpuTypeOK => NpuDataTypeOK
  BY DEF NpuTypeOK, NpuDataTypeOK

\* Every step keeps what is known of the requests.
LEMMA QueueStep ==
  ASSUME NpuDataTypeOK, Begun => QueueInv /\ CountInv,
         driver = "idle" => \A q \in AllRequests : request[q].runs # "launch",
         NpuNext, Begun'
  PROVE  QueueInv'
  <1>1. CASE NpuBegin
    <2>1. \A q \in AllRequests : request'[q].runs # "launch"
      BY <1>1 DEF NpuBegin
    <2>2. queued' = <<>> /\ idle' = AllIdle
      BY <1>1 DEF NpuBegin
    <2>. QED  BY <2>1, <2>2, AllIdleFacts DEF QueueInv
  <1>2. CASE Submit
    <2>. DEFINE k == Last(idle)
    <2>1. driver = "submit" /\ idle # <<>> /\ QueueInv /\ idle' = Front(idle)
      BY <1>2 DEF Submit, DriverAt, Begun, CountInv
    <2>2. /\ Len(idle) \in Nat \ {0} /\ k = idle[Len(idle)] /\ k \in AllRequests
          /\ DOMAIN idle = 1..Len(idle) /\ DOMAIN idle' = 1..(Len(idle) - 1)
          /\ \A i \in DOMAIN idle' : idle'[i] = idle[i]
      BY <2>1, FrontFacts DEF NpuDataTypeOK
    <2>. HIDE DEF k
    <2>3. /\ \A n \in DOMAIN queued : k # queued[n]
          /\ \A m \in DOMAIN idle' : k # idle'[m]
          /\ \A m \in DOMAIN idle', n \in DOMAIN queued : idle'[m] # queued[n]
          /\ \A m, n \in DOMAIN idle' : idle'[m] = idle'[n] => m = n
      BY <2>1, <2>2 DEF QueueInv
    <2>4. CASE UNCHANGED <<request, queued, upNext>>
      BY <2>1, <2>3, <2>4 DEF QueueInv, Base
    <2>5. CASE /\ request' = [request EXCEPT ![k] = [runs |-> "launch", launch |-> upNext]]
               /\ queued' = Append(queued, k) /\ upNext' = upNext + 1
      <3>1. /\ Len(queued') = Len(queued) + 1 /\ Len(queued) \in Nat
            /\ DOMAIN queued = 1..Len(queued) /\ DOMAIN queued' = 1..(Len(queued) + 1)
            /\ \A i \in DOMAIN queued : queued'[i] = queued[i] /\ queued[i] \in AllRequests
            /\ queued'[Len(queued) + 1] = k
        BY <2>2, <2>5, AppendFacts, ElementOfSeq DEF NpuDataTypeOK
      <3>2. upNext \in Nat /\ Base' = Base /\ Base \in Int
        BY <2>5, <3>1, LaunchCount DEF NpuDataTypeOK, Base
      <3>3. \A n \in DOMAIN queued' : /\ request'[queued'[n]].launch = Base' + n - 1
                                      /\ request'[queued'[n]].runs # "nothing"
        <4>. TAKE n \in DOMAIN queued'
        <4>1. CASE n \in DOMAIN queued
          BY <2>1, <2>2, <2>3, <2>5, <3>1, <3>2, <4>1 DEF QueueInv, NpuDataTypeOK
        <4>2. CASE n = Len(queued) + 1
          BY <2>2, <2>5, <3>1, <3>2, <4>2 DEF NpuDataTypeOK, Base
        <4>. QED  BY <3>1, <4>1, <4>2
      <3>4. ASSUME NEW q \in AllRequests, request'[q].runs = "launch"
            PROVE  \E n \in DOMAIN queued' : queued'[n] = q
        <4>1. CASE q = k
          BY <3>1, <4>1
        <4>2. CASE q # k
          BY <2>1, <2>5, <3>1, <3>4, <4>2 DEF QueueInv, NpuDataTypeOK
        <4>. QED  BY <4>1, <4>2
      <3>5. \A m \in DOMAIN idle', n \in DOMAIN queued' : idle'[m] # queued'[n]
        BY <2>3, <3>1
      <3>. QED  BY <2>3, <3>3, <3>4, <3>5 DEF QueueInv
    <2>. QED  BY <1>2, <2>4, <2>5 DEF Submit, Throws, k
  <1>3. CASE Take
    <2>. DEFINE k == Head(queued)
    <2>1. /\ driver = "take" /\ queued # <<>> /\ QueueInv /\ queued' = Tail(queued)
          /\ request[k].runs # "launch" /\ request' = request /\ upNext' = upNext
      BY <1>3 DEF Take, DriverAt, Begun, CountInv
    <2>2. /\ Len(queued') = Len(queued) - 1 /\ Len(queued) \in Nat \ {0}
          /\ k = queued[1] /\ k \in AllRequests
          /\ DOMAIN queued = 1..Len(queued) /\ DOMAIN queued' = 1..(Len(queued) - 1)
          /\ \A i \in DOMAIN queued' : queued'[i] = queued[i + 1]
      BY <2>1, TailFacts DEF NpuDataTypeOK
    <2>. HIDE DEF k
    <2>3. upNext \in Nat /\ Base' = Base + 1 /\ Base \in Int
      BY <2>1, <2>2, LaunchCount DEF NpuDataTypeOK, Base
    <2>4. \A n \in DOMAIN queued' : /\ n + 1 \in DOMAIN queued
                                    /\ request'[queued'[n]].launch = Base' + n - 1
                                    /\ request'[queued'[n]].runs # "nothing"
                                    /\ queued'[n] # k
      BY <2>1, <2>2, <2>3 DEF QueueInv
    <2>5. ASSUME NEW q \in AllRequests, request'[q].runs = "launch"
          PROVE  \E n \in DOMAIN queued' : queued'[n] = q
      <3>1. PICK n \in DOMAIN queued : queued[n] = q
        BY <2>1, <2>5 DEF QueueInv
      <3>2. n # 1
        BY <2>1, <2>2, <2>5, <3>1
      <3>3. n - 1 \in DOMAIN queued' /\ queued'[n - 1] = q
        BY <2>2, <3>1, <3>2
      <3>. QED  BY <3>3
    <2>6. CASE idle' = idle
      BY <2>1, <2>2, <2>4, <2>5, <2>6 DEF QueueInv
    <2>7. CASE idle' = Append(idle, k)
      <3>1. /\ DOMAIN idle = 1..Len(idle) /\ DOMAIN idle' = 1..(Len(idle) + 1)
            /\ \A i \in DOMAIN idle : idle'[i] = idle[i]
            /\ idle'[Len(idle) + 1] = k /\ Len(idle) \in Nat
        BY <2>2, <2>7, AppendFacts DEF NpuDataTypeOK
      <3>2. \A m \in DOMAIN idle : idle[m] # k
        BY <2>1, <2>2 DEF QueueInv
      <3>3. \A m \in DOMAIN idle', n \in DOMAIN queued' : idle'[m] # queued'[n]
        BY <2>1, <2>2, <2>4, <3>1 DEF QueueInv
      <3>4. \A m, n \in DOMAIN idle' : idle'[m] = idle'[n] => m = n
        BY <2>1, <3>1, <3>2 DEF QueueInv
      <3>. QED  BY <2>4, <2>5, <3>3, <3>4 DEF QueueInv
    <2>. QED  BY <1>3, <2>6, <2>7 DEF Take, k
  <1>4. CASE NpuRuns
    <2>1. PICK k \in AllRequests, how \in {"done", "failed"} :
            request[k].runs = "launch" /\ request' = [request EXCEPT ![k].runs = how]
      BY <1>4 DEF NpuRuns
    <2>2. UNCHANGED <<queued, idle, upNext>> /\ QueueInv
      BY <1>4 DEF NpuRuns, driverVars, Begun
    <2>3. \A q \in AllRequests : /\ request'[q].launch = request[q].launch
                                 /\ request'[q].runs = IF q = k THEN how ELSE request[q].runs
      BY <2>1 DEF NpuDataTypeOK
    <2>4. \A n \in DOMAIN queued : queued[n] \in AllRequests
      BY LenProperties, ElementOfSeq DEF NpuDataTypeOK
    <2>. QED  BY <2>2, <2>3, <2>4 DEF QueueInv, Base
  <1>5. CASE UNCHANGED <<queued, idle, upNext, request>> /\ Begun
    BY <1>5 DEF QueueInv, Base
  <1>6. ASSUME Top \/ Look \/ Count \/ Halt \/ HaltNotify \/ DrainQueued \/ PrepWait
               \/ PrepPublish \/ NpuCancelled
        PROVE  UNCHANGED <<queued, idle, upNext, request>> /\ Begun
    BY <1>6 DEF Top, Look, Count, Halt, HaltNotify, DrainQueued, PrepWait, PrepPublish,
       NpuCancelled, DriverAt, PrepStep, driverVars, Begun
  <1>7. ~NpuPrepareFails /\ ~JoinPrep
    BY DEF NpuPrepareFails, JoinPrep, Begun
  <1>. QED  BY <1>1, <1>2, <1>3, <1>4, <1>5, <1>6, <1>7 DEF NpuNext

\* Every step keeps what is counted.
LEMMA CountStep ==
  ASSUME NpuDataTypeOK, Begun => QueueInv /\ CountInv, NpuNext, Begun'
  PROVE  CountInv'
  <1>. /\ upNext \in Nat /\ npuTiles \in Nat /\ Len(queued) \in Nat /\ Len(idle) \in Nat
    BY LaunchCount, LenProperties DEF NpuDataTypeOK
  <1>1. CASE NpuBegin
    <2>1. /\ queued' = <<>> /\ idle' = AllIdle /\ upNext' = 0 /\ npuTiles' = 0
          /\ driver' = "top" /\ npuError' = FALSE /\ panelDone' = [r \in AllPanels |-> 0]
      BY <1>1 DEF NpuBegin
    <2>2. upNext' = 0 /\ Len(queued') = 0 /\ Len(idle') = Requests
      BY <2>1, AllIdleFacts, EmptySeq
    <2>3. panelDone' = [r \in AllPanels |-> DoneOf(r, 0)]
      BY <2>1, DoneOfFacts, NpuConstants DEF AllPanels
    <2>4. Base' = 0
      BY <2>2 DEF Base
    <2>5. Counted' = 0
      BY <2>1 DEF Counted
    <2>. QED  BY <2>1, <2>2, <2>3, <2>4, <2>5, NpuConstants DEF CountInv, Working
  <1>2. CASE Submit
    <2>1. /\ driver = "submit" /\ idle # <<>> /\ CountInv /\ idle' = Front(idle)
          /\ UNCHANGED <<npuTiles, panelDone>>
      BY <1>2 DEF Submit, DriverAt, Begun, CountInv, sharedVars
    <2>2. Len(idle') = Len(idle) - 1 /\ Last(idle) \in AllRequests
      BY <2>1, FrontFacts DEF NpuDataTypeOK
    <2>3. CASE /\ queued' = Append(queued, Last(idle)) /\ upNext' = upNext + 1
               /\ driver' = "top" /\ UNCHANGED npuError
      <3>1. Len(queued') = Len(queued) + 1
        BY <2>2, <2>3, AppendFacts DEF NpuDataTypeOK
      <3>. QED  BY <2>1, <2>2, <2>3, <3>1 DEF CountInv, Base, Counted, Working
    <2>4. CASE Throws /\ UNCHANGED <<queued, upNext>>
      BY <2>1, <2>4 DEF CountInv, Base, Counted, Working, Throws
    <2>. QED  BY <1>2, <2>3, <2>4 DEF Submit
  <1>3. CASE Take
    <2>1. /\ driver = "take" /\ queued # <<>> /\ CountInv /\ queued' = Tail(queued)
          /\ UNCHANGED <<upNext, panelDone>>
      BY <1>3 DEF Take, DriverAt, Begun, CountInv, sharedVars
    <2>2. Len(queued') = Len(queued) - 1 /\ Head(queued) \in AllRequests
      BY <2>1, TailFacts DEF NpuDataTypeOK
    <2>3. CASE Throws /\ UNCHANGED <<idle, npuTiles>>
      BY <2>1, <2>2, <2>3 DEF CountInv, Base, Counted, Working, Throws
    <2>4. CASE /\ idle' = Append(idle, Head(queued)) /\ npuTiles' = npuTiles + 1
               /\ driver' = "count" /\ UNCHANGED npuError
      <3>1. Len(idle') = Len(idle) + 1
        BY <2>2, <2>4, AppendFacts DEF NpuDataTypeOK
      <3>2. Counted' = Counted
        BY <2>1, <2>4 DEF Counted
      <3>. QED  BY <2>1, <2>2, <2>4, <3>1, <3>2 DEF CountInv, Base, Working
    <2>. QED  BY <1>3, <2>3, <2>4 DEF Take
  <1>4. CASE Count
    <2>1. /\ driver = "count" /\ npuTiles > 0 /\ CountInv /\ driver' \in {"halt", "top"}
          /\ UNCHANGED <<queued, idle, upNext, npuTiles, npuError>>
          /\ panelDone' = [panelDone EXCEPT ![PanelOf(npuTiles - 1)] = @ + 1]
      BY <1>4 DEF Count, DriverAt, Begun, CountInv, JustChecked
    <2>2. PICK n \in Nat : npuTiles - 1 = n /\ Counted = n /\ Counted' = n + 1
      BY <2>1 DEF Counted
    <2>3. panelDone' = [r \in AllPanels |-> DoneOf(r, Counted')]
      <3>1. ASSUME NEW r \in AllPanels
            PROVE  panelDone'[r] = DoneOf(r, n + 1)
        <4>1. r \in Nat
          BY NpuConstants DEF AllPanels
        <4>2. panelDone[r] = DoneOf(r, n) /\ panelDone = [i \in AllPanels |-> panelDone[i]]
          BY <2>1, <2>2 DEF CountInv
        <4>3. panelDone'[r] = IF r = PanelOf(n) THEN panelDone[r] + 1 ELSE panelDone[r]
          BY <2>1, <2>2, <4>2
        <4>4. DoneOf(r, n + 1) = IF r = PanelOf(n) THEN DoneOf(r, n) + 1 ELSE DoneOf(r, n)
          BY <4>1, DoneOfFacts
        <4>. QED  BY <4>2, <4>3, <4>4
      <3>. QED  BY <2>1, <2>2, <3>1 DEF CountInv
    <2>. QED  BY <2>1, <2>3 DEF CountInv, Base, Working
  <1>5. CASE Top
    <2>1. /\ driver = "top" /\ CountInv /\ driver' \in {"drain", "halt", "look", "take"}
          /\ UNCHANGED <<queued, idle, upNext, npuTiles, npuError, panelDone>>
          /\ driver' = "look" => upNext < NpuLaunches /\ idle # <<>>
          /\ driver' = "take" => queued # <<>>
      BY <1>5 DEF Top, DriverAt, Begun, sharedVars
    <2>2. Counted' = Counted
      BY <2>1 DEF Counted
    <2>. QED  BY <2>1, <2>2 DEF CountInv, Base, Working
  <1>6. CASE Look
    <2>1. /\ driver = "look" /\ CountInv /\ driver' \in {"drain", "asleep", "submit", "take"}
          /\ UNCHANGED <<queued, idle, upNext, npuTiles, npuError, panelDone>>
          /\ driver' = "asleep" => queued = <<>>
          /\ driver' = "take" => queued # <<>>
      BY <1>6 DEF Look, DriverAt, Begun, sharedVars
    <2>2. Counted' = Counted
      BY <2>1 DEF Counted
    <2>. QED  BY <2>1, <2>2 DEF CountInv, Base, Working
  <1>7. CASE Halt \/ HaltNotify \/ DrainQueued
    <2>1. /\ CountInv /\ driver' \in {"haltNotify", "endNotify", "drain", "join", "end"}
          /\ driver # "count"
          /\ UNCHANGED <<queued, idle, upNext, npuTiles, npuError, panelDone>>
      BY <1>7 DEF Halt, HaltNotify, DrainQueued, DriverAt, Begun, sharedVars
    <2>2. Counted' = Counted
      BY <2>1 DEF Counted
    <2>. QED  BY <2>1, <2>2 DEF CountInv, Base, Working
  <1>8. CASE PrepPublish
    <2>1. /\ CountInv /\ driver' = (IF driver = "asleep" THEN "look" ELSE driver)
          /\ UNCHANGED <<queued, idle, upNext, npuTiles, npuError, panelDone>>
      BY <1>8 DEF PrepPublish, PrepStep, Begun
    <2>2. Counted' = Counted
      BY <2>1 DEF Counted
    <2>. QED  BY <2>1, <2>2 DEF CountInv, Base, Working
  <1>9. CASE PrepWait \/ NpuRuns \/ NpuCancelled
    <2>1. Begun /\ UNCHANGED <<driverVars, panelDone>>
      BY <1>9 DEF PrepWait, NpuRuns, NpuCancelled, PrepStep, sharedVars, driverVars, Begun
    <2>. QED  BY <2>1 DEF CountInv, Base, Working, Counted, driverVars
  <1>10. ~NpuPrepareFails /\ ~JoinPrep
    BY DEF NpuPrepareFails, JoinPrep, Begun
  <1>. QED  BY <1>1, <1>2, <1>3, <1>4, <1>5, <1>6, <1>7, <1>8, <1>9, <1>10 DEF NpuNext

\* The types of the tables the two threads share.
TableTypeOK ==
  /\ slotPanel \in [PanelSlot -> AllPanels \cup {Nothing}]
  /\ memory \in [PanelSlot -> AllPanels \cup {Nothing}]
  /\ panelDone \in [AllPanels -> 0..ColumnBlocks]
  /\ prep \in {"gone", "wait", "asleep", "build"}

\* They are part of the type invariant.
LEMMA TableTypes == NpuTypeOK => TableTypeOK
  BY DEF NpuTypeOK, TableTypeOK

\* The preparing thread is there only while a panel is left to build.
PanelRoom == prep # "gone" => panel < Panels

\* The slot of the panel to be built holds none that is needed.
LEMMA SlotIsUnused ==
  ASSUME panel \in Nat, Counted \in Nat, panel < Panels, SlotUnused,
         panelDone = [r \in AllPanels |-> DoneOf(r, Counted)]
  PROVE  FirstLaunch(panel - PanelSlots + 1) <= Counted
  <1>. DEFINE r == panel - PanelSlots
  <1>1. r \in Int /\ r < Panels
    BY NpuConstants
  <1>2. CASE r < 0
    <2>1. r + 1 <= 0 /\ r + 1 \in Int
      BY <1>1, <1>2
    <2>. HIDE DEF r
    <2>2. FirstLaunch(r + 1) <= FirstLaunch(0) /\ FirstLaunch(r + 1) \in Int
      BY <2>1, FirstLaunches
    <2>3. FirstLaunch(r + 1) <= Counted
      BY <2>2, FirstLaunches
    <2>. QED  BY <2>3 DEF r
  <1>3. CASE r >= 0
    <2>1. r \in AllPanels /\ r \in Nat
      BY <1>1, <1>3, NpuConstants DEF AllPanels
    <2>2. DoneOf(r, Counted) = ColumnBlocks
      BY <2>1 DEF SlotUnused
    <2>. HIDE DEF r
    <2>3. FirstLaunch(r + 1) <= Counted
      <3>1. FirstLaunch(r + 1) \in Int
        BY <2>1, FirstLaunches
      <3>. QED  BY <2>1, <2>2, <3>1, DoneOfFacts
    <2>. QED  BY <2>3 DEF r
  <1>. QED  BY <1>1, <1>2, <1>3

\* Every step of the driver and of the preparing thread keeps the slots.
LEMMA PanelStep ==
  ASSUME NpuDataTypeOK, TableTypeOK, Begun => CountInv /\ PanelInv, PanelRoom, NpuNext, Begun'
  PROVE  PanelInv'
  <1>. /\ upNext \in Nat /\ npuTiles \in Nat /\ panel \in Nat /\ panel <= Panels
    BY LaunchCount, NpuConstants DEF NpuDataTypeOK
  <1>1. CASE NpuBegin
    <2>1. /\ upNext' = 0 /\ panel' = 0 /\ npuTiles' = 0 /\ prep' = "wait" /\ driver' = "top"
          /\ slotPanel' = [s \in PanelSlot |-> Nothing]
          /\ memory' = [s \in PanelSlot |-> Nothing]
      BY <1>1 DEF NpuBegin
    <2>2. Counted' = 0 /\ Low' = 0 - PanelSlots
      BY <2>1 DEF Counted, Low
    <2>3. FirstLaunch(Low') <= 0 /\ FirstLaunch(panel') = 0
      BY <2>1, <2>2, FirstLaunches, NpuConstants
    <2>4. \A r \in AllPanels : ~(r < 0)
      BY NpuConstants DEF AllPanels
    <2>. QED  BY <2>1, <2>2, <2>3, <2>4 DEF PanelInv, Nothing
  <1>2. CASE Submit
    <2>1. /\ driver = "submit" /\ PanelInv /\ driver' \in {"top", "halt"}
          /\ upNext' \in {upNext, upNext + 1}
          /\ UNCHANGED <<npuTiles, slotPanel, memory, prep, panel>>
      BY <1>2 DEF Submit, Throws, DriverAt, Begun, sharedVars
    <2>2. upNext < FirstLaunch(panel) /\ FirstLaunch(panel) \in Int
      BY <2>1, PanelBetween, FirstLaunches DEF PanelInv
    <2>3. Counted' = Counted /\ Low' = Low
      BY <2>1 DEF Counted, Low
    <2>. QED  BY <2>1, <2>2, <2>3 DEF PanelInv
  <1>3. ASSUME Begun, UNCHANGED <<upNext, panel, slotPanel, memory>>, Low' = Low,
               Counted' \in {Counted, Counted + 1},
               driver' = "submit" => driver = "submit" \/ PanelOf(upNext) < panel
        PROVE  PanelInv'
    <2>1. Low \in Int /\ Counted \in Int
      BY NpuConstants DEF Low, Counted
    <2>2. FirstLaunch(Low) \in Int
      BY <2>1, FirstLaunches
    <2>. QED  BY <1>3, <2>1, <2>2 DEF PanelInv
  <1>4. CASE Look
    <2>1. /\ driver = "look" /\ PanelInv /\ CountInv /\ driver' # "count"
          /\ driver' = "submit" => NextReady
          /\ UNCHANGED <<upNext, npuTiles, panel, slotPanel, memory, prep>>
      BY <1>4 DEF Look, DriverAt, Begun, sharedVars
    <2>2. driver' = "submit" => PanelOf(upNext) < panel
      BY <2>1, SlotType, PanelBounds DEF NextReady, PanelInv
    <2>3. Low' = Low /\ Counted' = Counted
      BY <2>1 DEF Low, Counted
    <2>. QED  BY <1>3, <2>1, <2>2, <2>3 DEF Begun
  <1>5. CASE Top \/ Halt \/ DrainQueued \/ NpuRuns \/ NpuCancelled \/ HaltNotify
    <2>1. /\ Begun /\ (driver' = "submit" => driver = "submit")
          /\ driver' = "count" <=> driver = "count"
          /\ prep' = "build" <=> prep = "build"
          /\ UNCHANGED <<upNext, npuTiles, panel, slotPanel, memory>>
      BY <1>5 DEF Top, Halt, DrainQueued, NpuRuns, NpuCancelled, HaltNotify, WakePrep,
         DriverAt, sharedVars, driverVars, prepVars, Begun
    <2>2. Low' = Low /\ Counted' = Counted
      BY <2>1 DEF Low, Counted
    <2>. QED  BY <1>3, <2>1, <2>2
  <1>6. CASE Take
    <2>1. /\ Begun /\ driver = "take" /\ driver' \in {"halt", "count"}
          /\ npuTiles' = (IF driver' = "count" THEN npuTiles + 1 ELSE npuTiles)
          /\ UNCHANGED <<upNext, panel, slotPanel, memory, prep>>
      BY <1>6 DEF Take, Throws, DriverAt, sharedVars, Begun
    <2>2. Low' = Low /\ Counted' = Counted
      BY <2>1 DEF Low, Counted
    <2>. QED  BY <1>3, <2>1, <2>2
  <1>7. CASE Count
    <2>1. /\ Begun /\ driver = "count" /\ driver' \in {"halt", "top"}
          /\ prep' = "build" <=> prep = "build"
          /\ UNCHANGED <<upNext, npuTiles, panel, slotPanel, memory>>
      BY <1>7 DEF Count, WakePrep, DriverAt, Begun
    <2>2. Low' = Low /\ Counted' = Counted + 1
      BY <2>1 DEF Low, Counted
    <2>. QED  BY <1>3, <2>1, <2>2
  <1>8. CASE PrepWait
    <2>1. /\ Begun /\ CountInv /\ PanelInv /\ prep = "wait" /\ panel < Panels
          /\ UNCHANGED <<driver, upNext, npuTiles, panel, slotPanel>>
      BY <1>8 DEF PrepWait, PrepStep, driverVars, Begun, PanelRoom
    <2>2. Counted' = Counted /\ Counted \in Nat
      BY <2>1 DEF Counted, CountInv
    <2>3. CASE prep' \in {"gone", "asleep"} /\ UNCHANGED memory
      <3>1. Low' = Low
        BY <2>1, <2>3 DEF Low
      <3>. QED  BY <1>3, <2>1, <2>2, <2>3, <3>1
    <2>4. CASE /\ SlotUnused /\ prep' = "build"
               /\ memory' = [memory EXCEPT ![SlotOfPanel(panel)] = Nothing]
      <3>1. FirstLaunch(panel - PanelSlots + 1) <= Counted
        BY <2>1, <2>2, <2>4, SlotIsUnused DEF CountInv
      <3>2. Low' = panel - PanelSlots + 1 /\ Low = panel - PanelSlots
        BY <2>1, <2>4 DEF Low
      <3>3. ASSUME NEW r \in AllPanels, r < panel, Low' <= r
            PROVE  memory'[SlotOfPanel(r)] = r
        <4>1. r \in Nat /\ panel - r < PanelSlots /\ Low <= r
          BY <3>2, <3>3, NpuConstants DEF AllPanels
        <4>2. SlotOfPanel(r) # SlotOfPanel(panel)
          BY <3>3, <4>1, SlotsApart
        <4>3. SlotOfPanel(r) \in PanelSlot
          BY <4>1, SlotType
        <4>. QED  BY <2>1, <2>4, <3>3, <4>1, <4>2, <4>3 DEF PanelInv, TableTypeOK
      <3>. QED  BY <2>1, <2>2, <3>1, <3>2, <3>3 DEF PanelInv
    <2>. QED  BY <1>8, <2>3, <2>4 DEF PrepWait
  <1>9. CASE PrepPublish
    <2>1. /\ Begun /\ CountInv /\ PanelInv /\ prep = "build" /\ panel < Panels
          /\ panel' = panel + 1 /\ prep' \in {"gone", "wait"}
          /\ driver' \in {driver, "look"} /\ (driver = "count" <=> driver' = "count")
          /\ memory' = [memory EXCEPT ![SlotOfPanel(panel)] = panel]
          /\ slotPanel' = [slotPanel EXCEPT ![SlotOfPanel(panel)] = panel]
          /\ UNCHANGED <<upNext, npuTiles>>
      BY <1>9 DEF PrepPublish, PrepStep, driverVars, Begun, PanelRoom
    <2>2. Counted' = Counted
      BY <2>1 DEF Counted
    <2>3. Low' = panel + 1 - PanelSlots /\ Low = panel + 1 - PanelSlots
      BY <2>1, NpuConstants DEF Low
    <2>4. panel \in AllPanels /\ SlotOfPanel(panel) \in PanelSlot
      BY <2>1, SlotType, NpuConstants DEF AllPanels
    <2>5. upNext <= FirstLaunch(panel + 1)
      <3>1. /\ FirstLaunch(panel) \in Int /\ FirstLaunch(panel + 1) = FirstLaunch(panel) + ColumnBlocks
        BY FirstLaunches
      <3>. QED  BY <2>1, <3>1, NpuConstants DEF PanelInv
    <2>6. ASSUME NEW r \in AllPanels, r < panel', panel' - PanelSlots <= r
          PROVE  memory'[SlotOfPanel(r)] = r /\ slotPanel'[SlotOfPanel(r)] = r
      <3>1. r \in Nat /\ panel - r < PanelSlots /\ Low <= r /\ panel - PanelSlots <= r
        BY <2>1, <2>3, <2>6, NpuConstants DEF AllPanels
      <3>2. SlotOfPanel(r) \in PanelSlot
        BY <3>1, SlotType
      <3>3. CASE r = panel
        BY <2>1, <2>4, <3>3 DEF TableTypeOK
      <3>4. CASE r < panel
        <4>1. SlotOfPanel(r) # SlotOfPanel(panel)
          BY <3>1, <3>4, SlotsApart
        <4>. QED  BY <2>1, <3>1, <3>2, <3>4, <4>1 DEF PanelInv, TableTypeOK
      <3>. QED  BY <2>1, <2>6, <3>1, <3>3, <3>4
    <2>7. ASSUME NEW s \in PanelSlot PROVE slotPanel'[s] < panel'
      <3>1. slotPanel[s] < panel /\ slotPanel[s] \in Int
        BY <2>1, <2>7, NpuConstants DEF PanelInv, TableTypeOK, AllPanels, Nothing
      <3>2. slotPanel'[s] = IF s = SlotOfPanel(panel) THEN panel ELSE slotPanel[s]
        BY <2>1 DEF TableTypeOK
      <3>. QED  BY <2>1, <3>1, <3>2
    <2>8. driver' = "submit" => PanelOf(upNext) < panel'
      BY <2>1, PanelBounds DEF PanelInv
    <2>9. upNext' <= FirstLaunch(panel') /\ FirstLaunch(Low') <= Counted'
      BY <2>1, <2>2, <2>3, <2>5 DEF PanelInv
    <2>10. Low' = panel' - PanelSlots /\ upNext' = upNext
      BY <2>1, <2>3, NpuConstants
    <2>. QED  BY <2>6, <2>7, <2>8, <2>9, <2>10 DEF PanelInv
  <1>10. ~NpuPrepareFails /\ ~JoinPrep
    BY DEF NpuPrepareFails, JoinPrep, Begun
  <1>. QED  BY <1>1, <1>2, <1>4, <1>5, <1>6, <1>7, <1>8, <1>9, <1>10 DEF NpuNext

\* The types of what is left.
NpuFlagTypeOK ==
  /\ shows \in Showings /\ npuCancel \in BOOLEAN /\ npuAttempts \in 0..MaxNpuAttempts
  /\ npuError \in BOOLEAN /\ halted \in BOOLEAN
  /\ npuOutcome \in {"idle", "running", "failed", "hit", "cancelled", "none"}

\* The parts are the type invariant.
LEMMA NpuTypes == NpuTypeOK <=> NpuDataTypeOK /\ TableTypeOK /\ NpuFlagTypeOK
  BY DEF NpuTypeOK, NpuDataTypeOK, TableTypeOK, NpuFlagTypeOK

\* Every step keeps the types of the flags.
LEMMA FlagTypeStep ==
  ASSUME NpuFlagTypeOK, NpuNext
  PROVE  NpuFlagTypeOK'
  <1>1. shows' \in Showings
    BY DEF NpuFlagTypeOK, NpuNext, NpuPrepareFails, NpuBegin, Top, Look, Submit, Take, Count,
       Halt, HaltNotify, DrainQueued, JoinPrep, PrepWait, PrepPublish, NpuRuns,
       NpuCancelled, DriverAt, PrepStep, AttemptKeeps
  <1>2. npuCancel' \in BOOLEAN
    BY DEF NpuFlagTypeOK, NpuNext, NpuPrepareFails, NpuBegin, Top, Look, Submit, Take, Count,
       Halt, HaltNotify, DrainQueued, JoinPrep, PrepWait, PrepPublish, NpuRuns,
       NpuCancelled, DriverAt, PrepStep, AttemptKeeps
  <1>3. npuAttempts' \in 0..MaxNpuAttempts
    <2>1. UNCHANGED npuAttempts \/ (npuAttempts < MaxNpuAttempts /\ npuAttempts' = npuAttempts + 1)
      BY DEF NpuNext, NpuPrepareFails, NpuBegin, Top, Look, Submit, Take, Count,
         Halt, HaltNotify, DrainQueued, JoinPrep, PrepWait, PrepPublish, NpuRuns,
         NpuCancelled, DriverAt, PrepStep, AttemptKeeps
    <2>. QED  BY <2>1, NpuConstants DEF NpuFlagTypeOK
  <1>4. npuError' \in BOOLEAN
    BY DEF NpuFlagTypeOK, NpuNext, NpuPrepareFails, NpuBegin, Top, Look, Submit, Take, Count,
       Halt, HaltNotify, DrainQueued, JoinPrep, PrepWait, PrepPublish, NpuRuns,
       NpuCancelled, Throws, driverVars
  <1>5. halted' \in BOOLEAN
    BY DEF NpuFlagTypeOK, NpuNext, NpuPrepareFails, NpuBegin, Top, Look, Submit, Take, Count,
       Halt, HaltNotify, DrainQueued, JoinPrep, PrepWait, PrepPublish, NpuRuns,
       NpuCancelled, PrepStep, sharedVars
  <1>6. npuOutcome' \in {"idle", "running", "failed", "hit", "cancelled", "none"}
    <2>1. CASE JoinPrep
      BY <2>1 DEF JoinPrep
    <2>2. CASE UNCHANGED npuOutcome \/ npuOutcome' \in {"failed", "running"}
      BY <2>2 DEF NpuFlagTypeOK
    <2>. QED  BY <2>1, <2>2 DEF NpuNext, NpuPrepareFails, NpuBegin, Top, Look, Submit, Take, Count,
              Halt, HaltNotify, DrainQueued, PrepWait, PrepPublish, NpuRuns,
              NpuCancelled, DriverAt, PrepStep, driverVars
  <1>. QED  BY <1>1, <1>2, <1>3, <1>4, <1>5, <1>6 DEF NpuFlagTypeOK

\* Every step keeps the types of the tables.
LEMMA TableTypeStep ==
  ASSUME NpuDataTypeOK, NpuDataTypeOK', TableTypeOK, PanelRoom, NpuNext, Begun' => CountInv'
  PROVE  TableTypeOK'
  <1>. /\ panel \in Nat /\ panel <= Panels
    BY NpuConstants DEF NpuDataTypeOK
  <1>1. panelDone' \in [AllPanels -> 0..ColumnBlocks]
    <2>1. CASE UNCHANGED panelDone
      BY <2>1 DEF TableTypeOK
    <2>2. CASE Begun'
      <3>1. \A r \in AllPanels : r \in Nat
        BY NpuConstants DEF AllPanels
      <3>4. PICK t \in Nat : npuTiles' = t /\ (driver' = "count" => t > 0)
        BY <2>2, LaunchCount DEF CountInv, NpuDataTypeOK
      <3>2. Counted' \in Nat
        BY <3>4 DEF Counted
      <3>3. \A r \in AllPanels : DoneOf(r, Counted') \in 0..ColumnBlocks
        BY <3>1, <3>2, DoneOfFacts
      <3>. QED  BY <2>2, <3>3 DEF CountInv
    <2>. QED  BY <2>1, <2>2 DEF NpuNext, NpuPrepareFails, NpuBegin, Top, Look, Submit, Take, Count,
              Halt, HaltNotify, DrainQueued, JoinPrep, PrepWait, PrepPublish, NpuRuns,
              NpuCancelled, DriverAt, PrepStep, sharedVars, Begun
  <1>2. prep' \in {"gone", "wait", "asleep", "build"}
    BY DEF TableTypeOK, NpuNext, NpuPrepareFails, NpuBegin, Top, Look, Submit, Take, Count,
       Halt, HaltNotify, DrainQueued, JoinPrep, PrepWait, PrepPublish, NpuRuns,
       NpuCancelled, DriverAt, PrepStep, prepVars, WakePrep
  <1>3. /\ slotPanel' \in [PanelSlot -> AllPanels \cup {Nothing}]
        /\ memory' \in [PanelSlot -> AllPanels \cup {Nothing}]
    <2>1. CASE UNCHANGED <<slotPanel, memory>>
      BY <2>1 DEF TableTypeOK
    <2>2. CASE NpuBegin
      BY <2>2 DEF NpuBegin
    <2>3. CASE PrepWait
      BY <2>3 DEF PrepWait, TableTypeOK
    <2>4. CASE PrepPublish
      <3>1. panel \in AllPanels
        BY <2>4, NpuConstants DEF PrepPublish, PrepStep, PanelRoom, AllPanels
      <3>. QED  BY <2>4, <3>1 DEF PrepPublish, TableTypeOK
    <2>. QED  BY <2>1, <2>2, <2>3, <2>4 DEF NpuNext, NpuPrepareFails, Top, Look, Submit, Take,
              Count, Halt, HaltNotify, DrainQueued, JoinPrep, NpuRuns,
              NpuCancelled, DriverAt, sharedVars
  <1>. QED  BY <1>1, <1>2, <1>3 DEF TableTypeOK

\* Every step keeps the types of the data.
LEMMA DataTypeStep ==
  ASSUME NpuDataTypeOK, Begun => QueueInv /\ CountInv, PanelRoom, NpuNext, Begun' => CountInv'
  PROVE  NpuDataTypeOK'
  <1>. DEFINE Labels == {"idle", "top", "look", "asleep", "submit", "take", "count", "halt",
                         "haltNotify", "drain", "end", "endNotify", "join"}
              RequestType == [runs: {"nothing", "launch", "done", "failed"},
                              launch: NpuLaunch \cup {Nothing}]
  <1>1. CASE NpuBegin
    <2>1. queued' \in Seq(AllRequests) /\ idle' \in Seq(AllRequests)
      BY <1>1, AllIdleFacts, EmptySeq DEF NpuBegin
    <2>. QED  BY <1>1, <2>1, LaunchCount, NpuConstants DEF NpuBegin, NpuDataTypeOK
  <1>2. CASE Submit
    <2>1. driver = "submit" /\ idle # <<>> /\ upNext < NpuLaunches
      BY <1>2 DEF Submit, DriverAt, Begun, CountInv
    <2>2. idle' \in Seq(AllRequests) /\ Last(idle) \in AllRequests
      BY <1>2, <2>1, FrontFacts DEF Submit, NpuDataTypeOK
    <2>. DEFINE k == Last(idle)
    <2>. HIDE DEF k
    <2>3. queued' \in Seq(AllRequests)
      <3>1. k \in AllRequests /\ (queued' = queued \/ queued' = Append(queued, k))
        BY <1>2, <2>2 DEF Submit, k
      <3>2. queued \in Seq(AllRequests) /\ Append(queued, k) \in Seq(AllRequests)
        BY <3>1, AppendFacts DEF NpuDataTypeOK
      <3>. QED  BY <3>1, <3>2
    <2>4. upNext' \in 0..NpuLaunches /\ upNext \in NpuLaunch
      BY <1>2, <2>1, LaunchCount DEF Submit, NpuDataTypeOK, NpuLaunch
    <2>5. request' \in [AllRequests -> RequestType]
      <3>1. /\ k \in AllRequests
            /\ request' = request
               \/ request' = [request EXCEPT ![k] = [runs |-> "launch", launch |-> upNext]]
        BY <1>2, <2>2 DEF Submit, k
      <3>2. [runs |-> "launch", launch |-> upNext] \in RequestType
        BY <2>4
      <3>. QED  BY <3>1, <3>2 DEF NpuDataTypeOK
    <2>6. driver' \in Labels /\ UNCHANGED <<npuHit, npuTiles, panel>>
      BY <1>2 DEF Submit, Throws, DriverAt
    <2>. QED  BY <2>2, <2>3, <2>4, <2>5, <2>6 DEF NpuDataTypeOK
  <1>3. CASE Take
    <2>1. /\ driver = "take" /\ queued # <<>> /\ driver' \in {"halt", "count"}
          /\ UNCHANGED <<upNext, panel, request>>
      BY <1>3 DEF Take, Throws, DriverAt, Begun, CountInv
    <2>2. queued' \in Seq(AllRequests) /\ Head(queued) \in AllRequests
      BY <1>3, <2>1, TailFacts DEF Take, NpuDataTypeOK
    <2>3. idle' \in Seq(AllRequests)
      <3>. DEFINE k == Head(queued)
      <3>. HIDE DEF k
      <3>1. idle' \in {idle, Append(idle, k)} /\ k \in AllRequests
        BY <1>3, <2>2 DEF Take, k
      <3>2. idle \in Seq(AllRequests)
        BY DEF NpuDataTypeOK
      <3>3. Append(idle, k) \in Seq(AllRequests)
        BY <3>1, <3>2, AppendFacts
      <3>. QED  BY <3>1, <3>2, <3>3
    <2>4. npuTiles' \in 0..NpuLaunches
      <3>1. npuTiles' \in {npuTiles, npuTiles + 1} /\ npuTiles' <= Base'
        BY <1>3, <2>1 DEF Take, CountInv, Begun
      <3>2. Len(queued') \in Nat
        BY <2>2, LenProperties
      <3>. QED  BY <2>1, <3>1, <3>2, LaunchCount DEF NpuDataTypeOK, Base
    <2>5. npuHit' \in NpuLaunch \cup {Nothing}
      BY <1>3, <2>2 DEF Take, NpuDataTypeOK
    <2>. QED  BY <2>1, <2>2, <2>3, <2>4, <2>5 DEF NpuDataTypeOK
  <1>4. CASE PrepPublish
    BY <1>4, NpuConstants DEF PrepPublish, PrepStep, PanelRoom, NpuDataTypeOK
  <1>5. CASE NpuRuns
    BY <1>5 DEF NpuRuns, driverVars, prepVars, NpuDataTypeOK
  <1>6. CASE driver' \in Labels
             /\ UNCHANGED <<queued, idle, upNext, npuHit, npuTiles, panel, request>>
    BY <1>6 DEF NpuDataTypeOK
  <1>7. ASSUME Top \/ Look \/ Count \/ Halt \/ HaltNotify \/ DrainQueued \/ JoinPrep
        PROVE  driver' \in Labels
               /\ UNCHANGED <<queued, idle, upNext, npuHit, npuTiles, panel, request>>
    BY <1>7 DEF Top, Look, Count, Halt, HaltNotify, DrainQueued, JoinPrep, DriverAt, prepVars
  <1>8. ASSUME PrepWait \/ NpuCancelled
        PROVE  driver' \in Labels
               /\ UNCHANGED <<queued, idle, upNext, npuHit, npuTiles, panel, request>>
    BY <1>8 DEF PrepWait, NpuCancelled, PrepStep, driverVars, prepVars, NpuDataTypeOK
  <1>9. CASE NpuPrepareFails
    BY <1>9, LaunchCount DEF NpuPrepareFails, prepVars, NpuDataTypeOK
  <1>. QED  BY <1>1, <1>2, <1>3, <1>4, <1>5, <1>6, <1>7, <1>8, <1>9 DEF NpuNext

-----------------------------------------------------------------------------
\* Nobody waits for a panel or a slot that is there.
WaitInv ==
  /\ driver = "asleep" => ~NextReady
  /\ prep = "asleep" => ~SlotUnused

\* Every step keeps it: what makes a panel or a slot ready wakes who waits for it.
LEMMA WaitStep ==
  ASSUME WaitInv, NpuNext
  PROVE  WaitInv'
  <1>. USE DEF WaitInv
  <1>1. CASE UNCHANGED <<upNext, slotPanel, panel, panelDone>>
             /\ (driver' = "asleep" => driver = "asleep")
             /\ (prep' = "asleep" => prep = "asleep")
    BY <1>1 DEF NextReady, SlotUnused
  <1>2. ASSUME NpuPrepareFails \/ Top \/ Take \/ Halt \/ HaltNotify
               \/ DrainQueued \/ JoinPrep \/ NpuRuns \/ NpuCancelled
        PROVE  /\ UNCHANGED <<upNext, slotPanel, panel, panelDone>>
               /\ driver' = "asleep" => driver = "asleep"
               /\ prep' = "asleep" => prep = "asleep"
    BY <1>2 DEF NpuPrepareFails, Top, Take, Halt, HaltNotify, DrainQueued, JoinPrep, NpuRuns,
       NpuCancelled, WakePrep, Throws, DriverAt, driverVars, sharedVars, prepVars
  <1>3. CASE NpuBegin
    BY <1>3 DEF NpuBegin
  <1>4. CASE Look
    BY <1>4 DEF Look, DriverAt, sharedVars, NextReady, SlotUnused
  <1>5. CASE Submit
    BY <1>5 DEF Submit, Throws, DriverAt, sharedVars, SlotUnused
  <1>6. CASE Count
    BY <1>6 DEF Count, WakePrep
  <1>7. CASE PrepWait
    <2>1. UNCHANGED <<driver, upNext, slotPanel, panel, panelDone>>
      BY <1>7 DEF PrepWait, PrepStep, driverVars
    <2>2. prep' = "asleep" => ~SlotUnused
      BY <1>7 DEF PrepWait
    <2>. QED  BY <2>1, <2>2 DEF NextReady, SlotUnused
  <1>8. CASE PrepPublish
    BY <1>8 DEF PrepPublish
  <1>. QED  BY <1>1, <1>2, <1>3, <1>4, <1>5, <1>6, <1>7, <1>8 DEF NpuNext

\* Where the two threads can be at the same time.
ThreadInv ==
  /\ driver \in Working \cup {"count", "halt"} => ~halted
  /\ driver \in {"haltNotify", "endNotify", "join"} => halted
  /\ prep = "asleep" /\ halted => driver \in {"haltNotify", "endNotify"}
  /\ prep = "gone" /\ driver # "idle" => halted \/ panel = Panels
  /\ driver = "idle" => prep = "gone"

\* Where the driver can be.
Places == {"idle", "top", "look", "asleep", "submit", "take", "count", "halt",
           "haltNotify", "drain", "end", "endNotify", "join"}

\* Every step keeps the threads in such places.
LEMMA ThreadStep ==
  ASSUME ThreadInv, driver \in Places, NpuNext
  PROVE  ThreadInv'
  <1>. USE DEF ThreadInv, Working
  <1>1. CASE NpuPrepareFails
    BY <1>1 DEF NpuPrepareFails, sharedVars, prepVars
  <1>2. CASE NpuBegin
    BY <1>2 DEF NpuBegin
  <1>3. CASE Top \/ Look \/ Submit \/ Take
    <2>1. /\ driver \in Working /\ UNCHANGED <<halted, panel, prep>>
          /\ driver' \in {"drain", "halt", "look", "take", "submit", "asleep", "top", "count"}
      BY <1>3 DEF Top, Look, Submit, Take, DriverAt, Throws, sharedVars
    <2>. QED  BY <2>1
  <1>4. CASE Count
    BY <1>4 DEF Count, DriverAt, WakePrep
  <1>5. CASE Halt
    BY <1>5 DEF Halt, prepVars
  <1>6. CASE HaltNotify
    BY <1>6 DEF HaltNotify, WakePrep, sharedVars
  <1>7. CASE DrainQueued
    BY <1>7 DEF DrainQueued, DriverAt, sharedVars
  <1>8. CASE JoinPrep
    BY <1>8 DEF JoinPrep, sharedVars, prepVars
  <1>9. CASE PrepWait
    BY <1>9 DEF PrepWait, PrepStep, driverVars
  <1>10. CASE PrepPublish
    BY <1>10 DEF PrepPublish, PrepStep, driverVars, Places
  <1>11. CASE NpuRuns \/ NpuCancelled
    BY <1>11 DEF NpuRuns, NpuCancelled, driverVars, sharedVars, prepVars
  <1>. QED  BY <1>1, <1>2, <1>3, <1>4, <1>5, <1>6, <1>7, <1>8, <1>9, <1>10, <1>11 DEF NpuNext

\* Every step keeps a panel for the preparing thread.
LEMMA RoomStep ==
  ASSUME NpuDataTypeOK, PanelRoom, NpuNext
  PROVE  PanelRoom'
  <1>1. CASE NpuBegin
    BY <1>1, NpuConstants DEF NpuBegin, PanelRoom
  <1>2. CASE PrepPublish
    BY <1>2, NpuConstants DEF PrepPublish, PrepStep, PanelRoom, NpuDataTypeOK
  <1>3. CASE UNCHANGED panel /\ (prep' # "gone" => prep # "gone")
    BY <1>3 DEF PanelRoom
  <1>. QED  BY <1>1, <1>2, <1>3 DEF NpuNext, NpuPrepareFails, Top, Look, Submit, Take, Count,
            Halt, HaltNotify, DrainQueued, JoinPrep, PrepWait, NpuRuns, NpuCancelled,
            DriverAt, PrepStep, prepVars, WakePrep

\* No launch runs once the queue is drained, until the next attempt.
NoneRunsInv ==
  driver \in Leaving \cup {"idle"} => \A q \in AllRequests : request[q].runs # "launch"

\* Every step keeps that nothing runs after the queue is drained.
LEMMA NoneRunsStep ==
  ASSUME NpuDataTypeOK, NoneRunsInv, Begun => QueueInv, NpuNext
  PROVE  NoneRunsInv'
  <1>1. CASE DrainQueued
    BY <1>1 DEF DrainQueued, DriverAt, NoneRunsInv, QueueInv, Begun
  <1>2. CASE NpuRuns
    <2>1. driver' = driver /\ driver \notin Leaving \cup {"idle"}
      BY <1>2 DEF NpuRuns, NoneRunsInv, driverVars
    <2>. QED  BY <2>1 DEF NoneRunsInv
  <1>3. CASE driver' \notin Leaving \cup {"idle"}
    BY <1>3 DEF NoneRunsInv
  <1>4. CASE UNCHANGED request /\ driver \in Leaving \cup {"idle"}
    BY <1>4 DEF NoneRunsInv
  <1>5. CASE Top \/ Look \/ Submit \/ Take \/ Count \/ NpuBegin
    BY <1>3, <1>5 DEF Top, Look, Submit, Take, Count, NpuBegin, Throws, DriverAt, Leaving
  <1>6. CASE NpuPrepareFails \/ Halt \/ HaltNotify \/ JoinPrep \/ PrepWait \/ PrepPublish \/ NpuCancelled
    BY <1>3, <1>4, <1>6 DEF NpuPrepareFails, Halt, HaltNotify, JoinPrep, PrepWait, PrepPublish,
       NpuCancelled, PrepStep, driverVars, Leaving
  <1>. QED  BY <1>1, <1>2, <1>5, <1>6 DEF NpuNext

-----------------------------------------------------------------------------
\* Launches are looked at in their order up to the first that shows something.
HitInv ==
  /\ \A l \in 0..(npuTiles - 1) : l # npuHit => shows[l] = "none"
  /\ npuHit # Nothing => npuHit = npuTiles - 1 /\ shows[npuHit] # "none"
  /\ driver \in Working => npuHit = Nothing

\* Why a scan ends.
ReasonInv ==
  /\ driver \in {"halt", "haltNotify"} => npuError \/ npuCancel \/ npuHit # Nothing
  /\ driver \in Leaving \cup {"drain"} =>
        npuError \/ npuCancel \/ npuHit # Nothing \/ npuTiles = NpuLaunches

\* Every step keeps that the hit is the first launch that shows something.
LEMMA HitStep ==
  ASSUME NpuDataTypeOK, shows \in Showings, Begun => QueueInv /\ CountInv, HitInv, NpuNext
  PROVE  HitInv'
  <1>. /\ upNext \in Nat /\ npuTiles \in Nat
    BY LaunchCount DEF NpuDataTypeOK
  <1>1. CASE NpuBegin
    BY <1>1 DEF NpuBegin, HitInv
  <1>2. CASE Take
    <2>. DEFINE q == Head(queued)  l == request[q].launch
    <2>1. /\ driver = "take" /\ queued # <<>> /\ QueueInv /\ CountInv /\ HitInv
          /\ npuTiles = Base /\ driver' \in {"halt", "count"} /\ shows' = shows
      BY <1>2 DEF Take, Throws, DriverAt, AttemptKeeps, Begun, CountInv, Working
    <2>2. q = queued[1] /\ 1 \in DOMAIN queued
      BY <2>1, TailFacts DEF NpuDataTypeOK
    <2>3. l = npuTiles
      BY <2>1, <2>2 DEF QueueInv
    <2>. HIDE DEF q
    <2>4. CASE UNCHANGED <<npuHit, npuTiles>>
      BY <2>1, <2>4 DEF HitInv, Working
    <2>5. CASE /\ npuHit' = (IF shows[npuTiles] # "none" THEN npuTiles ELSE Nothing)
               /\ npuTiles' = npuTiles + 1 /\ driver' = "count"
      <3>1. npuHit = Nothing /\ \A i \in 0..(npuTiles - 1) : shows[i] = "none"
        BY <2>1 DEF HitInv, Working, Nothing
      <3>2. \A i \in 0..(npuTiles' - 1) : i \in 0..(npuTiles - 1) \/ i = npuTiles
        BY <2>5
      <3>3. CASE shows[npuTiles] # "none"
        BY <2>1, <2>5, <3>1, <3>2, <3>3 DEF HitInv, Working
      <3>4. CASE shows[npuTiles] = "none"
        BY <2>1, <2>5, <3>1, <3>2, <3>4 DEF HitInv, Working
      <3>. QED  BY <3>3, <3>4
    <2>. QED  BY <1>2, <2>3, <2>4, <2>5 DEF Take, Throws, q
  <1>3. CASE Count
    BY <1>3 DEF Count, DriverAt, AttemptKeeps, HitInv, Working
  <1>4. CASE UNCHANGED <<shows, npuHit, npuTiles>> /\ (driver' \in Working => driver \in Working)
    BY <1>4 DEF HitInv
  <1>5. CASE Top \/ Look \/ Submit \/ DrainQueued
    BY <1>4, <1>5 DEF Top, Look, Submit, Throws, DrainQueued, DriverAt, AttemptKeeps, Working
  <1>6. CASE Halt \/ HaltNotify \/ JoinPrep
    BY <1>4, <1>6 DEF Halt, HaltNotify, JoinPrep, AttemptKeeps, Working
  <1>7. CASE PrepWait \/ PrepPublish \/ NpuRuns \/ NpuCancelled
    BY <1>4, <1>7 DEF PrepWait, PrepPublish, NpuRuns, NpuCancelled,
       PrepStep, AttemptKeeps, driverVars, Working
  <1>8. CASE NpuPrepareFails
    BY <1>8 DEF NpuPrepareFails, HitInv, Working
  <1>. QED  BY <1>1, <1>2, <1>3, <1>5, <1>6, <1>7, <1>8 DEF NpuNext

\* With nothing queued and no launch to queue, all are counted.
LEMMA AllCounted ==
  ASSUME NpuDataTypeOK, CountInv, driver = "top", queued = <<>>,
         ~(upNext < NpuLaunches /\ idle # <<>>)
  PROVE  npuTiles = NpuLaunches
  <1>1. Len(queued) = 0 /\ ~npuError
    BY EmptySeq DEF CountInv, Working
  <1>2. npuTiles = upNext /\ Len(idle) = Requests
    BY <1>1, LaunchCount, LenProperties DEF CountInv, Base, NpuDataTypeOK
  <1>3. idle # <<>>
    BY <1>2, EmptySeq, NpuConstants
  <1>. QED  BY <1>2, <1>3, LaunchCount DEF NpuDataTypeOK

\* Every step keeps that a scan does not end for nothing.
LEMMA ReasonStep ==
  ASSUME NpuDataTypeOK, Begun => CountInv, ThreadInv, ReasonInv, NpuNext
  PROVE  ReasonInv'
  <1>. USE DEF ReasonInv
  <1>1. CASE driver' \notin Leaving \cup {"drain", "halt", "haltNotify"}
    BY <1>1
  <1>2. CASE NpuPrepareFails \/ NpuBegin \/ JoinPrep
    BY <1>2 DEF NpuPrepareFails, NpuBegin, JoinPrep, Leaving
  <1>3. CASE Top
    <2>1. driver = "top" /\ ~halted
      BY <1>3 DEF Top, DriverAt, ThreadInv, Working
    <2>2. CASE npuCancel
      BY <1>3, <2>2 DEF Top, DriverAt, AttemptKeeps
    <2>3. CASE ~npuCancel /\ driver' = "drain"
      <3>1. queued = <<>> /\ ~(upNext < NpuLaunches /\ idle # <<>>) /\ npuTiles' = npuTiles
        BY <1>3, <2>1, <2>3 DEF Top
      <3>. QED  BY <2>1, <2>3, <3>1, AllCounted DEF Begun
    <2>4. ~npuCancel /\ driver' # "drain" => driver' \in {"look", "take"}
      BY <1>3, <2>1 DEF Top
    <2>. QED  BY <1>1, <2>2, <2>3, <2>4 DEF Leaving
  <1>4. CASE Look
    <2>1. driver = "look" /\ ~halted
      BY <1>4 DEF Look, DriverAt, ThreadInv, Working
    <2>2. driver' \in {"submit", "asleep", "take"}
      BY <1>4, <2>1 DEF Look
    <2>. QED  BY <1>1, <2>2 DEF Leaving
  <1>5. CASE Submit
    BY <1>5 DEF Submit, Throws, Leaving
  <1>6. CASE Take
    BY <1>6 DEF Take, Throws, Leaving
  <1>7. CASE Count
    BY <1>7 DEF Count, DriverAt, Leaving
  <1>8. CASE Halt
    BY <1>8 DEF Halt, AttemptKeeps, Leaving
  <1>9. CASE HaltNotify
    BY <1>9 DEF HaltNotify, AttemptKeeps, Leaving
  <1>10. CASE DrainQueued
    BY <1>10 DEF DrainQueued, DriverAt, AttemptKeeps, Leaving
  <1>11. CASE PrepWait \/ NpuRuns \/ NpuCancelled
    BY <1>11 DEF PrepWait, PrepStep, NpuRuns, NpuCancelled, AttemptKeeps, driverVars, Leaving
  <1>12. CASE PrepPublish
    BY <1>12 DEF PrepPublish, PrepStep, AttemptKeeps, Leaving
  <1>. QED  BY <1>2, <1>3, <1>4, <1>5, <1>6, <1>7, <1>8, <1>9, <1>10, <1>11, <1>12 DEF NpuNext

\* What an attempt reported.
OutcomeInv ==
  /\ driver # "idle" => npuOutcome = "running"
  /\ NpuReportIsRight

\* Every step keeps it.
LEMMA OutcomeStep ==
  ASSUME NpuDataTypeOK, shows \in Showings, HitInv, ReasonInv, OutcomeInv, NpuNext
  PROVE  OutcomeInv'
  <1>. npuTiles \in Nat
    BY LaunchCount DEF NpuDataTypeOK
  <1>1. CASE npuOutcome' \in {"running", "failed"} /\ (driver' # "idle" => npuOutcome' = "running")
    BY <1>1 DEF OutcomeInv, NpuReportIsRight
  <1>2. CASE JoinPrep
    <2>1. driver = "join" /\ driver' = "idle" /\ UNCHANGED <<shows, npuHit, npuTiles>>
      BY <1>2 DEF JoinPrep, AttemptKeeps
    <2>2. CASE npuOutcome' = "failed"
      BY <2>1, <2>2 DEF OutcomeInv, NpuReportIsRight
    <2>3. CASE npuOutcome' = "hit"
      <3>1. npuHit # Nothing /\ shows[npuHit] = "hit"
        BY <1>2, <2>3 DEF JoinPrep
      <3>2. \A l \in 0..(npuHit - 1) : shows[l] = "none"
        BY <3>1 DEF HitInv
      <3>. QED  BY <2>1, <2>3, <3>1, <3>2 DEF OutcomeInv, NpuReportIsRight
    <2>4. CASE npuOutcome' \in {"cancelled", "none"}
      <3>1. ~(npuHit # Nothing /\ shows[npuHit] = "hit") /\ ~npuError
        BY <1>2, <2>4 DEF JoinPrep
      <3>2. \A l \in 0..(npuTiles - 1) : shows[l] # "hit"
        BY <3>1 DEF HitInv, Nothing
      <3>3. ASSUME npuOutcome' = "none"
            PROVE  npuTiles = NpuLaunches \/ (npuTiles > 0 /\ shows[JustChecked] = "false")
        <4>1. ~npuCancel
          BY <1>2, <3>3 DEF JoinPrep
        <4>2. npuHit # Nothing \/ npuTiles = NpuLaunches
          BY <2>1, <3>1, <4>1 DEF ReasonInv, Leaving
        <4>3. CASE npuHit # Nothing
          <5>1. npuHit \in NpuLaunch /\ npuHit = JustChecked /\ shows[npuHit] # "none"
            BY <4>3 DEF HitInv, JustChecked, NpuDataTypeOK
          <5>2. npuHit \in Nat /\ shows[npuHit] = "false"
            BY <3>1, <4>3, <5>1, LaunchPanel DEF Showings
          <5>. QED  BY <5>1, <5>2 DEF JustChecked
        <4>. QED  BY <4>2, <4>3
      <3>. QED  BY <2>1, <2>4, <3>2, <3>3 DEF OutcomeInv, NpuReportIsRight, JustChecked
    <2>. QED  BY <1>2, <2>2, <2>3, <2>4 DEF JoinPrep
  <1>3. CASE NpuPrepareFails \/ NpuBegin
    <2>1. CASE NpuBegin
      BY <1>1, <2>1 DEF NpuBegin
    <2>2. CASE NpuPrepareFails
      <3>1. /\ driver' = "idle" /\ npuTiles' = 0
            /\ npuOutcome' = "failed" \/ npuOutcome' = "cancelled"
        BY <2>2 DEF NpuPrepareFails
      <3>2. \A l \in 0..(npuTiles' - 1) : FALSE
        BY <3>1
      <3>. QED  BY <3>1, <3>2 DEF OutcomeInv, NpuReportIsRight
    <2>. QED  BY <1>3, <2>1, <2>2
  <1>4. CASE Top \/ Look \/ Submit \/ Take \/ Count \/ DrainQueued
    BY <1>1, <1>4 DEF Top, Look, Submit, Take, Count, DrainQueued, DriverAt, OutcomeInv
  <1>5. CASE Halt \/ HaltNotify \/ NpuCancelled
    BY <1>1, <1>5 DEF Halt, HaltNotify, NpuCancelled, driverVars, OutcomeInv
  <1>6. CASE PrepPublish
    <2>1. CASE driver # "idle"
      BY <1>1, <1>6, <2>1 DEF PrepPublish, OutcomeInv
    <2>2. CASE driver = "idle"
      BY <1>6, <2>2 DEF PrepPublish, PrepStep, AttemptKeeps, OutcomeInv, NpuReportIsRight, JustChecked
    <2>. QED  BY <2>1, <2>2
  <1>7. CASE PrepWait \/ NpuRuns
    BY <1>7 DEF PrepWait, PrepStep, NpuRuns, AttemptKeeps, driverVars, OutcomeInv,
       NpuReportIsRight, JustChecked
  <1>. QED  BY <1>2, <1>3, <1>4, <1>5, <1>6, <1>7 DEF NpuNext

-----------------------------------------------------------------------------
\* Everything together.
NpuInv == /\ NpuTypeOK /\ (Begun => QueueInv /\ CountInv /\ PanelInv)
        /\ WaitInv /\ ThreadInv /\ PanelRoom /\ NoneRunsInv
        /\ HitInv /\ ReasonInv /\ OutcomeInv

\* It holds before the first attempt.
LEMMA NpuInitInv == NpuInit => NpuInv
  <1>. SUFFICES ASSUME NpuInit PROVE NpuInv
    OBVIOUS
  <1>. USE DEF NpuInit
  <1>1. NpuDataTypeOK
    <2>1. queued \in Seq(AllRequests) /\ idle \in Seq(AllRequests)
      BY AllIdleFacts, EmptySeq
    <2>. QED  BY <2>1, LaunchCount, NpuConstants DEF NpuDataTypeOK, Idling
  <1>2. TableTypeOK
    BY NpuConstants DEF TableTypeOK
  <1>3. NpuFlagTypeOK
    <2>1. shows \in Showings /\ npuAttempts \in 0..MaxNpuAttempts
      BY NpuConstants DEF Showings
    <2>. QED  BY <2>1 DEF NpuFlagTypeOK
  <1>4. ~Begun /\ WaitInv /\ ThreadInv /\ PanelRoom
    BY DEF Begun, WaitInv, ThreadInv, PanelRoom, Working
  <1>5. NoneRunsInv
    BY DEF NoneRunsInv, Idling
  <1>6. HitInv
    BY DEF HitInv, Working
  <1>7. ReasonInv
    BY DEF ReasonInv, Leaving
  <1>8. OutcomeInv
    BY DEF OutcomeInv, NpuReportIsRight
  <1>. QED  BY <1>1, <1>2, <1>3, <1>4, <1>5, <1>6, <1>7, <1>8, NpuTypes DEF NpuInv

\* Every step keeps it.
LEMMA NpuStep ==
  ASSUME NpuInv, [NpuNext]_npuVars
  PROVE  NpuInv'
  <1>1. CASE NpuNext
    <2>. USE <1>1
    <2>1. NpuDataTypeOK /\ TableTypeOK /\ NpuFlagTypeOK
      BY NpuTypes DEF NpuInv
    <2>2. driver \in Places /\ shows \in Showings
      BY <2>1 DEF NpuDataTypeOK, Places, NpuFlagTypeOK
    <2>3. Begun' => QueueInv'
      BY <2>1, QueueStep DEF NpuInv, NoneRunsInv
    <2>4. Begun' => CountInv'
      BY <2>1, CountStep DEF NpuInv
    <2>5. Begun' => PanelInv'
      BY <2>1, PanelStep DEF NpuInv
    <2>6. NpuDataTypeOK'
      BY <2>1, <2>4, DataTypeStep DEF NpuInv
    <2>7. TableTypeOK'
      BY <2>1, <2>4, <2>6, TableTypeStep DEF NpuInv
    <2>8. NpuFlagTypeOK'
      BY <2>1, FlagTypeStep
    <2>9. WaitInv' /\ ThreadInv' /\ PanelRoom' /\ NoneRunsInv'
      BY <2>1, <2>2, WaitStep, ThreadStep, RoomStep, NoneRunsStep DEF NpuInv
    <2>10. HitInv'
      BY <2>1, <2>2, HitStep DEF NpuInv
    <2>11. ReasonInv'
      BY <2>1, ReasonStep DEF NpuInv
    <2>12. OutcomeInv'
      BY <2>1, <2>2, OutcomeStep DEF NpuInv
    <2>13. (NpuTypeOK <=> NpuDataTypeOK /\ TableTypeOK /\ NpuFlagTypeOK)'
      BY NpuTypes, PTL
    <2>. QED  BY <2>3, <2>4, <2>5, <2>6, <2>7, <2>8, <2>9, <2>10, <2>11, <2>12, <2>13 DEF NpuInv
  <1>2. CASE UNCHANGED npuVars
    <2>1. NpuTypeOK'
      BY <1>2 DEF NpuInv, NpuTypeOK, npuVars, driverVars, sharedVars, prepVars
    <2>2. Begun' = Begun /\ QueueInv' = QueueInv /\ CountInv' = CountInv /\ PanelInv' = PanelInv
      BY <1>2 DEF Begun, QueueInv, CountInv, PanelInv, Base, Counted, Low,
         npuVars, driverVars, sharedVars, prepVars
    <2>3. WaitInv' /\ ThreadInv' /\ PanelRoom' /\ NoneRunsInv'
      BY <1>2 DEF NpuInv, WaitInv, ThreadInv, PanelRoom, NoneRunsInv, NextReady, SlotUnused,
         npuVars, driverVars, sharedVars, prepVars
    <2>4. HitInv' /\ ReasonInv' /\ OutcomeInv'
      BY <1>2 DEF NpuInv, HitInv, ReasonInv, OutcomeInv, NpuReportIsRight, JustChecked,
         npuVars, driverVars
    <2>. QED  BY <2>1, <2>2, <2>3, <2>4 DEF NpuInv
  <1>. QED  BY <1>1, <1>2

\* It gives what is handed over between the two threads and the NPU.
LEMMA HandoverKept ==
  ASSUME NpuInv
  PROVE  PanelHandover
  <1>1. NpuDataTypeOK /\ TableTypeOK
    BY NpuTypes DEF NpuInv
  <1>. /\ upNext \in Nat /\ npuTiles \in Nat /\ panel \in Nat /\ Len(queued) \in Nat
       /\ DOMAIN queued = 1..Len(queued)
    BY <1>1, LaunchCount, NpuConstants, LenProperties DEF NpuDataTypeOK
  <1>2. ASSUME NEW q \in AllRequests, request[q].runs = "launch"
        PROVE  memory[SlotOfPanel(PanelOf(request[q].launch))] = PanelOf(request[q].launch)
    <2>1. QueueInv /\ CountInv /\ PanelInv
      BY <1>2 DEF NpuInv, Begun, NoneRunsInv
    <2>2. PICK n \in DOMAIN queued : queued[n] = q
      BY <1>2, <2>1 DEF QueueInv
    <2>3. PICK l \in Nat : l = request[q].launch /\ Counted <= l /\ l < upNext /\ Counted \in Nat
      <3>1. request[q].launch = Base + n - 1
        BY <2>1, <2>2 DEF QueueInv
      <3>2. Base \in Nat /\ npuTiles <= Base /\ Counted \in Nat /\ Counted <= npuTiles
        BY <2>1 DEF CountInv, Base, Counted
      <3>. QED  BY <3>1, <3>2 DEF Base
    <2>4. Low \in Int
      BY NpuConstants DEF Low
    <2>5. FirstLaunch(Low) <= l /\ l < FirstLaunch(panel)
      <3>1. FirstLaunch(Low) \in Int /\ FirstLaunch(panel) \in Int
        <4>1. panel \in Int
          OBVIOUS
        <4>2. \A r \in Int : FirstLaunch(r) \in Int
          BY FirstLaunches
        <4>. QED  BY <2>4, <4>1, <4>2
      <3>2. FirstLaunch(Low) <= Counted /\ upNext <= FirstLaunch(panel)
        BY <2>1 DEF PanelInv
      <3>. QED  BY <2>3, <3>1, <3>2
    <2>6. Low <= PanelOf(l) /\ PanelOf(l) < panel
      BY <2>4, <2>5, PanelBetween
    <2>7. PanelOf(l) \in AllPanels
      BY <1>1, <2>6, PanelBounds, NpuConstants DEF NpuDataTypeOK, AllPanels
    <2>. QED  BY <2>1, <2>3, <2>6, <2>7 DEF PanelInv
  <1>3. ASSUME driver = "asleep"
        PROVE  prep \in {"wait", "build"}
    <2>1. /\ CountInv /\ PanelInv /\ ~NextReady /\ queued = <<>> /\ ~halted
          /\ npuTiles = Base /\ upNext < NpuLaunches
      BY <1>3 DEF NpuInv, Begun, CountInv, WaitInv, ThreadInv, Working
    <2>2. Counted = upNext /\ PanelOf(upNext) \in AllPanels /\ PanelOf(upNext) \in Nat
      <3>1. Len(queued) = 0
        BY <2>1, EmptySeq
      <3>2. upNext \in NpuLaunch
        BY <2>1, LaunchCount DEF NpuLaunch
      <3>. QED  BY <1>3, <2>1, <3>1, <3>2, LaunchPanel, PanelBounds DEF Base, Counted
    <2>3. Low \in Int
      BY NpuConstants DEF Low
    <2>4. Low <= PanelOf(upNext)
      BY <2>1, <2>2, <2>3, PanelBetween DEF PanelInv
    <2>5. CASE prep = "gone"
      <3>1. panel = Panels
        BY <1>3, <2>1, <2>5 DEF NpuInv, ThreadInv
      <3>2. PanelOf(upNext) < panel
        BY <2>2, <3>1, NpuConstants DEF AllPanels
      <3>3. panel - PanelSlots <= PanelOf(upNext)
        BY <2>4, <2>5 DEF Low
      <3>. QED  BY <2>1, <2>2, <3>2, <3>3 DEF PanelInv, NextReady
    <2>6. CASE prep = "asleep"
      <3>1. PICK r \in AllPanels : r = panel - PanelSlots /\ panelDone[r] # ColumnBlocks
        BY <2>6 DEF NpuInv, WaitInv, SlotUnused
      <3>2. r \in Nat /\ DoneOf(r, upNext) # ColumnBlocks
        BY <2>1, <2>2, <3>1, NpuConstants DEF CountInv, AllPanels
      <3>3. upNext < FirstLaunch(r + 1)
        <4>1. FirstLaunch(r + 1) \in Int
          BY <3>2, FirstLaunches
        <4>. QED  BY <3>2, <4>1, DoneOfFacts
      <3>4. PanelOf(upNext) < r + 1
        BY <3>2, <3>3, PanelBetween
      <3>5. PanelOf(upNext) < panel
        BY <2>2, <3>1, <3>2, <3>4, NpuConstants
      <3>6. panel - PanelSlots <= PanelOf(upNext)
        BY <2>4, <2>6 DEF Low
      <3>. QED  BY <2>1, <2>2, <3>5, <3>6 DEF PanelInv, NextReady
    <2>. QED  BY <1>1, <2>5, <2>6 DEF TableTypeOK
  <1>4. driver = "join" => prep # "asleep"
    BY DEF NpuInv, ThreadInv
  <1>5. driver = "idle" => prep = "gone" /\ \A q \in AllRequests : request[q].runs # "launch"
    BY DEF NpuInv, ThreadInv, NoneRunsInv
  <1>. QED  BY <1>2, <1>3, <1>4, <1>5 DEF PanelHandover

-----------------------------------------------------------------------------
(***************************************************************************)
(* Connecting: the addresses of a host share the budget.  An address gets   *)
(* what is left, divided by the addresses left; that this is at least an    *)
(* equal share of the whole budget for every address, the last one too, is  *)
(* the inductive part (SharesLeft): rounding down and ticks that pass       *)
(* before a time is read take nothing from the later ones.                  *)
(***************************************************************************)

\* The equal share of the budget, in milliseconds, of each address of the host.
EqualShare == Budget \div Len(addresses)

\* What the assumptions on the constants give.
LEMMA WireConstants ==
  Budget \in Nat /\ Budget > 0 /\ Tick \in Nat /\ Tick > 0 /\ Budget * Tick \in Nat
  BY ConnectAssumption

\* Division as the code divides a budget, rounded down.
LEMMA Quotient ==
  ASSUME NEW a \in Int, NEW n \in Nat, n > 0
  PROVE  /\ a \div n \in Int
         /\ n * (a \div n) <= a /\ a < n * (a \div n) + n
  OBVIOUS

\* The sign of a quotient.
LEMMA QuotientSign ==
  ASSUME NEW a \in Int, NEW n \in Nat, n > 0
  PROVE  /\ a >= 0 => a \div n >= 0
         /\ a \div n <= 0 => a < n
  OBVIOUS

\* An address's share s of the m milliseconds left for r addresses leaves q for each other.
LEMMA RestShared ==
  ASSUME NEW m \in Nat, NEW r \in Nat, r > 0, NEW q \in Nat, r * q <= m
  PROVE  /\ m \div r \in Nat /\ q <= m \div r /\ m \div r <= m
         /\ (m \div r) + (r - 1) * q <= m
  <1>. DEFINE s == m \div r
  <1>1. s \in Int /\ r * s <= m /\ m < r * s + r /\ s >= 0
    BY Quotient, QuotientSign
  <1>. HIDE DEF s
  <1>2. q <= s
    <2>1. s + 1 \in Int /\ r * (s + 1) = r * s + r
      BY <1>1, TimesSum
    <2>2. r * q \in Int /\ r * q < r * (s + 1)
      BY <1>1, <2>1
    <2>3. q < s + 1
      BY <2>1, <2>2, TimesLess
    <2>. QED  BY <1>1, <2>3
  <1>3. (r - 1) * q <= (r - 1) * s /\ (r - 1) * q \in Int /\ (r - 1) * s \in Int
    <2>1. r - 1 \in Nat
      OBVIOUS
    <2>. QED  BY <1>1, <1>2, <2>1, TimesMonotone
  <1>4. r * s = s + (r - 1) * s
    BY <1>1
  <1>5. s + (r - 1) * q <= m
    BY <1>1, <1>3, <1>4
  <1>6. s <= m
    <2>1. (r - 1) * q >= 0
      OBVIOUS
    <2>. QED  BY <1>1, <1>3, <1>5, <2>1
  <1>. QED  BY <1>1, <1>2, <1>5, <1>6 DEF s

\* An address list is being worked through, or that has just ended.
Dialling == phase \in {"next", "pending", "open", "failed"}

\* The types of what connecting computes with.
ConnectTypeOK ==
  /\ addresses \in Seq(Addresses) /\ address \in 1..(Len(addresses) + 1)
  /\ clock \in Nat /\ deadline \in Nat /\ attemptEnd \in Nat /\ answerAt \in Nat

\* The deadline leaves every address from the present one on its equal share.
SharesLeft(from, n) == from + Tick * (n * EqualShare) <= deadline

\* What is known of an address that was tried and did not connect.
TriedInVain(a, share) ==
  /\ a.kind # "at_once"
  /\ a.kind = "later" /\ a.up => a.after > Tick * (share - 1)

\* An address whose answer is awaited: its end is within the deadline, leaves the later
\* addresses their shares, and comes no sooner than its own share.
PendingInv ==
  phase = "pending" =>
    /\ address <= Len(addresses) /\ addresses[address].kind = "later"
    /\ clock < answerAt /\ clock <= attemptEnd /\ attemptEnd <= deadline
    /\ SharesLeft(attemptEnd, Remaining - 1)
    /\ (answerAt - addresses[address].after) + Tick * EqualShare <= attemptEnd

\* Everything together.
ConnectInv ==
  /\ ConnectTypeOK
  /\ Dialling => deadline = Budget * Tick /\ clock <= deadline
  /\ phase = "next" /\ Len(addresses) > 0 => SharesLeft(clock, Remaining)
  /\ PendingInv
  /\ phase \in {"next", "pending"} => \A i \in 1..(address - 1) : TriedInVain(addresses[i], EqualShare)
  /\ BudgetShared

\* The types of what is computed from the addresses.
LEMMA AddressFacts ==
  ASSUME ConnectTypeOK
  PROVE  /\ Len(addresses) \in Nat /\ address \in Nat /\ address > 0 /\ address <= Len(addresses) + 1
         /\ DOMAIN addresses = 1..Len(addresses)
         /\ Remaining \in Nat /\ Remaining = Len(addresses) - address + 1
         /\ \A i \in DOMAIN addresses :
              /\ addresses[i].kind \in {"at_once", "no_socket", "later"}
              /\ addresses[i].kind = "later" => addresses[i].after \in Nat /\ addresses[i].after > 0
         /\ Len(addresses) > 0 => EqualShare \in Nat /\ (EqualShare = 0 => Budget < Len(addresses))
  <1>1. /\ Len(addresses) \in Nat /\ DOMAIN addresses = 1..Len(addresses)
        /\ \A i \in DOMAIN addresses : addresses[i] \in Addresses
    BY LenProperties, ElementOfSeq DEF ConnectTypeOK
  <1>2. \A n \in Answers : n \in Nat /\ n > 0
    BY WireConstants DEF Answers
  <1>3. ASSUME NEW a \in Addresses
        PROVE  /\ a.kind \in {"at_once", "no_socket", "later"}
               /\ a.kind = "later" => a.after \in Nat /\ a.after > 0
    BY <1>2 DEF Addresses
  <1>4. Len(addresses) > 0 => EqualShare \in Nat /\ (EqualShare = 0 => Budget < Len(addresses))
    BY <1>1, WireConstants, Quotient, QuotientSign DEF EqualShare
  <1>5. address \in Nat /\ address > 0 /\ address <= Len(addresses) + 1
    BY <1>1 DEF ConnectTypeOK
  <1>6. Remaining \in Nat /\ Remaining = Len(addresses) - address + 1
    BY <1>1, <1>5 DEF Remaining
  <1>. QED  BY <1>1, <1>3, <1>4, <1>5, <1>6

\* The share of the address that is tried next.
LEMMA ShareFacts ==
  ASSUME ConnectTypeOK, clock <= deadline, Remaining > 0, SharesLeft(clock, Remaining),
         Milliseconds(deadline) > 0
  PROVE  /\ ShareOfBudget \in Nat /\ clock <= ShareOfBudget /\ ShareOfBudget <= deadline
         /\ SharesLeft(ShareOfBudget, Remaining - 1)
         /\ clock + Tick * EqualShare <= ShareOfBudget
  <1>. DEFINE r == Remaining  q == EqualShare  m == Milliseconds(deadline)
              h == Higher(1, m \div r)
  <1>1. r \in Nat /\ r > 0 /\ q \in Nat
    BY AddressFacts
  <1>2. clock \in Nat /\ deadline \in Nat /\ Tick \in Nat /\ Tick > 0
    BY WireConstants DEF ConnectTypeOK
  <1>3. m \in Nat /\ m > 0 /\ Tick * m <= deadline - clock /\ deadline - clock < Tick * m + Tick
    <2>1. deadline - clock \in Int
      BY <1>2
    <2>. QED  BY <1>2, <2>1, Quotient DEF Milliseconds
  <1>4. clock + Tick * (r * q) <= deadline
    BY DEF SharesLeft
  <1>. HIDE DEF r, q, m
  <1>5. r * q <= m
    <2>1. r * q \in Int /\ m + 1 \in Int /\ Tick * (m + 1) = Tick * m + Tick
      BY <1>1, <1>2, <1>3
    <2>2. Tick * (r * q) < Tick * (m + 1)
      BY <1>2, <1>3, <1>4, <2>1
    <2>3. r * q < m + 1
      BY <1>2, <2>1, <2>2, TimesLess
    <2>. QED  BY <1>3, <2>1, <2>3
  <1>6. m \div r \in Nat /\ q <= m \div r /\ m \div r <= m /\ (m \div r) + (r - 1) * q <= m
    BY <1>1, <1>3, <1>5, RestShared
  <1>7. h \in Nat /\ q <= h /\ h <= m /\ h + (r - 1) * q <= m
    <2>1. CASE m \div r > 0
      BY <1>6, <2>1 DEF Higher
    <2>2. CASE m \div r = 0
      <3>1. q = 0 /\ h = 1
        BY <1>1, <1>6, <2>2 DEF Higher
      <3>2. (r - 1) * 0 = 0
        BY <1>1
      <3>. QED  BY <1>3, <3>1, <3>2
    <2>. QED  BY <1>6, <2>1, <2>2
  <1>. HIDE DEF h
  <1>8. Tick * h <= Tick * m /\ Tick * h \in Nat /\ Tick * q <= Tick * h
    BY <1>1, <1>2, <1>3, <1>7, TimesMonotone
  <1>9. ShareOfBudget = clock + Tick * h
    <2>1. clock + Tick * h <= deadline
      BY <1>2, <1>3, <1>8
    <2>2. ShareOfBudget = Lower(deadline, clock + Tick * h)
      BY DEF ShareOfBudget, h, m, r
    <2>. QED  BY <1>2, <1>8, <2>1, <2>2 DEF Lower
  <1>10. (clock + Tick * h) + Tick * ((r - 1) * q) <= deadline
    <2>1. (r - 1) * q \in Int
      BY <1>1
    <2>2. Tick * (h + (r - 1) * q) = Tick * h + Tick * ((r - 1) * q) /\ Tick * ((r - 1) * q) \in Int
      BY <1>2, <1>7, <2>1, TimesSum
    <2>3. Tick * (h + (r - 1) * q) <= Tick * m
      BY <1>2, <1>3, <1>7, <2>1, TimesMonotone
    <2>. QED  BY <1>2, <1>3, <1>8, <2>2, <2>3
  <1>11. Tick * q \in Int
    BY <1>1, <1>2
  <1>. QED  BY <1>1, <1>2, <1>3, <1>8, <1>9, <1>10, <1>11 DEF SharesLeft, r, q

\* One address fewer leaves room for as much of the clock as its share.
LEMMA FewerShares ==
  ASSUME NEW n \in Nat, n > 0, NEW c \in Int, EqualShare \in Nat, deadline \in Nat, SharesLeft(c, n)
  PROVE  SharesLeft(c, n - 1)
  <1>1. (n - 1) * EqualShare \in Int /\ n * EqualShare \in Int /\ (n - 1) * EqualShare <= n * EqualShare
    <2>1. n * EqualShare = (n - 1) * EqualShare + EqualShare
      OBVIOUS
    <2>. QED  BY <2>1
  <1>2. /\ Tick * ((n - 1) * EqualShare) \in Int /\ Tick * (n * EqualShare) \in Int
        /\ Tick * ((n - 1) * EqualShare) <= Tick * (n * EqualShare)
    BY <1>1, WireConstants, TimesMonotone
  <1>. QED  BY <1>2 DEF SharesLeft

\* Trying an address keeps it.
LEMMA TryStep ==
  ASSUME ConnectInv, TryAddress
  PROVE  ConnectInv'
  <1>. DEFINE n == Len(addresses)  r == Remaining
  <1>0. /\ phase = "next" /\ UNCHANGED <<addresses, clock, deadline>>
        /\ deadline = Budget * Tick /\ clock <= deadline
        /\ n > 0 => SharesLeft(clock, r)
        /\ \A i \in 1..(address - 1) : TriedInVain(addresses[i], EqualShare)
        /\ ConnectTypeOK
    BY DEF TryAddress, ConnectInv, Dialling
  <1>1. /\ n \in Nat /\ address \in Nat /\ address > 0 /\ address <= n + 1
        /\ DOMAIN addresses = 1..n /\ r \in Nat /\ r = n - address + 1
        /\ \A i \in DOMAIN addresses :
             /\ addresses[i].kind \in {"at_once", "no_socket", "later"}
             /\ addresses[i].kind = "later" => addresses[i].after \in Nat /\ addresses[i].after > 0
        /\ n > 0 => EqualShare \in Nat /\ (EqualShare = 0 => Budget < n)
        /\ clock \in Nat /\ deadline \in Nat /\ Tick \in Nat /\ Tick > 0
    BY <1>0, AddressFacts, WireConstants DEF ConnectTypeOK
  <1>2. EqualShare' = EqualShare
    BY <1>0 DEF EqualShare
  <1>3. CASE r = 0 /\ phase' = "failed" /\ UNCHANGED <<address, attemptEnd, answerAt>>
    <2>1. ConnectTypeOK'
      BY <1>0, <1>3 DEF ConnectTypeOK
    <2>2. \A i \in DOMAIN addresses : TriedInVain(addresses[i], EqualShare)
      BY <1>0, <1>1, <1>3
    <2>3. BudgetShared'
      BY <1>0, <1>3, <2>2 DEF BudgetShared, TriedInVain, EqualShare
    <2>. QED  BY <1>0, <1>3, <2>1, <2>3 DEF ConnectInv, Dialling, PendingInv
  <1>4. CASE /\ r > 0 /\ Milliseconds(deadline) <= 0
             /\ phase' = "failed" /\ UNCHANGED <<address, attemptEnd, answerAt>>
    <2>1. ConnectTypeOK'
      BY <1>0, <1>4 DEF ConnectTypeOK
    <2>2. n > 0 /\ EqualShare \in Nat
      BY <1>1, <1>4
    <2>3. deadline - clock < Tick
      <3>1. deadline - clock \in Int
        BY <1>1
      <3>. QED  BY <1>1, <1>4, <3>1, QuotientSign DEF Milliseconds
    <2>4. EqualShare = 0
      <3>. SUFFICES ASSUME EqualShare > 0 PROVE FALSE
        BY <2>2
      <3>1. r * EqualShare \in Int /\ 1 <= r * EqualShare
        BY <1>1, <1>4, <2>2
      <3>2. Tick * 1 <= Tick * (r * EqualShare) /\ Tick * (r * EqualShare) \in Int
        BY <1>1, <3>1, TimesMonotone
      <3>. QED  BY <1>0, <1>1, <2>2, <2>3, <3>2 DEF SharesLeft
    <2>5. Budget < n
      BY <1>1, <2>2, <2>4
    <2>6. \A i \in DOMAIN addresses : addresses[i].kind = "later" => addresses[i].after > Tick * (EqualShare - 1)
      <3>1. Tick * (0 - 1) < 0 /\ Tick * (0 - 1) \in Int
        BY <1>1
      <3>. QED  BY <1>1, <2>4, <3>1
    <2>7. BudgetShared'
      BY <1>0, <1>4, <2>5, <2>6 DEF BudgetShared, EqualShare
    <2>. QED  BY <1>0, <1>4, <2>1, <2>7 DEF ConnectInv, Dialling, PendingInv
  <1>5. CASE /\ r > 0 /\ Milliseconds(deadline) > 0 /\ attemptEnd' = ShareOfBudget
             /\ CASE addresses[address].kind = "no_socket" ->
                       phase' = "next" /\ address' = address + 1 /\ UNCHANGED answerAt
                  [] addresses[address].kind = "at_once" ->
                       phase' = "open" /\ UNCHANGED <<address, answerAt>>
                  [] OTHER -> /\ phase' = "pending" /\ UNCHANGED address
                              /\ answerAt' = clock + addresses[address].after
    <2>0. n > 0 /\ EqualShare \in Nat /\ address <= n /\ address \in DOMAIN addresses
      BY <1>1, <1>5
    <2>. DEFINE a == addresses[address]
    <2>1. /\ ShareOfBudget \in Nat /\ clock <= ShareOfBudget /\ ShareOfBudget <= deadline
          /\ SharesLeft(ShareOfBudget, r - 1)
          /\ clock + Tick * EqualShare <= ShareOfBudget
      BY <1>0, <1>5, <2>0, ShareFacts
    <2>2. CASE a.kind = "no_socket"
      <3>1. phase' = "next" /\ address' = address + 1 /\ answerAt' = answerAt
        BY <1>5, <2>2
      <3>2. address + 1 \in 1..(n + 1)
        BY <1>1, <2>0
      <3>3. ConnectTypeOK'
        BY <1>0, <1>5, <2>1, <3>1, <3>2 DEF ConnectTypeOK
      <3>4. Remaining' = r - 1
        BY <1>0, <1>1, <3>1 DEF Remaining
      <3>5. SharesLeft(clock, Remaining)'
        <4>1. SharesLeft(clock, r - 1)
          BY <1>0, <1>1, <1>5, <2>0, FewerShares
        <4>. QED  BY <1>0, <1>2, <3>4, <4>1 DEF SharesLeft
      <3>6. \A i \in 1..address : TriedInVain(addresses[i], EqualShare)
        <4>1. \A i \in 1..address : i = address \/ i \in 1..(address - 1)
          BY <1>1
        <4>. QED  BY <1>0, <2>2, <4>1 DEF TriedInVain
      <3>7. ASSUME NEW i \in 1..(address' - 1) PROVE TriedInVain(addresses[i], EqualShare)'
        <4>1. TriedInVain(addresses[i], EqualShare)
          <5>1. PICK k \in Nat : address' = k /\ k = address + 1
            BY <1>1, <3>1
          <5>2. i \in 1..address
            BY <1>1, <5>1
          <5>. QED  BY <3>6, <5>2
        <4>. QED  BY <1>0, <1>2, <4>1 DEF TriedInVain
      <3>8. BudgetShared' /\ PendingInv'
        BY <1>0, <3>1 DEF BudgetShared, PendingInv
      <3>. QED  BY <1>0, <3>1, <3>3, <3>5, <3>7, <3>8 DEF ConnectInv, Dialling
    <2>3. CASE a.kind = "at_once"
      <3>1. phase' = "open" /\ UNCHANGED <<address, answerAt>>
        BY <1>5, <2>3
      <3>2. ConnectTypeOK'
        BY <1>0, <1>5, <2>1, <3>1 DEF ConnectTypeOK
      <3>. QED  BY <1>0, <3>1, <3>2 DEF ConnectInv, Dialling, PendingInv, BudgetShared
    <2>4. CASE a.kind = "later"
      <3>1. phase' = "pending" /\ address' = address /\ answerAt' = clock + a.after
        BY <1>5, <2>4
      <3>2. a.after \in Nat /\ a.after > 0
        BY <1>1, <2>0, <2>4
      <3>3. ConnectTypeOK'
        <4>1. clock + a.after \in Nat
          BY <1>1, <3>2
        <4>. QED  BY <1>0, <1>5, <2>1, <3>1, <4>1 DEF ConnectTypeOK
      <3>4. PendingInv'
        <4>1. (clock + a.after) - a.after = clock /\ clock < clock + a.after
          BY <1>1, <3>2
        <4>2. Remaining' = r
          BY <1>0, <3>1 DEF Remaining
        <4>3. SharesLeft(attemptEnd, Remaining - 1)'
          BY <1>0, <1>2, <1>5, <2>1, <4>2 DEF SharesLeft
        <4>. QED  BY <1>0, <1>2, <1>5, <2>0, <2>1, <2>4, <3>1, <4>1, <4>3 DEF PendingInv
      <3>5. \A i \in 1..(address - 1) : TriedInVain(addresses[i], EqualShare)'
        BY <1>0, <1>2 DEF TriedInVain
      <3>6. BudgetShared'
        BY <1>0, <3>1 DEF BudgetShared
      <3>. QED  BY <1>0, <3>1, <3>3, <3>4, <3>5, <3>6 DEF ConnectInv, Dialling
    <2>. QED  BY <1>1, <2>0, <2>2, <2>3, <2>4
  <1>. QED  BY <1>3, <1>4, <1>5 DEF TryAddress

\* The next address after one that was given up.
LEMMA GiveUpStep ==
  ASSUME ConnectInv, phase = "pending", GiveUpAddress, UNCHANGED <<addresses, deadline, attemptEnd, answerAt>>,
         NEW c \in Nat, clock' = c, c <= attemptEnd, TriedInVain(addresses[address], EqualShare)
  PROVE  ConnectInv'
  <1>0. /\ address <= Len(addresses) /\ attemptEnd <= deadline /\ SharesLeft(attemptEnd, Remaining - 1)
        /\ \A i \in 1..(address - 1) : TriedInVain(addresses[i], EqualShare)
        /\ ConnectTypeOK /\ deadline = Budget * Tick
        /\ phase' = "next" /\ address' = address + 1
    BY DEF ConnectInv, PendingInv, GiveUpAddress, Dialling
  <1>1. /\ Len(addresses) \in Nat /\ address \in Nat /\ address > 0 /\ Remaining \in Nat
        /\ Remaining = Len(addresses) - address + 1 /\ EqualShare \in Nat
        /\ attemptEnd \in Nat /\ deadline \in Nat /\ Tick \in Nat
    BY <1>0, AddressFacts, WireConstants DEF ConnectTypeOK
  <1>2. EqualShare' = EqualShare
    BY DEF EqualShare
  <1>3. ConnectTypeOK'
    <2>1. address + 1 \in 1..(Len(addresses) + 1)
      BY <1>0, <1>1
    <2>. QED  BY <1>0, <2>1 DEF ConnectTypeOK
  <1>4. Remaining' = Remaining - 1
    BY <1>0, <1>1 DEF Remaining
  <1>5. SharesLeft(clock, Remaining)'
    <2>1. Tick * ((Remaining - 1) * EqualShare) \in Int
      BY <1>1
    <2>2. c + Tick * ((Remaining - 1) * EqualShare) <= deadline
      BY <1>0, <1>1, <2>1 DEF SharesLeft
    <2>. QED  BY <1>2, <1>4, <2>2 DEF SharesLeft
  <1>6. \A i \in 1..address : TriedInVain(addresses[i], EqualShare)
    <2>1. \A i \in 1..address : i = address \/ i \in 1..(address - 1)
      BY <1>1
    <2>. QED  BY <1>0, <2>1
  <1>7. ASSUME NEW i \in 1..(address' - 1) PROVE TriedInVain(addresses[i], EqualShare)'
    <2>1. TriedInVain(addresses[i], EqualShare)
      <3>1. PICK k \in Nat : address' = k /\ k = address + 1
        BY <1>0, <1>1
      <3>2. i \in 1..address
        BY <1>1, <3>1
      <3>. QED  BY <1>6, <3>2
    <2>. QED  BY <1>2, <2>1 DEF TriedInVain
  <1>8. c <= deadline
    BY <1>0, <1>1
  <1>9. BudgetShared' /\ PendingInv'
    BY <1>0, <1>8 DEF BudgetShared, PendingInv
  <1>. QED  BY <1>0, <1>3, <1>5, <1>7, <1>8, <1>9 DEF ConnectInv, Dialling

\* A poll of the awaited address keeps it.
LEMMA PollStep ==
  ASSUME ConnectInv, PollPending
  PROVE  ConnectInv'
  <1>. DEFINE a == addresses[address]  ms == Milliseconds(attemptEnd)  end == clock + Tick * ms
  <1>0. /\ phase = "pending" /\ UNCHANGED <<addresses, deadline, attemptEnd, answerAt>>
        /\ address <= Len(addresses) /\ a.kind = "later"
        /\ clock < answerAt /\ clock <= attemptEnd /\ attemptEnd <= deadline
        /\ SharesLeft(attemptEnd, Remaining - 1)
        /\ (answerAt - a.after) + Tick * EqualShare <= attemptEnd
        /\ ConnectTypeOK /\ deadline = Budget * Tick
        /\ \A i \in 1..(address - 1) : TriedInVain(addresses[i], EqualShare)
    BY DEF PollPending, ConnectInv, PendingInv, Dialling
  <1>1. /\ clock \in Nat /\ answerAt \in Nat /\ attemptEnd \in Nat /\ deadline \in Nat
        /\ Tick \in Nat /\ Tick > 0 /\ a.after \in Nat /\ EqualShare \in Nat
        /\ Tick * EqualShare \in Int /\ Tick * (EqualShare - 1) = Tick * EqualShare - Tick
        /\ Tick * (EqualShare - 1) \in Int
    <2>1. /\ clock \in Nat /\ answerAt \in Nat /\ attemptEnd \in Nat /\ deadline \in Nat
          /\ Tick \in Nat /\ Tick > 0 /\ a.after \in Nat /\ EqualShare \in Nat
      BY <1>0, AddressFacts, WireConstants DEF ConnectTypeOK
    <2>. QED  BY <2>1
  <1>2. /\ ms \in Nat /\ end \in Nat /\ clock <= end
        /\ end <= attemptEnd /\ attemptEnd < end + Tick
    <2>1. attemptEnd - clock \in Int /\ attemptEnd - clock >= 0
      BY <1>0, <1>1
    <2>2. ms \in Int /\ ms >= 0 /\ Tick * ms <= attemptEnd - clock /\ attemptEnd - clock < Tick * ms + Tick
      BY <1>1, <2>1, Quotient, QuotientSign DEF Milliseconds
    <2>. HIDE DEF ms
    <2>3. Tick * ms \in Nat
      BY <1>1, <2>2
    <2>. QED  BY <1>1, <2>2, <2>3
  <1>. HIDE DEF ms, end
  <1>3. ASSUME answerAt > end PROVE TriedInVain(a, EqualShare)
    <2>1. a.after > Tick * (EqualShare - 1)
      BY <1>0, <1>1, <1>2, <1>3
    <2>. QED  BY <1>0, <2>1 DEF TriedInVain
  <1>4. ~a.up => TriedInVain(a, EqualShare)
    BY <1>0 DEF TriedInVain
  <1>5. CASE end <= clock /\ GiveUpAddress /\ clock' = clock
    <2>1. answerAt > end
      BY <1>0, <1>1, <1>2, <1>5
    <2>. QED  BY <1>0, <1>1, <1>3, <1>5, <2>1, GiveUpStep
  <1>6. CASE /\ clock < end /\ answerAt <= end /\ clock' = Higher(clock, answerAt)
             /\ IF a.up THEN phase' = "open" /\ address' = address ELSE GiveUpAddress
    <2>1. clock' = answerAt
      BY <1>0, <1>1, <1>6 DEF Higher
    <2>2. answerAt <= attemptEnd /\ answerAt <= deadline
      <3>1. answerAt <= end
        BY <1>6
      <3>2. answerAt \in Nat /\ attemptEnd \in Nat /\ deadline \in Nat /\ end \in Nat
        BY <1>1, <1>2
      <3>3. end <= attemptEnd /\ attemptEnd <= deadline
        BY <1>0, <1>2
      <3>. QED  BY <3>1, <3>2, <3>3
    <2>3. CASE ~a.up
      BY <1>0, <1>1, <1>4, <1>6, <2>1, <2>2, <2>3, GiveUpStep
    <2>4. CASE a.up
      <3>1. ConnectTypeOK'
        BY <1>0, <1>1, <1>6, <2>1, <2>4 DEF ConnectTypeOK
      <3>2. phase' = "open" /\ clock' <= deadline'
        BY <1>0, <1>6, <2>1, <2>2, <2>4
      <3>. QED  BY <1>0, <3>1, <3>2 DEF ConnectInv, Dialling, PendingInv, BudgetShared
    <2>. QED  BY <2>3, <2>4
  <1>7. CASE clock < end /\ answerAt > end /\ clock' = end /\ GiveUpAddress
    BY <1>0, <1>1, <1>2, <1>3, <1>7, GiveUpStep
  <1>8. CASE /\ clock' \in (clock + 1)..(end - 1) /\ clock' < answerAt
             /\ UNCHANGED <<phase, address>>
    <2>1. PICK c \in (clock + 1)..(end - 1) : clock' = c /\ c < answerAt
      BY <1>8
    <2>2. c \in Nat /\ c <= attemptEnd /\ c <= deadline
      <3>1. end <= attemptEnd /\ attemptEnd <= deadline
        BY <1>0, <1>2
      <3>2. clock \in Nat /\ end \in Nat /\ attemptEnd \in Nat /\ deadline \in Nat
        BY <1>1, <1>2
      <3>. QED  BY <3>1, <3>2
    <2>3. ConnectTypeOK'
      BY <1>0, <1>8, <2>1, <2>2 DEF ConnectTypeOK
    <2>4. EqualShare' = EqualShare /\ Remaining' = Remaining
      BY <1>0, <1>8 DEF EqualShare, Remaining
    <2>5. PendingInv'
      BY <1>0, <1>8, <2>1, <2>2, <2>4 DEF PendingInv, SharesLeft
    <2>6. \A i \in 1..(address' - 1) : TriedInVain(addresses[i], EqualShare)'
      BY <1>0, <1>8, <2>4 DEF TriedInVain
    <2>7. BudgetShared'
      BY <1>0, <1>8, <2>1, <2>2 DEF BudgetShared
    <2>. QED  BY <1>0, <1>8, <2>1, <2>2, <2>3, <2>5, <2>6, <2>7 DEF ConnectInv, Dialling
  <1>. QED  BY <1>5, <1>6, <1>7, <1>8 DEF PollPending, end, ms

\* Beginning to dial keeps it: the budget is at least its equal shares.
LEMMA DialStep ==
  ASSUME ConnectInv, Dial
  PROVE  ConnectInv'
  <1>1. PICK n \in 0..MaxAddresses : addresses' \in [1..n -> Addresses]
    BY DEF Dial
  <1>2. n \in Nat
    BY WireBoundsAssumption
  <1>3. addresses' \in Seq(Addresses)
    BY <1>1, <1>2, SeqDef
  <1>4. Len(addresses') \in Nat
    BY <1>3, LenProperties
  <1>5. /\ address' = 1 /\ clock' = 0 /\ deadline' = Budget * Tick /\ phase' = "next"
        /\ UNCHANGED <<attemptEnd, answerAt>>
    BY DEF Dial
  <1>6. ConnectTypeOK'
    <2>1. 1 \in 1..(Len(addresses') + 1)
      BY <1>4
    <2>. QED  BY <1>3, <1>5, <2>1, WireConstants DEF ConnectInv, ConnectTypeOK
  <1>7. Len(addresses') > 0 => SharesLeft(clock, Remaining)'
    <2>. SUFFICES ASSUME Len(addresses') > 0 PROVE SharesLeft(clock, Remaining)'
      OBVIOUS
    <2>. DEFINE k == Len(addresses')  q == Budget \div k
    <2>1. k \in Nat /\ k > 0
      BY <1>4
    <2>. HIDE DEF k
    <2>2. q \in Int /\ k * q <= Budget
      BY <2>1, WireConstants, Quotient
    <2>. HIDE DEF q
    <2>3. Tick * (k * q) <= Tick * Budget /\ Tick * (k * q) \in Int /\ Tick * Budget = Budget * Tick
      <3>1. k * q \in Int
        BY <2>1, <2>2
      <3>. QED  BY <2>2, <3>1, WireConstants, TimesMonotone
    <2>4. 0 + Tick * (k * q) <= Budget * Tick
      BY <2>3, WireConstants
    <2>5. Remaining' = k
      <3>1. k - 1 + 1 = k
        BY <2>1
      <3>. QED  BY <1>5, <3>1 DEF Remaining, k
    <2>6. EqualShare' = q
      BY DEF EqualShare, q, k
    <2>. QED  BY <1>5, <2>4, <2>5, <2>6 DEF SharesLeft
  <1>8. \A i \in 1..(1 - 1) : FALSE
    OBVIOUS
  <1>9. 0 <= Budget * Tick
    BY WireConstants
  <1>. QED  BY <1>5, <1>6, <1>7, <1>8, <1>9 DEF ConnectInv, Dialling, PendingInv, BudgetShared

\* It holds before anything is dialled.
LEMMA ConnectInitInv == WireInit => ConnectInv
  <1>. SUFFICES ASSUME WireInit PROVE ConnectInv
    OBVIOUS
  <1>1. ConnectTypeOK
    <2>1. addresses \in Seq(Addresses) /\ Len(addresses) = 0
      BY EmptySeq DEF WireInit
    <2>. QED  BY <2>1 DEF WireInit, ConnectTypeOK
  <1>. QED  BY <1>1 DEF WireInit, ConnectInv, Dialling, PendingInv, BudgetShared

\* Every step keeps it; what is not connecting leaves its variables or ends it.
LEMMA ConnectStep ==
  ASSUME ConnectInv, [WireNext]_wireVars
  PROVE  ConnectInv'
  <1>1. CASE Dial
    BY <1>1, DialStep
  <1>2. CASE TryAddress
    BY <1>2, TryStep
  <1>3. CASE PollPending
    BY <1>3, PollStep
  <1>4. CASE Connected \/ Disconnect
    <2>1. /\ phase' \in {"connected", "idle"}
          /\ addresses' = <<>> /\ address' = 1 /\ clock' = 0
          /\ deadline' = 0 /\ attemptEnd' = 0 /\ answerAt' = 0
      BY <1>4 DEF Connected, Disconnect, ConnectReturns
    <2>2. ConnectTypeOK'
      <3>1. addresses' \in Seq(Addresses) /\ Len(addresses') = 0
        BY <2>1, EmptySeq
      <3>. QED  BY <2>1, <3>1 DEF ConnectTypeOK
    <2>. QED  BY <2>1, <2>2 DEF ConnectInv, Dialling, PendingInv, BudgetShared
  <1>5. CASE Accept
    <2>1. phase' = "reading" /\ UNCHANGED connectVars
      BY <1>5 DEF Accept
    <2>. QED  BY <2>1 DEF ConnectInv, ConnectTypeOK, Dialling, PendingInv, BudgetShared, connectVars
  <1>6. CASE (PopFrame \/ RefuseFrame \/ Receive \/ Drop) \/ UNCHANGED wireVars
    <2>1. UNCHANGED <<phase, connectVars>>
      BY <1>6 DEF PopFrame, RefuseFrame, Receive, ReceiveUpTo, Drop, wireVars
    <2>. QED  BY <2>1 DEF ConnectInv, ConnectTypeOK, Dialling, PendingInv, BudgetShared, connectVars,
              SharesLeft, TriedInVain, EqualShare, Remaining
  <1>. QED  BY <1>1, <1>2, <1>3, <1>4, <1>5, <1>6 DEF WireNext

-----------------------------------------------------------------------------
(***************************************************************************)
(* Framing: the reader cuts the bytes of the pool into the objects it sent. *)
(* The scanner is a fold over the bytes, and the texts pools send are       *)
(* nested to any depth, so what it finds is shown by induction: a text of   *)
(* an object is read over when there is room for its brackets and refused   *)
(* when there is none (ObjectReads), an object by itself ends at its last   *)
(* byte (SoundLength), and a length once found does not depend on what      *)
(* follows (LengthOfMore).  The invariant of the wire is that the buffer    *)
(* and the bytes to come are the messages not dispatched, in their order    *)
(* (FrameInv); the next of them is then what the buffer begins with.        *)
(*                                                                         *)
(* Induction is over the numbers in a set (SetInduction).                   *)
(***************************************************************************)

\* The scans of the beginnings of a text.
ReadsAlong(f, s, t) ==
  f[0] = s /\ \A k \in 1..Len(t) : f[k] = ScanChar(f[k - 1], t[k])

\* What the scanner has after a text.
After(s, t) == FoldLeft(ScanChar, s, t)

\* The equation of the fold.
ScanFold(g, n, s, t) ==
  g = [x \in SUBSET (1..n) |->
         IF x = {} THEN s ELSE ScanChar(g[x \ {Max(x)}], t[Max(x)])]

\* What the scanner has after a text, as the library defines the fold.
LEMMA AfterIsFold ==
  ASSUME NEW t, NEW n, NEW s, DOMAIN t = 1..n
  PROVE  After(s, t) = (CHOOSE g : ScanFold(g, n, s, t))[1..n]
  BY DEF After, FoldLeft, MapThenFoldSet, ScanFold

\* Every set of positions that is not empty has a last one.
LEMMA MaxOfInterval ==
  ASSUME NEW n \in Nat, NEW x \in SUBSET (1..n), x # {}
  PROVE  Max(x) \in x /\ \A y \in x : y <= Max(x)
  <1>. DEFINE HasLast(s) == \E m \in s : \A y \in s : y <= m
              P == {k \in Nat : \A s \in SUBSET (1..k) : s # {} => HasLast(s)}
  <1>1. 0 \in P
    <2>1. \A s \in SUBSET (1..0) : s = {}
      OBVIOUS
    <2>. QED  BY <2>1
  <1>2. ASSUME NEW k \in Nat, k \in P PROVE k + 1 \in P
    <2>1. ASSUME NEW s \in SUBSET (1..(k + 1)), s # {} PROVE HasLast(s)
      <3>1. CASE k + 1 \in s
        BY <3>1
      <3>2. CASE k + 1 \notin s
        <4>1. s \in SUBSET (1..k)
          BY <3>2
        <4>. QED  BY <1>2, <2>1, <4>1
      <3>. QED  BY <3>1, <3>2
    <2>. QED  BY <2>1
  <1>3. n \in P
    <2>. HIDE DEF P
    <2>. QED  BY <1>1, <1>2, SetInduction
  <1>4. HasLast(x)
    BY <1>3
  <1>. QED  BY <1>4 DEF Max

\* The fold's equation has a solution, whatever the text is.
LEMMA ScanFoldExists ==
  ASSUME NEW n \in Nat, NEW s, NEW t
  PROVE  \E g : ScanFold(g, n, s, t)
  <1>. DEFINE P == {k \in Nat : \E g : ScanFold(g, k, s, t)}
  <1>1. 0 \in P
    <2>. DEFINE g == [x \in SUBSET (1..0) |-> s]
    <2>1. \A x \in SUBSET (1..0) : x = {}
      OBVIOUS
    <2>2. ScanFold(g, 0, s, t)
      BY <2>1 DEF ScanFold
    <2>. QED  BY <2>2
  <1>2. ASSUME NEW k \in Nat, k \in P PROVE k + 1 \in P
    <2>1. PICK g : ScanFold(g, k, s, t)
      BY <1>2
    <2>. DEFINE h == [x \in SUBSET (1..(k + 1)) |->
                        IF k + 1 \in x THEN ScanChar(g[x \ {k + 1}], t[k + 1]) ELSE g[x]]
    <2>2. ASSUME NEW x \in SUBSET (1..(k + 1))
          PROVE  h[x] = IF x = {} THEN s ELSE ScanChar(h[x \ {Max(x)}], t[Max(x)])
      <3>1. CASE k + 1 \in x
        <4>1. Max(x) = k + 1
          <5>1. Max(x) \in x /\ k + 1 <= Max(x)
            BY <3>1, MaxOfInterval, k + 1 \in Nat
          <5>2. Max(x) \in 1..(k + 1)
            BY <5>1
          <5>. HIDE DEF h
          <5>. QED  BY <5>1, <5>2
        <4>2. x \ {k + 1} \in SUBSET (1..(k + 1)) /\ k + 1 \notin x \ {k + 1}
          OBVIOUS
        <4>3. h[x \ {k + 1}] = g[x \ {k + 1}]
          BY <4>2
        <4>4. h[x] = ScanChar(g[x \ {k + 1}], t[k + 1]) /\ x # {}
          BY <3>1
        <4>. HIDE DEF h
        <4>. QED  BY <4>1, <4>3, <4>4
      <3>2. CASE k + 1 \notin x
        <4>1. x \in SUBSET (1..k)
          BY <3>2
        <4>2. g[x] = IF x = {} THEN s ELSE ScanChar(g[x \ {Max(x)}], t[Max(x)])
          BY <2>1, <4>1 DEF ScanFold
        <4>3. h[x] = g[x]
          BY <3>2
        <4>4. h[x \ {Max(x)}] = g[x \ {Max(x)}]
          BY <3>2
        <4>. HIDE DEF h
        <4>. QED  BY <4>2, <4>3, <4>4
      <3>. QED  BY <3>1, <3>2
    <2>3. ScanFold(h, k + 1, s, t)
      <3>. DEFINE e(x) == IF x = {} THEN s ELSE ScanChar(h[x \ {Max(x)}], t[Max(x)])
      <3>1. \A x \in SUBSET (1..(k + 1)) : h[x] = e(x)
        BY <2>2
      <3>2. h = [x \in SUBSET (1..(k + 1)) |-> h[x]]
        OBVIOUS
      <3>. HIDE DEF h
      <3>. QED  BY <3>1, <3>2 DEF ScanFold
    <2>. QED  BY <2>3
  <1>3. n \in P
    <2>. HIDE DEF P
    <2>. QED  BY <1>1, <1>2, SetInduction
  <1>. QED  BY <1>3

\* Reading a text goes through the scans of its beginnings.
LEMMA ReadsAlongExists ==
  ASSUME NEW C, NEW t \in Seq(C), NEW s
  PROVE  \E f : ReadsAlong(f, s, t) /\ f[Len(t)] = After(s, t)
  <1>. DEFINE n == Len(t)
              g == CHOOSE g : ScanFold(g, n, s, t)
              f == [k \in 0..n |-> g[1..k]]
  <1>1. n \in Nat /\ DOMAIN t = 1..n
    OBVIOUS
  <1>2. ScanFold(g, n, s, t)
    BY <1>1, ScanFoldExists
  <1>3. f[n] = After(s, t)
    <2>1. g[1..n] = After(s, t)
      BY <1>1, AfterIsFold
    <2>2. n \in 0..n
      <3>. HIDE DEF n
      <3>. QED  BY <1>1
    <2>. HIDE DEF g, n
    <2>. QED  BY <2>1, <2>2
  <1>. HIDE DEF g
  <1>4. f[0] = s
    <2>1. 1..0 = {} /\ 1..0 \in SUBSET (1..n)
      BY <1>1
    <2>2. g[1..0] = s
      BY <1>2, <2>1 DEF ScanFold
    <2>. QED  BY <1>1, <2>2
  <1>5. ASSUME NEW k \in 1..n PROVE f[k] = ScanChar(f[k - 1], t[k])
    <2>. DEFINE x == 1..k
    <2>1. x \in SUBSET (1..n) /\ x # {} /\ k \in x /\ \A y \in x : y <= k
      <3>. HIDE DEF n
      <3>. QED  BY <1>1
    <2>2. Max(x) = k
      <3>1. Max(x) \in x /\ k <= Max(x)
        BY <1>1, <2>1, MaxOfInterval
      <3>. QED  BY <3>1
    <2>3. x \ {k} = 1..(k - 1)
      BY <1>1
    <2>4. g[x] = ScanChar(g[x \ {Max(x)}], t[Max(x)])
      <3>. HIDE DEF x
      <3>. QED  BY <1>2, <2>1 DEF ScanFold
    <2>5. g[1..k] = ScanChar(g[1..(k - 1)], t[k])
      BY <2>2, <2>3, <2>4
    <2>6. k \in 0..n /\ k - 1 \in 0..n
      BY <1>1
    <2>. QED  BY <2>5, <2>6
  <1>. HIDE DEF f
  <1>6. ReadsAlong(f, s, t)
    BY <1>4, <1>5 DEF ReadsAlong
  <1>. QED  BY <1>3, <1>6

\* And there is one way to read it.
LEMMA ReadsAlongIs ==
  ASSUME NEW C, NEW t \in Seq(C), NEW s, NEW f, ReadsAlong(f, s, t)
  PROVE  After(s, t) = f[Len(t)]
  <1>1. PICK g : ReadsAlong(g, s, t) /\ g[Len(t)] = After(s, t)
    BY ReadsAlongExists
  <1>. DEFINE P == {k \in Nat : k <= Len(t) => f[k] = g[k]}
  <1>2. 0 \in P
    BY <1>1 DEF ReadsAlong
  <1>3. ASSUME NEW k \in Nat, k \in P PROVE k + 1 \in P
    <2>. SUFFICES ASSUME k + 1 <= Len(t) PROVE f[k + 1] = g[k + 1]
      OBVIOUS
    <2>1. k + 1 \in 1..Len(t) /\ (k + 1) - 1 = k /\ Len(t) \in Nat
      OBVIOUS
    <2>2. f[k] = g[k]
      BY <1>3, <2>1
    <2>3. f[k + 1] = ScanChar(f[k], t[k + 1]) /\ g[k + 1] = ScanChar(g[k], t[k + 1])
      BY <1>1, <2>1 DEF ReadsAlong
    <2>. QED  BY <2>2, <2>3
  <1>4. Len(t) \in P
    <2>. HIDE DEF P
    <2>. QED  BY <1>2, <1>3, SetInduction
  <1>. QED  BY <1>1, <1>4

\* NothingRead is read of no text.
LEMMA AfterNothing ==
  ASSUME NEW s
  PROVE  After(s, <<>>) = s
  <1>1. <<>> \in Seq({}) /\ Len(<<>>) = 0
    OBVIOUS
  <1>2. PICK f : ReadsAlong(f, s, <<>>) /\ f[Len(<<>>)] = After(s, <<>>)
    BY <1>1, ReadsAlongExists
  <1>. QED  BY <1>1, <1>2 DEF ReadsAlong

\* A character is read by one step of the scanner.
LEMMA AfterOne ==
  ASSUME NEW s, NEW c
  PROVE  After(s, <<c>>) = ScanChar(s, c)
  <1>1. <<c>> \in Seq({c}) /\ Len(<<c>>) = 1 /\ <<c>>[1] = c
    OBVIOUS
  <1>2. PICK f : ReadsAlong(f, s, <<c>>) /\ f[1] = After(s, <<c>>)
    BY <1>1, ReadsAlongExists
  <1>3. f[1] = ScanChar(f[1 - 1], <<c>>[1]) /\ f[0] = s
    BY <1>1, <1>2 DEF ReadsAlong
  <1>. QED  BY <1>1, <1>2, <1>3

\* A text is read after the one before it.
LEMMA AfterBoth ==
  ASSUME NEW C, NEW t \in Seq(C), NEW u \in Seq(C), NEW s
  PROVE  After(s, t \o u) = After(After(s, t), u)
  <1>. DEFINE m == Len(t)  n == Len(u)  w == t \o u
  <1>1. m \in Nat /\ n \in Nat /\ w \in Seq(C) /\ Len(w) = m + n
    OBVIOUS
  <1>2. \A k \in 1..m : w[k] = t[k]
    OBVIOUS
  <1>3. \A k \in 1..n : w[m + k] = u[k]
    OBVIOUS
  <1>4. PICK f : ReadsAlong(f, s, w) /\ f[m + n] = After(s, w)
    BY <1>1, ReadsAlongExists
  <1>. HIDE DEF w
  <1>5. ReadsAlong(f, s, t)
    <2>1. ASSUME NEW k \in 1..m PROVE f[k] = ScanChar(f[k - 1], t[k])
      <3>1. k \in 1..Len(w) /\ w[k] = t[k]
        BY <1>1, <1>2
      <3>. QED  BY <1>4, <3>1 DEF ReadsAlong
    <2>. QED  BY <1>4, <2>1 DEF ReadsAlong
  <1>6. After(s, t) = f[m]
    BY <1>5, ReadsAlongIs
  <1>. DEFINE h == [k \in 0..n |-> f[m + k]]
  <1>7. ReadsAlong(h, f[m], u)
    <2>1. h[0] = f[m]
      BY <1>1
    <2>2. ASSUME NEW k \in 1..n PROVE h[k] = ScanChar(h[k - 1], u[k])
      <3>1. m + k \in 1..Len(w) /\ w[m + k] = u[k] /\ (m + k) - 1 = m + (k - 1)
        BY <1>1, <1>3
      <3>2. f[m + k] = ScanChar(f[(m + k) - 1], w[m + k])
        BY <1>4, <3>1 DEF ReadsAlong
      <3>3. k \in 0..n /\ k - 1 \in 0..n
        BY <1>1
      <3>. QED  BY <3>1, <3>2, <3>3
    <2>. HIDE DEF h
    <2>. QED  BY <2>1, <2>2 DEF ReadsAlong
  <1>8. h[n] = f[m + n]
    BY <1>1
  <1>9. After(f[m], u) = h[n]
    <2>. HIDE DEF h
    <2>. QED  BY <1>7, ReadsAlongIs
  <1>. QED  BY <1>4, <1>6, <1>8, <1>9 DEF w

\* The opening brackets, and the characters the scanner tells apart.
Brackets == {"{", "["}
Chars == {"{", "[", "}", "]", "q", "b", "x"}

\* The braces, which the solvers take only by a name.
OpenBrace == "{"
CloseBrace == "}"

\* An object is its inside between braces.
LEMMA BraceFacts ==
  /\ OpenBrace \in Brackets /\ OpenBrace \in Chars /\ CloseBrace \in Chars
  /\ OpenBrace # "x" /\ OpenBrace # CloseBrace
  /\ "[" \in Brackets /\ "[" \in Chars /\ "]" \in Chars /\ "x" \in Chars
  /\ \A t : Braced(t) = <<OpenBrace>> \o t \o <<CloseBrace>>
  BY DEF OpenBrace, CloseBrace, Brackets, Chars, Braced

\* The fields of a scan.
Fields == {"at", "stack", "quoted", "escaped", "result"}

\* A scan outside of strings that has not ended, a characters on, with the
\* brackets of st open.
Clean(s, a, st) ==
  /\ DOMAIN s = Fields /\ s.at = a /\ s.stack = st /\ s.result = 0
  /\ s.quoted = FALSE /\ s.escaped = FALSE

\* A scan in a string, whose next character is not escaped.
Quoted(s, a, st) ==
  /\ DOMAIN s = Fields /\ s.at = a /\ s.stack = st /\ s.result = 0
  /\ s.quoted = TRUE /\ s.escaped = FALSE
\* A scan in a string, whose next character is escaped.
Escaped(s, a, st) ==
  /\ DOMAIN s = Fields /\ s.at = a /\ s.stack = st /\ s.result = 0
  /\ s.quoted = TRUE /\ s.escaped = TRUE

\* A scan that has ended stays as it is.
LEMMA EndedStays ==
  ASSUME NEW s, NEW c, s.result # 0
  PROVE  ScanChar(s, c) = s
  BY DEF ScanChar

\* A character outside of strings.
LEMMA CleanStep ==
  ASSUME NEW s, NEW c, s.result = 0, s.quoted = FALSE
  PROVE  ScanChar(s, c) = [OutsideString(s, c) EXCEPT !.at = @ + 1]
  BY DEF ScanChar

\* A character of a string.
LEMMA QuotedStep ==
  ASSUME NEW s, NEW c, s.result = 0, s.quoted = TRUE
  PROVE  ScanChar(s, c) = [InString(s, c) EXCEPT !.at = @ + 1]
  BY DEF ScanChar

\* An opening bracket is remembered.
LEMMA OpenRead ==
  ASSUME NEW s, NEW a \in Nat, NEW st, Clean(s, a, st), Len(st) # MaxDepth,
         NEW c \in Brackets
  PROVE  Clean(ScanChar(s, c), a + 1, Append(st, c))
  <1>1. OutsideString(s, c) = Opened(s, c)
    BY DEF OutsideString, Opens, Brackets
  <1>2. Opened(s, c) = [s EXCEPT !.stack = Append(st, c)]
    BY DEF Opened, Clean
  <1>3. ScanChar(s, c) = [OutsideString(s, c) EXCEPT !.at = @ + 1]
    BY CleanStep DEF Clean
  <1>. DEFINE n == [s EXCEPT !.stack = Append(st, c)]
  <1>4. Clean(n, a, Append(st, c))
    BY DEF Clean, Fields
  <1>. HIDE DEF n
  <1>5. Clean([n EXCEPT !.at = @ + 1], a + 1, Append(st, c))
    BY <1>4 DEF Clean, Fields
  <1>. QED  BY <1>1, <1>2, <1>3, <1>5 DEF n

\* Unless as many brackets are open as can be remembered.
LEMMA OpenRefused ==
  ASSUME NEW s, NEW a \in Nat, NEW st, Clean(s, a, st), Len(st) = MaxDepth,
         NEW c \in Brackets
  PROVE  ScanChar(s, c).result = -1
  <1>1. OutsideString(s, c) = Opened(s, c)
    BY DEF OutsideString, Opens, Brackets
  <1>2. Opened(s, c) = [s EXCEPT !.result = -1]
    BY DEF Opened, Clean
  <1>3. ScanChar(s, c) = [OutsideString(s, c) EXCEPT !.at = @ + 1]
    BY CleanStep DEF Clean
  <1>. QED  BY <1>1, <1>2, <1>3 DEF Clean, Fields

\* Two brackets that match.
Matching(o, c) == (o = "{" /\ c = "}") \/ (o = "[" /\ c = "]")

\* The bracket that closes the last one open, with others open before it.
LEMMA CloseRead ==
  ASSUME NEW s, NEW a \in Nat, NEW st \in Seq(Brackets), st # <<>>,
         NEW o, NEW c, Matching(o, c), Clean(s, a, Append(st, o))
  PROVE  Clean(ScanChar(s, c), a + 1, st)
  <1>. DEFINE u == Append(st, o)
  <1>1. u \in Seq(Brackets) /\ Len(u) = Len(st) + 1 /\ Len(st) \in Nat /\ Len(st) > 0
        /\ u # <<>> /\ Last(u) = o /\ Front(u) = st
    <2>1. o \in Brackets
      BY DEF Matching, Brackets
    <2>2. u \in Seq(Brackets) /\ Len(u) = Len(st) + 1 /\ Len(st) \in Nat /\ Len(st) > 0
      BY <2>1
    <2>3. Last(u) = o
      BY <2>1 DEF Last
    <2>4. Front(u) = st
      BY <2>1 DEF Front
    <2>5. u # <<>>
      <3>. HIDE DEF u
      <3>. QED  BY <2>2
    <2>. QED  BY <2>2, <2>3, <2>4, <2>5
  <1>2. OutsideString(s, c) = Closed(s, c) /\ OpenerOf(c) = o
    BY DEF OutsideString, Opens, Closes, Matching, OpenerOf
  <1>. HIDE DEF u
  <1>3. s.stack = u
    BY DEF Clean, u
  <1>4. Closed(s, c) = [s EXCEPT !.stack = st, !.result = 0]
    <2>1. ~(s.stack = <<>> \/ Last(s.stack) # OpenerOf(c)) /\ Len(s.stack) # 1
      <3>1. s.stack # <<>> /\ Len(s.stack) # 1
        <4>1. Len(u) # 1
          BY <1>1
        <4>. QED  BY <1>1, <1>3, <4>1
      <3>2. Last(s.stack) = OpenerOf(c)
        BY <1>1, <1>2, <1>3
      <3>. QED  BY <3>1, <3>2
    <2>2. Front(s.stack) = st
      BY <1>1, <1>3
    <2>. QED  BY <2>1, <2>2 DEF Closed
  <1>5. ScanChar(s, c) = [OutsideString(s, c) EXCEPT !.at = @ + 1]
    BY CleanStep DEF Clean
  <1>. DEFINE n == [s EXCEPT !.stack = st, !.result = 0]
  <1>6. Clean(n, a, st)
    BY DEF Clean, Fields
  <1>. HIDE DEF n
  <1>7. Clean([n EXCEPT !.at = @ + 1], a + 1, st)
    BY <1>6 DEF Clean, Fields
  <1>. QED  BY <1>2, <1>4, <1>5, <1>7 DEF n

\* The brace that closes the object.
LEMMA LastCloseRead ==
  ASSUME NEW s, NEW a \in Nat, Clean(s, a, <<OpenBrace>>)
  PROVE  ScanChar(s, CloseBrace).result = a + 1
  <1>. DEFINE u == <<OpenBrace>>
  <1>1. Len(u) = 1 /\ Last(u) = OpenBrace /\ u # <<>>
    BY DEF Last
  <1>2. OutsideString(s, CloseBrace) = Closed(s, CloseBrace) /\ OpenerOf(CloseBrace) = OpenBrace
    BY DEF OutsideString, Opens, Closes, OpenerOf, OpenBrace, CloseBrace
  <1>3. s.stack = u /\ s.at = a
    BY DEF Clean
  <1>. HIDE DEF u
  <1>4. Closed(s, CloseBrace) = [s EXCEPT !.stack = Front(u), !.result = a + 1]
    BY <1>1, <1>2, <1>3 DEF Closed
  <1>5. ScanChar(s, CloseBrace) = [OutsideString(s, CloseBrace) EXCEPT !.at = @ + 1]
    BY CleanStep DEF Clean
  <1>. QED  BY <1>2, <1>4, <1>5 DEF Clean, Fields

\* A bracket that closes another one than the last.
LEMMA WrongCloseRead ==
  ASSUME NEW s, NEW a \in Nat, NEW st, Clean(s, a, st), Last(st) = "["
  PROVE  ScanChar(s, CloseBrace).result = -1
  <1>2. OutsideString(s, CloseBrace) = Closed(s, CloseBrace) /\ OpenerOf(CloseBrace) # "["
    BY DEF OutsideString, Opens, Closes, OpenerOf, CloseBrace
  <1>3. s.stack = st
    BY DEF Clean
  <1>4. Closed(s, CloseBrace) = [s EXCEPT !.result = -1]
    BY <1>2, <1>3 DEF Closed
  <1>5. ScanChar(s, CloseBrace) = [OutsideString(s, CloseBrace) EXCEPT !.at = @ + 1]
    BY CleanStep DEF Clean
  <1>. QED  BY <1>2, <1>4, <1>5 DEF Clean, Fields

\* A quote begins a string.
LEMMA QuoteRead ==
  ASSUME NEW s, NEW a \in Nat, NEW st, Clean(s, a, st)
  PROVE  Quoted(ScanChar(s, "q"), a + 1, st)
  <1>1. OutsideString(s, "q") = [s EXCEPT !.quoted = TRUE]
    BY DEF OutsideString
  <1>2. ScanChar(s, "q") = [OutsideString(s, "q") EXCEPT !.at = @ + 1]
    BY CleanStep DEF Clean
  <1>. DEFINE n == [s EXCEPT !.quoted = TRUE]
  <1>3. Quoted(n, a, st)
    BY DEF Clean, Quoted, Fields
  <1>. HIDE DEF n
  <1>4. Quoted([n EXCEPT !.at = @ + 1], a + 1, st)
    BY <1>3 DEF Quoted, Fields
  <1>. QED  BY <1>1, <1>2, <1>4 DEF n

\* A quote ends it.
LEMMA UnquoteRead ==
  ASSUME NEW s, NEW a \in Nat, NEW st, Quoted(s, a, st)
  PROVE  Clean(ScanChar(s, "q"), a + 1, st)
  <1>. DEFINE n == InString(s, "q")
  <1>1. ScanChar(s, "q") = [n EXCEPT !.at = @ + 1]
    BY QuotedStep DEF Quoted
  <1>2. DOMAIN n = Fields /\ n.at = a /\ n.stack = st /\ n.result = 0
    BY DEF InString, Quoted, Fields
  <1>3. n.quoted = (s.escaped \/ "q" # "q") /\ n.escaped = (~s.escaped /\ "q" = "b")
    BY DEF InString, Quoted, Fields
  <1>. HIDE DEF n
  <1>4. n.quoted = FALSE /\ n.escaped = FALSE
    BY <1>3 DEF Quoted
  <1>5. Clean([n EXCEPT !.at = @ + 1], a + 1, st)
    BY <1>2, <1>4 DEF Clean, Fields
  <1>. QED  BY <1>1, <1>5

\* Other characters of a string.
LEMMA StringRead ==
  ASSUME NEW s, NEW a \in Nat, NEW st, Quoted(s, a, st), NEW c, c # "q", c # "b"
  PROVE  Quoted(ScanChar(s, c), a + 1, st)
  <1>. DEFINE n == InString(s, c)
  <1>1. ScanChar(s, c) = [n EXCEPT !.at = @ + 1]
    BY QuotedStep DEF Quoted
  <1>2. DOMAIN n = Fields /\ n.at = a /\ n.stack = st /\ n.result = 0
    BY DEF InString, Quoted, Fields
  <1>3. n.quoted = (s.escaped \/ c # "q") /\ n.escaped = (~s.escaped /\ c = "b")
    BY DEF InString, Quoted, Fields
  <1>. HIDE DEF n
  <1>4. n.quoted = TRUE /\ n.escaped = FALSE
    BY <1>3 DEF Quoted
  <1>5. Quoted([n EXCEPT !.at = @ + 1], a + 1, st)
    BY <1>2, <1>4 DEF Quoted, Fields
  <1>. QED  BY <1>1, <1>5

\* A backslash.
LEMMA BackslashRead ==
  ASSUME NEW s, NEW a \in Nat, NEW st, Quoted(s, a, st)
  PROVE  Escaped(ScanChar(s, "b"), a + 1, st)
  <1>. DEFINE n == InString(s, "b")
  <1>1. ScanChar(s, "b") = [n EXCEPT !.at = @ + 1]
    BY QuotedStep DEF Quoted
  <1>2. DOMAIN n = Fields /\ n.at = a /\ n.stack = st /\ n.result = 0
    BY DEF InString, Quoted, Fields
  <1>3. n.quoted = (s.escaped \/ "b" # "q") /\ n.escaped = (~s.escaped /\ "b" = "b")
    BY DEF InString, Quoted, Fields
  <1>. HIDE DEF n
  <1>4. n.quoted = TRUE /\ n.escaped = TRUE
    BY <1>3 DEF Quoted
  <1>5. Escaped([n EXCEPT !.at = @ + 1], a + 1, st)
    BY <1>2, <1>4 DEF Escaped, Fields
  <1>. QED  BY <1>1, <1>5

\* What follows it.
LEMMA EscapedRead ==
  ASSUME NEW s, NEW a \in Nat, NEW st, Escaped(s, a, st), NEW c
  PROVE  Quoted(ScanChar(s, c), a + 1, st)
  <1>. DEFINE n == InString(s, c)
  <1>1. ScanChar(s, c) = [n EXCEPT !.at = @ + 1]
    BY QuotedStep DEF Escaped
  <1>2. DOMAIN n = Fields /\ n.at = a /\ n.stack = st /\ n.result = 0
    BY DEF InString, Escaped, Fields
  <1>3. n.quoted = (s.escaped \/ c # "q") /\ n.escaped = (~s.escaped /\ c = "b")
    BY DEF InString, Escaped, Fields
  <1>. HIDE DEF n
  <1>4. n.quoted = TRUE /\ n.escaped = FALSE
    BY <1>3 DEF Escaped
  <1>5. Quoted([n EXCEPT !.at = @ + 1], a + 1, st)
    BY <1>2, <1>4 DEF Quoted, Fields
  <1>. QED  BY <1>1, <1>5

\* A scan that has ended stays so, whatever follows.
LEMMA AfterEnded ==
  ASSUME NEW C, NEW t \in Seq(C), NEW s, s.result # 0
  PROVE  After(s, t) = s
  <1>. DEFINE f == [k \in 0..Len(t) |-> s]
  <1>1. f[0] = s /\ f[Len(t)] = s
    OBVIOUS
  <1>2. ASSUME NEW k \in 1..Len(t) PROVE f[k] = ScanChar(f[k - 1], t[k])
    <2>1. f[k] = s /\ f[k - 1] = s
      OBVIOUS
    <2>. HIDE DEF f
    <2>. QED  BY <2>1, EndedStays
  <1>. HIDE DEF f
  <1>3. ReadsAlong(f, s, t)
    BY <1>1, <1>2 DEF ReadsAlong
  <1>. QED  BY <1>1, <1>3, ReadsAlongIs

\* A character and a text after it.
LEMMA AfterNext ==
  ASSUME NEW c \in Chars, NEW u \in Seq(Chars), NEW s
  PROVE  After(s, <<c>> \o u) = After(ScanChar(s, c), u)
  <1>1. <<c>> \in Seq(Chars)
    OBVIOUS
  <1>2. After(s, <<c>> \o u) = After(After(s, <<c>>), u)
    BY <1>1, AfterBoth
  <1>. QED  BY <1>2, AfterOne

\* A text and a character after it.
LEMMA AfterThen ==
  ASSUME NEW c \in Chars, NEW u \in Seq(Chars), NEW s
  PROVE  After(s, u \o <<c>>) = ScanChar(After(s, u), c)
  <1>1. <<c>> \in Seq(Chars)
    OBVIOUS
  <1>2. After(s, u \o <<c>>) = After(After(s, u), <<c>>)
    BY <1>1, AfterBoth
  <1>. QED  BY <1>2, AfterOne

\* Texts the scanner reads over, whatever brackets are open, while room more
\* can be remembered.
ReadOver(t, room) ==
  \A s, st : \A a \in Nat :
    st \in Seq(Brackets) /\ st # <<>> /\ Clean(s, a, st) /\ Len(st) + room <= MaxDepth
      => Clean(After(s, t), a + Len(t), st)

\* Texts it refuses while there is no such room.
Refused(t, room) ==
  \A s, st : \A a \in Nat :
    st \in Seq(Brackets) /\ Clean(s, a, st) /\ Len(st) <= MaxDepth /\ Len(st) + room > MaxDepth
      => After(s, t).result = -1

\* A text that takes the room of so many brackets.
Reads(t, room) == t \in Seq(Chars) /\ ReadOver(t, room) /\ Refused(t, room)

\* The insides without brackets take no room.
LEMMA FlatReads ==
  ASSUME NEW t \in Flat
  PROVE  Reads(t, 0)
  <1>0. Refused(t, 0)
    BY FrameAssumption DEF Refused
  <1>1. CASE t = <<>>
    BY <1>1, <1>0, AfterNothing DEF Reads, ReadOver
  <1>2. CASE t = <<"q", "}", "q">>
    <2>1. Len(t) = 3 /\ t[1] = "q" /\ t[2] = "}" /\ t[3] = "q" /\ t \in Seq(Chars)
      <3>1. <<"q", "}", "q">> \in Seq(Chars)
        BY DEF Chars
      <3>. QED  BY <1>2, <3>1
    <2>. SUFFICES ASSUME NEW s, NEW st, NEW a \in Nat, Clean(s, a, st)
                  PROVE Clean(After(s, t), a + 3, st)
      BY <2>1, <1>0 DEF Reads, ReadOver
    <2>2. PICK f : ReadsAlong(f, s, t) /\ f[3] = After(s, t)
      BY <2>1, ReadsAlongExists
    <2>3. /\ f[0] = s /\ f[1] = ScanChar(f[0], "q") /\ f[2] = ScanChar(f[1], "}")
          /\ f[3] = ScanChar(f[2], "q")
      <3>1. \A k \in 1..3 : f[k] = ScanChar(f[k - 1], t[k])
        BY <2>1, <2>2 DEF ReadsAlong
      <3>2. f[1] = ScanChar(f[0], t[1])
        <4>1. 1 \in 1..3 /\ 1 - 1 = 0
          OBVIOUS
        <4>. QED  BY <3>1, <4>1
      <3>3. f[2] = ScanChar(f[1], t[2])
        <4>1. 2 \in 1..3 /\ 2 - 1 = 1
          OBVIOUS
        <4>. QED  BY <3>1, <4>1
      <3>4. f[3] = ScanChar(f[2], t[3])
        <4>1. 3 \in 1..3 /\ 3 - 1 = 2
          OBVIOUS
        <4>. QED  BY <3>1, <4>1
      <3>5. f[0] = s
        BY <2>2 DEF ReadsAlong
      <3>. QED  BY <2>1, <3>2, <3>3, <3>4, <3>5
    <2>4. Quoted(f[1], a + 1, st)
      BY <2>3, QuoteRead
    <2>5. Quoted(f[2], (a + 1) + 1, st)
      <3>1. Quoted(ScanChar(f[1], "}"), (a + 1) + 1, st)
        BY <2>4, StringRead, a + 1 \in Nat
      <3>. QED  BY <2>3, <3>1
    <2>6. Clean(f[3], ((a + 1) + 1) + 1, st)
      <3>1. Clean(ScanChar(f[2], "q"), ((a + 1) + 1) + 1, st)
        BY <2>5, UnquoteRead, (a + 1) + 1 \in Nat
      <3>. QED  BY <2>3, <3>1
    <2>7. ((a + 1) + 1) + 1 = a + 3
      OBVIOUS
    <2>. QED  BY <2>2, <2>6, <2>7
  <1>3. CASE t = <<"q", "b", "q", "{", "q">>
    <2>1. /\ Len(t) = 5 /\ t[1] = "q" /\ t[2] = "b" /\ t[3] = "q" /\ t[4] = "{" /\ t[5] = "q"
          /\ t \in Seq(Chars)
      <3>1. <<"q", "b", "q", "{", "q">> \in Seq(Chars)
        BY DEF Chars
      <3>. QED  BY <1>3, <3>1
    <2>. SUFFICES ASSUME NEW s, NEW st, NEW a \in Nat, Clean(s, a, st)
                  PROVE Clean(After(s, t), a + 5, st)
      BY <2>1, <1>0 DEF Reads, ReadOver
    <2>2. PICK f : ReadsAlong(f, s, t) /\ f[5] = After(s, t)
      BY <2>1, ReadsAlongExists
    <2>3. /\ f[0] = s /\ f[1] = ScanChar(f[0], "q") /\ f[2] = ScanChar(f[1], "b")
          /\ f[3] = ScanChar(f[2], "q") /\ f[4] = ScanChar(f[3], "{")
          /\ f[5] = ScanChar(f[4], "q")
      <3>1. \A k \in 1..5 : f[k] = ScanChar(f[k - 1], t[k])
        BY <2>1, <2>2 DEF ReadsAlong
      <3>2. f[1] = ScanChar(f[0], t[1])
        <4>1. 1 \in 1..5 /\ 1 - 1 = 0
          OBVIOUS
        <4>. QED  BY <3>1, <4>1
      <3>3. f[2] = ScanChar(f[1], t[2])
        <4>1. 2 \in 1..5 /\ 2 - 1 = 1
          OBVIOUS
        <4>. QED  BY <3>1, <4>1
      <3>4. f[3] = ScanChar(f[2], t[3])
        <4>1. 3 \in 1..5 /\ 3 - 1 = 2
          OBVIOUS
        <4>. QED  BY <3>1, <4>1
      <3>5. f[4] = ScanChar(f[3], t[4])
        <4>1. 4 \in 1..5 /\ 4 - 1 = 3
          OBVIOUS
        <4>. QED  BY <3>1, <4>1
      <3>6. f[5] = ScanChar(f[4], t[5])
        <4>1. 5 \in 1..5 /\ 5 - 1 = 4
          OBVIOUS
        <4>. QED  BY <3>1, <4>1
      <3>7. f[0] = s
        BY <2>2 DEF ReadsAlong
      <3>. QED  BY <2>1, <3>2, <3>3, <3>4, <3>5, <3>6, <3>7
    <2>4. Quoted(f[1], a + 1, st)
      BY <2>3, QuoteRead
    <2>5. Escaped(f[2], (a + 1) + 1, st)
      <3>1. Escaped(ScanChar(f[1], "b"), (a + 1) + 1, st)
        BY <2>4, BackslashRead, a + 1 \in Nat
      <3>. QED  BY <2>3, <3>1
    <2>6. Quoted(f[3], ((a + 1) + 1) + 1, st)
      <3>1. Quoted(ScanChar(f[2], "q"), ((a + 1) + 1) + 1, st)
        BY <2>5, EscapedRead, (a + 1) + 1 \in Nat
      <3>. QED  BY <2>3, <3>1
    <2>7. Quoted(f[4], (((a + 1) + 1) + 1) + 1, st)
      <3>1. Quoted(ScanChar(f[3], "{"), (((a + 1) + 1) + 1) + 1, st)
        BY <2>6, StringRead, ((a + 1) + 1) + 1 \in Nat
      <3>. QED  BY <2>3, <3>1
    <2>8. Clean(f[5], ((((a + 1) + 1) + 1) + 1) + 1, st)
      <3>1. Clean(ScanChar(f[4], "q"), ((((a + 1) + 1) + 1) + 1) + 1, st)
        BY <2>7, UnquoteRead, (((a + 1) + 1) + 1) + 1 \in Nat
      <3>. QED  BY <2>3, <3>1
    <2>9. ((((a + 1) + 1) + 1) + 1) + 1 = a + 5
      OBVIOUS
    <2>. QED  BY <2>2, <2>8, <2>9
  <1>. QED  BY <1>1, <1>2, <1>3 DEF Flat

\* A text between two characters.
LEMMA Enclosed ==
  ASSUME NEW t \in Seq(Chars), NEW o \in Chars, NEW c \in Chars
  PROVE  LET w == <<o>> \o t \o <<c>>
         IN  /\ w \in Seq(Chars) /\ Len(w) = Len(t) + 2 /\ Len(t) \in Nat
             /\ t \o <<c>> \in Seq(Chars) /\ w = <<o>> \o (t \o <<c>>) /\ w[1] = o
  <1>1. t \o <<c>> \in Seq(Chars) /\ Len(t) \in Nat
    OBVIOUS
  <1>2. <<o>> \o t \o <<c>> = <<o>> \o (t \o <<c>>)
    OBVIOUS
  <1>. DEFINE v == t \o <<c>>
  <1>3. v \in Seq(Chars) /\ Len(v) = Len(t) + 1
    OBVIOUS
  <1>. HIDE DEF v
  <1>4. <<o>> \o v \in Seq(Chars) /\ Len(<<o>> \o v) = Len(v) + 1 /\ (<<o>> \o v)[1] = o
    BY <1>3
  <1>. QED  BY <1>1, <1>2, <1>3, <1>4 DEF v

\* A text between brackets takes the room of one more.
LEMMA BracketReads ==
  ASSUME NEW t, NEW room \in Nat, Reads(t, room), NEW o, NEW c, Matching(o, c)
  PROVE  Reads(<<o>> \o t \o <<c>>, room + 1)
  <1>. DEFINE w == <<o>> \o t \o <<c>>
  <1>1. o \in Brackets /\ o \in Chars /\ c \in Chars /\ t \in Seq(Chars)
    BY DEF Matching, Brackets, Chars, Reads
  <1>2. w \in Seq(Chars) /\ Len(w) = Len(t) + 2 /\ Len(t) \in Nat /\ t \o <<c>> \in Seq(Chars)
        /\ w = <<o>> \o (t \o <<c>>)
    BY <1>1
  <1>. HIDE DEF w
  <1>3. ASSUME NEW s, NEW st, NEW a \in Nat, st \in Seq(Brackets), st # <<>>, Clean(s, a, st),
               Len(st) + (room + 1) <= MaxDepth
        PROVE  Clean(After(s, w), a + Len(w), st)
    <2>. DEFINE s1 == ScanChar(s, o)  s2 == After(s1, t)  u == Append(st, o)
    <2>1. Len(st) \in Nat /\ MaxDepth \in Nat /\ Len(u) = Len(st) + 1 /\ u \in Seq(Brackets) /\ u # <<>>
      BY <1>1, <1>3, FrameAssumption
    <2>2. Len(st) # MaxDepth /\ Len(u) + room <= MaxDepth
      BY <1>3, <2>1
    <2>3. Clean(s1, a + 1, u)
      BY <1>1, <1>3, <2>2, OpenRead
    <2>. HIDE DEF s1
    <2>4. Clean(s2, (a + 1) + Len(t), u)
      <3>. HIDE DEF u
      <3>. QED  BY <2>1, <2>2, <2>3, a + 1 \in Nat DEF Reads, ReadOver
    <2>. HIDE DEF s2
    <2>5. Clean(ScanChar(s2, c), ((a + 1) + Len(t)) + 1, st)
      BY <1>2, <1>3, <2>4, CloseRead, (a + 1) + Len(t) \in Nat
    <2>6. After(s, w) = ScanChar(s2, c)
      <3>1. After(s, w) = After(s1, t \o <<c>>)
        BY <1>1, <1>2, AfterNext DEF s1
      <3>2. After(s1, t \o <<c>>) = ScanChar(s2, c)
        BY <1>1, AfterThen DEF s2
      <3>. QED  BY <3>1, <3>2
    <2>7. ((a + 1) + Len(t)) + 1 = a + Len(w)
      BY <1>2
    <2>. QED  BY <2>5, <2>6, <2>7
  <1>4. ASSUME NEW s, NEW st, NEW a \in Nat, st \in Seq(Brackets), Clean(s, a, st),
               Len(st) <= MaxDepth, Len(st) + (room + 1) > MaxDepth
        PROVE  After(s, w).result = -1
    <2>. DEFINE s1 == ScanChar(s, o)  s2 == After(s1, t)  u == Append(st, o)
    <2>1. Len(st) \in Nat /\ MaxDepth \in Nat /\ Len(u) = Len(st) + 1 /\ u \in Seq(Brackets)
      BY <1>1, <1>4, FrameAssumption
    <2>2. After(s, w) = After(s1, t \o <<c>>)
      BY <1>1, <1>2, AfterNext
    <2>3. CASE Len(st) = MaxDepth
      <3>1. s1.result = -1
        BY <1>1, <1>4, <2>3, OpenRefused
      <3>. HIDE DEF s1
      <3>2. s1.result # 0
        BY <3>1
      <3>3. After(s1, t \o <<c>>) = s1
        BY <1>2, <3>2, AfterEnded
      <3>. QED  BY <2>2, <3>1, <3>3
    <2>4. CASE Len(st) # MaxDepth
      <3>1. Clean(s1, a + 1, u)
        BY <1>1, <1>4, <2>4, OpenRead
      <3>2. Len(u) <= MaxDepth /\ Len(u) + room > MaxDepth
        BY <1>4, <2>1, <2>4
      <3>. HIDE DEF s1, u
      <3>3. s2.result = -1
        BY <2>1, <3>1, <3>2, a + 1 \in Nat DEF Reads, Refused
      <3>. HIDE DEF s2
      <3>4. ScanChar(s2, c) = s2
        BY <3>3, EndedStays
      <3>5. After(s1, t \o <<c>>) = ScanChar(s2, c)
        BY <1>1, AfterThen DEF s2
      <3>. QED  BY <2>2, <3>3, <3>4, <3>5
    <2>. QED  BY <2>3, <2>4
  <1>. QED  BY <1>2, <1>3, <1>4 DEF Reads, ReadOver, Refused, w

\* What Object says of a function up to depth n.
IsObject(g, n) ==
  g = [depth \in 1..n |->
         IF depth = 1 THEN {Braced(t) : t \in Flat}
         ELSE {Braced(t) : t \in g[depth - 1]}
                \cup {Braced(Listed(t)) : t \in IF depth = 2 THEN Flat ELSE g[depth - 2]}]

\* Texts that follow each other.
LEMMA CharsAssociate ==
  \A x, y, z \in Seq(Chars) : (x \o y) \o z = x \o (y \o z)
  <1>. SUFFICES ASSUME NEW x \in Seq(Chars), NEW y \in Seq(Chars), NEW z \in Seq(Chars)
                PROVE  (x \o y) \o z = x \o (y \o z)
    OBVIOUS
  <1>. QED  BY ConcatAssociative

\* There is such a function for every depth.
LEMMA IsObjectExists ==
  ASSUME NEW n \in Nat
  PROVE  \E g : IsObject(g, n)
  <1>. DEFINE P == {k \in Nat : \E g : IsObject(g, k)}
  <1>1. 0 \in P
    <2>. DEFINE g == [d \in 1..0 |-> {}]
    <2>1. IsObject(g, 0)
      BY DEF IsObject
    <2>. QED  BY <2>1
  <1>2. ASSUME NEW k \in Nat, k \in P PROVE k + 1 \in P
    <2>1. PICK g : IsObject(g, k)
      BY <1>2
    <2>. DEFINE b(f, d) == IF d = 1 THEN {Braced(t) : t \in Flat}
                           ELSE {Braced(t) : t \in f[d - 1]}
                             \cup {Braced(Listed(t)) : t \in IF d = 2 THEN Flat ELSE f[d - 2]}
                h == [d \in 1..(k + 1) |-> IF d = k + 1 THEN b(g, d) ELSE g[d]]
    <2>2. ASSUME NEW d \in 1..(k + 1) PROVE h[d] = b(h, d)
      <3>1. d # 1 => d - 1 \in 1..(k + 1) /\ d - 1 # k + 1
        OBVIOUS
      <3>2. d # 1 /\ d # 2 => d - 2 \in 1..(k + 1) /\ d - 2 # k + 1
        OBVIOUS
      <3>3. d # 1 => h[d - 1] = g[d - 1]
        BY <3>1
      <3>4. d # 1 /\ d # 2 => h[d - 2] = g[d - 2]
        BY <3>2
      <3>5. h[d] = b(g, d)
        <4>1. CASE d = k + 1
          <5>. HIDE DEF b
          <5>. QED  BY <4>1
        <4>2. CASE d # k + 1
          <5>1. d \in 1..k
            BY <4>2
          <5>2. g[d] = b(g, d)
            BY <2>1, <5>1 DEF IsObject
          <5>. HIDE DEF b
          <5>. QED  BY <4>2, <5>2
        <4>. QED  BY <4>1, <4>2
      <3>. HIDE DEF h
      <3>. QED  BY <3>3, <3>4, <3>5
    <2>3. h = [d \in 1..(k + 1) |-> h[d]]
      OBVIOUS
    <2>. HIDE DEF h
    <2>4. IsObject(h, k + 1)
      BY <2>2, <2>3 DEF IsObject
    <2>. QED  BY <2>4
  <1>3. n \in P
    <2>. HIDE DEF P
    <2>. QED  BY <1>1, <1>2, SetInduction
  <1>. QED  BY <1>3

\* The objects of each depth are what Object says.
LEMMA ObjectIs ==
  ASSUME NEW d \in 1..(MaxDepth + 1)
  PROVE  Object[d] = IF d = 1 THEN {Braced(t) : t \in Flat}
                     ELSE {Braced(t) : t \in Object[d - 1]}
                       \cup {Braced(Listed(t)) : t \in IF d = 2 THEN Flat ELSE Object[d - 2]}
  <1>1. MaxDepth + 1 \in Nat
    BY FrameAssumption
  <1>2. Object = CHOOSE g : IsObject(g, MaxDepth + 1)
    BY DEF Object, IsObject
  <1>3. IsObject(Object, MaxDepth + 1)
    BY <1>1, <1>2, IsObjectExists
  <1>. HIDE DEF Object
  <1>. QED  BY <1>3 DEF IsObject

\* What an object of a depth is made of.
LEMMA ObjectParts ==
  ASSUME NEW d \in 1..(MaxDepth + 1), NEW t \in Object[d]
  PROVE  \/ d = 1 /\ \E u \in Flat : t = Braced(u)
         \/ d > 1 /\ \E u \in Object[d - 1] : t = Braced(u)
         \/ d = 2 /\ \E u \in Flat : t = Braced(Listed(u))
         \/ d > 2 /\ \E u \in Object[d - 2] : t = Braced(Listed(u))
  <1>1. d \in Nat /\ d >= 1
    BY FrameAssumption
  <1>2. d = 1 => Object[d] = {Braced(u) : u \in Flat}
    BY ObjectIs
  <1>3. d # 1 => Object[d] = {Braced(u) : u \in Object[d - 1]}
                    \cup {Braced(Listed(u)) : u \in IF d = 2 THEN Flat ELSE Object[d - 2]}
    BY ObjectIs
  <1>. QED  BY <1>1, <1>2, <1>3

\* Every object of a depth is read over where that many brackets are free.
LEMMA ObjectReads ==
  ASSUME NEW d \in 1..(MaxDepth + 1), NEW t \in Object[d]
  PROVE  Reads(t, d)
  <1>. DEFINE Q(e) == \A u \in Object[e] : Reads(u, e)
              P == {k \in Nat : \A e \in 1..(MaxDepth + 1) : e <= k => Q(e)}
  <1>1. 0 \in P
    BY FrameAssumption
  <1>2. ASSUME NEW k \in Nat, k \in P PROVE k + 1 \in P
    <2>. SUFFICES ASSUME NEW e \in 1..(MaxDepth + 1), e = k + 1, NEW u \in Object[e]
                  PROVE Reads(u, e)
      BY <1>2, FrameAssumption
    <2>1. /\ Matching(OpenBrace, CloseBrace) /\ Matching("[", "]") /\ e \in Nat /\ 0 \in Nat /\ 1 \in Nat
          /\ e - 1 \in Nat /\ (e - 1) + 1 = e
      BY FrameAssumption DEF Matching, OpenBrace, CloseBrace
    <2>2. \A f \in 1..(MaxDepth + 1) : f < e => Q(f)
      BY <1>2, FrameAssumption
    <2>7. e \in Nat
      BY <2>1
    <2>3. CASE e = 1 /\ \E v \in Flat : u = Braced(v)
      <3>1. PICK v \in Flat : u = Braced(v)
        BY <2>3
      <3>2. Reads(u, 0 + 1)
        BY <2>1, <3>1, FlatReads, BracketReads, BraceFacts
      <3>. QED  BY <2>3, <3>2
    <2>4. CASE e > 1 /\ \E v \in Object[e - 1] : u = Braced(v)
      <3>1. PICK v \in Object[e - 1] : u = Braced(v)
        BY <2>4
      <3>2. e - 1 \in 1..(MaxDepth + 1) /\ e - 1 < e
        BY <2>4, FrameAssumption
      <3>3. Reads(v, e - 1)
        BY <2>2, <3>1, <3>2
      <3>4. Reads(u, (e - 1) + 1)
        BY <2>1, <3>1, <3>3, BracketReads, BraceFacts
      <3>. QED  BY <2>1, <3>4
    <2>5. CASE e = 2 /\ \E v \in Flat : u = Braced(Listed(v))
      <3>1. PICK v \in Flat : u = Braced(Listed(v))
        BY <2>5
      <3>. DEFINE w == Listed(v)
      <3>2. Reads(w, 0 + 1)
        BY <2>1, <3>1, FlatReads, BracketReads DEF Listed
      <3>3. u = <<OpenBrace>> \o w \o <<CloseBrace>>
        BY <3>1, BraceFacts
      <3>. HIDE DEF w
      <3>5. Reads(w, 1)
        BY <3>2
      <3>4. Reads(u, 1 + 1)
        BY <2>1, <3>3, <3>5, BracketReads
      <3>. QED  BY <2>5, <3>4
    <2>6. CASE e > 2 /\ \E v \in Object[e - 2] : u = Braced(Listed(v))
      <3>1. PICK v \in Object[e - 2] : u = Braced(Listed(v))
        BY <2>6
      <3>2. e - 2 \in 1..(MaxDepth + 1) /\ e - 2 < e /\ e - 2 \in Nat
        BY <2>6, FrameAssumption
      <3>3. Reads(v, e - 2)
        BY <2>2, <3>1, <3>2
      <3>. DEFINE w == Listed(v)
      <3>4. Reads(w, (e - 2) + 1)
        BY <2>1, <3>1, <3>2, <3>3, BracketReads DEF Listed
      <3>5. (e - 2) + 1 = e - 1
        BY <2>7
      <3>6. Reads(w, e - 1) /\ u = <<OpenBrace>> \o w \o <<CloseBrace>>
        BY <3>1, <3>4, <3>5, BraceFacts
      <3>. HIDE DEF w
      <3>7. Reads(u, (e - 1) + 1)
        BY <2>1, <3>6, BracketReads
      <3>. QED  BY <2>1, <3>7
    <2>. QED  BY <2>3, <2>4, <2>5, <2>6, ObjectParts
  <1>3. d \in Nat /\ d <= d
    BY FrameAssumption
  <1>4. d \in P
    <2>. HIDE DEF P
    <2>. QED  BY <1>1, <1>2, <1>3, SetInduction
  <1>. QED  BY <1>3, <1>4

\* The scan before the first character.
NothingRead == [at |-> 0, stack |-> <<>>, quoted |-> FALSE, escaped |-> FALSE, result |-> 0]

\* The length is the result of reading the bytes from the beginning.
LEMMA LengthIs ==
  ASSUME NEW t
  PROVE  ObjectLength(t) = After(NothingRead, t).result
  BY DEF ObjectLength, After, NothingRead

\* It is outside of strings, with nothing open.
LEMMA NothingReadClean == Clean(NothingRead, 0, <<>>)
  BY DEF Clean, NothingRead, Fields

\* So a whole frame's length does not depend on what follows it.
LEMMA LengthOfMore ==
  ASSUME NEW t \in Seq(Chars), NEW u \in Seq(Chars), ObjectLength(t) # 0
  PROVE  ObjectLength(t \o u) = ObjectLength(t)
  <1>1. After(NothingRead, t \o u) = After(After(NothingRead, t), u)
    BY AfterBoth
  <1>2. After(NothingRead, t).result # 0
    BY LengthIs
  <1>3. After(After(NothingRead, t), u) = After(NothingRead, t)
    BY <1>2, AfterEnded
  <1>. QED  BY <1>1, <1>3, LengthIs

\* The position and the result of a scan of k characters.
WithinText(s, k) ==
  /\ DOMAIN s = Fields /\ s.at \in Nat /\ s.at <= k
  /\ s.result \in Int /\ s.result <= k

\* A character keeps them so.
LEMMA ScanWithin ==
  ASSUME NEW s, NEW c, NEW k \in Nat, WithinText(s, k)
  PROVE  WithinText(ScanChar(s, c), k + 1)
  <1>1. CASE s.result # 0
    BY <1>1, EndedStays DEF WithinText
  <1>2. CASE s.result = 0
    <2>. DEFINE n == IF s.quoted THEN InString(s, c) ELSE OutsideString(s, c)
    <2>1. ScanChar(s, c) = [n EXCEPT !.at = @ + 1]
      BY <1>2 DEF ScanChar
    <2>2. /\ DOMAIN n = Fields /\ n.at = s.at
          /\ n.result \in {0, -1, s.at + 1}
      <3>1. CASE s.quoted
        <4>1. n = InString(s, c)
          BY <3>1
        <4>. HIDE DEF n
        <4>. QED  BY <1>2, <4>1 DEF WithinText, InString, Fields
      <3>2. CASE ~s.quoted
        <4>1. n = OutsideString(s, c)
          BY <3>2
        <4>. HIDE DEF n
        <4>. QED  BY <1>2, <4>1 DEF WithinText, OutsideString, Opened, Closed, Fields
      <3>. QED  BY <3>1, <3>2
    <2>. HIDE DEF n
    <2>. QED  BY <2>1, <2>2 DEF WithinText, Fields
  <1>. QED  BY <1>1, <1>2

\* A length found is no longer than the text.
LEMMA LengthBound ==
  ASSUME NEW t \in Seq(Chars)
  PROVE  ObjectLength(t) \in Int /\ ObjectLength(t) <= Len(t)
  <1>1. PICK f : ReadsAlong(f, NothingRead, t) /\ f[Len(t)] = After(NothingRead, t)
    BY ReadsAlongExists
  <1>. DEFINE P == {k \in Nat : k <= Len(t) => WithinText(f[k], k)}
  <1>2. 0 \in P
    <2>1. WithinText(NothingRead, 0)
      BY DEF WithinText, NothingRead, Fields
    <2>. QED  BY <1>1, <2>1 DEF ReadsAlong
  <1>3. ASSUME NEW k \in Nat, k \in P PROVE k + 1 \in P
    <2>. SUFFICES ASSUME k + 1 <= Len(t) PROVE WithinText(f[k + 1], k + 1)
      OBVIOUS
    <2>1. k + 1 \in 1..Len(t) /\ (k + 1) - 1 = k /\ k <= Len(t)
      OBVIOUS
    <2>2. f[k + 1] = ScanChar(f[k], t[k + 1])
      BY <1>1, <2>1 DEF ReadsAlong
    <2>. QED  BY <1>3, <2>1, <2>2, ScanWithin
  <1>4. Len(t) \in P
    <2>. HIDE DEF P
    <2>. QED  BY <1>2, <1>3, SetInduction
  <1>. QED  BY <1>1, <1>4, LengthIs DEF WithinText

\* The texts of what pools send.
AnyText == UNION {Object[d] : d \in 1..(MaxDepth + 1)}

\* The insides of an object: read over with one bracket fewer free.
LEMMA InsideReads ==
  ASSUME NEW d \in 1..(MaxDepth + 1), NEW t \in Object[d]
  PROVE  \E u : t = Braced(u) /\ Reads(u, d - 1)
  <1>0. Matching("[", "]") /\ d \in Nat /\ 0 \in Nat
    BY FrameAssumption DEF Matching
  <1>1. CASE d = 1 /\ \E u \in Flat : t = Braced(u)
    BY <1>1, FlatReads
  <1>2. CASE d > 1 /\ \E u \in Object[d - 1] : t = Braced(u)
    <2>1. d - 1 \in 1..(MaxDepth + 1)
      BY <1>2, FrameAssumption
    <2>. QED  BY <1>2, <2>1, ObjectReads
  <1>3. CASE d = 2 /\ \E u \in Flat : t = Braced(Listed(u))
    <2>1. PICK u \in Flat : t = Braced(Listed(u))
      BY <1>3
    <2>2. Reads(Listed(u), 0 + 1)
      BY <1>0, FlatReads, BracketReads DEF Listed
    <2>. QED  BY <1>3, <2>1, <2>2
  <1>4. CASE d > 2 /\ \E u \in Object[d - 2] : t = Braced(Listed(u))
    <2>1. PICK u \in Object[d - 2] : t = Braced(Listed(u))
      BY <1>4
    <2>2. d - 2 \in 1..(MaxDepth + 1) /\ d - 2 \in Nat
      BY <1>4, FrameAssumption
    <2>3. Reads(u, d - 2)
      BY <2>1, <2>2, ObjectReads
    <2>4. Reads(Listed(u), (d - 2) + 1)
      BY <1>0, <2>2, <2>3, BracketReads DEF Listed
    <2>5. (d - 2) + 1 = d - 1
      BY <2>2
    <2>. QED  BY <2>1, <2>4, <2>5
  <1>. QED  BY <1>1, <1>2, <1>3, <1>4, ObjectParts

\* A whole frame is recognised at its last byte.
LEMMA SoundLength ==
  ASSUME NEW d \in 1..MaxDepth, NEW t \in Object[d]
  PROVE  t \in Seq(Chars) /\ Len(t) > 1 /\ t[1] = OpenBrace /\ ObjectLength(t) = Len(t)
  <1>1. d \in 1..(MaxDepth + 1) /\ MaxDepth \in Nat \ {0} /\ d \in Nat /\ d - 1 \in Nat
    BY FrameAssumption
  <1>2. PICK u : t = Braced(u) /\ Reads(u, d - 1)
    BY <1>1, InsideReads
  <1>3. u \in Seq(Chars) /\ OpenBrace \in Chars /\ CloseBrace \in Chars
    BY <1>2, BraceFacts DEF Reads
  <1>4. /\ t = <<OpenBrace>> \o (u \o <<CloseBrace>>) /\ u \o <<CloseBrace>> \in Seq(Chars) /\ t \in Seq(Chars)
        /\ Len(t) = Len(u) + 2 /\ Len(u) \in Nat /\ t[1] = OpenBrace
    <2>. DEFINE v == <<OpenBrace>> \o u \o <<CloseBrace>>
    <2>1. t = v
      BY <1>2, BraceFacts
    <2>2. /\ v = <<OpenBrace>> \o (u \o <<CloseBrace>>) /\ u \o <<CloseBrace>> \in Seq(Chars)
          /\ v \in Seq(Chars) /\ Len(v) = Len(u) + 2 /\ Len(u) \in Nat /\ v[1] = OpenBrace
      BY <1>3, Enclosed
    <2>. HIDE DEF v
    <2>. QED  BY <2>1, <2>2
  <1>. DEFINE s1 == ScanChar(NothingRead, OpenBrace)  s2 == After(s1, u)
  <1>5. Clean(s1, 0 + 1, Append(<<>>, OpenBrace))
    BY <1>1, NothingReadClean, OpenRead, BraceFacts
  <1>6. Append(<<>>, OpenBrace) = <<OpenBrace>> /\ <<OpenBrace>> \in Seq(Brackets) /\ <<OpenBrace>> # <<>>
        /\ Len(<<OpenBrace>>) = 1
    BY BraceFacts
  <1>. HIDE DEF s1
  <1>7. Clean(s2, 1 + Len(u), <<OpenBrace>>)
    <2>1. Clean(s1, 1, <<OpenBrace>>) /\ 1 + (d - 1) <= MaxDepth
      BY <1>1, <1>5, <1>6
    <2>. QED  BY <1>2, <1>6, <2>1 DEF Reads, ReadOver
  <1>. HIDE DEF s2
  <1>8. ScanChar(s2, CloseBrace).result = (1 + Len(u)) + 1
    BY <1>4, <1>7, LastCloseRead, 1 + Len(u) \in Nat
  <1>9. After(NothingRead, t) = ScanChar(s2, CloseBrace)
    <2>1. After(NothingRead, t) = After(s1, u \o <<CloseBrace>>)
      BY <1>3, <1>4, AfterNext DEF s1
    <2>2. After(s1, u \o <<CloseBrace>>) = ScanChar(s2, CloseBrace)
      BY <1>3, AfterThen DEF s2
    <2>. QED  BY <2>1, <2>2
  <1>10. ObjectLength(t) = After(NothingRead, t).result
    BY LengthIs
  <1>11. (1 + Len(u)) + 1 = Len(t) /\ Len(t) > 1
    BY <1>4
  <1>. QED  BY <1>4, <1>8, <1>9, <1>10, <1>11

\* One that nests too deep is refused.
LEMMA TooDeepLength ==
  ASSUME NEW t \in Object[MaxDepth + 1]
  PROVE  t \in Seq(Chars) /\ Len(t) > 1 /\ t[1] = OpenBrace /\ ObjectLength(t) = -1
  <1>1. MaxDepth + 1 \in 1..(MaxDepth + 1) /\ MaxDepth \in Nat
    BY FrameAssumption
  <1>2. PICK u : t = Braced(u) /\ Reads(u, (MaxDepth + 1) - 1)
    BY <1>1, InsideReads
  <1>3. u \in Seq(Chars) /\ OpenBrace \in Chars /\ CloseBrace \in Chars
    BY <1>2, BraceFacts DEF Reads
  <1>4. t \in Seq(Chars) /\ Len(t) = Len(u) + 2 /\ Len(u) \in Nat /\ t[1] = OpenBrace
    <2>. DEFINE v == <<OpenBrace>> \o u \o <<CloseBrace>>
    <2>1. t = v
      BY <1>2, BraceFacts
    <2>2. /\ v = <<OpenBrace>> \o (u \o <<CloseBrace>>) /\ u \o <<CloseBrace>> \in Seq(Chars)
          /\ v \in Seq(Chars) /\ Len(v) = Len(u) + 2 /\ Len(u) \in Nat /\ v[1] = OpenBrace
      BY <1>3, Enclosed
    <2>. HIDE DEF v
    <2>. QED  BY <2>1, <2>2
  <1>5. Reads(t, MaxDepth + 1)
    BY <1>1, ObjectReads
  <1>6. <<>> \in Seq(Brackets) /\ Len(<<>>) = 0
    OBVIOUS
  <1>7. Len(<<>>) <= MaxDepth /\ Len(<<>>) + (MaxDepth + 1) > MaxDepth
    BY <1>1, <1>6
  <1>8. After(NothingRead, t).result = -1
    BY <1>5, <1>6, <1>7, NothingReadClean, 0 \in Nat DEF Reads, Refused
  <1>9. ObjectLength(t) = After(NothingRead, t).result
    BY LengthIs
  <1>10. Len(t) > 1
    BY <1>4
  <1>. QED  BY <1>4, <1>8, <1>9, <1>10

\* And one whose brackets do not match.
LEMMA CrossedLength ==
  ASSUME NEW t, t = <<OpenBrace, "[", CloseBrace, "]">>
  PROVE  t \in Seq(Chars) /\ Len(t) > 1 /\ t[1] = OpenBrace /\ ObjectLength(t) = -1
  <1>1. /\ Len(t) = 4 /\ t[1] = OpenBrace /\ t[2] = "[" /\ t[3] = CloseBrace /\ t[4] = "]"
        /\ t \in Seq(Chars)
    <2>1. <<OpenBrace, "[", CloseBrace, "]">> \in Seq(Chars)
      BY BraceFacts
    <2>. QED  BY <2>1
  <1>2. PICK f : ReadsAlong(f, NothingRead, t) /\ f[4] = After(NothingRead, t)
    BY <1>1, ReadsAlongExists
  <1>3. \A k \in 1..4 : f[k] = ScanChar(f[k - 1], t[k])
    BY <1>1, <1>2 DEF ReadsAlong
  <1>4. f[1] = ScanChar(NothingRead, OpenBrace)
    <2>1. 1 \in 1..4 /\ 1 - 1 = 0 /\ f[0] = NothingRead
      BY <1>2 DEF ReadsAlong
    <2>2. f[1] = ScanChar(f[0], t[1])
      BY <1>3, <2>1
    <2>. QED  BY <1>1, <2>1, <2>2
  <1>5. f[2] = ScanChar(f[1], "[")
    <2>1. 2 \in 1..4 /\ 2 - 1 = 1
      OBVIOUS
    <2>. QED  BY <1>1, <1>3, <2>1
  <1>6. f[3] = ScanChar(f[2], CloseBrace)
    <2>1. 3 \in 1..4 /\ 3 - 1 = 2
      OBVIOUS
    <2>. QED  BY <1>1, <1>3, <2>1
  <1>7. f[4] = ScanChar(f[3], "]")
    <2>1. 4 \in 1..4 /\ 4 - 1 = 3
      OBVIOUS
    <2>. QED  BY <1>1, <1>3, <2>1
  <1>8. Clean(f[1], 0 + 1, Append(<<>>, OpenBrace))
    <2>1. Len(<<>>) # MaxDepth
      BY FrameAssumption
    <2>. QED  BY <1>4, <2>1, NothingReadClean, OpenRead, BraceFacts
  <1>9. Append(<<>>, OpenBrace) = <<OpenBrace>> /\ Len(<<OpenBrace>>) = 1
    OBVIOUS
  <1>10. Clean(f[1], 1, <<OpenBrace>>)
    BY <1>8, <1>9
  <1>11. f[3].result = -1
    <2>1. CASE MaxDepth = 1
      <3>1. f[2].result = -1
        <4>1. ScanChar(f[1], "[").result = -1
          BY <1>9, <1>10, <2>1, OpenRefused, BraceFacts, 1 \in Nat
        <4>. QED  BY <1>5, <4>1
      <3>. QED  BY <1>6, <3>1, EndedStays
    <2>2. CASE MaxDepth # 1
      <3>1. Clean(f[2], 1 + 1, Append(<<OpenBrace>>, "["))
        <4>1. Clean(ScanChar(f[1], "["), 1 + 1, Append(<<OpenBrace>>, "["))
          BY <1>9, <1>10, <2>2, OpenRead, BraceFacts, 1 \in Nat
        <4>. QED  BY <1>5, <4>1
      <3>2. Last(Append(<<OpenBrace>>, "[")) = "["
        BY DEF Last
      <3>. QED  BY <1>6, <3>1, <3>2, WrongCloseRead, 1 + 1 \in Nat
    <2>. QED  BY <2>1, <2>2
  <1>12. f[4] = f[3]
    BY <1>7, <1>11, EndedStays
  <1>. QED  BY <1>1, <1>2, <1>11, <1>12, LengthIs

\* Two ways to part the same bytes.
SameBytes(a, b, c, d) == a \o b = c \o d
Splits(a, b, c, d) == \E v \in Seq(Chars) : a = c \o v /\ v \o b = d

\* A sequence that begins with a shorter one goes on after it.
LEMMA SplitSeq ==
  ASSUME NEW a \in Seq(Chars), NEW b \in Seq(Chars), NEW c \in Seq(Chars),
         NEW d \in Seq(Chars), SameBytes(a, b, c, d), Len(a) >= Len(c)
  PROVE  Splits(a, b, c, d)
  <1>0. a \o b = c \o d
    BY DEF SameBytes
  <1>. DEFINE v == SubSeq(a, Len(c) + 1, Len(a))
  <1>1. /\ Len(a) \in Nat /\ Len(b) \in Nat /\ Len(c) \in Nat /\ Len(d) \in Nat
        /\ Len(a) + Len(b) = Len(c) + Len(d)
    <2>1. Len(a \o b) = Len(a) + Len(b) /\ Len(c \o d) = Len(c) + Len(d)
      OBVIOUS
    <2>. QED  BY <1>0, <2>1
  <1>2. /\ v \in Seq(Chars) /\ Len(v) = Len(a) - Len(c)
        /\ \A i \in 1..Len(v) : v[i] = a[Len(c) + i]
    BY <1>1
  <1>3. \A i \in 1..Len(a) : (a \o b)[i] = a[i]
    BY <1>1
  <1>4. \A i \in 1..Len(b) : (a \o b)[Len(a) + i] = b[i]
    BY <1>1
  <1>5. \A i \in 1..Len(c) : (c \o d)[i] = c[i]
    BY <1>1
  <1>6. \A i \in 1..Len(d) : (c \o d)[Len(c) + i] = d[i]
    BY <1>1
  <1>. HIDE DEF v
  <1>7. a = c \o v
    <2>1. c \o v \in Seq(Chars) /\ Len(c \o v) = Len(a)
      BY <1>1, <1>2
    <2>2. ASSUME NEW i \in 1..Len(a) PROVE (c \o v)[i] = a[i]
      <3>1. CASE i <= Len(c)
        <4>1. i \in 1..Len(c) /\ (c \o v)[i] = c[i]
          BY <1>1, <1>2, <3>1
        <4>. QED  BY <1>0, <1>3, <1>5, <4>1
      <3>2. CASE i > Len(c)
        <4>1. i - Len(c) \in 1..Len(v) /\ Len(c) + (i - Len(c)) = i
          BY <1>1, <1>2, <3>2
        <4>2. (c \o v)[i] = v[i - Len(c)]
          BY <1>1, <1>2, <3>2
        <4>3. v[i - Len(c)] = a[Len(c) + (i - Len(c))]
          BY <1>2, <4>1
        <4>. QED  BY <4>1, <4>2, <4>3
      <3>3. i <= Len(c) \/ i > Len(c)
        BY <1>1
      <3>. QED  BY <3>1, <3>2, <3>3
    <2>. QED  BY <2>1, <2>2, SeqEqual
  <1>8. v \o b = d
    <2>1. v \o b \in Seq(Chars) /\ Len(v \o b) = Len(d)
      BY <1>1, <1>2
    <2>2. ASSUME NEW i \in 1..Len(d) PROVE (v \o b)[i] = d[i]
      <3>0. d[i] = (a \o b)[Len(c) + i]
        BY <1>0, <1>6
      <3>1. CASE i <= Len(v)
        <4>1. i \in 1..Len(v) /\ (v \o b)[i] = v[i] /\ Len(c) + i \in 1..Len(a)
          BY <1>1, <1>2, <3>1
        <4>. QED  BY <1>2, <1>3, <3>0, <4>1
      <3>2. CASE i > Len(v)
        <4>1. i - Len(v) \in 1..Len(b) /\ Len(a) + (i - Len(v)) = Len(c) + i
          BY <1>1, <1>2, <3>2
        <4>2. (v \o b)[i] = b[i - Len(v)]
          BY <1>1, <1>2, <3>2
        <4>. QED  BY <1>4, <3>0, <4>1, <4>2
      <3>. QED  BY <1>1, <1>2, <3>1, <3>2
    <2>. QED  BY <2>1, <2>2, SeqEqual
  <1>. QED  BY <1>2, <1>7, <1>8 DEF Splits

\* The bytes received of a frame and what follows it: the length found is that
\* of the frame, it is the refusal of the frame, or the frame is not whole.
LEMMA ReceivedLength ==
  ASSUME NEW t \in Seq(Chars), NEW r \in Seq(Chars), NEW w \in Seq(Chars), NEW u \in Seq(Chars),
         w \o u = t \o r, Len(t) > 0, ObjectLength(t) \in {Len(t), -1}
  PROVE  /\ Len(w) >= Len(t) => ObjectLength(w) = ObjectLength(t)
         /\ Len(w) < Len(t) => ObjectLength(w) \in {0, -1}
         /\ ObjectLength(w) = -1 => ObjectLength(t) = -1
         /\ ObjectLength(w) > 0 => ObjectLength(t) = Len(t) /\ ObjectLength(w) = Len(t)
                                   /\ Len(w) >= Len(t)
  <1>0. Len(t) \in Nat /\ Len(w) \in Nat
    OBVIOUS
  <1>1. ASSUME Len(w) >= Len(t) PROVE ObjectLength(w) = ObjectLength(t)
    <2>1. PICK v \in Seq(Chars) : w = t \o v /\ v \o u = r
      <3>1. SameBytes(w, u, t, r)
        BY DEF SameBytes
      <3>2. Splits(w, u, t, r)
        BY <1>1, <3>1, SplitSeq
      <3>. QED  BY <3>2 DEF Splits
    <2>2. ObjectLength(t) # 0
      BY <1>0
    <2>. QED  BY <2>1, <2>2, LengthOfMore
  <1>2. ASSUME Len(w) < Len(t)
        PROVE  ObjectLength(w) = 0 \/ (ObjectLength(w) = -1 /\ ObjectLength(t) = -1)
    <2>0. t \o r = w \o u /\ Len(t) >= Len(w)
      BY <1>0, <1>2
    <2>1. PICK v \in Seq(Chars) : t = w \o v /\ v \o r = u
      <3>1. SameBytes(t, r, w, u)
        BY <2>0 DEF SameBytes
      <3>2. Splits(t, r, w, u)
        BY <2>0, <3>1, SplitSeq
      <3>. QED  BY <3>2 DEF Splits
    <2>2. ObjectLength(w) # 0 => ObjectLength(t) = ObjectLength(w)
      BY <2>1, LengthOfMore
    <2>3. ObjectLength(w) \in Int /\ ObjectLength(w) <= Len(w)
      BY LengthBound
    <2>. QED  BY <1>0, <1>2, <2>2, <2>3
  <1>. QED  BY <1>0, <1>1, <1>2

\* What the frames of messages are.
LEMMA MessageFacts ==
  ASSUME NEW m \in Messages
  PROVE  /\ m.of.text \in Seq(Chars) /\ Len(m.of.text) > 1 /\ Len(m.of.text) \in Nat
         /\ m.of.text[1] = OpenBrace
         /\ m.of.sound => ObjectLength(m.of.text) = Len(m.of.text)
         /\ ~m.of.sound => ObjectLength(m.of.text) = -1
         /\ m.pad \in Seq(Chars)
         /\ \/ m.pad = <<>> /\ Len(m.pad) = 0
            \/ Len(m.pad) = 1 /\ m.pad[1] = "x"
  <1>. DEFINE o == m.of
  <1>1. o \in Sound \cup TooDeep \cup Crossed /\ m.pad \in {<<>>, <<"x">>}
    BY DEF Messages
  <1>2. m.pad \in Seq(Chars) /\ ((m.pad = <<>> /\ Len(m.pad) = 0) \/ (Len(m.pad) = 1 /\ m.pad[1] = "x"))
    <2>1. CASE m.pad = <<>>
      <3>1. <<>> \in Seq(Chars) /\ Len(<<>>) = 0
        OBVIOUS
      <3>. HIDE DEF o
      <3>. QED  BY <2>1, <3>1
    <2>2. CASE m.pad = <<"x">>
      <3>1. <<"x">> \in Seq(Chars) /\ Len(<<"x">>) = 1 /\ <<"x">>[1] = "x"
        BY BraceFacts
      <3>. HIDE DEF o
      <3>. QED  BY <2>2, <3>1
    <2>. QED  BY <1>1, <2>1, <2>2
  <1>. HIDE DEF o
  <1>3. CASE o \in Sound
    <2>1. o.sound = TRUE /\ \E d \in 1..MaxDepth : o.text \in Object[d]
      BY <1>3 DEF Sound
    <2>2. /\ o.text \in Seq(Chars) /\ Len(o.text) > 1 /\ o.text[1] = OpenBrace
          /\ ObjectLength(o.text) = Len(o.text)
      BY <2>1, SoundLength
    <2>3. Len(o.text) \in Nat
      BY <2>2
    <2>. QED  BY <1>2, <2>1, <2>2, <2>3 DEF o
  <1>4. CASE o \in TooDeep
    <2>1. o.sound = FALSE /\ o.text \in Object[MaxDepth + 1]
      BY <1>4 DEF TooDeep
    <2>2. /\ o.text \in Seq(Chars) /\ Len(o.text) > 1 /\ o.text[1] = OpenBrace
          /\ ObjectLength(o.text) = -1
      BY <2>1, TooDeepLength
    <2>3. Len(o.text) \in Nat
      BY <2>2
    <2>. QED  BY <1>2, <2>1, <2>2, <2>3 DEF o
  <1>5. CASE o \in Crossed
    <2>1. o.sound = FALSE /\ o.text = <<OpenBrace, "[", CloseBrace, "]">>
      BY <1>5 DEF Crossed, OpenBrace, CloseBrace
    <2>2. /\ o.text \in Seq(Chars) /\ Len(o.text) > 1 /\ o.text[1] = OpenBrace
          /\ ObjectLength(o.text) = -1
      BY <2>1, CrossedLength
    <2>3. Len(o.text) \in Nat
      BY <2>2
    <2>. QED  BY <1>2, <2>1, <2>2, <2>3 DEF o
  <1>. QED  BY <1>1, <1>3, <1>4, <1>5

\* The bytes before the frame of a message that is only begun in the buffer.
LEMMA BeforeIs ==
  ASSUME NEW n \in Nat, netBuf \in Seq(Chars), n < Len(netBuf),
         netBuf[n + 1] = OpenBrace, \A i \in 1..n : netBuf[i] # OpenBrace
  PROVE  BeforeFrame = n
  <1>1. Len(netBuf) \in Nat /\ DOMAIN netBuf = 1..Len(netBuf) /\ n + 1 \in DOMAIN netBuf
    OBVIOUS
  <1>. DEFINE First(i) == netBuf[i] = OpenBrace /\ \A j \in 1..(i - 1) : netBuf[j] # OpenBrace
  <1>2. BeforeFrame = (CHOOSE i \in DOMAIN netBuf : First(i)) - 1
    <2>1. \E i \in DOMAIN netBuf : netBuf[i] = OpenBrace
      BY <1>1
    <2>. QED  BY <2>1 DEF BeforeFrame, OpenBrace
  <1>3. First(n + 1)
    <2>1. (n + 1) - 1 = n
      OBVIOUS
    <2>. QED  BY <2>1
  <1>4. ASSUME NEW i \in DOMAIN netBuf, First(i) PROVE i = n + 1
    <2>1. i \in Nat /\ i >= 1
      BY <1>1
    <2>2. ~(i < n + 1)
      BY <1>4, <2>1
    <2>3. ~(n + 1 < i)
      <3>. SUFFICES ASSUME n + 1 < i PROVE FALSE
        OBVIOUS
      <3>1. n + 1 \in 1..(i - 1)
        BY <2>1
      <3>. QED  BY <1>4, <3>1
    <2>. QED  BY <2>1, <2>2, <2>3
  <1>5. (CHOOSE i \in DOMAIN netBuf : First(i)) = n + 1
    <2>. HIDE DEF First
    <2>. QED  BY <1>1, <1>3, <1>4
  <1>. QED  BY <1>2, <1>5

\* Without a brace all of them.
LEMMA BeforeAll ==
  ASSUME netBuf \in Seq(Chars), \A i \in DOMAIN netBuf : netBuf[i] # OpenBrace
  PROVE  FrameLength = 0
  BY DEF FrameLength, BeforeFrame, OpenBrace

\* What the reader finds in its buffer when the bytes there and those to come are
\* a message and more: the frame of the message once it is whole, or its refusal.
LEMMA FrameFound ==
  ASSUME NEW m \in Messages, NEW r \in Seq(Chars),
         netBuf \in Seq(Chars), unread \in Seq(Chars), netBuf \o unread = BytesOf(m) \o r
  PROVE  /\ FrameLength \in Int
         /\ FrameLength > 0 =>
              /\ m.of.sound /\ Len(BytesOf(m)) <= Len(netBuf)
              /\ BeforeFrame = Len(m.pad) /\ FrameLength = Len(m.of.text)
         /\ FrameLength < 0 => ~m.of.sound
         /\ FrameLength = 0 => ~m.of.sound \/ Len(netBuf) < Len(BytesOf(m))
  <1>. DEFINE p == m.pad  t == m.of.text  n == Len(p)
  <1>1. /\ t \in Seq(Chars) /\ Len(t) > 1 /\ Len(t) \in Nat /\ t[1] = OpenBrace
        /\ p \in Seq(Chars) /\ (n = 0 \/ (n = 1 /\ p[1] = "x")) /\ n \in Nat
    BY MessageFacts
  <1>2. BytesOf(m) = p \o t
    BY DEF BytesOf
  <1>3. (m.of.sound /\ ObjectLength(t) = Len(t)) \/ (~m.of.sound /\ ObjectLength(t) = -1)
    BY MessageFacts
  <1>. HIDE DEF p, t
  <1>4. /\ Len(p \o t) = n + Len(t) /\ (p \o t) \o r = p \o (t \o r)
        /\ t \o r \in Seq(Chars) /\ Len(netBuf) \in Nat /\ DOMAIN netBuf = 1..Len(netBuf)
    <2>1. p \in Seq(Chars) /\ t \in Seq(Chars) /\ r \in Seq(Chars) /\ netBuf \in Seq(Chars)
      BY <1>1
    <2>2. (p \o t) \o r = p \o (t \o r)
      BY ONLY ConcatAssociative, <2>1
    <2>. QED  BY ONLY <2>1, <2>2
  <1>5. netBuf \o unread = p \o (t \o r)
    BY <1>2, <1>4
  <1>6. CASE Len(netBuf) <= n
    <2>1. \A i \in DOMAIN netBuf : netBuf[i] # OpenBrace
      <3>. SUFFICES ASSUME NEW i \in 1..Len(netBuf) PROVE netBuf[i] # OpenBrace
        BY <1>4
      <3>1. n = 1 /\ i = 1
        <4>1. /\ n = 0 \/ n = 1
              /\ i \in Int /\ 1 <= i /\ i <= Len(netBuf) /\ Len(netBuf) \in Nat
          BY <1>1, <1>4
        <4>. HIDE DEF n
        <4>. QED  BY ONLY <4>1, <1>6
      <3>2. (netBuf \o unread)[1] = netBuf[1]
        BY <3>1
      <3>3. (p \o (t \o r))[1] = p[1]
        BY <1>1, <1>4, <3>1
      <3>4. p[1] = "x"
        BY <1>1, <3>1
      <3>5. netBuf[1] = "x"
        BY <1>5, <3>2, <3>3, <3>4
      <3>. QED  BY <3>1, <3>5, BraceFacts
    <2>2. FrameLength = 0
      BY <2>1, BeforeAll
    <2>3. Len(netBuf) < Len(BytesOf(m))
      BY <1>1, <1>2, <1>4, <1>6
    <2>. QED  BY <2>2, <2>3
  <1>7. CASE Len(netBuf) > n
    <2>1. PICK w \in Seq(Chars) : netBuf = p \o w /\ w \o unread = t \o r
      <3>1. Len(netBuf) >= Len(p)
        BY <1>1, <1>4, <1>7
      <3>2. SameBytes(netBuf, unread, p, t \o r)
        BY <1>5 DEF SameBytes
      <3>3. Splits(netBuf, unread, p, t \o r)
        BY <1>1, <1>4, <3>1, <3>2, SplitSeq
      <3>. QED  BY <3>3 DEF Splits
    <2>2. Len(w) \in Nat /\ Len(netBuf) = n + Len(w) /\ Len(w) > 0
      <3>1. Len(p \o w) = n + Len(w) /\ Len(w) \in Nat
        BY <1>1
      <3>. QED  BY <1>1, <1>7, <2>1, <3>1
    <2>3. w[1] = OpenBrace
      <3>1. (w \o unread)[1] = w[1] /\ (t \o r)[1] = t[1]
        BY <1>1, <2>2
      <3>. QED  BY <1>1, <2>1, <3>1
    <2>4. netBuf[n + 1] = OpenBrace
      <3>1. (p \o w)[n + 1] = w[1]
        BY <1>1, <2>2
      <3>. QED  BY <2>1, <2>3, <3>1
    <2>5. \A i \in 1..n : netBuf[i] # OpenBrace
      <3>. SUFFICES ASSUME NEW i \in 1..n PROVE netBuf[i] # OpenBrace
        OBVIOUS
      <3>0. n = 1
        <4>1. n = 0 \/ n = 1
          BY <1>1
        <4>2. n # 0
          <5>. SUFFICES ASSUME n = 0 PROVE FALSE
            OBVIOUS
          <5>1. i \in 1..0
            OBVIOUS
          <5>. QED  BY <5>1
        <4>. QED  BY <4>1, <4>2
      <3>1. n = 1 /\ i = 1
        <4>1. i \in 1..1
          BY <3>0
        <4>. QED  BY <3>0, <4>1
      <3>2. (p \o w)[1] = p[1]
        <4>1. 1 \in 1..Len(p) /\ p \in Seq(Chars)
          BY <1>1, <3>0
        <4>. QED  BY <4>1
      <3>. QED  BY <1>1, <2>1, <3>1, <3>2, BraceFacts
    <2>6. BeforeFrame = n
      BY <1>1, <1>7, <2>4, <2>5, BeforeIs
    <2>7. SubSeq(netBuf, n + 1, Len(netBuf)) = w
      <3>1. SubSeq(p \o w, n + 1, n + Len(w)) = w
        BY <1>1, <2>2
      <3>. QED  BY <2>1, <2>2, <3>1
    <2>8. FrameLength = ObjectLength(w)
      <3>1. BeforeFrame # Len(netBuf)
        BY <1>1, <1>7, <2>2, <2>6
      <3>2. SubSeq(netBuf, BeforeFrame + 1, Len(netBuf)) = w
        BY <2>6, <2>7
      <3>. QED  BY <3>1, <3>2 DEF FrameLength
    <2>9. /\ Len(w) >= Len(t) => ObjectLength(w) = ObjectLength(t)
          /\ Len(w) < Len(t) => ObjectLength(w) \in {0, -1}
          /\ ObjectLength(w) = -1 => ObjectLength(t) = -1
          /\ ObjectLength(w) > 0 => ObjectLength(t) = Len(t) /\ ObjectLength(w) = Len(t)
                                    /\ Len(w) >= Len(t)
      <3>1. ObjectLength(t) \in {Len(t), -1} /\ Len(t) > 0
        BY <1>1, <1>3
      <3>. QED  BY <1>1, <2>1, <3>1, ReceivedLength
    <2>10. ObjectLength(w) \in Int
      BY LengthBound
    <2>11. Len(BytesOf(m)) = n + Len(t)
      BY <1>2, <1>4
    <2>12. FrameLength > 0 => m.of.sound /\ Len(BytesOf(m)) <= Len(netBuf) /\ FrameLength = Len(t)
      BY <1>1, <1>3, <2>2, <2>8, <2>9, <2>11
    <2>13. FrameLength < 0 => ~m.of.sound
      BY <1>1, <1>3, <2>2, <2>8, <2>9, <2>10
    <2>14. FrameLength = 0 => ~m.of.sound \/ Len(netBuf) < Len(BytesOf(m))
      BY <1>1, <1>3, <2>2, <2>8, <2>9, <2>11
    <2>. QED  BY <2>6, <2>8, <2>10, <2>12, <2>13, <2>14 DEF p, t
  <1>. QED  BY <1>1, <1>4, <1>6, <1>7

\* What FlattenSeq says of the texts of the first k of a sequence of texts.
Flattens(f, s, k) ==
  f = [i \in 1..k |-> IF i = 1 THEN s[i] ELSE f[i - 1] \o s[i]]

\* Sequences of texts.
Texts == Seq(Seq(Chars))

\* There is such a function for any number of texts.
LEMMA FlattensExists ==
  ASSUME NEW s, NEW n \in Nat
  PROVE  \E f : Flattens(f, s, n)
  <1>. DEFINE P == {k \in Nat : \E f : Flattens(f, s, k)}
  <1>1. 0 \in P
    <2>. DEFINE f == [i \in 1..0 |-> {}]
    <2>1. Flattens(f, s, 0)
      BY DEF Flattens
    <2>. QED  BY <2>1
  <1>2. ASSUME NEW k \in Nat, k \in P PROVE k + 1 \in P
    <2>1. PICK f : Flattens(f, s, k)
      BY <1>2
    <2>. DEFINE b(g, i) == IF i = 1 THEN s[i] ELSE g[i - 1] \o s[i]
                h == [i \in 1..(k + 1) |-> IF i = k + 1 THEN b(f, i) ELSE f[i]]
    <2>2. ASSUME NEW i \in 1..(k + 1) PROVE h[i] = b(h, i)
      <3>1. i # 1 => i - 1 \in 1..(k + 1) /\ i - 1 # k + 1
        OBVIOUS
      <3>2. i # 1 => h[i - 1] = f[i - 1]
        BY <3>1
      <3>3. h[i] = b(f, i)
        <4>1. CASE i = k + 1
          <5>. HIDE DEF b
          <5>. QED  BY <4>1
        <4>2. CASE i # k + 1
          <5>1. i \in 1..k
            BY <4>2
          <5>2. f[i] = b(f, i)
            BY <2>1, <5>1 DEF Flattens
          <5>. HIDE DEF b
          <5>. QED  BY <4>2, <5>2
        <4>. QED  BY <4>1, <4>2
      <3>. HIDE DEF h
      <3>. QED  BY <3>2, <3>3
    <2>3. h = [i \in 1..(k + 1) |-> h[i]]
      OBVIOUS
    <2>. HIDE DEF h
    <2>4. Flattens(h, s, k + 1)
      BY <2>2, <2>3 DEF Flattens
    <2>. QED  BY <2>4
  <1>3. n \in P
    <2>. HIDE DEF P
    <2>. QED  BY <1>1, <1>2, SetInduction
  <1>. QED  BY <1>3

\* Putting texts together goes through what the first ones make.
LEMMA FlatRun ==
  ASSUME NEW s \in Texts, Len(s) > 0
  PROVE  \E f : /\ f[1] = s[1] /\ f[Len(s)] = FlattenSeq(s)
                /\ \A i \in 2..Len(s) : f[i] = f[i - 1] \o s[i]
                /\ \A i \in 1..Len(s) : f[i] \in Seq(Chars)
  <1>. DEFINE n == Len(s)
              f == CHOOSE f : Flattens(f, s, n)
  <1>1. n \in Nat /\ n # 0 /\ \A i \in 1..n : s[i] \in Seq(Chars)
    BY DEF Texts
  <1>2. FlattenSeq(s) = f[n]
    BY <1>1 DEF FlattenSeq, Flattens
  <1>3. Flattens(f, s, n)
    BY <1>1, FlattensExists
  <1>. HIDE DEF f
  <1>. HIDE DEF n
  <1>4. f[1] = s[1]
    <2>1. 1 \in 1..n
      BY <1>1
    <2>. QED  BY <1>3, <2>1 DEF Flattens
  <1>5. ASSUME NEW i \in 2..n PROVE f[i] = f[i - 1] \o s[i]
    <2>1. i \in 1..n /\ i # 1
      BY <1>1
    <2>. QED  BY <1>3, <2>1 DEF Flattens
  <1>. DEFINE P == {k \in Nat : k + 1 <= n => f[k + 1] \in Seq(Chars)}
  <1>6. 0 \in P
    BY <1>1, <1>4
  <1>7. ASSUME NEW k \in Nat, k \in P PROVE k + 1 \in P
    <2>. SUFFICES ASSUME (k + 1) + 1 <= n PROVE f[(k + 1) + 1] \in Seq(Chars)
      OBVIOUS
    <2>1. (k + 1) + 1 \in 2..n /\ ((k + 1) + 1) - 1 = k + 1 /\ k + 1 <= n
          /\ (k + 1) + 1 \in 1..n
      BY <1>1
    <2>2. f[k + 1] \in Seq(Chars) /\ s[(k + 1) + 1] \in Seq(Chars)
      BY <1>1, <1>7, <2>1
    <2>3. f[(k + 1) + 1] = f[k + 1] \o s[(k + 1) + 1]
      BY <1>5, <2>1
    <2>. QED  BY <2>2, <2>3
  <1>8. ASSUME NEW i \in 1..n PROVE f[i] \in Seq(Chars)
    <2>1. i - 1 \in Nat /\ (i - 1) + 1 = i /\ i <= n
      BY <1>1
    <2>2. i - 1 \in P
      <3>. HIDE DEF P
      <3>. QED  BY <1>6, <1>7, <2>1, SetInduction
    <2>. QED  BY <2>1, <2>2
  <1>. QED  BY <1>2, <1>4, <1>5, <1>8 DEF n

\* No texts make none.
LEMMA FlatNone ==
  ASSUME NEW s \in Texts, Len(s) = 0
  PROVE  FlattenSeq(s) = <<>>
  BY DEF FlattenSeq, Texts

\* Texts put together are the first and the others put together.
LEMMA FlatFirst ==
  ASSUME NEW s \in Texts, NEW w \in Texts, Len(s) = Len(w) + 1,
         \A i \in 1..Len(w) : w[i] = s[i + 1]
  PROVE  /\ FlattenSeq(s) = s[1] \o FlattenSeq(w)
         /\ FlattenSeq(w) \in Seq(Chars) /\ FlattenSeq(s) \in Seq(Chars)
  <1>1. Len(w) \in Nat /\ s[1] \in Seq(Chars)
    BY DEF Texts
  <1>2. PICK f : /\ f[1] = s[1] /\ f[Len(s)] = FlattenSeq(s)
                 /\ \A i \in 2..Len(s) : f[i] = f[i - 1] \o s[i]
                 /\ \A i \in 1..Len(s) : f[i] \in Seq(Chars)
    <2>1. Len(s) > 0
      BY <1>1
    <2>. QED  BY <2>1, FlatRun
  <1>3. FlattenSeq(s) \in Seq(Chars)
    BY <1>1, <1>2
  <1>4. CASE Len(w) = 0
    <2>1. FlattenSeq(w) = <<>> /\ FlattenSeq(s) = s[1]
      BY <1>2, <1>4, FlatNone
    <2>2. s[1] \o <<>> = s[1] /\ <<>> \in Seq(Chars)
      BY <1>1
    <2>. QED  BY <1>3, <2>1, <2>2
  <1>5. CASE Len(w) # 0
    <2>1. PICK g : /\ g[1] = w[1] /\ g[Len(w)] = FlattenSeq(w)
                   /\ \A i \in 2..Len(w) : g[i] = g[i - 1] \o w[i]
                   /\ \A i \in 1..Len(w) : g[i] \in Seq(Chars)
      <3>1. Len(w) > 0
        BY <1>1, <1>5
      <3>. QED  BY <3>1, FlatRun
    <2>2. \A i \in 1..Len(w) : w[i] \in Seq(Chars)
      BY DEF Texts
    <2>. DEFINE Q(i) == f[i + 1] = s[1] \o g[i]
                P == {k \in Nat : k + 1 <= Len(w) => Q(k + 1)}
    <2>3. Q(1)
      <3>1. 2 \in 2..Len(s) /\ 1 \in 1..Len(w) /\ 2 - 1 = 1 /\ 1 + 1 = 2
        BY <1>1, <1>5
      <3>2. f[2] = f[1] \o s[2] /\ w[1] = s[2]
        BY <1>2, <3>1
      <3>3. f[2] = s[1] \o g[1]
        BY <1>2, <2>1, <3>2
      <3>. QED  BY <3>1, <3>3
    <2>4. ASSUME NEW i \in 1..Len(w), i + 1 <= Len(w), Q(i) PROVE Q(i + 1)
      <3>. DEFINE j == i + 1
      <3>1. /\ j \in 2..Len(w) /\ j - 1 = i /\ j + 1 \in 2..Len(s) /\ (j + 1) - 1 = j
            /\ j \in 1..Len(w)
        BY <1>1, <2>4
      <3>2. f[j] = s[1] \o g[i]
        BY <2>4
      <3>. HIDE DEF j
      <3>3. f[j + 1] = f[(j + 1) - 1] \o s[j + 1] /\ g[j] = g[j - 1] \o w[j] /\ w[j] = s[j + 1]
        BY <1>2, <2>1, <3>1
      <3>4. f[j + 1] = (s[1] \o g[i]) \o w[j] /\ g[j] = g[i] \o w[j]
        BY <3>1, <3>2, <3>3
      <3>5. g[i] \in Seq(Chars) /\ w[j] \in Seq(Chars)
        BY <2>1, <2>2, <3>1
      <3>6. (s[1] \o g[i]) \o w[j] = s[1] \o (g[i] \o w[j])
        <4>1. s[1] \in Seq(Chars)
          BY <1>1
        <4>2. \A x, y, z \in Seq(Chars) : (x \o y) \o z = x \o (y \o z)
          BY CharsAssociate
        <4>. DEFINE x == s[1]  y == g[i]  z == w[j]
        <4>3. x \in Seq(Chars) /\ y \in Seq(Chars) /\ z \in Seq(Chars)
          BY <3>5, <4>1
        <4>. HIDE DEF x, y, z
        <4>4. (x \o y) \o z = x \o (y \o z)
          BY ONLY <4>2, <4>3
        <4>. QED  BY <4>4 DEF x, y, z
      <3>7. f[j + 1] = s[1] \o g[j]
        BY <3>4, <3>6
      <3>. QED  BY <3>7 DEF j
    <2>. HIDE DEF Q
    <2>5. 0 \in P
      <3>1. 0 + 1 = 1
        OBVIOUS
      <3>. QED  BY <2>3, <3>1
    <2>6. ASSUME NEW k \in Nat, k \in P PROVE k + 1 \in P
      <3>. SUFFICES ASSUME (k + 1) + 1 <= Len(w) PROVE Q((k + 1) + 1)
        OBVIOUS
      <3>1. k + 1 \in 1..Len(w) /\ k + 1 <= Len(w)
        BY <1>1
      <3>2. Q(k + 1)
        BY <2>6, <3>1
      <3>. QED  BY <2>4, <3>1, <3>2
    <2>7. Q(Len(w))
      <3>1. Len(w) - 1 \in Nat /\ (Len(w) - 1) + 1 = Len(w) /\ Len(w) <= Len(w)
        BY <1>1, <1>5
      <3>2. Len(w) - 1 \in P
        <4>. HIDE DEF P
        <4>. QED  BY <2>5, <2>6, <3>1, SetInduction
      <3>. QED  BY <3>1, <3>2
    <2>9. Len(w) \in 1..Len(w)
      BY <1>1, <1>5
    <2>8. f[Len(s)] = s[1] \o g[Len(w)] /\ g[Len(w)] \in Seq(Chars)
      BY <1>1, <2>1, <2>7, <2>9 DEF Q
    <2>. QED  BY <1>2, <1>3, <2>1, <2>8
  <1>. QED  BY <1>4, <1>5

\* What is still to be read of a script after k of its messages.
Unsent(s, k) == [i \in 1..(Len(s) - k) |-> BytesOf(s[k + i])]
BytesAfter(s, k) == FlattenSeq(Unsent(s, k))

\* The bytes of a message are characters.
LEMMA BytesTyped ==
  ASSUME NEW m \in Messages
  PROVE  BytesOf(m) \in Seq(Chars)
  <1>1. m.pad \in Seq(Chars) /\ m.of.text \in Seq(Chars)
    BY MessageFacts
  <1>. QED  BY <1>1 DEF BytesOf

\* What is still to be read is one text for each message left.
LEMMA UnsentTyped ==
  ASSUME NEW s \in Seq(Messages), NEW k \in 0..Len(s)
  PROVE  Unsent(s, k) \in Texts /\ Len(Unsent(s, k)) = Len(s) - k
         /\ \A i \in 1..(Len(s) - k) : Unsent(s, k)[i] = BytesOf(s[k + i])
  <1>1. Len(s) - k \in Nat
    OBVIOUS
  <1>2. ASSUME NEW i \in 1..(Len(s) - k) PROVE BytesOf(s[k + i]) \in Seq(Chars)
    <2>1. k + i \in 1..Len(s)
      BY <1>1
    <2>. QED  BY <2>1, BytesTyped
  <1>. DEFINE n == Len(s) - k  e(i) == BytesOf(s[k + i])
  <1>. HIDE DEF n, e
  <1>3. [i \in 1..n |-> e(i)] \in Seq(Seq(Chars)) /\ Len([i \in 1..n |-> e(i)]) = n
        /\ \A i \in 1..n : [j \in 1..n |-> e(j)][i] = e(i)
    BY <1>1, <1>2 DEF n, e
  <1>. QED  BY <1>3 DEF Unsent, Texts, n, e

\* They are those of the next message and of the rest.
LEMMA NextBytes ==
  ASSUME NEW s \in Seq(Messages), NEW k \in 0..(Len(s) - 1)
  PROVE  BytesAfter(s, k) = BytesOf(s[k + 1]) \o BytesAfter(s, k + 1)
         /\ BytesAfter(s, k) \in Seq(Chars) /\ BytesAfter(s, k + 1) \in Seq(Chars)
  <1>. DEFINE a == Unsent(s, k)  b == Unsent(s, k + 1)
  <1>1. Len(s) \in Nat /\ k \in 0..Len(s) /\ k + 1 \in 0..Len(s)
    OBVIOUS
  <1>2. a \in Texts /\ Len(a) = Len(s) - k /\ \A i \in 1..(Len(s) - k) : a[i] = BytesOf(s[k + i])
    BY <1>1, UnsentTyped
  <1>3. b \in Texts /\ Len(b) = Len(s) - (k + 1)
        /\ \A i \in 1..(Len(s) - (k + 1)) : b[i] = BytesOf(s[(k + 1) + i])
    BY <1>1, UnsentTyped
  <1>. HIDE DEF a, b
  <1>4. Len(a) = Len(b) + 1
    BY <1>1, <1>2, <1>3
  <1>5. ASSUME NEW i \in 1..Len(b) PROVE b[i] = a[i + 1]
    <2>1. i \in 1..(Len(s) - (k + 1)) /\ i + 1 \in 1..(Len(s) - k) /\ (k + 1) + i = k + (i + 1)
      BY <1>1, <1>3
    <2>. QED  BY <1>2, <1>3, <2>1
  <1>6. a[1] = BytesOf(s[k + 1])
    <2>1. 1 \in 1..(Len(s) - k)
      BY <1>1
    <2>. QED  BY <1>2, <2>1
  <1>. QED  BY <1>2, <1>3, <1>4, <1>5, <1>6, FlatFirst DEF BytesAfter, a, b

\* After the last message there are none.
LEMMA NoBytes ==
  ASSUME NEW s \in Seq(Messages)
  PROVE  BytesAfter(s, Len(s)) = <<>>
  <1>1. Len(s) \in 0..Len(s) /\ Len(s) - Len(s) = 0
    OBVIOUS
  <1>2. Unsent(s, Len(s)) \in Texts /\ Len(Unsent(s, Len(s))) = 0
    BY <1>1, UnsentTyped
  <1>. QED  BY <1>2, FlatNone DEF BytesAfter

\* And its bytes are characters.
LEMMA BytesAfterTyped ==
  ASSUME NEW s \in Seq(Messages), NEW k \in 0..Len(s)
  PROVE  BytesAfter(s, k) \in Seq(Chars)
  <1>1. CASE k = Len(s)
    <2>1. BytesAfter(s, k) = <<>> /\ <<>> \in Seq(Chars)
      BY <1>1, NoBytes
    <2>. QED  BY <2>1
  <1>2. CASE k # Len(s)
    <2>1. k \in 0..(Len(s) - 1)
      BY <1>2
    <2>. QED  BY <2>1, NextBytes
  <1>. QED  BY <1>1, <1>2

\* What the reader has dispatched and what is still to come are the script, cut
\* at a message: the inductive invariant of the wire.
FrameInv ==
  /\ script \in Seq(Messages) /\ netBuf \in Seq(Chars) /\ unread \in Seq(Chars)
  /\ Len(netBuf) <= BufferSize - 1 /\ left \in {"no", "refused", "closed"}
  /\ phase # "reading" => netBuf = <<>> /\ dispatched = <<>> /\ left = "no"
  /\ phase = "reading" =>
       /\ dispatched \in Texts /\ Len(dispatched) <= Len(script)
       /\ netBuf \o unread = BytesAfter(script, Len(dispatched))
       /\ \A i \in 1..Len(dispatched) : dispatched[i] = script[i].of.text /\ Fits(script[i])
       /\ left = "refused" =>
            Len(dispatched) < Len(script) /\ ~Fits(script[Len(dispatched) + 1])

\* What the assumptions on the buffer and the depth give.
LEMMA BufferConstants == BufferSize \in Nat /\ BufferSize - 1 > 0 /\ MaxDepth \in Nat
  BY FrameAssumption

\* It says what FramesAsSent does.
LEMMA FrameInvFrames == FrameInv => FramesAsSent
  <1>. SUFFICES ASSUME FrameInv, phase = "reading" PROVE FramesAsSent
    BY DEF FramesAsSent
  <1>. DEFINE k == Len(dispatched)  texts == [i \in DOMAIN script |-> script[i].of.text]
  <1>1. /\ dispatched \in Texts /\ k <= Len(script) /\ script \in Seq(Messages)
        /\ \A i \in 1..k : dispatched[i] = script[i].of.text /\ Fits(script[i])
        /\ left = "refused" => k < Len(script) /\ ~Fits(script[k + 1])
    BY DEF FrameInv
  <1>2. k \in Nat /\ Len(script) \in Nat /\ DOMAIN dispatched = 1..k /\ DOMAIN script = 1..Len(script)
    BY <1>1 DEF Texts
  <1>3. texts \in Texts /\ Len(texts) = Len(script)
    <2>1. \A i \in 1..Len(script) : script[i] \in Messages
      BY <1>1
    <2>2. \A i \in 1..Len(script) : script[i].of.text \in Seq(Chars)
      BY <2>1, MessageFacts
    <2>. DEFINE e(i) == script[i].of.text
    <2>3. texts = [i \in 1..Len(script) |-> e(i)]
      BY <1>2
    <2>. HIDE DEF texts, e
    <2>4. [i \in 1..Len(script) |-> e(i)] \in Seq(Seq(Chars))
      BY <1>2, <2>2 DEF e
    <2>5. Len([i \in 1..Len(script) |-> e(i)]) = Len(script)
      BY <1>2
    <2>. QED  BY <2>3, <2>4, <2>5 DEF Texts
  <1>4. \A i \in 1..k : texts[i] = dispatched[i]
    BY <1>1, <1>2
  <1>. HIDE DEF texts, k
  <1>5. SubSeq(dispatched, 1, k) = SubSeq(texts, 1, k)
    <2>1. SubSeq(dispatched, 1, k) \in Seq(Seq(Chars)) /\ Len(SubSeq(dispatched, 1, k)) = k
          /\ \A i \in 1..k : SubSeq(dispatched, 1, k)[i] = dispatched[i]
      BY <1>1, <1>2 DEF Texts, k
    <2>2. SubSeq(texts, 1, k) \in Seq(Seq(Chars)) /\ Len(SubSeq(texts, 1, k)) = k
          /\ \A i \in 1..k : SubSeq(texts, 1, k)[i] = texts[i]
      BY <1>1, <1>2, <1>3 DEF Texts
    <2>. DEFINE a == SubSeq(dispatched, 1, k)  b == SubSeq(texts, 1, k)
    <2>3. \A i \in 1..k : a[i] = b[i]
      BY <1>4, <2>1, <2>2
    <2>. HIDE DEF a, b
    <2>. QED  BY <2>1, <2>2, <2>3, SeqEqual DEF a, b
  <1>6. IsPrefix(dispatched, texts)
    BY <1>1, <1>3, <1>5 DEF IsPrefix, k
  <1>. QED  BY <1>1, <1>2, <1>6 DEF FramesAsSent, k, texts

\* The message whose bytes the buffer begins with, if there is one left.
LEMMA NextMessage ==
  ASSUME FrameInv, phase = "reading"
  PROVE  LET k == Len(dispatched)  m == script[k + 1]  r == BytesAfter(script, k + 1) IN
         /\ k \in Nat /\ Len(script) \in Nat
         /\ \/ k = Len(script) /\ netBuf = <<>> /\ FrameLength = 0
            \/ /\ k < Len(script) /\ m \in Messages /\ r \in Seq(Chars)
               /\ netBuf \o unread = BytesOf(m) \o r
  <1>. DEFINE k == Len(dispatched)
  <1>1. /\ k \in Nat /\ Len(script) \in Nat /\ script \in Seq(Messages) /\ k <= Len(script)
        /\ netBuf \in Seq(Chars) /\ unread \in Seq(Chars)
        /\ netBuf \o unread = BytesAfter(script, k)
    BY DEF FrameInv, Texts
  <1>. HIDE DEF k
  <1>2. CASE k = Len(script)
    <2>1. netBuf \o unread = <<>>
      BY <1>1, <1>2, NoBytes
    <2>2. Len(netBuf \o unread) = Len(netBuf) + Len(unread) /\ Len(netBuf) \in Nat /\ Len(unread) \in Nat
      BY <1>1
    <2>3. Len(netBuf) = 0
      <3>1. Len(netBuf \o unread) = 0
        BY <2>1
      <3>. QED  BY <2>2, <3>1
    <2>4. netBuf = <<>> /\ DOMAIN netBuf = {}
      BY <1>1, <2>3
    <2>5. FrameLength = 0
      BY <1>1, <2>4, BeforeAll
    <2>. QED  BY <1>1, <1>2, <2>4, <2>5 DEF k
  <1>3. CASE k # Len(script)
    <2>1. k \in 0..(Len(script) - 1) /\ k < Len(script) /\ k + 1 \in 1..Len(script)
      BY <1>1, <1>3
    <2>2. script[k + 1] \in Messages
      BY <1>1, <2>1
    <2>3. BytesAfter(script, k) = BytesOf(script[k + 1]) \o BytesAfter(script, k + 1)
          /\ BytesAfter(script, k + 1) \in Seq(Chars)
      BY <1>1, <2>1, NextBytes
    <2>. QED  BY <1>1, <2>1, <2>2, <2>3 DEF k
  <1>. QED  BY <1>2, <1>3

\* A frame is cut off the buffer: it is the next message of the script.
LEMMA PopStep ==
  ASSUME FrameInv, PopFrame
  PROVE  FrameInv'
  <1>. DEFINE k == Len(dispatched)  m == script[k + 1]  r == BytesAfter(script, k + 1)
              p == m.pad  t == m.of.text
  <1>1. /\ phase = "reading" /\ left = "no" /\ FrameLength > 0
        /\ dispatched' = Append(dispatched, SubSeq(netBuf, BeforeFrame + 1, BeforeFrame + FrameLength))
        /\ netBuf' = SubSeq(netBuf, BeforeFrame + FrameLength + 1, Len(netBuf))
        /\ phase' = phase /\ script' = script /\ unread' = unread /\ left' = left
    BY DEF PopFrame
  <1>2. k \in Nat /\ Len(script) \in Nat /\ k < Len(script) /\ m \in Messages /\ r \in Seq(Chars)
        /\ netBuf \o unread = BytesOf(m) \o r
    <2>1. phase = "reading" /\ FrameLength # 0
      BY <1>1
    <2>2. \/ k = Len(script) /\ FrameLength = 0
          \/ k < Len(script) /\ m \in Messages /\ r \in Seq(Chars)
             /\ netBuf \o unread = BytesOf(m) \o r
      BY ONLY <2>1, FrameInv, NextMessage DEF k, m, r
    <2>3. k \in Nat /\ Len(script) \in Nat
      BY ONLY <2>1, FrameInv, NextMessage DEF k
    <2>. QED  BY ONLY <2>1, <2>2, <2>3
  <1>3. /\ script \in Seq(Messages) /\ netBuf \in Seq(Chars) /\ unread \in Seq(Chars)
        /\ Len(netBuf) <= BufferSize - 1 /\ dispatched \in Texts
        /\ \A i \in 1..k : dispatched[i] = script[i].of.text /\ Fits(script[i])
    BY <1>1 DEF FrameInv
  <1>. HIDE DEF k, m, r
  <1>4. /\ m.of.sound /\ Len(BytesOf(m)) <= Len(netBuf)
        /\ BeforeFrame = Len(p) /\ FrameLength = Len(t)
    BY <1>1, <1>2, <1>3, FrameFound
  <1>5. t \in Seq(Chars) /\ p \in Seq(Chars) /\ Len(t) \in Nat /\ Len(p) \in Nat /\ Len(t) > 1
    BY <1>2, MessageFacts
  <1>6. BytesOf(m) = p \o t
    BY DEF BytesOf
  <1>. HIDE DEF p, t
  <1>7. PICK v \in Seq(Chars) : netBuf = (p \o t) \o v /\ v \o unread = r
    <2>1. SameBytes(netBuf, unread, p \o t, r)
      BY <1>2, <1>6 DEF SameBytes
    <2>2. Len(netBuf) >= Len(p \o t) /\ p \o t \in Seq(Chars)
      <3>1. Len(p \o t) \in Nat /\ p \o t \in Seq(Chars) /\ Len(netBuf) \in Nat
        BY <1>3, <1>5
      <3>. QED  BY <1>4, <1>6, <3>1
    <2>3. Splits(netBuf, unread, p \o t, r)
      BY <1>2, <1>3, <2>1, <2>2, SplitSeq
    <2>. QED  BY <2>3 DEF Splits
  <1>8. SubSeq(netBuf, Len(p) + 1, Len(p) + Len(t)) = t
    <2>1. SubSeq((p \o t) \o v, Len(p) + 1, Len(p) + Len(t)) = t
      BY <1>5
    <2>. QED  BY <1>7, <2>1
  <1>9. SubSeq(netBuf, Len(p) + Len(t) + 1, Len(netBuf)) = v /\ Len(v) \in Nat /\ Len(v) <= Len(netBuf)
    <2>1. Len((p \o t) \o v) = Len(p) + Len(t) + Len(v) /\ Len(v) \in Nat
      BY <1>5
    <2>2. SubSeq((p \o t) \o v, Len(p) + Len(t) + 1, Len(p) + Len(t) + Len(v)) = v
      BY <1>5
    <2>. QED  BY <1>5, <1>7, <2>1, <2>2
  <1>10. netBuf' = v /\ dispatched' = Append(dispatched, t)
    BY <1>1, <1>4, <1>8, <1>9
  <1>11. /\ dispatched' \in Texts /\ Len(dispatched') = k + 1 /\ dispatched'[k + 1] = t
         /\ \A i \in 1..k : dispatched'[i] = dispatched[i]
    BY <1>2, <1>3, <1>5, <1>10 DEF Texts, k
  <1>12. Len(netBuf') <= BufferSize - 1
    BY <1>3, <1>9, <1>10, BufferConstants
  <1>13. Fits(m)
    <2>1. Len(BytesOf(m)) \in Nat
      BY <1>2, BytesTyped
    <2>2. Len(netBuf) \in Nat
      BY <1>3
    <2>. QED  BY <1>3, <1>4, <2>1, <2>2, BufferConstants DEF Fits
  <1>14. ASSUME NEW i \in 1..(k + 1)
         PROVE  dispatched'[i] = script[i].of.text /\ Fits(script[i])
    <2>1. CASE i = k + 1
      BY <1>11, <1>13, <2>1 DEF m, t
    <2>2. CASE i # k + 1
      <3>1. i \in 1..k
        BY <1>2, <2>2
      <3>. QED  BY <1>3, <1>11, <3>1
    <2>. QED  BY <2>1, <2>2
  <1>15. netBuf' \o unread' = BytesAfter(script, k + 1)
    BY <1>1, <1>7, <1>10 DEF r
  <1>16. /\ netBuf' \in Seq(Chars) /\ unread' \in Seq(Chars) /\ script' \in Seq(Messages)
         /\ Len(dispatched') <= Len(script')
    <2>1. netBuf' \in Seq(Chars) /\ unread' \in Seq(Chars) /\ script' \in Seq(Messages)
      BY <1>1, <1>3, <1>10
    <2>2. k + 1 <= Len(script)
      BY <1>2
    <2>. QED  BY <1>1, <1>11, <2>1, <2>2
  <1>17. \A i \in 1..Len(dispatched') : dispatched'[i] = script'[i].of.text /\ Fits(script[i])
    BY <1>1, <1>11, <1>14
  <1>18. netBuf' \o unread' = BytesAfter(script', Len(dispatched'))
    BY <1>1, <1>11, <1>15
  <1>. QED  BY <1>1, <1>11, <1>12, <1>16, <1>17, <1>18 DEF FrameInv, Fits

\* A refusal is of a message that is no object or does not fit.
LEMMA RefuseStep ==
  ASSUME FrameInv, RefuseFrame
  PROVE  FrameInv'
  <1>. DEFINE k == Len(dispatched)  m == script[k + 1]  r == BytesAfter(script, k + 1)
  <1>1. /\ phase = "reading"
        /\ FrameLength < 0 \/ (FrameLength = 0 /\ Len(netBuf) >= BufferSize - 1)
        /\ left' = "refused" /\ phase' = phase /\ script' = script /\ unread' = unread
        /\ netBuf' = netBuf /\ dispatched' = dispatched
    BY DEF RefuseFrame
  <1>2. k < Len(script) /\ m \in Messages /\ r \in Seq(Chars)
        /\ netBuf \o unread = BytesOf(m) \o r
    <2>1. ~(netBuf = <<>> /\ FrameLength = 0)
      BY <1>1, BufferConstants
    <2>. QED  BY <1>1, <2>1, NextMessage
  <1>3. netBuf \in Seq(Chars) /\ unread \in Seq(Chars) /\ Len(netBuf) \in Nat
    BY DEF FrameInv
  <1>. HIDE DEF m, r
  <1>4. /\ FrameLength \in Int
        /\ FrameLength < 0 => ~m.of.sound
        /\ FrameLength = 0 => ~m.of.sound \/ Len(netBuf) < Len(BytesOf(m))
    BY <1>2, <1>3, FrameFound
  <1>5. ~Fits(m)
    <2>1. Len(BytesOf(m)) \in Nat
      BY <1>2, BytesTyped
    <2>2. ~m.of.sound \/ Len(netBuf) < Len(BytesOf(m))
      BY <1>1, <1>4
    <2>3. m.of.sound => Len(netBuf) >= BufferSize - 1
      BY <1>1, <1>4
    <2>4. m.of.sound => ~(Len(BytesOf(m)) <= BufferSize - 1)
      BY <1>3, <2>1, <2>2, <2>3, BufferConstants
    <2>. QED  BY <2>4 DEF Fits
  <1>. QED  BY <1>1, <1>2, <1>5 DEF FrameInv, m, Fits

\* What is received goes behind what is in the buffer.
LEMMA ReceiveStep ==
  ASSUME FrameInv, Receive
  PROVE  FrameInv'
  <1>1. /\ phase = "reading" /\ left = "no" /\ Len(netBuf) < BufferSize - 1
        /\ phase' = phase /\ script' = script /\ dispatched' = dispatched /\ left' = left
    BY DEF Receive, ReceiveUpTo
  <1>2. PICK n \in 1..Lower(MaxChunk, Lower(Len(unread), BufferSize - 1 - Len(netBuf))) :
          /\ netBuf' = netBuf \o SubSeq(unread, 1, n)
          /\ unread' = SubSeq(unread, n + 1, Len(unread))
    BY DEF Receive, ReceiveUpTo
  <1>3. netBuf \in Seq(Chars) /\ unread \in Seq(Chars) /\ Len(netBuf) \in Nat /\ Len(unread) \in Nat
        /\ netBuf \o unread = BytesAfter(script, Len(dispatched))
    BY <1>1 DEF FrameInv
  <1>4. n \in Nat /\ n >= 1 /\ n <= Len(unread) /\ n <= BufferSize - 1 - Len(netBuf)
    <2>1. MaxChunk \in Nat
      BY WireBoundsAssumption
    <2>. QED  BY <1>2, <1>3, <2>1, BufferConstants DEF Lower
  <1>. DEFINE a == SubSeq(unread, 1, n)  b == SubSeq(unread, n + 1, Len(unread))
  <1>5. a \in Seq(Chars) /\ b \in Seq(Chars) /\ Len(a) = n /\ a \o b = unread
    BY <1>3, <1>4
  <1>. HIDE DEF a, b
  <1>6. netBuf' \in Seq(Chars) /\ unread' \in Seq(Chars) /\ Len(netBuf') = Len(netBuf) + n
    BY <1>2, <1>3, <1>4, <1>5 DEF a, b
  <1>7. netBuf' \o unread' = netBuf \o unread
    <2>1. (netBuf \o a) \o b = netBuf \o (a \o b)
      BY ONLY <1>3, <1>5, CharsAssociate
    <2>. QED  BY <1>2, <1>5, <2>1 DEF a, b
  <1>8. Len(netBuf') <= BufferSize - 1
    BY <1>3, <1>4, <1>6, BufferConstants
  <1>. QED  BY <1>1, <1>3, <1>6, <1>7, <1>8 DEF FrameInv, Fits

\* A new connection begins with nothing read of its script.
LEMMA AcceptStep ==
  ASSUME FrameInv, Accept
  PROVE  FrameInv'
  <1>1. /\ phase = "connected" /\ phase' = "reading"
        /\ netBuf' = netBuf /\ dispatched' = dispatched /\ left' = left
        /\ unread' = FlattenSeq([i \in DOMAIN script' |-> BytesOf(script'[i])])
    BY DEF Accept
  <1>2. netBuf = <<>> /\ dispatched = <<>> /\ left = "no"
    BY <1>1 DEF FrameInv
  <1>3. PICK n \in 1..MaxMessages : script' \in [1..n -> Messages]
    BY DEF Accept
  <1>. DEFINE s == script'
  <1>4. s \in Seq(Messages) /\ DOMAIN s = 1..Len(s) /\ Len(s) \in Nat
    <2>1. n \in Nat
      BY WireBoundsAssumption
    <2>2. PICK q \in [1..n -> Messages] : q = s
      BY <1>3
    <2>. HIDE DEF s
    <2>3. q \in Seq(Messages)
      BY <2>1
    <2>. QED  BY <2>2, <2>3
  <1>. HIDE DEF s
  <1>5. unread' = BytesAfter(s, 0)
    <2>1. \A i \in 1..Len(s) : 0 + i = i
      BY <1>4
    <2>2. Len(s) - 0 = Len(s)
      BY <1>4
    <2>3. Unsent(s, 0) = [i \in 1..Len(s) |-> BytesOf(s[i])]
      BY <2>1, <2>2 DEF Unsent
    <2>. QED  BY <1>1, <1>4, <2>3 DEF BytesAfter, s
  <1>6. unread' \in Seq(Chars)
    BY <1>4, <1>5, BytesAfterTyped, 0 \in 0..Len(s)
  <1>7. <<>> \o unread' = unread' /\ <<>> \in Seq(Chars) /\ Len(<<>>) = 0 /\ <<>> \in Texts
    <2>1. PICK q \in Seq(Chars) : q = unread'
      BY <1>6
    <2>2. <<>> \o q = q
      OBVIOUS
    <2>. QED  BY <2>1, <2>2 DEF Texts
  <1>8. netBuf' = <<>> /\ dispatched' = <<>> /\ left' = "no"
    BY <1>1, <1>2
  <1>9. netBuf' \o unread' = BytesAfter(script', Len(dispatched'))
    BY <1>5, <1>7, <1>8 DEF s
  <1>10. \A i \in 1..Len(dispatched') : FALSE
    BY <1>7, <1>8
  <1>11. /\ script' \in Seq(Messages) /\ netBuf' \in Seq(Chars) /\ dispatched' \in Texts
         /\ Len(netBuf') <= BufferSize - 1 /\ Len(dispatched') <= Len(script')
    BY <1>4, <1>7, <1>8, BufferConstants DEF s
  <1>. QED  BY <1>1, <1>6, <1>8, <1>9, <1>10, <1>11 DEF FrameInv

\* It holds before anything is dialled.
LEMMA FrameInitInv == WireInit => FrameInv
  <1>1. <<>> \in Seq(Messages) /\ <<>> \in Seq(Chars) /\ Len(<<>>) = 0
    OBVIOUS
  <1>. QED  BY <1>1, BufferConstants DEF WireInit, FrameInv

\* Every step keeps it.
LEMMA FrameStep ==
  ASSUME FrameInv, [WireNext]_wireVars
  PROVE  FrameInv'
  <1>1. CASE Dial \/ TryAddress \/ PollPending \/ Connected
    <2>1. UNCHANGED readVars /\ phase # "reading" /\ phase' # "reading"
      BY <1>1 DEF Dial, TryAddress, PollPending, Connected, GiveUpAddress
    <2>. QED  BY <2>1 DEF FrameInv, readVars
  <1>2. CASE Accept
    BY <1>2, AcceptStep
  <1>3. CASE PopFrame
    BY <1>3, PopStep
  <1>4. CASE RefuseFrame
    BY <1>4, RefuseStep
  <1>5. CASE Receive
    BY <1>5, ReceiveStep
  <1>6. CASE Drop
    <2>1. left' = "closed" /\ phase = "reading" /\ UNCHANGED <<phase, script, unread, netBuf, dispatched>>
      BY <1>6 DEF Drop
    <2>. QED  BY <2>1 DEF FrameInv, Fits
  <1>7. CASE Disconnect
    <2>1. /\ phase' = "idle" /\ script' = <<>> /\ unread' = <<>> /\ netBuf' = <<>>
          /\ dispatched' = <<>> /\ left' = "no"
      BY <1>7 DEF Disconnect
    <2>2. <<>> \in Seq(Messages) /\ <<>> \in Seq(Chars) /\ Len(<<>>) = 0
      OBVIOUS
    <2>. QED  BY <2>1, <2>2, BufferConstants DEF FrameInv
  <1>8. CASE UNCHANGED wireVars
    <2>1. UNCHANGED readVars /\ phase' = phase
      BY <1>8 DEF wireVars
    <2>. QED  BY <2>1 DEF FrameInv, readVars, Fits
  <1>. QED  BY <1>1, <1>2, <1>3, <1>4, <1>5, <1>6, <1>7, <1>8 DEF WireNext

\* What is left of the types of the wire: where it is, and the bounds of the model.
WireBounds ==
  /\ phase \in {"idle", "next", "pending", "open", "failed", "connected", "reading"}
  /\ Len(addresses) <= MaxAddresses /\ dials \in 0..MaxDials

\* They hold initially,
LEMMA WireBoundsInit == WireInit => WireBounds
  <1>1. MaxAddresses \in Nat /\ MaxDials \in Nat /\ Len(<<>>) = 0
    BY WireBoundsAssumption, EmptySeq
  <1>. QED  BY <1>1 DEF WireInit, WireBounds

\* and after every step.
LEMMA WireBoundsStep ==
  ASSUME WireBounds, [WireNext]_wireVars
  PROVE  WireBounds'
  <1>1. MaxAddresses \in Nat /\ MaxDials \in Nat /\ Len(<<>>) = 0
    BY WireBoundsAssumption, EmptySeq
  <1>2. CASE Dial
    <2>1. PICK n \in 0..MaxAddresses : addresses' \in [1..n -> Addresses]
      BY <1>2 DEF Dial
    <2>2. Len(addresses') = n
      BY <2>1
    <2>3. phase' = "next" /\ dials < MaxDials /\ dials' = dials + 1 /\ dials \in 0..MaxDials
      BY <1>2 DEF Dial, WireBounds
    <2>. QED  BY <1>1, <2>1, <2>2, <2>3 DEF WireBounds
  <1>3. CASE Connected \/ Disconnect
    BY <1>1, <1>3 DEF Connected, Disconnect, ConnectReturns, WireBounds
  <1>4. CASE TryAddress \/ PollPending
    <2>1. phase' \in {"next", "pending", "open", "failed"} \cup {phase}
      BY <1>4 DEF TryAddress, PollPending, GiveUpAddress
    <2>2. UNCHANGED <<addresses, dials>>
      BY <1>4 DEF TryAddress, PollPending
    <2>. QED  BY <2>1, <2>2 DEF WireBounds
  <1>5. CASE Accept \/ PopFrame \/ RefuseFrame \/ Receive \/ Drop \/ UNCHANGED wireVars
    <2>1. phase' \in {"reading", phase} /\ UNCHANGED <<addresses, dials>>
      BY <1>5 DEF Accept, PopFrame, RefuseFrame, Receive, ReceiveUpTo, Drop, connectVars, wireVars
    <2>. QED  BY <2>1 DEF WireBounds
  <1>. QED  BY <1>2, <1>3, <1>4, <1>5 DEF WireNext

\* With what connecting and framing keep they are the types.
LEMMA WireTypes == ConnectInv /\ FrameInv /\ WireBounds => WireTypeOK
  <1>. SUFFICES ASSUME ConnectInv, FrameInv, WireBounds PROVE WireTypeOK
    OBVIOUS
  <1>1. Range(addresses) \subseteq Addresses /\ Range(script) \subseteq Messages
    <2>1. addresses \in Seq(Addresses) /\ script \in Seq(Messages)
      BY DEF ConnectInv, ConnectTypeOK, FrameInv
    <2>2. \A i \in DOMAIN addresses : addresses[i] \in Addresses
      BY <2>1, ElementOfSeq
    <2>3. \A i \in DOMAIN script : script[i] \in Messages
      BY <2>1, ElementOfSeq
    <2>. QED  BY <2>2, <2>3 DEF Range
  <1>. QED  BY <1>1 DEF WireTypeOK, ConnectInv, ConnectTypeOK, FrameInv, WireBounds

-----------------------------------------------------------------------------
(***************************************************************************)
(* The team of the CPU search.  A nonce is a row of digits; its number is a *)
(* fold over them, and so are the addition to it and the search from it.    *)
(* What the library's folds compute is known from their equation alone,     *)
(* which has a solution (FoldExists).  Then a start is made of the          *)
(* extranonce, the thread's stamp and the salt above digits that are zero   *)
(* (StampIs, StartLow), additions stay in these while there are no more     *)
(* than fit (AddBeIs), so the counters of two threads differ                *)
(* (CountersApart), and a search hashes the counters after its start up to  *)
(* the first that is one of hits (SearchRangeIs).  The invariant tells of   *)
(* each thread what it hashed, where its cur is, and that the shares among  *)
(* these are submitted, dropped or about to be (ThreadIs).                  *)
(***************************************************************************)
\* The equation of a fold over n entries of t that begins with s.
Folds(g, op, s, t, n) ==
  \A x \in SUBSET (1..n) : g[x] = IF x = {} THEN s ELSE op[<<g[x \ {Max(x)}], t[Max(x)]>>]

\* What such a fold works on, and that it has a result.
Foldable(S, C, op, s, t, n) ==
  s \in S /\ op \in [S \X C -> S] /\ n \in Nat /\ \A i \in 1..n : t[i] \in C
HasFold(S, op, s, t, n) == \E g \in [SUBSET (1..n) -> S] : Folds(g, op, s, t, n)

\* A fold whose states are of a set has a function for its equation.
LEMMA FoldExists ==
  ASSUME NEW S, NEW C, NEW op, NEW s, NEW t, NEW n, Foldable(S, C, op, s, t, n)
  PROVE  HasFold(S, op, s, t, n)
  <1>. USE DEF Foldable
  <1>. DEFINE Solves(g, k) == Folds(g, op, s, t, k)
              Has(k) == \E g \in [SUBSET (1..k) -> S] : Solves(g, k)
              P == {k \in Nat : k <= n => Has(k)}
  <1>. HIDE DEF Solves, Has
  <1>1. 0 \in P
    <2>. DEFINE g == [x \in SUBSET (1..0) |-> s]
    <2>1. \A x \in SUBSET (1..0) : x = {}
      OBVIOUS
    <2>2. g \in [SUBSET (1..0) -> S] /\ Solves(g, 0)
      BY <2>1 DEF Solves, Folds
    <2>. HIDE DEF g
    <2>. QED  BY <2>2 DEF Has
  <1>2. ASSUME NEW k \in Nat, k \in P PROVE k + 1 \in P
    <2>. SUFFICES ASSUME k + 1 <= n PROVE Has(k + 1)
      OBVIOUS
    <2>0. Has(k)
      BY <1>2
    <2>1. PICK g \in [SUBSET (1..k) -> S] : Solves(g, k)
      BY ONLY <2>0 DEF Has
    <2>. DEFINE h == [x \in SUBSET (1..(k + 1)) |->
                        IF k + 1 \in x THEN op[<<g[x \ {k + 1}], t[k + 1]>>] ELSE g[x]]
    <2>2. \A x \in SUBSET (1..(k + 1)) :
            IF k + 1 \in x THEN x \ {k + 1} \in SUBSET (1..k) ELSE x \in SUBSET (1..k)
      OBVIOUS
    <2>3. h \in [SUBSET (1..(k + 1)) -> S]
      <3>1. ASSUME NEW x \in SUBSET (1..(k + 1))
            PROVE  (IF k + 1 \in x THEN op[<<g[x \ {k + 1}], t[k + 1]>>] ELSE g[x]) \in S
        <4>1. CASE k + 1 \in x
          <5>1. g[x \ {k + 1}] \in S
            BY <2>1, <2>2, <4>1
          <5>2. t[k + 1] \in C
            OBVIOUS
          <5>. QED  BY <4>1, <5>1, <5>2
        <4>2. CASE k + 1 \notin x
          BY <2>1, <2>2, <4>2
        <4>. QED  BY <4>1, <4>2
      <3>. QED  BY <3>1
    <2>4. ASSUME NEW x \in SUBSET (1..(k + 1))
          PROVE  h[x] = IF x = {} THEN s ELSE op[<<h[x \ {Max(x)}], t[Max(x)]>>]
      <3>1. CASE k + 1 \in x
        <4>1. Max(x) = k + 1
          <5>1. Max(x) \in x /\ k + 1 <= Max(x)
            BY <3>1, MaxOfInterval, k + 1 \in Nat
          <5>2. Max(x) \in 1..(k + 1)
            BY <5>1
          <5>. HIDE DEF h
          <5>. QED  BY <5>1, <5>2
        <4>2. x \ {k + 1} \in SUBSET (1..(k + 1)) /\ k + 1 \notin x \ {k + 1}
          OBVIOUS
        <4>3. h[x \ {k + 1}] = g[x \ {k + 1}]
          BY <4>2
        <4>4. h[x] = op[<<g[x \ {k + 1}], t[k + 1]>>] /\ x # {}
          BY <3>1
        <4>. HIDE DEF h
        <4>. QED  BY <4>1, <4>3, <4>4
      <3>2. CASE k + 1 \notin x
        <4>1. x \in SUBSET (1..k)
          BY <3>2
        <4>2. g[x] = IF x = {} THEN s ELSE op[<<g[x \ {Max(x)}], t[Max(x)]>>]
          BY <2>1, <4>1 DEF Solves, Folds
        <4>3. h[x] = g[x]
          BY <3>2
        <4>4. h[x \ {Max(x)}] = g[x \ {Max(x)}]
          BY <3>2
        <4>. HIDE DEF h
        <4>. QED  BY <4>2, <4>3, <4>4
      <3>. QED  BY <3>1, <3>2
    <2>5. Solves(h, k + 1)
      BY <2>4 DEF Solves, Folds
    <2>. HIDE DEF h
    <2>. QED  BY <2>3, <2>5 DEF Has
  <1>3. n \in P
    <2>. HIDE DEF P
    <2>. QED  BY <1>1, <1>2, SetInduction
  <1>4. Has(n)
    BY <1>3
  <1>. QED  BY <1>4 DEF Has, HasFold, Solves, Folds

\* The beginnings of an interval.
LEMMA Beginnings ==
  ASSUME NEW n \in Nat
  PROVE  /\ 1..0 = {}
         /\ \A k \in 1..n : /\ 1..k \in SUBSET (1..n) /\ 1..k # {} /\ Max(1..k) = k
                            /\ (1..k) \ {k} = 1..(k - 1)
  <1>. SUFFICES ASSUME NEW k \in 1..n
                PROVE  /\ 1..k \in SUBSET (1..n) /\ 1..k # {} /\ Max(1..k) = k
                       /\ (1..k) \ {k} = 1..(k - 1)
    OBVIOUS
  <1>1. 1..k \in SUBSET (1..n) /\ 1..k # {} /\ k \in 1..k
    OBVIOUS
  <1>2. Max(1..k) \in 1..k /\ k <= Max(1..k)
    BY <1>1, MaxOfInterval
  <1>3. Max(1..k) = k
    <2>. DEFINE m == Max(1..k)
    <2>1. m \in 1..k /\ k <= m
      BY <1>2
    <2>. HIDE DEF m
    <2>2. m = k
      BY <2>1
    <2>. QED  BY <2>2 DEF m
  <1>. QED  BY <1>1, <1>3

-----------------------------------------------------------------------------
\* The equation of the fold that makes a number of digits.
NumberFold(g, n, d) ==
  g = [x \in SUBSET (1..n) |-> IF x = {} THEN 0 ELSE g[x \ {Max(x)}] * Radix + d[Max(x)]]

LEMMA NumberIsFold ==
  ASSUME NEW d, NEW n, DOMAIN d = 1..n
  PROVE  NumberOf(d) = (CHOOSE g : NumberFold(g, n, d))[1..n]
  BY DEF NumberOf, FoldLeft, MapThenFoldSet, NumberFold

\* What the assumptions on the constants give.
LEMMA TeamConstants ==
  /\ NThreads \in Nat /\ NThreads > 0 /\ StampLength \in Nat /\ StampLength > 0
  /\ HotLength \in Nat /\ HotLength > 0 /\ LineSpan \in Nat /\ LineSpan > 0
  /\ SearchChunk \in Nat /\ SearchChunk > 0 /\ Radix \in Nat /\ Radix > 1
  /\ Half \in Nat /\ NonceLength \in Nat /\ NonceLength = 2 * Half
  /\ StampLength + HotLength <= Half /\ SaltLength \in Nat /\ SaltLength = Half - HotLength
  /\ MaxChunks \in Nat
  <1>1. /\ NThreads \in Nat /\ NThreads > 0 /\ StampLength \in Nat /\ StampLength > 0
        /\ HotLength \in Nat /\ HotLength > 0 /\ LineSpan \in Nat /\ LineSpan > 0
        /\ SearchChunk \in Nat /\ SearchChunk > 0 /\ Radix \in Nat /\ Radix > 1
        /\ MaxChunks \in Nat /\ NonceLength \in Nat /\ NonceLength = 2 * Half
        /\ StampLength + HotLength <= Half
    BY TeamAssumption, TeamBoundsAssumption
  <1>2. Half \in Nat
    BY <1>1 DEF Half
  <1>. QED  BY <1>1, <1>2 DEF SaltLength

\* The equation of the powers.
IsPower(f) == f = [k \in Nat |-> IF k = 0 THEN 1 ELSE Radix * f[k - 1]]

LEMMA PowerExists == \E f \in [Nat -> Nat] : IsPower(f)
  <1>. DEFINE op == [s \in Nat \X Nat |-> Radix * s[2]]
  <1>1. \A n, v \in Nat : op[<<n, v>>] = Radix * v /\ Radix * v \in Nat
    <2>1. Radix \in Nat
      BY TeamConstants
    <2>. QED  BY <2>1, Products
  <1>2. op \in [Nat \X Nat -> Nat]
    <2>1. \A s \in Nat \X Nat : Radix * s[2] \in Nat
      BY <1>1
    <2>. QED  BY <2>1
  <1>. HIDE DEF op
  <1>3. PICK f \in [Nat -> Nat] : f[0] = 1 /\ \A n \in Nat : f[n + 1] = op[<<n, f[n]>>]
    <2>1. HasFunction(Nat, 1, op)
      <3>1. Recursive(Nat, 1, op)
        BY <1>2 DEF Recursive
      <3>. QED  BY <3>1, NatRecursion
    <2>. QED  BY <2>1 DEF HasFunction
  <1>4. ASSUME NEW k \in Nat PROVE f[k] = IF k = 0 THEN 1 ELSE Radix * f[k - 1]
    <2>1. CASE k = 0
      BY <1>3, <2>1
    <2>2. CASE k # 0
      <3>1. k - 1 \in Nat /\ (k - 1) + 1 = k
        BY <2>2
      <3>2. f[(k - 1) + 1] = op[<<k - 1, f[k - 1]>>] /\ f[k - 1] \in Nat
        BY <1>3, <3>1
      <3>. QED  BY <1>1, <2>2, <3>1, <3>2
    <2>. QED  BY <2>1, <2>2
  <1>. QED  BY <1>3, <1>4 DEF IsPower

\* The powers: each is the radix times the one before.
LEMMA PowerIs ==
  /\ Power[0] = 1
  /\ \A k \in Nat : Power[k] \in Nat /\ Power[k] > 0 /\ Power[k + 1] = Radix * Power[k]
  <1>1. Power = CHOOSE f : IsPower(f)
    BY DEF Power, IsPower
  <1>2. IsPower(Power)
    <2>. HIDE DEF IsPower
    <2>. QED  BY <1>1, PowerExists
  <1>3. Power[0] = 1 /\ \A k \in Nat : Power[k + 1] = Radix * Power[(k + 1) - 1]
    BY <1>2 DEF IsPower
  <1>4. \A k \in Nat : Power[k + 1] = Radix * Power[k]
    <2>1. \A k \in Nat : (k + 1) - 1 = k
      OBVIOUS
    <2>. QED  BY <1>3, <2>1
  <1>. DEFINE P == {k \in Nat : Power[k] \in Nat /\ Power[k] > 0}
  <1>5. 0 \in P
    BY <1>3
  <1>6. ASSUME NEW k \in Nat, k \in P PROVE k + 1 \in P
    <2>1. Radix \in Nat /\ Radix > 0
      BY TeamConstants
    <2>2. Radix * Power[k] \in Nat /\ Radix * Power[k] > 0
      BY <1>6, <2>1, Products
    <2>. QED  BY <1>4, <2>2
  <1>7. Nat \subseteq P
    <2>. HIDE DEF P
    <2>. QED  BY <1>5, <1>6, SetInduction
  <1>. QED  BY <1>3, <1>4, <1>7

\* The numbers of the beginnings of digits.
LEMMA NumberAlong ==
  ASSUME NEW n \in Nat, NEW d \in [1..n -> Nat]
  PROVE  \E f \in [0..n -> Nat] : /\ f[0] = 0 /\ NumberOf(d) = f[n]
                                  /\ \A k \in 1..n : f[k] = f[k - 1] * Radix + d[k]
  <1>. DEFINE op == [p \in Nat \X Nat |-> p[1] * Radix + p[2]]
  <1>0. Radix \in Nat
    BY TeamConstants
  <1>a. \A a, b \in Nat : a * Radix + b \in Nat
    BY <1>0
  <1>1. op \in [Nat \X Nat -> Nat] /\ \A a, b \in Nat : op[<<a, b>>] = a * Radix + b
    BY <1>a
  <1>. HIDE DEF op
  <1>2. PICK h \in [SUBSET (1..n) -> Nat] : \A x \in SUBSET (1..n) :
           h[x] = IF x = {} THEN 0 ELSE op[<<h[x \ {Max(x)}], d[Max(x)]>>]
    <2>1. Foldable(Nat, Nat, op, 0, d, n)
      BY <1>1 DEF Foldable
    <2>2. HasFold(Nat, op, 0, d, n)
      BY ONLY <2>1, FoldExists
    <2>. QED  BY <2>2 DEF HasFold, Folds
  <1>3. NumberFold(h, n, d)
    <2>1. ASSUME NEW x \in SUBSET (1..n)
          PROVE  h[x] = IF x = {} THEN 0 ELSE h[x \ {Max(x)}] * Radix + d[Max(x)]
      <3>1. CASE x = {}
        BY <1>2, <3>1
      <3>2. CASE x # {}
        <4>1. Max(x) \in 1..n
          BY <3>2, MaxOfInterval
        <4>2. d[Max(x)] \in Nat /\ h[x \ {Max(x)}] \in Nat
          BY <1>2, <4>1
        <4>. QED  BY <1>1, <1>2, <3>2, <4>2
      <3>. QED  BY <3>1, <3>2
    <2>2. h = [x \in SUBSET (1..n) |-> h[x]]
      BY <1>2
    <2>. QED  BY <2>1, <2>2 DEF NumberFold
  <1>. DEFINE g == CHOOSE g : NumberFold(g, n, d)
  <1>4. NumberFold(g, n, d)
    BY <1>3
  <1>5. NumberOf(d) = g[1..n]
    BY NumberIsFold
  <1>. HIDE DEF g
  <1>6. \A x \in SUBSET (1..n) :
          g[x] = IF x = {} THEN 0 ELSE g[x \ {Max(x)}] * Radix + d[Max(x)]
    BY <1>4 DEF NumberFold
  <1>. DEFINE f == [k \in 0..n |-> g[1..k]]
  <1>7. f[0] = 0
    <2>1. {} \in SUBSET (1..n) /\ f[0] = g[1..0] /\ 1..0 = {}
      OBVIOUS
    <2>. QED  BY <1>6, <2>1
  <1>8. \A k \in 1..n : f[k] = f[k - 1] * Radix + d[k]
    <2>. SUFFICES ASSUME NEW k \in 1..n PROVE f[k] = f[k - 1] * Radix + d[k]
      OBVIOUS
    <2>1. f[k] = g[1..k] /\ f[k - 1] = g[1..(k - 1)]
      OBVIOUS
    <2>2. /\ 1..k \in SUBSET (1..n) /\ 1..k # {} /\ Max(1..k) = k /\ (1..k) \ {k} = 1..(k - 1)
      BY Beginnings
    <2>. HIDE DEF f
    <2>. QED  BY <1>6, <2>1, <2>2
  <1>9. \A k \in 0..n : f[k] \in Nat
    <2>. DEFINE P == {k \in Nat : k <= n => f[k] \in Nat}
    <2>. HIDE DEF f
    <2>1. 0 \in P
      BY <1>7
    <2>2. ASSUME NEW k \in Nat, k \in P PROVE k + 1 \in P
      <3>. SUFFICES ASSUME k + 1 <= n PROVE f[k + 1] \in Nat
        OBVIOUS
      <3>1. f[k + 1] = f[(k + 1) - 1] * Radix + d[k + 1] /\ (k + 1) - 1 = k
        BY <1>8
      <3>2. f[k] \in Nat /\ d[k + 1] \in Nat
        BY <2>2
      <3>. QED  BY <1>a, <3>1, <3>2
    <2>3. Nat \subseteq P
      <3>. HIDE DEF P
      <3>. QED  BY <2>1, <2>2, SetInduction
    <2>. QED  BY <2>3
  <1>10. f \in [0..n -> Nat] /\ f[n] = g[1..n]
    BY <1>9
  <1>. HIDE DEF f
  <1>. QED  BY <1>5, <1>7, <1>8, <1>10

\* The number of some of the digits.
Part(d, i, j) == NumberOf(SubSeq(d, i, j))

\* Parts depend on their digits only.
LEMMA PartOfDigits ==
  ASSUME NEW n \in Nat, NEW d \in [1..n -> Nat], NEW e \in [1..n -> Nat],
         NEW i \in 1..(n + 1), NEW j \in (i - 1)..n, \A k \in i..j : d[k] = e[k]
  PROVE  Part(d, i, j) = Part(e, i, j)
  <1>1. d \in Seq(Nat) /\ e \in Seq(Nat)
    OBVIOUS
  <1>2. SubSeq(d, i, j) = SubSeq(e, i, j)
    BY <1>1
  <1>. QED  BY <1>2 DEF Part

\* A digit more.
LEMMA PartSteps ==
  ASSUME NEW n \in Nat, NEW d \in [1..n -> Nat], NEW i \in 1..(n + 1), NEW j \in (i - 1)..n
  PROVE  /\ Part(d, i, i - 1) = 0 /\ Part(d, i, j) \in Nat
         /\ j < n => Part(d, i, j + 1) = Part(d, i, j) * Radix + d[j + 1]
  <1>0. d \in Seq(Nat)
    OBVIOUS
  <1>. DEFINE Digits(k) == SubSeq(d, i, k)
  <1>1. ASSUME NEW k \in (i - 1)..n
        PROVE  /\ Digits(k) \in [1..(k - i + 1) -> Nat] /\ k - i + 1 \in Nat
               /\ \A x \in 1..(k - i + 1) : Digits(k)[x] = d[i + x - 1]
    <2>1. Digits(k) = [x \in 1..(k - i + 1) |-> d[i + x - 1]]
      BY <1>0
    <2>2. \A x \in 1..(k - i + 1) : i + x - 1 \in 1..n
      OBVIOUS
    <2>. HIDE DEF Digits
    <2>. QED  BY <2>1, <2>2
  <1>. HIDE DEF Digits
  <1>2. ASSUME NEW k \in (i - 1)..n PROVE Part(d, i, k) \in Nat
    <2>1. \E f \in [0..(k - i + 1) -> Nat] : NumberOf(Digits(k)) = f[k - i + 1]
      BY <1>1, NumberAlong
    <2>2. NumberOf(Digits(k)) \in Nat
      BY <1>1, <2>1
    <2>. QED  BY <2>2 DEF Part, Digits
  <1>3. Part(d, i, i - 1) = 0
    <2>1. (i - 1) - i + 1 = 0 /\ i - 1 \in (i - 1)..n
      OBVIOUS
    <2>2. \E f \in [0..0 -> Nat] : f[0] = 0 /\ NumberOf(Digits(i - 1)) = f[0]
      BY <1>1, <2>1, NumberAlong
    <2>. QED  BY <2>2 DEF Part, Digits
  <1>4. ASSUME j < n PROVE Part(d, i, j + 1) = Part(d, i, j) * Radix + d[j + 1]
    <2>. DEFINE m == j - i + 1
    <2>0. j + 1 \in (i - 1)..n /\ (j + 1) - i + 1 = m + 1 /\ m \in Nat /\ m + 1 \in Nat
      BY <1>4
    <2>1. /\ Digits(j) \in [1..m -> Nat] /\ Digits(j + 1) \in [1..(m + 1) -> Nat]
          /\ \A x \in 1..m : Digits(j)[x] = Digits(j + 1)[x]
          /\ Digits(j + 1)[m + 1] = d[j + 1]
      <3>1. Digits(j) \in [1..m -> Nat] /\ \A x \in 1..m : Digits(j)[x] = d[i + x - 1]
        BY <1>1
      <3>2. Digits(j + 1) \in [1..(m + 1) -> Nat]
            /\ \A x \in 1..(m + 1) : Digits(j + 1)[x] = d[i + x - 1]
        BY <1>1, <2>0
      <3>3. i + (m + 1) - 1 = j + 1 /\ m + 1 \in 1..(m + 1) /\ \A x \in 1..m : x \in 1..(m + 1)
        BY <2>0
      <3>. HIDE DEF m
      <3>. QED  BY <3>1, <3>2, <3>3
    <2>. HIDE DEF m
    <2>2. PICK f \in [0..m -> Nat] :
            /\ f[0] = 0 /\ NumberOf(Digits(j)) = f[m]
            /\ \A k \in 1..m : f[k] = f[k - 1] * Radix + Digits(j)[k]
      BY <2>0, <2>1, NumberAlong
    <2>3. PICK g \in [0..(m + 1) -> Nat] :
            /\ g[0] = 0 /\ NumberOf(Digits(j + 1)) = g[m + 1]
            /\ \A k \in 1..(m + 1) : g[k] = g[k - 1] * Radix + Digits(j + 1)[k]
      BY <2>0, <2>1, NumberAlong
    <2>4. f[m] = g[m]
      <3>. DEFINE P == {k \in Nat : k <= m => f[k] = g[k]}
      <3>1. 0 \in P
        BY <2>2, <2>3
      <3>2. ASSUME NEW k \in Nat, k \in P PROVE k + 1 \in P
        <4>. SUFFICES ASSUME k + 1 <= m PROVE f[k + 1] = g[k + 1]
          OBVIOUS
        <4>1. f[k] = g[k] /\ k + 1 \in 1..m /\ k + 1 \in 1..(m + 1) /\ (k + 1) - 1 = k
          BY <2>0, <3>2
        <4>2. f[k + 1] = f[(k + 1) - 1] * Radix + Digits(j)[k + 1]
          BY <2>2, <4>1
        <4>3. g[k + 1] = g[(k + 1) - 1] * Radix + Digits(j + 1)[k + 1]
          BY <2>3, <4>1
        <4>4. Digits(j)[k + 1] = Digits(j + 1)[k + 1]
          BY <2>1, <4>1
        <4>. QED  BY <4>1, <4>2, <4>3, <4>4
      <3>3. Nat \subseteq P
        <4>. HIDE DEF P
        <4>. QED  BY <3>1, <3>2, SetInduction
      <3>. QED  BY <2>0, <3>3
    <2>5. g[m + 1] = g[m] * Radix + d[j + 1]
      <3>1. (m + 1) - 1 = m /\ m + 1 \in 1..(m + 1)
        BY <2>0
      <3>. QED  BY <2>1, <2>3, <3>1
    <2>. QED  BY <2>2, <2>3, <2>4, <2>5 DEF Part, Digits
  <1>. QED  BY <1>2, <1>3, <1>4

\* Digits followed by one more.
LEMMA Shifted ==
  ASSUME NEW a \in Nat, NEW p \in Nat, NEW b \in Nat, NEW r \in Nat, NEW x \in Nat
  PROVE  (a * p + b) * r + x = a * (r * p) + (b * r + x)
  <1>1. (a * p) * r = a * (r * p)
    OBVIOUS
  <1>2. (a * p + b) * r = (a * p) * r + b * r
    <2>1. \A u \in Nat : (u + b) * r = u * r + b * r
      OBVIOUS
    <2>2. a * p \in Nat
      BY Products
    <2>. QED  BY <2>1, <2>2
  <1>3. (a * p) * r \in Nat /\ b * r \in Nat
    BY Products
  <1>. DEFINE u == (a * p + b) * r  v == (a * p) * r  w == b * r  y == a * (r * p)
  <1>4. u = v + w /\ v = y /\ v \in Nat /\ w \in Nat
    BY <1>1, <1>2, <1>3
  <1>. HIDE DEF u, v, w, y
  <1>5. u + x = y + (w + x)
    BY <1>4
  <1>. QED  BY <1>5 DEF u, v, w, y

\* A number is made of the number of its first digits and that of the others.
LEMMA PartSplit ==
  ASSUME NEW n \in Nat, NEW d \in [1..n -> Nat], NEW i \in 1..(n + 1), NEW m \in (i - 1)..n,
         NEW j \in m..n
  PROVE  Part(d, i, j) = Part(d, i, m) * Power[j - m] + Part(d, m + 1, j)
  <1>. DEFINE A == Part(d, i, m)  B(k) == Part(d, m + 1, m + k)  C(k) == Part(d, i, m + k)
              P == {k \in Nat : m + k <= n => C(k) = A * Power[k] + B(k)}
  <1>0. Radix \in Nat /\ m \in Nat
    BY TeamConstants
  <1>1. A \in Nat /\ B(0) = 0 /\ C(0) = A
    <2>1. A \in Nat
      BY PartSteps
    <2>2. m + 1 \in 1..(n + 1) /\ m \in ((m + 1) - 1)..n /\ (m + 1) - 1 = m /\ m + 0 = m
      BY <1>0
    <2>3. Part(d, m + 1, (m + 1) - 1) = 0
      BY <2>2, PartSteps
    <2>. QED  BY <2>1, <2>2, <2>3
  <1>2. ASSUME NEW k \in Nat, m + k + 1 <= n
        PROVE  /\ B(k) \in Nat /\ B(k + 1) = B(k) * Radix + d[m + k + 1]
               /\ C(k + 1) = C(k) * Radix + d[m + k + 1]
    <2>1. m + 1 \in 1..(n + 1) /\ m + k \in ((m + 1) - 1)..n /\ m + k \in (i - 1)..n
          /\ m + (k + 1) = (m + k) + 1 /\ m + k < n
      BY <1>0, <1>2
    <2>. DEFINE q == m + k
    <2>. HIDE DEF q
    <2>2. /\ Part(d, m + 1, q) \in Nat /\ Part(d, m + 1, q + 1) = Part(d, m + 1, q) * Radix + d[q + 1]
          /\ Part(d, i, q + 1) = Part(d, i, q) * Radix + d[q + 1]
      BY <2>1, PartSteps DEF q
    <2>. QED  BY <2>1, <2>2 DEF q
  <1>. HIDE DEF A, B, C
  <1>3. 0 \in P
    <2>1. A * 1 + 0 = A
      BY <1>1
    <2>. QED  BY <1>1, <2>1, PowerIs
  <1>4. ASSUME NEW k \in Nat, k \in P PROVE k + 1 \in P
    <2>. SUFFICES ASSUME m + (k + 1) <= n PROVE C(k + 1) = A * Power[k + 1] + B(k + 1)
      OBVIOUS
    <2>1. m + k + 1 <= n /\ m + k <= n /\ m + k + 1 \in 1..n
      BY <1>0
    <2>2. C(k) = A * Power[k] + B(k)
      BY <1>4, <2>1
    <2>3. /\ B(k) \in Nat /\ B(k + 1) = B(k) * Radix + d[m + k + 1]
          /\ C(k + 1) = C(k) * Radix + d[m + k + 1]
      BY <1>2, <2>1
    <2>. DEFINE x == d[m + k + 1]
    <2>4. x \in Nat
      BY <2>1
    <2>5. Power[k] \in Nat /\ Power[k + 1] = Radix * Power[k]
      BY PowerIs
    <2>6. (A * Power[k] + B(k)) * Radix + x = A * (Radix * Power[k]) + (B(k) * Radix + x)
      <3>1. A \in Nat /\ B(k) \in Nat /\ Power[k] \in Nat /\ Radix \in Nat
        BY <1>0, <1>1, <2>3, <2>5
      <3>. HIDE DEF x
      <3>. DEFINE b == B(k)  p == Power[k]
      <3>2. b \in Nat /\ p \in Nat
        BY <3>1
      <3>. HIDE DEF b, p
      <3>3. (A * p + b) * Radix + x = A * (Radix * p) + (b * Radix + x)
        BY ONLY <2>4, <3>1, <3>2, Shifted
      <3>. QED  BY <3>3 DEF b, p
    <2>. HIDE DEF x
    <2>. QED  BY <2>2, <2>3, <2>5, <2>6 DEF x
  <1>5. Nat \subseteq P
    <2>. HIDE DEF P
    <2>. QED  BY <1>3, <1>4, SetInduction
  <1>6. j - m \in Nat /\ m + (j - m) = j /\ m + (j - m) <= n
    BY <1>0
  <1>7. C(j - m) = A * Power[j - m] + B(j - m)
    BY <1>5, <1>6
  <1>. QED  BY <1>6, <1>7 DEF A, B, C

\* The first digit of a number.
LEMMA PartHead ==
  ASSUME NEW n \in Nat, NEW d \in [1..n -> Nat], NEW i \in 1..n, NEW j \in i..n
  PROVE  Part(d, i, j) = d[i] * Power[j - i] + Part(d, i + 1, j)
  <1>1. i \in 1..(n + 1) /\ i \in (i - 1)..n /\ i - 1 \in (i - 1)..n /\ (i - 1) + 1 = i /\ i - 1 < n
        /\ d[i] \in Nat
    OBVIOUS
  <1>2. Part(d, i, j) = Part(d, i, i) * Power[j - i] + Part(d, i + 1, j)
    BY <1>1, PartSplit
  <1>3. Part(d, i, i - 1) = 0 /\ Part(d, i, (i - 1) + 1) = Part(d, i, i - 1) * Radix + d[(i - 1) + 1]
    BY <1>1, PartSteps
  <1>4. 0 * Radix = 0
    BY TeamConstants
  <1>5. Part(d, i, i) = d[i]
    BY <1>1, <1>3, <1>4
  <1>. QED  BY <1>2, <1>5

\* A number of k digits is less than the k-th power.
LEMMA PartBound ==
  ASSUME NEW n \in Nat, NEW d \in [1..n -> 0..(Radix - 1)], NEW i \in 1..(n + 1), NEW j \in (i - 1)..n
  PROVE  Part(d, i, j) < Power[j - i + 1]
  <1>. DEFINE V(k) == Part(d, i, i - 1 + k)
              P == {k \in Nat : i - 1 + k <= n => V(k) \in Nat /\ V(k) < Power[k]}
  <1>0. Radix \in Nat /\ Radix > 1 /\ d \in [1..n -> Nat]
    BY TeamConstants
  <1>1. V(0) = 0 /\ \A k \in Nat : i - 1 + k + 1 <= n =>
          V(k) \in Nat /\ V(k + 1) \in Nat /\ V(k + 1) = V(k) * Radix + d[i + k]
    <2>1. Part(d, i, i - 1) = 0 /\ i - 1 + 0 = i - 1
      BY <1>0, PartSteps
    <2>2. ASSUME NEW k \in Nat, i - 1 + k + 1 <= n
          PROVE  V(k) \in Nat /\ V(k + 1) \in Nat /\ V(k + 1) = V(k) * Radix + d[i + k]
      <3>1. /\ i - 1 + k \in (i - 1)..n /\ i - 1 + (k + 1) = (i - 1 + k) + 1 /\ i - 1 + k < n
            /\ (i - 1 + k) + 1 = i + k /\ i - 1 + (k + 1) \in (i - 1)..n
        BY <2>2
      <3>. DEFINE q == i - 1 + k
      <3>. HIDE DEF q
      <3>2. /\ Part(d, i, q) \in Nat /\ Part(d, i, q + 1) = Part(d, i, q) * Radix + d[q + 1]
            /\ Part(d, i, q + 1) \in Nat
        BY <1>0, <3>1, PartSteps DEF q
      <3>. QED  BY <3>1, <3>2 DEF q
    <2>. QED  BY <2>1, <2>2
  <1>. HIDE DEF V
  <1>2. 0 \in P
    BY <1>1, PowerIs
  <1>3. ASSUME NEW k \in Nat, k \in P PROVE k + 1 \in P
    <2>. SUFFICES ASSUME i - 1 + (k + 1) <= n PROVE V(k + 1) \in Nat /\ V(k + 1) < Power[k + 1]
      OBVIOUS
    <2>1. i - 1 + k + 1 <= n /\ i - 1 + k <= n /\ i + k \in 1..n
      OBVIOUS
    <2>2. V(k) \in Nat /\ V(k) < Power[k] /\ V(k + 1) = V(k) * Radix + d[i + k] /\ V(k + 1) \in Nat
      BY <1>1, <1>3, <2>1
    <2>3. d[i + k] \in Nat /\ d[i + k] < Radix
      BY <1>0, <2>1
    <2>4. \A a, p, r, x \in Nat : a < p /\ x < r => a * r + x < r * p
      <3>. SUFFICES ASSUME NEW a \in Nat, NEW p \in Nat, NEW r \in Nat, NEW x \in Nat, a < p, x < r
                    PROVE  a * r + x < r * p
        OBVIOUS
      <3>1. PICK c \in Nat : p = a + 1 + c
        <4>1. p - a - 1 \in Nat /\ p = a + 1 + (p - a - 1)
          OBVIOUS
        <4>. QED  BY <4>1
      <3>2. r * p = a * r + r + r * c
        BY <3>1
      <3>3. a * r \in Nat /\ r * c \in Nat
        BY Products
      <3>. QED  BY <3>2, <3>3
    <2>5. Power[k] \in Nat /\ Power[k + 1] = Radix * Power[k]
      BY PowerIs
    <2>. QED  BY <1>0, <2>2, <2>3, <2>4, <2>5
  <1>4. Nat \subseteq P
    <2>. HIDE DEF P
    <2>. QED  BY <1>2, <1>3, SetInduction
  <1>5. j - i + 1 \in Nat /\ i - 1 + (j - i + 1) = j
    OBVIOUS
  <1>6. V(j - i + 1) < Power[j - i + 1]
    <2>. DEFINE k == j - i + 1
    <2>1. k \in Nat /\ i - 1 + k <= n
      BY <1>5
    <2>. HIDE DEF k
    <2>. QED  BY <1>4, <2>1 DEF k
  <1>. QED  BY <1>5, <1>6 DEF V

\* The nonces.
Nonces == [1..NonceLength -> 0..(Radix - 1)]

\* The digits from the last on, and what becomes of one of them.
DigitPlaces == [x \in 1..NonceLength |-> NonceLength + 1 - x]
AddDigit(st, i) ==
  [n |-> [st.n EXCEPT ![i] = (st.carry + st.n[i]) % Radix],
   carry |-> (st.carry + st.n[i]) \div Radix]

\* The equation of the fold that adds.
AddFold(g, c, a) ==
  g = [x \in SUBSET (1..NonceLength) |->
         IF x = {} THEN [n |-> c, carry |-> a]
         ELSE AddDigit(g[x \ {Max(x)}], DigitPlaces[Max(x)])]

\* What is added, as the library defines the fold.
LEMMA AddIsFold ==
  ASSUME NEW c, NEW a
  PROVE  AddBe(c, a) = (CHOOSE g : AddFold(g, c, a))[1..NonceLength].n
  BY DEF AddBe, FoldLeft, MapThenFoldSet, AddFold, AddDigit, DigitPlaces

\* The states of an addition.
Additions == [n : Nonces, carry : Nat]

\* A digit stays one, and the carry a number.
LEMMA AddDigitTyped ==
  ASSUME NEW st \in Additions, NEW i \in 1..NonceLength
  PROVE  /\ AddDigit(st, i) \in Additions
         /\ AddDigit(st, i).carry * Radix + AddDigit(st, i).n[i] = st.carry + st.n[i]
         /\ \A x \in 1..NonceLength : x # i => AddDigit(st, i).n[x] = st.n[x]
         /\ st.carry = 0 => AddDigit(st, i) = st
  <1>. DEFINE c == st.carry + st.n[i]
  <1>0. Radix \in Nat /\ Radix > 1
    BY TeamConstants
  <1>1. /\ st.n \in Nonces /\ st.carry \in Nat /\ st.n[i] \in 0..(Radix - 1) /\ c \in Nat
        /\ st = [n |-> st.n, carry |-> st.carry]
    <2>1. st.n \in Nonces /\ st.carry \in Nat /\ st = [n |-> st.n, carry |-> st.carry]
      BY DEF Additions
    <2>2. st.n[i] \in 0..(Radix - 1)
      BY <2>1 DEF Nonces
    <2>. QED  BY <1>0, <2>1, <2>2
  <1>2. c % Radix \in 0..(Radix - 1) /\ c \div Radix \in Nat /\ (c \div Radix) * Radix + (c % Radix) = c
    <2>. HIDE DEF c
    <2>1. c \div Radix \in Nat /\ c % Radix \in Nat /\ c % Radix < Radix
          /\ c = Radix * (c \div Radix) + (c % Radix)
      BY <1>0, <1>1, Division
    <2>2. Radix * (c \div Radix) = (c \div Radix) * Radix
      BY <1>0, <2>1
    <2>. QED  BY <1>0, <1>1, <2>1, <2>2
  <1>3. st.carry = 0 => c % Radix = st.n[i] /\ c \div Radix = 0
    <2>1. \A e \in 0..(Radix - 1) : (0 + e) % Radix = e /\ (0 + e) \div Radix = 0
      BY <1>0
    <2>. QED  BY <1>1, <2>1
  <1>4. AddDigit(st, i) = [n |-> [st.n EXCEPT ![i] = c % Radix], carry |-> c \div Radix]
    BY DEF AddDigit
  <1>. DEFINE q == c % Radix  z == c \div Radix
  <1>5. q \in 0..(Radix - 1) /\ z \in Nat /\ z * Radix + q = c /\ (st.carry = 0 => q = st.n[i] /\ z = 0)
        /\ AddDigit(st, i) = [n |-> [st.n EXCEPT ![i] = q], carry |-> z]
    <2>. HIDE DEF c
    <2>1. q \in 0..(Radix - 1) /\ z \in Nat /\ z * Radix + q = c
      BY <1>2
    <2>2. AddDigit(st, i) = [n |-> [st.n EXCEPT ![i] = q], carry |-> z]
      BY <1>4
    <2>3. st.carry = 0 => q = st.n[i] /\ z = 0
      BY <1>3
    <2>. QED  BY ONLY <2>1, <2>2, <2>3
  <1>. HIDE DEF q, z, c
  <1>6. [st.n EXCEPT ![i] = q] \in Nonces
    <2>1. st.n \in [1..NonceLength -> 0..(Radix - 1)]
      BY <1>1 DEF Nonces
    <2>. QED  BY <1>5, <2>1 DEF Nonces
  <1>7. AddDigit(st, i) \in Additions
    BY <1>5, <1>6 DEF Additions
  <1>8. AddDigit(st, i).carry * Radix + AddDigit(st, i).n[i] = c
    <2>1. AddDigit(st, i).n[i] = q /\ AddDigit(st, i).carry = z
      <3>1. st.n \in [1..NonceLength -> 0..(Radix - 1)]
        BY <1>1 DEF Nonces
      <3>2. AddDigit(st, i).n = [st.n EXCEPT ![i] = q] /\ AddDigit(st, i).carry = z
        BY <1>5
      <3>3. [st.n EXCEPT ![i] = q][i] = q
        BY <3>1
      <3>. QED  BY <3>2, <3>3
    <2>. QED  BY <1>5, <2>1
  <1>9. \A x \in 1..NonceLength : x # i => AddDigit(st, i).n[x] = st.n[x]
    <2>1. st.n \in [1..NonceLength -> 0..(Radix - 1)]
      BY <1>1 DEF Nonces
    <2>2. AddDigit(st, i).n = [st.n EXCEPT ![i] = q]
      BY <1>5
    <2>. QED  BY <2>1, <2>2
  <1>10. st.carry = 0 => AddDigit(st, i) = st
    <2>. SUFFICES ASSUME st.carry = 0 PROVE AddDigit(st, i) = st
      OBVIOUS
    <2>1. [st.n EXCEPT ![i] = st.n[i]] = st.n
      BY <1>1 DEF Nonces
    <2>. QED  BY <1>1, <1>5, <2>1
  <1>. QED  BY <1>7, <1>8, <1>9, <1>10 DEF c

\* An addition goes through the digits from the last on.
LEMMA AddAlong ==
  ASSUME NEW c \in Nonces, NEW a \in Nat
  PROVE  \E f \in [0..NonceLength -> Additions] :
           /\ f[0] = [n |-> c, carry |-> a] /\ AddBe(c, a) = f[NonceLength].n
           /\ \A k \in 1..NonceLength : f[k] = AddDigit(f[k - 1], NonceLength + 1 - k)
  <1>. DEFINE N == NonceLength  s == [n |-> c, carry |-> a]
              op == [p \in Additions \X (1..N) |-> AddDigit(p[1], p[2])]
  <1>0. N \in Nat /\ s \in Additions
    BY TeamConstants DEF Additions
  <1>1. op \in [Additions \X (1..N) -> Additions]
        /\ \A st \in Additions, i \in 1..N : op[<<st, i>>] = AddDigit(st, i)
    <2>1. \A st \in Additions, i \in 1..N : AddDigit(st, i) \in Additions
      BY AddDigitTyped
    <2>. QED  BY <2>1
  <1>2. \A x \in 1..N : DigitPlaces[x] \in 1..N /\ DigitPlaces[x] = N + 1 - x
    BY <1>0 DEF DigitPlaces
  <1>. HIDE DEF op, N, s
  <1>3. HasFold(Additions, op, s, DigitPlaces, N)
    <2>1. Foldable(Additions, 1..N, op, s, DigitPlaces, N)
      BY <1>0, <1>1, <1>2 DEF Foldable
    <2>. QED  BY ONLY <2>1, FoldExists
  <1>4. PICK h \in [SUBSET (1..N) -> Additions] : \A x \in SUBSET (1..N) :
           h[x] = IF x = {} THEN s ELSE op[<<h[x \ {Max(x)}], DigitPlaces[Max(x)]>>]
    BY ONLY <1>3 DEF HasFold, Folds
  <1>5. \E g : AddFold(g, c, a)
    <2>1. ASSUME NEW x \in SUBSET (1..N)
          PROVE  h[x] = IF x = {} THEN s ELSE AddDigit(h[x \ {Max(x)}], DigitPlaces[Max(x)])
      <3>1. CASE x = {}
        BY <1>4, <3>1
      <3>2. CASE x # {}
        <4>1. Max(x) \in 1..N
          BY <1>0, <3>2, MaxOfInterval
        <4>2. DigitPlaces[Max(x)] \in 1..N /\ h[x \ {Max(x)}] \in Additions
          BY <1>2, <1>4, <4>1
        <4>. QED  BY <1>1, <1>4, <3>2, <4>2
      <3>. QED  BY <3>1, <3>2
    <2>2. h = [x \in SUBSET (1..N) |-> h[x]]
      BY <1>4
    <2>3. AddFold(h, c, a)
      BY <2>1, <2>2 DEF AddFold, N, s
    <2>. QED  BY <2>3
  <1>. DEFINE g == CHOOSE g : AddFold(g, c, a)
  <1>6. AddFold(g, c, a)
    BY <1>5
  <1>7. AddBe(c, a) = g[1..N].n
    BY AddIsFold DEF N
  <1>. HIDE DEF g
  <1>8. \A x \in SUBSET (1..N) :
          g[x] = IF x = {} THEN s ELSE AddDigit(g[x \ {Max(x)}], DigitPlaces[Max(x)])
    BY <1>6 DEF AddFold, N, s
  <1>. DEFINE f == [k \in 0..N |-> g[1..k]]
  <1>9. f[0] = s
    <2>1. {} \in SUBSET (1..N) /\ f[0] = g[1..0] /\ 1..0 = {}
      BY <1>0
    <2>. QED  BY <1>8, <2>1
  <1>10. \A k \in 1..N : f[k] = AddDigit(f[k - 1], N + 1 - k)
    <2>. SUFFICES ASSUME NEW k \in 1..N PROVE f[k] = AddDigit(f[k - 1], N + 1 - k)
      OBVIOUS
    <2>1. f[k] = g[1..k] /\ f[k - 1] = g[1..(k - 1)]
      BY <1>0
    <2>2. /\ 1..k \in SUBSET (1..N) /\ 1..k # {} /\ Max(1..k) = k /\ (1..k) \ {k} = 1..(k - 1)
      BY <1>0, Beginnings
    <2>3. DigitPlaces[k] = N + 1 - k
      BY <1>2
    <2>. DEFINE y == 1..k
    <2>4. y \in SUBSET (1..N) /\ y # {} /\ Max(y) = k /\ y \ {k} = 1..(k - 1)
      BY <2>2
    <2>. HIDE DEF f, y
    <2>5. g[y] = AddDigit(g[1..(k - 1)], N + 1 - k)
      BY ONLY <1>8, <2>3, <2>4
    <2>. QED  BY <2>1, <2>5 DEF y
  <1>11. \A k \in 0..N : f[k] \in Additions
    <2>. DEFINE P == {k \in Nat : k <= N => f[k] \in Additions}
    <2>. HIDE DEF f
    <2>1. 0 \in P
      BY <1>0, <1>9
    <2>2. ASSUME NEW k \in Nat, k \in P PROVE k + 1 \in P
      <3>. SUFFICES ASSUME k + 1 <= N PROVE f[k + 1] \in Additions
        OBVIOUS
      <3>1. f[k + 1] = AddDigit(f[(k + 1) - 1], N + 1 - (k + 1)) /\ (k + 1) - 1 = k
            /\ N + 1 - (k + 1) \in 1..N
        BY <1>0, <1>10
      <3>2. f[k] \in Additions
        BY <1>0, <2>2
      <3>. QED  BY <3>1, <3>2, AddDigitTyped DEF N
    <2>3. Nat \subseteq P
      <3>. HIDE DEF P
      <3>. QED  BY <2>1, <2>2, SetInduction
    <2>. QED  BY <1>0, <2>3
  <1>12. f \in [0..N -> Additions] /\ f[N] = g[1..N]
    BY <1>0, <1>11
  <1>. HIDE DEF f
  <1>. QED  BY <1>7, <1>9, <1>10, <1>12 DEF N, s

\* One digit of an addition, with p the power it stands for.
LEMMA Carried ==
  ASSUME NEW p \in Nat, NEW r \in Nat, NEW carry \in Nat, NEW x \in Nat, NEW y \in Nat,
         NEW z \in Nat, NEW w \in Nat, NEW v \in Nat, NEW a \in Nat,
         z * r + y = carry + x, w + carry * p = v + a
  PROVE  (y * p + w) + z * (r * p) = (x * p + v) + a
  <1>1. z * (r * p) = (z * r) * p
    OBVIOUS
  <1>2. (z * r) * p + y * p = carry * p + x * p
    <2>1. \A b \in Nat : (b + y) * p = b * p + y * p
      OBVIOUS
    <2>2. z * r \in Nat
      BY Products
    <2>3. (z * r + y) * p = (z * r) * p + y * p
      BY <2>1, <2>2
    <2>4. (carry + x) * p = carry * p + x * p
      OBVIOUS
    <2>. QED  BY <2>3, <2>4
  <1>3. (z * r) * p \in Nat /\ y * p \in Nat /\ carry * p \in Nat /\ x * p \in Nat
    <2>1. z * r \in Nat
      BY Products
    <2>. QED  BY <2>1, Products
  <1>. DEFINE A == (z * r) * p  B == y * p  C == carry * p  D == x * p  E == z * (r * p)
  <1>4. /\ A \in Nat /\ B \in Nat /\ C \in Nat /\ D \in Nat /\ E = A /\ A + B = C + D
        /\ w + C = v + a
    BY <1>1, <1>2, <1>3
  <1>. HIDE DEF A, B, C, D, E
  <1>5. (B + w) + E = (D + v) + a
    BY <1>4
  <1>. QED  BY <1>5 DEF B, D, E

\* The digits a nonce keeps free for its counter.
Kept == NonceLength - HotLength

\* Adding to the counter of a nonce stays in it.
LEMMA AddBeIs ==
  ASSUME NEW c \in Nonces, NEW a \in Nat,
         Part(c, Kept + 1, NonceLength) + a < Power[HotLength]
  PROVE  /\ AddBe(c, a) \in Nonces /\ \A i \in 1..Kept : AddBe(c, a)[i] = c[i]
         /\ Part(AddBe(c, a), Kept + 1, NonceLength) = Part(c, Kept + 1, NonceLength) + a
  <1>. DEFINE N == NonceLength  h == HotLength
  <1>0. /\ N \in Nat /\ h \in Nat /\ h > 0 /\ h < N /\ Kept = N - h /\ Radix \in Nat
        /\ \A e \in Nonces : e \in [1..N -> 0..(Radix - 1)] /\ e \in [1..N -> Nat]
    BY TeamConstants DEF Kept, Nonces
  <1>1. PICK f \in [0..N -> Additions] :
           /\ f[0] = [n |-> c, carry |-> a] /\ AddBe(c, a) = f[N].n
           /\ \A k \in 1..N : f[k] = AddDigit(f[k - 1], N + 1 - k)
    BY AddAlong
  <1>. HIDE DEF N, h
  <1>2. \A k \in 0..N : f[k].n \in Nonces /\ f[k].carry \in Nat
    BY <1>1 DEF Additions
  <1>. DEFINE Sum(k) == Part(f[k].n, N - k + 1, N) + f[k].carry * Power[k]
                          = Part(c, N - k + 1, N) + a
              Ahead(k) == \A i \in 1..(N - k) : f[k].n[i] = c[i]
              Over(k) == k >= h => f[k].carry = 0 /\ \A i \in 1..(N - h) : f[k].n[i] = c[i]
              P == {k \in Nat : k <= N => Sum(k) /\ Ahead(k) /\ Over(k)}
  <1>3. 0 \in P
    <2>1. f[0].n = c /\ f[0].carry = a
      BY <1>1
    <2>2. N + 1 \in 1..(N + 1) /\ N \in ((N + 1) - 1)..N /\ N - 0 + 1 = N + 1 /\ (N + 1) - 1 = N
      BY <1>0
    <2>3. Part(c, N + 1, N) = 0
      BY <1>0, <2>2, PartSteps
    <2>4. a * 1 = a
      OBVIOUS
    <2>5. Sum(0)
      BY <2>1, <2>2, <2>3, <2>4, PowerIs
    <2>6. Ahead(0) /\ Over(0)
      BY <1>0, <2>1
    <2>. HIDE DEF Sum, Ahead, Over
    <2>. QED  BY <2>5, <2>6
  <1>4. ASSUME NEW k \in Nat, k \in P PROVE k + 1 \in P
    <2>. SUFFICES ASSUME k + 1 <= N PROVE Sum(k + 1) /\ Ahead(k + 1) /\ Over(k + 1)
      <3>. HIDE DEF Sum, Ahead, Over
      <3>. QED  OBVIOUS
    <2>. DEFINE i == N - k  st == f[k]  nx == f[k + 1]
    <2>1. Sum(k) /\ Ahead(k) /\ Over(k)
      <3>. HIDE DEF Sum, Ahead, Over
      <3>. QED  BY <1>0, <1>4
    <2>2. /\ i \in 1..N /\ i + 1 = N - k + 1 /\ N - (k + 1) + 1 = i /\ N + 1 - (k + 1) = i
          /\ i + 1 \in 1..(N + 1) /\ N \in i..N /\ N - i = k /\ k + 1 \in 1..N /\ (k + 1) - 1 = k
          /\ N \in ((i + 1) - 1)..N /\ k \in 0..N /\ k + 1 \in 0..N
      BY <1>0
    <2>3. nx = AddDigit(st, i) /\ st \in Additions
      BY <1>1, <2>2
    <2>. HIDE DEF i, st, nx
    <2>4. /\ nx.carry * Radix + nx.n[i] = st.carry + st.n[i]
          /\ \A x \in 1..N : x # i => nx.n[x] = st.n[x]
          /\ st.carry = 0 => nx = st
      BY <2>2, <2>3, AddDigitTyped DEF N
    <2>5. /\ st.n \in Nonces /\ st.carry \in Nat /\ nx.n \in Nonces /\ nx.carry \in Nat
          /\ st.n \in [1..N -> Nat] /\ nx.n \in [1..N -> Nat] /\ c \in [1..N -> Nat]
      BY <1>0, <1>2, <2>2 DEF st, nx
    <2>6. st.n[i] = c[i] /\ \A x \in 1..i : st.n[x] = c[x]
      <3>1. Ahead(k)
        BY ONLY <2>1
      <3>2. \A x \in 1..(N - k) : st.n[x] = c[x]
        BY ONLY <3>1 DEF st
      <3>3. N - k = i /\ i \in 1..i
        BY <2>2 DEF i
      <3>. QED  BY ONLY <3>2, <3>3
    <2>7. Part(nx.n, i + 1, N) = Part(st.n, i + 1, N)
      <3>1. \A x \in (i + 1)..N : nx.n[x] = st.n[x]
        <4>1. \A x \in (i + 1)..N : x \in 1..N /\ x # i
          BY <1>0, <2>2
        <4>. QED  BY <2>4, <4>1
      <3>. QED  BY <1>0, <2>2, <2>5, <3>1, PartOfDigits
    <2>8. /\ Part(nx.n, i, N) = nx.n[i] * Power[k] + Part(nx.n, i + 1, N)
          /\ Part(c, i, N) = c[i] * Power[k] + Part(c, i + 1, N)
      BY <1>0, <2>2, <2>5, PartHead
    <2>9. Part(st.n, i + 1, N) \in Nat /\ Part(c, i + 1, N) \in Nat
      BY <1>0, <2>2, <2>5, PartSteps
    <2>10. Part(st.n, i + 1, N) + st.carry * Power[k] = Part(c, i + 1, N) + a
      BY <2>1, <2>2 DEF st
    <2>11. Sum(k + 1)
      <3>. DEFINE p == Power[k]  x == c[i]  y == nx.n[i]  z == nx.carry
                  w == Part(st.n, i + 1, N)  v == Part(c, i + 1, N)  cr == st.carry
      <3>1. /\ p \in Nat /\ Radix \in Nat /\ cr \in Nat /\ x \in Nat /\ y \in Nat /\ z \in Nat
            /\ w \in Nat /\ v \in Nat
        BY <1>0, <2>2, <2>5, <2>9, PowerIs
      <3>2. z * Radix + y = cr + x /\ w + cr * p = v + a
        BY <2>4, <2>6, <2>10
      <3>3. (y * p + w) + z * (Radix * p) = (x * p + v) + a
        <4>. HIDE DEF p, x, y, z, w, v, cr
        <4>. QED  BY ONLY <3>1, <3>2, a \in Nat, Carried
      <3>4. Part(nx.n, i, N) = y * p + w /\ Part(c, i, N) = x * p + v /\ Power[k + 1] = Radix * p
        BY <2>7, <2>8, PowerIs
      <3>5. Part(nx.n, i, N) + nx.carry * Power[k + 1] = Part(c, i, N) + a
        <4>1. nx.carry = z
          OBVIOUS
        <4>. HIDE DEF p, x, y, z, w, v, cr
        <4>. QED  BY ONLY <3>3, <3>4, <4>1
      <3>. QED  BY <2>2, <3>5 DEF nx
    <2>12. Ahead(k + 1)
      <3>1. \A x \in 1..(i - 1) : nx.n[x] = c[x]
        BY <2>2, <2>4, <2>6
      <3>. QED  BY <2>2, <3>1 DEF nx, i
    <2>13. Over(k + 1)
      <3>. SUFFICES ASSUME k + 1 >= h PROVE nx.carry = 0 /\ \A x \in 1..(N - h) : nx.n[x] = c[x]
        BY DEF nx
      <3>1. CASE k >= h
        BY <2>1, <2>4, <3>1 DEF st
      <3>2. CASE k + 1 = h
        <4>1. \A x \in 1..(N - h) : nx.n[x] = c[x]
          BY <2>12, <3>2 DEF nx
        <4>2. Part(nx.n, i, N) + nx.carry * Power[h] = Part(c, i, N) + a
          BY <2>2, <2>11, <3>2 DEF nx
        <4>3. Kept + 1 = i
          BY <1>0, <3>2 DEF i
        <4>4. Part(c, i, N) + a < Power[h]
          BY <4>3 DEF N, h
        <4>5. Part(nx.n, i, N) \in Nat /\ Part(c, i, N) \in Nat /\ Power[h] \in Nat
          <5>1. i \in 1..(N + 1) /\ N \in (i - 1)..N
            BY <2>2
          <5>. QED  BY <1>0, <2>5, <5>1, PartSteps, PowerIs
        <4>6. nx.carry = 0
          <5>. DEFINE z == nx.carry  p == Power[h]  u == Part(nx.n, i, N)
          <5>1. z \in Nat /\ p \in Nat /\ u \in Nat /\ u + z * p < p
            BY <2>5, <4>2, <4>4, <4>5
          <5>. HIDE DEF z, p, u
          <5>2. z = 0
            <6>. SUFFICES ASSUME z # 0 PROVE FALSE
              OBVIOUS
            <6>1. z - 1 \in Nat /\ z * p = p + (z - 1) * p
              BY <5>1
            <6>2. (z - 1) * p \in Nat
              BY <5>1, <6>1, Products
            <6>. QED  BY <5>1, <6>1, <6>2
          <5>. QED  BY <5>2 DEF z
        <4>. QED  BY <4>1, <4>6
      <3>. QED  BY <1>0, <3>1, <3>2
    <2>. QED  BY <2>11, <2>12, <2>13
  <1>5. Nat \subseteq P
    <2>. HIDE DEF P
    <2>. QED  BY <1>3, <1>4, SetInduction
  <1>6. /\ \A i \in 1..(N - h) : f[N].n[i] = c[i]
        /\ f[N].n \in Nonces
    <2>1. Over(N)
      <3>. HIDE DEF Sum, Ahead, Over
      <3>. QED  BY <1>0, <1>5
    <2>. QED  BY <1>0, <1>2, <2>1
  <1>7. Sum(h) /\ Over(h)
    <2>. HIDE DEF Sum, Ahead, Over
    <2>. QED  BY <1>0, <1>5
  <1>8. f[N].n = f[h].n
    <2>. DEFINE Q == {k \in Nat : h + k <= N => f[h + k] = f[h]}
    <2>1. 0 \in Q
      BY <1>0
    <2>2. ASSUME NEW k \in Nat, k \in Q PROVE k + 1 \in Q
      <3>. SUFFICES ASSUME h + (k + 1) <= N PROVE f[h + (k + 1)] = f[h]
        OBVIOUS
      <3>1. f[h + k] = f[h] /\ f[h].carry = 0
        <4>1. h + k <= N
          BY <1>0
        <4>. HIDE DEF Sum
        <4>. QED  BY <1>0, <1>7, <2>2, <4>1
      <3>2. f[h + (k + 1)] = AddDigit(f[h + k], N + 1 - (h + (k + 1)))
            /\ N + 1 - (h + (k + 1)) \in 1..N /\ f[h + k] \in Additions
        <4>1. h + (k + 1) \in 1..N /\ (h + (k + 1)) - 1 = h + k /\ h + k \in 0..N
          BY <1>0
        <4>2. f[h + (k + 1)] = AddDigit(f[(h + (k + 1)) - 1], N + 1 - (h + (k + 1))) /\ f[h + k] \in Additions
          <5>. DEFINE x == h + (k + 1)
          <5>1. x \in 1..N /\ f[h + k] \in Additions
            BY <4>1
          <5>. HIDE DEF x
          <5>2. f[x] = AddDigit(f[x - 1], N + 1 - x)
            BY ONLY <1>1, <5>1
          <5>. QED  BY <5>1, <5>2 DEF x
        <4>3. N + 1 - (h + (k + 1)) \in 1..N
          BY <1>0, <4>1
        <4>. QED  BY ONLY <4>1, <4>2, <4>3
      <3>. QED  BY <3>1, <3>2, AddDigitTyped DEF N
    <2>3. Nat \subseteq Q
      <3>. HIDE DEF Q
      <3>. QED  BY <2>1, <2>2, SetInduction
    <2>4. N - h \in Nat /\ h + (N - h) = N
      BY <1>0
    <2>5. N - h \in Q
      BY <2>3, <2>4
    <2>6. f[h + (N - h)] = f[h]
      BY <1>0, <2>4, <2>5
    <2>. QED  BY <2>4, <2>6
  <1>9. Part(f[N].n, Kept + 1, N) = Part(c, Kept + 1, N) + a
    <2>1. Part(f[h].n, N - h + 1, N) + f[h].carry * Power[h] = Part(c, N - h + 1, N) + a /\ f[h].carry = 0
      BY <1>0, <1>7
    <2>2. N - h + 1 \in 1..(N + 1) /\ N \in ((N - h + 1) - 1)..N /\ f[h].n \in [1..N -> Nat]
          /\ Kept + 1 = N - h + 1
      BY <1>0, <1>2
    <2>3. Part(f[h].n, N - h + 1, N) \in Nat /\ Power[h] \in Nat
      BY <1>0, <2>2, PartSteps, PowerIs
    <2>4. 0 * Power[h] = 0
      BY <2>3
    <2>. QED  BY <1>8, <2>1, <2>2, <2>3, <2>4
  <1>. QED  BY <1>0, <1>1, <1>6, <1>9 DEF N, h

\* The whole of a nonce.
LEMMA WholeNonce ==
  ASSUME NEW c \in Nonces
  PROVE  /\ c \in [1..NonceLength -> Nat] /\ c \in Seq(Nat) /\ NumberOf(c) \in Nat
         /\ NumberOf(c) = Part(c, 1, Kept) * Power[HotLength] + Part(c, Kept + 1, NonceLength)
         /\ NumberOf(c) = Part(c, 1, Half) * Power[Half] + Part(c, Half + 1, NonceLength)
         /\ Part(c, 1, Kept) \in Nat /\ Part(c, Kept + 1, NonceLength) \in Nat
         /\ Part(c, 1, Half) \in Nat /\ Part(c, Half + 1, NonceLength) \in Nat
  <1>. DEFINE N == NonceLength
  <1>0. /\ N \in Nat /\ Half \in 0..N /\ Kept \in 0..N /\ N - Half = Half /\ N - Kept = HotLength
        /\ c \in [1..N -> Nat] /\ c \in [1..N -> 0..(Radix - 1)]
    BY TeamConstants DEF Kept, Nonces
  <1>. HIDE DEF N
  <1>1. c \in Seq(Nat) /\ SubSeq(c, 1, N) = c
    BY <1>0
  <1>2. NumberOf(c) = Part(c, 1, N)
    BY <1>1 DEF Part
  <1>3. 1 \in 1..(N + 1) /\ N \in (1 - 1)..N
    BY <1>0
  <1>4. ASSUME NEW m \in 0..N
        PROVE  Part(c, 1, N) = Part(c, 1, m) * Power[N - m] + Part(c, m + 1, N)
               /\ Part(c, 1, m) \in Nat /\ Part(c, m + 1, N) \in Nat
    <2>1. m \in (1 - 1)..N /\ N \in m..N /\ m + 1 \in 1..(N + 1) /\ N \in ((m + 1) - 1)..N
      BY <1>0
    <2>. QED  BY <1>0, <1>3, <2>1, PartSplit, PartSteps
  <1>5. Part(c, 1, N) \in Nat
    BY <1>0, <1>3, PartSteps
  <1>. QED  BY <1>0, <1>1, <1>2, <1>4, <1>5 DEF N

\* Digits that are all 0.
LEMMA ZeroPart ==
  ASSUME NEW n \in Nat, NEW d \in [1..n -> Nat], NEW i \in 1..(n + 1), NEW j \in (i - 1)..n,
         \A k \in i..j : d[k] = 0
  PROVE  Part(d, i, j) = 0
  <1>. DEFINE P == {k \in Nat : i - 1 + k <= j => Part(d, i, i - 1 + k) = 0}
  <1>1. 0 \in P
    <2>1. i - 1 + 0 = i - 1
      OBVIOUS
    <2>2. Part(d, i, i - 1) = 0
      BY PartSteps
    <2>. QED  BY <2>1, <2>2
  <1>2. ASSUME NEW k \in Nat, k \in P PROVE k + 1 \in P
    <2>. SUFFICES ASSUME i - 1 + (k + 1) <= j PROVE Part(d, i, i - 1 + (k + 1)) = 0
      OBVIOUS
    <2>. DEFINE q == i - 1 + k
    <2>1. /\ q \in (i - 1)..n /\ q + 1 = i - 1 + (k + 1) /\ q < n /\ q + 1 \in i..j
          /\ Part(d, i, q) = 0
      BY <1>2
    <2>. HIDE DEF q
    <2>2. Part(d, i, q + 1) = Part(d, i, q) * Radix + d[q + 1]
      BY <2>1, PartSteps
    <2>3. 0 * Radix + 0 = 0
      BY TeamConstants
    <2>. QED  BY <2>1, <2>2, <2>3
  <1>3. Nat \subseteq P
    <2>. HIDE DEF P
    <2>. QED  BY <1>1, <1>2, SetInduction
  <1>4. j - i + 1 \in Nat /\ i - 1 + (j - i + 1) = j
    OBVIOUS
  <1>5. j - i + 1 \in P
    BY <1>3, <1>4
  <1>. QED  BY <1>4, <1>5

\* The digits of the starts of the threads.
LEMMA StartDigits ==
  ASSUME extranonceLen \in Extranonces, salt \in Salts, NEW t \in TeamThreads
  PROVE  /\ extranonceLen \in 0..Half /\ StartOf(t) \in Nonces
         /\ \A i \in 1..NonceLength :
              /\ i - extranonceLen \in 1..StampLength =>
                   StartOf(t)[i] = (t \div Power[StampLength - (i - extranonceLen)]) % Radix
              /\ i - extranonceLen \notin 1..StampLength =>
                   StartOf(t)[i] = StartNonce(extranonceLen, salt)[i]
              /\ i > Kept => StartOf(t)[i] = 0
  <1>. DEFINE e == extranonceLen  L == StampLength  N == NonceLength
              o == IF e + L > Half THEN Half ELSE e + L
              z == StartNonce(e, salt)
  <1>0. /\ L \in Nat /\ N \in Nat /\ Half \in Nat /\ N = 2 * Half /\ HotLength \in Nat
        /\ L + HotLength <= Half /\ SaltLength \in Nat /\ SaltLength = Half - HotLength
        /\ Radix \in Nat /\ Radix > 1 /\ Kept = N - HotLength
    BY TeamConstants DEF Kept
  <1>1. e \in 0..Half /\ salt \in [1..SaltLength -> 0..(Radix - 1)]
    BY TeamAssumption
  <1>. HIDE DEF L, N
  <1>2. o \in 0..Half
    BY <1>0, <1>1
  <1>3. z = [i \in 1..N |-> IF i - o \in 1..SaltLength THEN salt[i - o] ELSE 0]
    BY DEF StartNonce, N, L
  <1>. HIDE DEF e, o, z
  <1>4. \A i \in 1..N : z[i] \in 0..(Radix - 1) /\ (i > Kept => z[i] = 0)
    <2>. SUFFICES ASSUME NEW i \in 1..N PROVE z[i] \in 0..(Radix - 1) /\ (i > Kept => z[i] = 0)
      OBVIOUS
    <2>1. 0 \in 0..(Radix - 1)
      BY <1>0
    <2>2. CASE i - o \in 1..SaltLength
      <3>1. z[i] = salt[i - o] /\ salt[i - o] \in 0..(Radix - 1)
        BY <1>1, <1>3, <2>2
      <3>2. ~(i > Kept)
        BY <1>0, <1>2, <2>2
      <3>. QED  BY <3>1, <3>2
    <2>3. CASE i - o \notin 1..SaltLength
      BY <1>3, <2>1, <2>3
    <2>. QED  BY <2>2, <2>3
  <1>5. \A i \in 1..N : i - e \in 1..L =>
          (t \div Power[L - (i - e)]) % Radix \in 0..(Radix - 1) /\ ~(i > Kept)
    <2>. SUFFICES ASSUME NEW i \in 1..N, i - e \in 1..L
                  PROVE  (t \div Power[L - (i - e)]) % Radix \in 0..(Radix - 1) /\ ~(i > Kept)
      OBVIOUS
    <2>1. ~(i > Kept) /\ L - (i - e) \in Nat
      BY <1>0, <1>1
    <2>. DEFINE p == Power[L - (i - e)]
    <2>2. p \in Nat /\ p > 0
      BY <2>1, PowerIs
    <2>. HIDE DEF p
    <2>3. t \in Nat
      BY TeamConstants DEF TeamThreads
    <2>4. t \div p \in Nat
      BY <2>2, <2>3, Division
    <2>. DEFINE q == t \div p
    <2>. HIDE DEF q
    <2>5. q % Radix \in 0..(Radix - 1)
      BY <1>0, <2>4 DEF q
    <2>. QED  BY <2>1, <2>5 DEF q, p
  <1>6. StartOf(t) = [i \in 1..N |->
          IF i - e \in 1..L THEN (t \div Power[L - (i - e)]) % Radix ELSE z[i]]
    BY DEF StartOf, Stamped, N, L, e, z
  <1>7. StartOf(t) \in [1..N -> 0..(Radix - 1)]
    <2>1. \A i \in 1..N : (IF i - e \in 1..L THEN (t \div Power[L - (i - e)]) % Radix ELSE z[i])
                             \in 0..(Radix - 1)
      BY <1>4, <1>5
    <2>. QED  BY <1>6, <2>1
  <1>8. \A i \in 1..N :
          /\ i - e \in 1..L => StartOf(t)[i] = (t \div Power[L - (i - e)]) % Radix
          /\ i - e \notin 1..L => StartOf(t)[i] = z[i]
    BY <1>6
  <1>9. \A i \in 1..N : i > Kept => StartOf(t)[i] = 0
    BY <1>4, <1>5, <1>8
  <1>10. StartOf(t) \in Nonces
    BY <1>7 DEF Nonces, N
  <1>. QED  BY <1>1, <1>8, <1>9, <1>10 DEF e, L, N, z

\* The counter of a thread begins at 0.
LEMMA StartLow ==
  ASSUME extranonceLen \in Extranonces, salt \in Salts, NEW t \in TeamThreads
  PROVE  Part(StartOf(t), Kept + 1, NonceLength) = 0
  <1>1. /\ Kept + 1 \in 1..(NonceLength + 1) /\ NonceLength \in ((Kept + 1) - 1)..NonceLength
        /\ NonceLength \in Nat /\ Kept \in Nat
    BY TeamConstants DEF Kept
  <1>2. StartOf(t) \in [1..NonceLength -> Nat]
    BY StartDigits, WholeNonce
  <1>3. \A i \in (Kept + 1)..NonceLength : StartOf(t)[i] = 0
    <2>1. \A i \in (Kept + 1)..NonceLength : i \in 1..NonceLength /\ i > Kept
      BY <1>1
    <2>. QED  BY <2>1, StartDigits
  <1>. QED  BY <1>1, <1>2, <1>3, ZeroPart

\* Dividing by a product is dividing by its factors.
LEMMA Division2 ==
  ASSUME NEW t \in Nat, NEW p \in Nat, NEW r \in Nat, p > 0, r > 0
  PROVE  (t \div (r * p)) * r + ((t \div p) % r) = t \div p
  <1>. DEFINE q == t \div p  s == t % p  u == q \div r  v == q % r
  <1>1. q \in Nat /\ s \in Nat /\ s < p /\ t = p * q + s
    BY Division
  <1>. HIDE DEF q, s
  <1>2. u \in Nat /\ v \in Nat /\ v < r /\ q = r * u + v
    BY <1>1, Division
  <1>. HIDE DEF u, v
  <1>. DEFINE w == p * v + s
  <1>3. t = (r * p) * u + w
    <2>1. p * q = p * (r * u) + p * v
      <3>1. \A b \in Nat : p * (b + v) = p * b + p * v
        BY <1>2
      <3>2. r * u \in Nat
        BY <1>2, Products
      <3>. QED  BY <1>2, <3>1, <3>2
    <2>2. p * (r * u) = (r * p) * u
      BY <1>2
    <2>3. p * v \in Nat /\ (r * p) * u \in Nat
      BY <1>2, Products
    <2>. QED  BY <1>1, <2>1, <2>2, <2>3
  <1>4. w \in Nat /\ w < r * p
    <2>1. PICK c \in Nat : r = v + 1 + c
      <3>1. r - v - 1 \in Nat /\ r = v + 1 + (r - v - 1)
        BY <1>2
      <3>. QED  BY <3>1
    <2>2. r * p = p * v + p + c * p /\ p * v \in Nat /\ c * p \in Nat
      BY <1>2, <2>1
    <2>. QED  BY <1>1, <2>2
  <1>5. r * p \in Nat
    BY Products
  <1>. HIDE DEF w
  <1>6. t \div (r * p) = u
    <2>. DEFINE a == r * p
    <2>1. a \in Nat /\ w < a /\ t = a * u + w
      BY <1>3, <1>4, <1>5
    <2>. HIDE DEF a
    <2>2. t \div a = u
      BY <1>2, <1>4, <2>1, OneQuotient
    <2>. QED  BY <2>2 DEF a
  <1>7. u * r + v = q
    <2>1. u * r = r * u
      BY <1>2
    <2>. QED  BY <1>2, <2>1
  <1>. QED  BY <1>6, <1>7 DEF q, v

\* The stamp of a thread is its number.
LEMMA StampIs ==
  ASSUME extranonceLen \in Extranonces, salt \in Salts, NEW t \in TeamThreads
  PROVE  Part(StartOf(t), extranonceLen + 1, extranonceLen + StampLength) = t
  <1>. DEFINE e == extranonceLen  L == StampLength  N == NonceLength  d == StartOf(t)
              P == {k \in Nat : k <= L => Part(d, e + 1, e + k) = t \div Power[L - k]}
  <1>0. /\ L \in Nat /\ N \in Nat /\ e \in 0..Half /\ e + L <= N /\ d \in [1..N -> Nat] /\ Half \in Nat
        /\ Radix \in Nat /\ Radix > 0
    <2>1. e \in 0..Half /\ d \in Nonces
      BY StartDigits
    <2>2. d \in [1..N -> Nat]
      BY <2>1, WholeNonce
    <2>. HIDE DEF d, e
    <2>. QED  BY <2>1, <2>2, TeamConstants
  <1>1. t \in Nat /\ t < Power[L]
    <2>1. NThreads <= Power[L] /\ NThreads \in Nat
      BY TeamConstants, TeamAssumption
    <2>2. L \in Nat /\ Power[L] \in Nat
      BY <1>0, PowerIs
    <2>. QED  BY <2>1, <2>2 DEF TeamThreads
  <1>2. \A k \in 1..L : d[e + k] = (t \div Power[L - k]) % Radix
    <2>1. \A k \in 1..L : e + k \in 1..N /\ (e + k) - e = k
      BY <1>0
    <2>. QED  BY <2>1, StartDigits
  <1>. HIDE DEF e, L, N, d
  <1>3. 0 \in P
    <2>1. e + 1 \in 1..(N + 1) /\ (e + 1) - 1 = e /\ e \in ((e + 1) - 1)..N /\ e + 0 = e /\ L - 0 = L
      BY <1>0
    <2>2. Part(d, e + 1, e) = 0
      <3>1. Part(d, e + 1, (e + 1) - 1) = 0
        BY <1>0, <2>1, PartSteps
      <3>. QED  BY <2>1, <3>1
    <2>. DEFINE p == Power[L]
    <2>3. p \in Nat /\ t < p
      BY <1>0, <1>1, PowerIs
    <2>. HIDE DEF p
    <2>4. t \div p = 0
      <3>1. t = p * 0 + t
        BY <1>1, <2>3
      <3>. QED  BY <1>1, <2>3, <3>1, OneQuotient
    <2>. QED  BY <2>1, <2>2, <2>4 DEF p
  <1>4. ASSUME NEW k \in Nat, k \in P PROVE k + 1 \in P
    <2>. SUFFICES ASSUME k + 1 <= L PROVE Part(d, e + 1, e + (k + 1)) = t \div Power[L - (k + 1)]
      OBVIOUS
    <2>. DEFINE m == L - (k + 1)  p == Power[m]
    <2>1. m \in Nat /\ L - k = m + 1 /\ k + 1 \in 1..L /\ e + (k + 1) = (e + k) + 1
          /\ e + 1 \in 1..(N + 1) /\ e + k \in ((e + 1) - 1)..N /\ e + k < N
      BY <1>0
    <2>2. Part(d, e + 1, e + k) = t \div Power[m + 1]
      BY <1>0, <1>4, <2>1
    <2>. HIDE DEF m
    <2>3. p \in Nat /\ p > 0 /\ Power[m + 1] = Radix * p
      BY <2>1, PowerIs
    <2>4. d[e + (k + 1)] = (t \div p) % Radix
      BY <1>2, <2>1 DEF m
    <2>. DEFINE q == e + k
    <2>. HIDE DEF p, q
    <2>5. Part(d, e + 1, q + 1) = Part(d, e + 1, q) * Radix + d[q + 1]
      BY <1>0, <2>1, PartSteps DEF q
    <2>6. (t \div (Radix * p)) * Radix + ((t \div p) % Radix) = t \div p
      BY <1>0, <1>1, <2>3, Division2
    <2>. QED  BY <2>1, <2>2, <2>3, <2>4, <2>5, <2>6 DEF p, q, m
  <1>5. Nat \subseteq P
    <2>. HIDE DEF P
    <2>. QED  BY <1>3, <1>4, SetInduction
  <1>6. L \in P /\ L - L = 0
    BY <1>0, <1>5
  <1>7. t \div 1 = t
    BY <1>1
  <1>. QED  BY <1>6, <1>7, PowerIs DEF d, e, L

\* The starts of two threads differ in the digits their counters leave alone.
LEMMA StartsDiffer ==
  ASSUME extranonceLen \in Extranonces, salt \in Salts,
         NEW t \in TeamThreads, NEW u \in TeamThreads,
         Part(StartOf(t), 1, Kept) = Part(StartOf(u), 1, Kept)
  PROVE  t = u
  <1>. DEFINE e == extranonceLen  L == StampLength  N == NonceLength
              z == StartNonce(extranonceLen, salt)
  <1>0. /\ L \in Nat /\ N \in Nat /\ e \in 0..Half /\ e + L <= Kept /\ Kept <= N /\ Half \in Nat
        /\ Kept \in Nat
    <2>1. e \in 0..Half
      BY StartDigits
    <2>. HIDE DEF e
    <2>. QED  BY <2>1, TeamConstants DEF Kept
  <1>1. ASSUME NEW x \in TeamThreads
        PROVE  /\ StartOf(x) \in [1..N -> Nat] /\ Part(StartOf(x), e + 1, e + L) = x /\ x \in Nat
               /\ \A i \in 1..N : i - e \notin 1..L => StartOf(x)[i] = z[i]
    <2>1. StartOf(x) \in Nonces /\ \A i \in 1..N : i - e \notin 1..L => StartOf(x)[i] = z[i]
      BY StartDigits
    <2>2. StartOf(x) \in [1..N -> Nat]
      BY <2>1, WholeNonce
    <2>3. Part(StartOf(x), e + 1, e + L) = x
      BY StampIs
    <2>. QED  BY <2>1, <2>2, <2>3, TeamConstants DEF TeamThreads
  <1>. HIDE DEF e, L, N, z
  <1>2. /\ 1 \in 1..(N + 1) /\ e \in (1 - 1)..N /\ e + L \in (1 - 1)..N /\ e + L \in e..N
        /\ Kept \in (e + L)..N /\ (e + L) - e = L /\ e + L + 1 \in 1..(N + 1)
        /\ Kept \in ((e + L + 1) - 1)..N /\ Kept - (e + L) \in Nat
    BY <1>0
  <1>3. /\ Part(StartOf(t), 1, e) = Part(StartOf(u), 1, e)
        /\ Part(StartOf(t), e + L + 1, Kept) = Part(StartOf(u), e + L + 1, Kept)
    <2>1. \A i \in 1..e : i \in 1..N /\ i - e \notin 1..L
      BY <1>0
    <2>2. \A i \in (e + L + 1)..Kept : i \in 1..N /\ i - e \notin 1..L
      BY <1>0
    <2>3. \A i \in 1..e : StartOf(t)[i] = StartOf(u)[i]
      BY <1>1, <2>1
    <2>4. \A i \in (e + L + 1)..Kept : StartOf(t)[i] = StartOf(u)[i]
      BY <1>1, <2>2
    <2>5. Part(StartOf(t), 1, e) = Part(StartOf(u), 1, e)
      <3>. DEFINE d == StartOf(t)  g == StartOf(u)
      <3>1. d \in [1..N -> Nat] /\ g \in [1..N -> Nat] /\ \A i \in 1..e : d[i] = g[i]
        BY <1>1, <2>3
      <3>. HIDE DEF d, g
      <3>2. Part(d, 1, e) = Part(g, 1, e)
        BY ONLY <1>0, <1>2, <3>1, PartOfDigits
      <3>. QED  BY <3>2 DEF d, g
    <2>6. Part(StartOf(t), e + L + 1, Kept) = Part(StartOf(u), e + L + 1, Kept)
      <3>. DEFINE s == e + L + 1
      <3>1. s \in 1..(N + 1) /\ Kept \in (s - 1)..N /\ \A i \in s..Kept : StartOf(t)[i] = StartOf(u)[i]
        BY <1>2, <2>4
      <3>. HIDE DEF s
      <3>2. Part(StartOf(t), s, Kept) = Part(StartOf(u), s, Kept)
        <4>1. StartOf(t) \in [1..N -> Nat] /\ StartOf(u) \in [1..N -> Nat] /\ N \in Nat
          BY <1>0, <1>1
        <4>. QED  BY ONLY <3>1, <4>1, PartOfDigits
      <3>. QED  BY <3>2 DEF s
    <2>. QED  BY <2>5, <2>6
  <1>. DEFINE a == Part(StartOf(t), 1, e)  q == Power[L]  m == Power[Kept - (e + L)]
              w == Part(StartOf(t), e + L + 1, Kept)
  <1>4. ASSUME NEW x \in TeamThreads, x \in {t, u}
        PROVE  Part(StartOf(x), 1, Kept) = (a * q + x) * m + w
    <2>1. Part(StartOf(x), 1, Kept)
            = Part(StartOf(x), 1, e + L) * m + Part(StartOf(x), e + L + 1, Kept)
      BY <1>0, <1>1, <1>2, PartSplit
    <2>2. Part(StartOf(x), 1, e + L) = Part(StartOf(x), 1, e) * q + Part(StartOf(x), e + 1, e + L)
      <3>1. Part(StartOf(x), 1, e + L)
              = Part(StartOf(x), 1, e) * Power[(e + L) - e] + Part(StartOf(x), e + 1, e + L)
        BY <1>0, <1>1, <1>2, PartSplit
      <3>. QED  BY <1>2, <3>1
    <2>3. Part(StartOf(x), 1, e) = a /\ Part(StartOf(x), e + L + 1, Kept) = w
      BY <1>3, <1>4
    <2>4. Part(StartOf(x), e + 1, e + L) = x
      BY <1>1
    <2>. QED  BY <2>1, <2>2, <2>3, <2>4
  <1>5. a \in Nat /\ q \in Nat /\ m \in Nat /\ m > 0 /\ w \in Nat /\ t \in Nat /\ u \in Nat
    BY <1>0, <1>1, <1>2, PartSteps, PowerIs
  <1>6. (a * q + t) * m + w = (a * q + u) * m + w
    BY <1>4
  <1>. HIDE DEF a, q, m, w
  <1>7. a * q \in Nat
    BY <1>5, Products
  <1>. DEFINE b == a * q
  <1>8. (b + t) * m + w = (b + u) * m + w /\ b \in Nat
    BY <1>6, <1>7
  <1>. HIDE DEF b
  <1>9. (b + t) * m = b * m + t * m /\ (b + u) * m = b * m + u * m
    BY <1>5, <1>8
  <1>10. b * m \in Nat /\ t * m \in Nat /\ u * m \in Nat
    BY <1>5, <1>8, Products
  <1>11. t * m = u * m
    <2>. DEFINE A == b * m  B == t * m  C == u * m  D == (b + t) * m  E == (b + u) * m
    <2>1. D = A + B /\ E = A + C /\ D + w = E + w /\ A \in Nat /\ B \in Nat /\ C \in Nat
      BY <1>8, <1>9, <1>10
    <2>. HIDE DEF A, B, C, D, E
    <2>2. B = C
      BY <1>5, <2>1
    <2>. QED  BY <2>2 DEF B, C
  <1>12. (t * m) \div m = t /\ (u * m) \div m = u
    <2>1. \A x \in Nat : (x * m) \div m = x
      <3>. SUFFICES ASSUME NEW x \in Nat PROVE (x * m) \div m = x
        OBVIOUS
      <3>1. x * m \in Nat /\ x * m = m * x + 0 /\ 0 < m
        BY <1>5
      <3>. DEFINE y == x * m
      <3>. HIDE DEF y
      <3>2. y \div m = x
        BY <1>5, <3>1, OneQuotient DEF y
      <3>. QED  BY <3>2 DEF y
    <2>. QED  BY <1>5, <2>1
  <1>. QED  BY <1>11, <1>12

\* The counters of two threads are never the same.
LEMMA CountersApart ==
  ASSUME extranonceLen \in Extranonces, salt \in Salts,
         NEW t \in TeamThreads, NEW u \in TeamThreads, NEW i \in Nat, NEW j \in Nat,
         i < Power[HotLength], j < Power[HotLength],
         NumberOf(StartOf(t)) + i = NumberOf(StartOf(u)) + j
  PROVE  t = u /\ i = j
  <1>. DEFINE p == Power[HotLength]  A(x) == Part(StartOf(x), 1, Kept)
  <1>1. p \in Nat /\ p > 0
    BY TeamConstants, PowerIs
  <1>2. ASSUME NEW x \in TeamThreads PROVE A(x) \in Nat /\ NumberOf(StartOf(x)) = A(x) * p
    <2>1. StartOf(x) \in Nonces /\ Part(StartOf(x), Kept + 1, NonceLength) = 0
      BY StartDigits, StartLow
    <2>2. A(x) \in Nat /\ NumberOf(StartOf(x)) = A(x) * p + Part(StartOf(x), Kept + 1, NonceLength)
      BY <2>1, WholeNonce
    <2>3. A(x) * p \in Nat
      BY <1>1, <2>2, Products
    <2>. QED  BY <2>1, <2>2, <2>3
  <1>3. A(t) \in Nat /\ A(u) \in Nat /\ A(t) * p + i = A(u) * p + j /\ i < p /\ j < p
    BY <1>2
  <1>. HIDE DEF A, p
  <1>. DEFINE a == A(t)  b == A(u)  n == a * p + i
  <1>4. a = b /\ i = j
    <2>1. a \in Nat /\ b \in Nat /\ n = b * p + j
      BY <1>3
    <2>. HIDE DEF a, b
    <2>2. n = p * a + i /\ n = p * b + j /\ n \in Nat
      <3>1. a * p = p * a /\ b * p = p * b /\ a * p \in Nat
        BY <1>1, <2>1, Products
      <3>. QED  BY <2>1, <3>1
    <2>. HIDE DEF n
    <2>3. n \div p = a /\ n % p = i
      BY ONLY <1>1, <1>3, <2>1, <2>2, i \in Nat, j \in Nat, OneQuotient
    <2>4. n \div p = b /\ n % p = j
      BY ONLY <1>1, <1>3, <2>1, <2>2, i \in Nat, j \in Nat, OneQuotient
    <2>. QED  BY <2>3, <2>4
  <1>5. Part(StartOf(t), 1, Kept) = Part(StartOf(u), 1, Kept)
    BY <1>4 DEF A
  <1>. QED  BY <1>4, <1>5, StartsDiffer

\* A set of numbers has a least one.
LEMMA LeastOf ==
  ASSUME NEW G \in SUBSET Nat, G # {}
  PROVE  \E j \in G : \A x \in G : j <= x
  <1>1. PICK m \in G : \A k \in G : ~(<<k, m>> \in OpToRel(<, Nat))
    BY NatLessThanWellFounded, WFMin
  <1>2. \A k \in G : ~(k < m)
    BY <1>1 DEF OpToRel
  <1>3. m \in Nat /\ \A k \in G : k \in Nat
    OBVIOUS
  <1>. QED  BY <1>2, <1>3

\* A nonce of a thread: it differs from the thread's start in its counter only.
AtCounter(c, t) == c \in Nonces /\ \A i \in 1..Kept : c[i] = StartOf(t)[i]
Counter(c) == Part(c, Kept + 1, NonceLength)

\* The job is one the pool may give.
JobOK == extranonceLen \in Extranonces /\ salt \in Salts

\* What a nonce of a thread stands for.
LEMMA CounterIs ==
  ASSUME JobOK, NEW t \in TeamThreads, NEW c, AtCounter(c, t)
  PROVE  /\ Counter(c) \in Nat /\ NumberOf(StartOf(t)) \in Nat
         /\ NumberOf(c) = NumberOf(StartOf(t)) + Counter(c)
         /\ SubSeq(c, 1, extranonceLen) = SubSeq(StartOf(t), 1, extranonceLen)
  <1>. DEFINE s == StartOf(t)  N == NonceLength  p == Power[HotLength]
  <1>0. /\ c \in Nonces /\ s \in Nonces /\ Part(s, Kept + 1, N) = 0 /\ extranonceLen \in 0..Half
    BY StartDigits, StartLow DEF JobOK, AtCounter
  <1>1. /\ Counter(c) \in Nat /\ NumberOf(c) = Part(c, 1, Kept) * p + Counter(c)
        /\ c \in [1..N -> Nat] /\ c \in Seq(Nat)
    BY <1>0, WholeNonce DEF Counter
  <1>2. /\ NumberOf(s) \in Nat /\ NumberOf(s) = Part(s, 1, Kept) * p + 0
        /\ s \in [1..N -> Nat] /\ s \in Seq(Nat) /\ Part(s, 1, Kept) \in Nat
    BY <1>0, WholeNonce
  <1>3. \A i \in 1..Kept : c[i] = s[i]
    BY DEF AtCounter
  <1>4. /\ Kept \in Nat /\ N \in Nat /\ Kept \in 0..N /\ Half <= Kept /\ Half \in Nat /\ p \in Nat
    BY TeamConstants, PowerIs DEF Kept
  <1>. HIDE DEF s, N, p
  <1>5. Part(c, 1, Kept) = Part(s, 1, Kept)
    <2>1. 1 \in 1..(N + 1) /\ Kept \in (1 - 1)..N
      BY <1>4
    <2>. QED  BY <1>1, <1>2, <1>3, <1>4, <2>1, PartOfDigits
  <1>6. NumberOf(c) = NumberOf(s) + Counter(c)
    <2>1. Part(s, 1, Kept) * p \in Nat
      BY <1>2, <1>4, Products
    <2>. QED  BY <1>1, <1>2, <1>5, <2>1
  <1>7. SubSeq(c, 1, extranonceLen) = SubSeq(s, 1, extranonceLen)
    <2>1. \A i \in 1..extranonceLen : c[i] = s[i]
      BY <1>0, <1>3, <1>4
    <2>. QED  BY <1>0, <1>1, <1>2, <2>1
  <1>. QED  BY <1>1, <1>2, <1>6, <1>7 DEF s

\* Counting on from a nonce of a thread.
LEMMA CounterAdd ==
  ASSUME NEW t, NEW c, AtCounter(c, t), NEW a \in Nat, Counter(c) + a < Power[HotLength]
  PROVE  AtCounter(AddBe(c, a), t) /\ Counter(AddBe(c, a)) = Counter(c) + a
  <1>1. c \in Nonces /\ Part(c, Kept + 1, NonceLength) + a < Power[HotLength]
    BY DEF AtCounter, Counter
  <1>2. /\ AddBe(c, a) \in Nonces /\ \A i \in 1..Kept : AddBe(c, a)[i] = c[i]
        /\ Part(AddBe(c, a), Kept + 1, NonceLength) = Part(c, Kept + 1, NonceLength) + a
    BY <1>1, AddBeIs
  <1>3. \A i \in 1..Kept : c[i] = StartOf(t)[i]
    BY DEF AtCounter
  <1>. QED  BY <1>2, <1>3 DEF AtCounter, Counter

\* A thread begins at its start.
LEMMA CounterStart ==
  ASSUME JobOK, NEW t \in TeamThreads
  PROVE  AtCounter(StartOf(t), t) /\ Counter(StartOf(t)) = 0
  BY StartDigits, StartLow DEF JobOK, AtCounter, Counter

\* A line and a place on it stand for the nonce they were made of.
LEMMA HashedIs ==
  ASSUME NEW c \in Nonces, NEW j \in Nat
  PROVE  /\ TOf(c) \in Nat /\ TOf(c) < LineSpan
         /\ Hashed(LineOf(c), TOf(c) + j) = NumberOf(c) + j
  <1>. DEFINE l == LowHalf(c)  h == NumberOf(SubSeq(c, 1, Half))
              q == l \div LineSpan  r == l % LineSpan
  <1>1. LineSpan \in Nat /\ LineSpan > 0 /\ Half \in Nat
    BY TeamConstants
  <1>2. l \in Nat /\ h \in Nat /\ NumberOf(c) = h * Power[Half] + l
    BY WholeNonce DEF LowHalf, Part
  <1>3. TOf(c) = r /\ LineOf(c) = [high |-> h, k |-> q]
    BY DEF TOf, LineOf
  <1>. HIDE DEF l, h
  <1>4. q \in Nat /\ r \in Nat /\ r < LineSpan /\ l = LineSpan * q + r
    BY <1>1, <1>2, Division
  <1>. HIDE DEF q, r
  <1>5. Hashed(LineOf(c), TOf(c) + j) = h * Power[Half] + q * LineSpan + (r + j)
    BY <1>3 DEF Hashed
  <1>6. q * LineSpan = LineSpan * q /\ LineSpan * q \in Nat
    BY <1>1, <1>4, Products
  <1>7. h * Power[Half] \in Nat
    BY <1>1, <1>2, PowerIs, Products
  <1>. DEFINE x == h * Power[Half]  y == LineSpan * q
  <1>8. /\ Hashed(LineOf(c), TOf(c) + j) = x + y + (r + j) /\ NumberOf(c) = x + l /\ l = y + r
        /\ x \in Nat /\ y \in Nat
    BY <1>2, <1>4, <1>5, <1>6, <1>7
  <1>. HIDE DEF x, y
  <1>. QED  BY <1>3, <1>4, <1>8

\* A search from c by thread t under way: all counters up to where it is were
\* hashed, and none before it is one the fast path takes for a share.
Searched(st, c, t) ==
  /\ st \in [ctr : Nonces, i : 0..SearchChunk, found : BOOLEAN, hashed : Seq(Nat)]
  /\ AtCounter(st.ctr, t) /\ Counter(c) <= Counter(st.ctr)
  /\ IF st.found
     THEN /\ Counter(st.ctr) < Counter(c) + SearchChunk /\ NumberOf(st.ctr) \in PointsOf(hits)
          /\ Len(st.hashed) = Counter(st.ctr) - Counter(c) + 1
     ELSE /\ Counter(st.ctr) = Counter(c) + st.i /\ Len(st.hashed) = st.i
  /\ \A x \in 1..Len(st.hashed) :
       /\ st.hashed[x] = NumberOf(c) + x - 1
       /\ x <= Counter(st.ctr) - Counter(c) => st.hashed[x] \notin PointsOf(hits)

\* Two sequences of numbers, one after the other.
LEMMA Spliced ==
  ASSUME NEW f \in Seq(Nat), NEW g \in Seq(Nat)
  PROVE  /\ f \o g \in Seq(Nat) /\ Len(f \o g) = Len(f) + Len(g)
         /\ \A x \in 1..Len(f) : (f \o g)[x] = f[x]
         /\ \A x \in 1..Len(g) : (f \o g)[Len(f) + x] = g[x]
  OBVIOUS

\* A stretch goes on with such a search.
LEMMA StretchSearches ==
  ASSUME JobOK, NEW t \in TeamThreads, NEW c, AtCounter(c, t),
         Counter(c) + SearchChunk < Power[HotLength], NEW st, Searched(st, c, t), NEW turn
  PROVE  /\ Searched(Stretch(st, turn), c, t)
         /\ Stretch(st, turn).found \/ Stretch(st, turn).i = SearchChunk
            \/ Stretch(st, turn).i > st.i
  <1>0. /\ SearchChunk \in Nat /\ SearchChunk > 0 /\ LineSpan \in Nat /\ LineSpan > 0
    BY TeamConstants
  <1>. DEFINE C0 == Counter(c)  S0 == NumberOf(c)
  <1>1. C0 \in Nat /\ S0 \in Nat /\ S0 = NumberOf(StartOf(t)) + C0 /\ NumberOf(StartOf(t)) \in Nat
    BY CounterIs
  <1>2. /\ st.ctr \in Nonces /\ st.i \in 0..SearchChunk /\ st.found \in BOOLEAN /\ st.hashed \in Seq(Nat)
        /\ AtCounter(st.ctr, t) /\ C0 <= Counter(st.ctr)
        /\ ~st.found => Counter(st.ctr) = C0 + st.i /\ Len(st.hashed) = st.i
        /\ ~st.found => \A x \in 1..Len(st.hashed) :
             st.hashed[x] = S0 + x - 1 /\ st.hashed[x] \notin PointsOf(hits)
    BY <1>0, <1>1 DEF Searched
  <1>3. CASE st.found \/ st.i >= SearchChunk
    <2>1. Stretch(st, turn) = st
      BY <1>3 DEF Stretch
    <2>2. st.found \/ st.i = SearchChunk
      BY <1>0, <1>2, <1>3
    <2>. QED  BY <2>1, <2>2
  <1>4. CASE ~st.found /\ st.i < SearchChunk
    <2>. DEFINE line == LineOf(st.ctr)  p == TOf(st.ctr)  i == st.i
                n == IF LineSpan - p < SearchChunk - i THEN LineSpan - p ELSE SearchChunk - i
                points == PointsOf(hits)
                good == {j \in 0..(n - 1) : Hashed(line, p + j) \in points}
                stop == IF good = {} THEN n ELSE CHOOSE j \in good : \A x \in good : j <= x
                upTo == IF good = {} THEN n - 1 ELSE stop
                more == [j \in 1..(upTo + 1) |-> Hashed(line, p + j - 1)]
                to == Stretch(st, turn)
    <2>1. to = [ctr |-> AddBe(st.ctr, stop), i |-> i + n, found |-> good # {},
                hashed |-> st.hashed \o more]
      <3>1. ~(st.found \/ st.i >= SearchChunk)
        BY <1>0, <1>2, <1>4
      <3>. QED  BY <3>1, Zenon DEF Stretch
    <2>0. /\ i \in Nat /\ i < SearchChunk /\ Counter(st.ctr) = C0 + i /\ st.hashed \in Seq(Nat)
          /\ Len(st.hashed) = i
          /\ \A x \in 1..i : st.hashed[x] = S0 + x - 1 /\ st.hashed[x] \notin points
      BY <1>0, <1>2, <1>4
    <2>2. p \in Nat /\ p < LineSpan /\ \A j \in Nat : Hashed(line, p + j) = NumberOf(st.ctr) + j
      BY <1>2, HashedIs
    <2>3. NumberOf(st.ctr) = S0 + i /\ i \in Nat /\ NumberOf(st.ctr) \in Nat
      <3>1. NumberOf(st.ctr) = NumberOf(StartOf(t)) + Counter(st.ctr)
        BY <1>2, CounterIs
      <3>2. Counter(st.ctr) = C0 + i /\ i \in Nat
        BY <2>0
      <3>. HIDE DEF C0, S0, i
      <3>. QED  BY ONLY <1>1, <3>1, <3>2
    <2>. HIDE DEF p, line, i, C0, S0
    <2>. DEFINE N1 == LineSpan - p  N2 == SearchChunk - i
    <2>4. n \in Nat /\ n > 0 /\ i + n <= SearchChunk
      <3>1. /\ N1 \in Nat /\ N1 > 0
        BY <1>0, <2>2
      <3>2. N2 \in Nat /\ N2 > 0 /\ i + N2 = SearchChunk /\ i \in Nat
        <4>1. i \in Nat /\ i < SearchChunk
          BY <2>0
        <4>. QED  BY ONLY <1>0, <4>1
      <3>3. n = IF N1 < N2 THEN N1 ELSE N2
        OBVIOUS
      <3>. HIDE DEF N1, N2, n
      <3>4. n = N2 \/ (n = N1 /\ N1 < N2)
        BY ONLY <3>1, <3>2, <3>3
      <3>. QED  BY ONLY <1>0, <3>1, <3>2, <3>4
    <2>. HIDE DEF n
    <2>5. /\ good = {} => stop = n /\ upTo = n - 1
          /\ good # {} => stop \in good /\ upTo = stop /\ \A x \in good : stop <= x
      <3>1. CASE good = {}
        BY <3>1
      <3>2. CASE good # {}
        <4>1. good \in SUBSET Nat
          BY <2>4
        <4>2. \E j \in good : \A x \in good : j <= x
          <5>. HIDE DEF good
          <5>. QED  BY <3>2, <4>1, LeastOf
        <4>. QED  BY <3>2, <4>2
      <3>. QED  BY <3>1, <3>2
    <2>6. \A j \in 0..(n - 1) : j \in good <=> S0 + i + j \in points
      <3>. SUFFICES ASSUME NEW j \in 0..(n - 1) PROVE j \in good <=> S0 + i + j \in points
        OBVIOUS
      <3>1. Hashed(line, p + j) = S0 + i + j
        BY <1>1, <2>2, <2>3, <2>4
      <3>. QED  BY <3>1
    <2>7. \A x \in good : x \in 0..(n - 1)
      OBVIOUS
    <2>. HIDE DEF stop, upTo, good, points
    <2>8. /\ stop \in Nat /\ stop <= n /\ upTo \in Nat /\ upTo < n
          /\ good # {} => stop < n /\ upTo = stop /\ S0 + i + stop \in points
          /\ good = {} => stop = n /\ upTo = n - 1
          /\ \A j \in 0..(stop - 1) : S0 + i + j \notin points
      BY <2>4, <2>5, <2>6, <2>7
    <2>9. AtCounter(AddBe(st.ctr, stop), t) /\ Counter(AddBe(st.ctr, stop)) = C0 + i + stop
      <3>1. Counter(st.ctr) + stop < Power[HotLength]
        <4>. DEFINE P == Power[HotLength]
        <4>1. P \in Nat /\ C0 + SearchChunk < P
          BY TeamConstants, PowerIs DEF C0
        <4>. HIDE DEF P
        <4>2. Counter(st.ctr) + stop < P
          BY <1>0, <1>1, <2>0, <2>4, <2>8, <4>1
        <4>. QED  BY <4>2 DEF P
      <3>. QED  BY <1>2, <2>0, <2>8, <3>1, CounterAdd
    <2>10. /\ more \in Seq(Nat) /\ Len(more) = upTo + 1
           /\ \A x \in 1..(upTo + 1) : more[x] = S0 + i + (x - 1)
      <3>1. \A x \in 1..(upTo + 1) : Hashed(line, p + x - 1) = S0 + i + (x - 1)
        <4>. SUFFICES ASSUME NEW x \in 1..(upTo + 1)
                      PROVE  Hashed(line, p + x - 1) = S0 + i + (x - 1)
          OBVIOUS
        <4>1. x - 1 \in Nat /\ p + x - 1 = p + (x - 1)
          BY <2>2, <2>8
        <4>. QED  BY <2>2, <2>3, <4>1
      <3>2. \A x \in 1..(upTo + 1) : S0 + i + (x - 1) \in Nat
        BY <1>1, <2>3, <2>8
      <3>. QED  BY <2>8, <3>1, <3>2
    <2>. HIDE DEF more
    <2>. DEFINE all == st.hashed \o more
    <2>11. /\ all \in Seq(Nat) /\ Len(all) = i + upTo + 1
           /\ \A x \in 1..(i + upTo + 1) : all[x] = S0 + x - 1
           /\ \A x \in 1..(i + upTo + 1) : x <= i + stop => all[x] \notin points
      <3>1. Len(st.hashed) = i /\ \A x \in 1..i : st.hashed[x] = S0 + x - 1 /\ st.hashed[x] \notin points
        BY <2>0
      <3>2. all \in Seq(Nat) /\ Len(all) = i + (upTo + 1)
        BY <2>0, <2>10, Spliced
      <3>3. ASSUME NEW x \in 1..(i + upTo + 1)
            PROVE  all[x] = S0 + x - 1 /\ (x <= i + stop => all[x] \notin points)
        <4>1. CASE x <= i
          <5>1. x \in 1..i
            BY <4>1, <2>3
          <5>2. all[x] = st.hashed[x]
            BY <2>0, <2>10, <5>1, Spliced
          <5>. QED  BY <3>1, <5>1, <5>2
        <4>2. CASE x > i
          <5>1. x - i \in 1..(upTo + 1) /\ x - i - 1 \in Nat
            BY <2>3, <2>8, <4>2
          <5>2. all[x] = more[x - i]
            <6>1. all[i + (x - i)] = more[x - i]
              <7>1. st.hashed \in Seq(Nat) /\ more \in Seq(Nat) /\ Len(st.hashed) = i /\ Len(more) = upTo + 1
                BY <2>0, <2>10
              <7>2. x - i \in 1..Len(more)
                BY <5>1, <7>1
              <7>3. all[Len(st.hashed) + (x - i)] = more[x - i]
                BY <7>1, <7>2, Spliced
              <7>. QED  BY <7>1, <7>3
            <6>2. i + (x - i) = x
              BY <2>3
            <6>. QED  BY <6>1, <6>2
          <5>3. all[x] = S0 + i + (x - i - 1)
            BY <2>10, <5>1, <5>2
          <5>4. S0 + i + (x - i - 1) = S0 + x - 1
            BY <1>1, <2>3
          <5>5. x <= i + stop => x - i - 1 \in 0..(stop - 1)
            BY <2>3, <2>8, <4>2
          <5>. QED  BY <2>8, <5>3, <5>4, <5>5
        <4>3. x <= i \/ x > i
          BY <2>3
        <4>. QED  BY <4>1, <4>2, <4>3
      <3>4. Len(all) = i + upTo + 1
        BY <2>0, <2>8, <3>2
      <3>. QED  BY ONLY <3>2, <3>3, <3>4
    <2>. HIDE DEF all
    <2>12. /\ to.ctr = AddBe(st.ctr, stop) /\ to.i = i + n /\ to.found = (good # {}) /\ to.hashed = all
           /\ to = [ctr |-> to.ctr, i |-> to.i, found |-> to.found, hashed |-> to.hashed]
      BY <2>1 DEF all
    <2>. HIDE DEF to
    <2>13. to \in [ctr : Nonces, i : 0..SearchChunk, found : BOOLEAN, hashed : Seq(Nat)]
      <3>1. to.ctr \in Nonces
        BY <2>9, <2>12 DEF AtCounter
      <3>2. to.i \in 0..SearchChunk
        BY <1>0, <2>3, <2>4, <2>12
      <3>3. to.found \in BOOLEAN /\ to.hashed \in Seq(Nat)
        BY <2>11, <2>12
      <3>. QED  BY <2>12, <3>1, <3>2, <3>3
    <2>14. AtCounter(to.ctr, t) /\ Counter(to.ctr) = C0 + i + stop /\ C0 <= Counter(to.ctr)
      BY <1>1, <2>3, <2>8, <2>9, <2>12
    <2>15. to.found =>
             /\ Counter(to.ctr) < C0 + SearchChunk /\ NumberOf(to.ctr) \in points
             /\ Len(to.hashed) = Counter(to.ctr) - C0 + 1
      <3>. SUFFICES ASSUME good # {}
                    PROVE  /\ Counter(to.ctr) < C0 + SearchChunk /\ NumberOf(to.ctr) \in points
                           /\ Len(to.hashed) = Counter(to.ctr) - C0 + 1
        BY <2>12
      <3>1. NumberOf(to.ctr) = NumberOf(StartOf(t)) + Counter(to.ctr)
        BY <2>14, CounterIs
      <3>2. NumberOf(to.ctr) = S0 + i + stop
        BY <1>1, <2>3, <2>8, <2>14, <3>1
      <3>3. Counter(to.ctr) < C0 + SearchChunk /\ Len(to.hashed) = Counter(to.ctr) - C0 + 1
        <4>1. stop < n /\ upTo = stop /\ Len(to.hashed) = i + upTo + 1
          BY <2>8, <2>11, <2>12
        <4>. QED  BY <1>0, <1>1, <2>3, <2>4, <2>8, <2>14, <4>1
      <3>4. S0 + i + stop \in points
        BY <2>8
      <3>. QED  BY <3>2, <3>3, <3>4
    <2>16. ~to.found => Counter(to.ctr) = C0 + to.i /\ Len(to.hashed) = to.i
      <3>. SUFFICES ASSUME good = {} PROVE Counter(to.ctr) = C0 + to.i /\ Len(to.hashed) = to.i
        BY <2>12
      <3>1. stop = n /\ upTo = n - 1 /\ Len(to.hashed) = i + upTo + 1 /\ to.i = i + n
        BY <2>8, <2>11, <2>12
      <3>. QED  BY <1>1, <2>3, <2>4, <2>14, <3>1
    <2>17. \A x \in 1..Len(to.hashed) :
             /\ to.hashed[x] = S0 + x - 1
             /\ x <= Counter(to.ctr) - C0 => to.hashed[x] \notin points
      <3>1. Len(to.hashed) = i + upTo + 1 /\ Counter(to.ctr) - C0 = i + stop
        BY <1>1, <2>3, <2>8, <2>11, <2>12, <2>14
      <3>. QED  BY <2>11, <2>12, <3>1
    <2>18. Searched(to, c, t)
      BY <2>13, <2>14, <2>15, <2>16, <2>17 DEF Searched, C0, S0, points
    <2>. QED  BY <2>3, <2>4, <2>12, <2>18 DEF to, i
  <1>. QED  BY <1>0, <1>2, <1>3, <1>4

\* The equation of the fold that is a search.
SearchFold(g, s) ==
  g = [x \in SUBSET (1..SearchChunk) |->
         IF x = {} THEN s ELSE Stretch(g[x \ {Max(x)}], [turn \in 1..SearchChunk |-> turn][Max(x)])]
SearchStart(c) == [ctr |-> c, i |-> 0, found |-> FALSE, hashed |-> <<>>]

LEMMA SearchIsFold ==
  ASSUME NEW c
  PROVE  SearchRange(c) = (CHOOSE g : SearchFold(g, SearchStart(c)))[1..SearchChunk]
  <1>1. DOMAIN [turn \in 1..SearchChunk |-> turn] = 1..SearchChunk
    OBVIOUS
  <1>. QED  BY <1>1 DEF SearchRange, FoldLeft, MapThenFoldSet, SearchFold, SearchStart

\* The states of a search from c by thread t.
Searches(c, t) ==
  {st \in [ctr : Nonces, i : 0..SearchChunk, found : BOOLEAN, hashed : Seq(Nat)] : Searched(st, c, t)}

\* It ends with a counter found, or with all of its counters hashed.
LEMMA SearchRangeIs ==
  ASSUME JobOK, NEW t \in TeamThreads, NEW c, AtCounter(c, t),
         Counter(c) + SearchChunk < Power[HotLength]
  PROVE  /\ Searched(SearchRange(c), c, t)
         /\ SearchRange(c).found \/ SearchRange(c).i = SearchChunk
  <1>. DEFINE n == SearchChunk  s == SearchStart(c)  S == Searches(c, t)
              turns == [turn \in 1..n |-> turn]
              op == [p \in S \X (1..n) |-> Stretch(p[1], p[2])]
  <1>0. n \in Nat /\ n > 0
    BY TeamConstants
  <1>1. \A st : st \in S <=> Searched(st, c, t)
    BY DEF Searches, Searched
  <1>2. \A st \in S : \A x :
          /\ Stretch(st, x) \in S
          /\ Stretch(st, x).found \/ Stretch(st, x).i = n \/ Stretch(st, x).i > st.i
    BY <1>1, StretchSearches
  <1>3. s \in S
    <2>1. s \in [ctr : Nonces, i : 0..SearchChunk, found : BOOLEAN, hashed : Seq(Nat)]
      BY <1>0 DEF AtCounter, SearchStart
    <2>2. /\ s.ctr = c /\ s.i = 0 /\ s.found = FALSE /\ s.hashed = <<>> /\ Len(s.hashed) = 0
      BY DEF SearchStart
    <2>3. Counter(c) \in Nat
      BY CounterIs
    <2>. HIDE DEF s
    <2>4. Searched(s, c, t)
      BY <2>1, <2>2, <2>3 DEF Searched
    <2>. QED  BY <1>1, <2>4
  <1>. HIDE DEF S, s
  <1>4. op \in [S \X (1..n) -> S] /\ \A st \in S, x \in 1..n : op[<<st, x>>] = Stretch(st, x)
    BY <1>2
  <1>. HIDE DEF op
  <1>5. turns \in [1..n -> 1..n] /\ \A x \in 1..n : turns[x] \in 1..n
    OBVIOUS
  <1>6. PICK h \in [SUBSET (1..n) -> S] : Folds(h, op, s, turns, n)
    <2>. HIDE DEF n, turns
    <2>1. Foldable(S, 1..n, op, s, turns, n)
      BY <1>0, <1>3, <1>4, <1>5 DEF Foldable
    <2>2. HasFold(S, op, s, turns, n)
      BY ONLY <2>1, FoldExists
    <2>. QED  BY <2>2 DEF HasFold
  <1>7. SearchFold(h, s)
    <2>1. ASSUME NEW x \in SUBSET (1..n)
          PROVE  h[x] = IF x = {} THEN s ELSE Stretch(h[x \ {Max(x)}], turns[Max(x)])
      <3>1. CASE x = {}
        BY <1>6, <3>1 DEF Folds
      <3>2. CASE x # {}
        <4>1. Max(x) \in 1..n
          BY <1>0, <3>2, MaxOfInterval
        <4>2. h[x \ {Max(x)}] \in S /\ turns[Max(x)] \in 1..n
          <5>1. x \ {Max(x)} \in SUBSET (1..n)
            OBVIOUS
          <5>. HIDE DEF turns
          <5>. QED  BY <1>5, <1>6, <4>1, <5>1
        <4>3. h[x] = op[<<h[x \ {Max(x)}], turns[Max(x)]>>]
          BY <1>6, <3>2 DEF Folds
        <4>4. h[x] = Stretch(h[x \ {Max(x)}], turns[Max(x)])
          <5>. HIDE DEF turns
          <5>. QED  BY <1>4, <4>2, <4>3
        <4>. QED  BY <3>2, <4>4
      <3>. QED  BY <3>1, <3>2
    <2>2. h = [x \in SUBSET (1..n) |-> h[x]]
      BY <1>6
    <2>. QED  BY <2>1, <2>2 DEF SearchFold
  <1>. DEFINE g == CHOOSE g : SearchFold(g, s)
  <1>8. SearchFold(g, s)
    BY <1>7
  <1>9. SearchRange(c) = g[1..n]
    BY SearchIsFold DEF s
  <1>. HIDE DEF g
  <1>10. \A x \in SUBSET (1..n) : g[x] = IF x = {} THEN s ELSE Stretch(g[x \ {Max(x)}], turns[Max(x)])
    BY <1>8 DEF SearchFold
  <1>. DEFINE f == [k \in 0..n |-> g[1..k]]
  <1>11. f[0] = s
    <2>1. {} \in SUBSET (1..n) /\ f[0] = g[1..0] /\ 1..0 = {}
      BY <1>0
    <2>. QED  BY <1>10, <2>1
  <1>12. \A k \in 1..n : f[k] = Stretch(f[k - 1], turns[k])
    <2>. SUFFICES ASSUME NEW k \in 1..n PROVE f[k] = Stretch(f[k - 1], turns[k])
      OBVIOUS
    <2>1. f[k] = g[1..k] /\ f[k - 1] = g[1..(k - 1)]
      BY <1>0
    <2>2. /\ 1..k \in SUBSET (1..n) /\ 1..k # {} /\ Max(1..k) = k /\ (1..k) \ {k} = 1..(k - 1)
      BY <1>0, Beginnings
    <2>. HIDE DEF f, turns
    <2>. QED  BY <1>10, <2>1, <2>2
  <1>13. f[n] = SearchRange(c)
    BY <1>0, <1>9
  <1>. DEFINE Far(st, k) == st \in S /\ (st.found \/ st.i >= k)
              P == {k \in Nat : k <= n => Far(f[k], k)}
  <1>. HIDE DEF f, turns
  <1>14. \A st \in S : st.i \in 0..n /\ st.found \in BOOLEAN
    BY DEF S, Searches
  <1>15. 0 \in P
    <2>1. s \in S /\ s.i >= 0
      BY <1>3, <1>14
    <2>. QED  BY <1>11, <2>1
  <1>16. ASSUME NEW k \in Nat, k \in P PROVE k + 1 \in P
    <2>. SUFFICES ASSUME k + 1 <= n PROVE Far(f[k + 1], k + 1)
      <3>. HIDE DEF Far
      <3>. QED  OBVIOUS
    <2>0. k <= n /\ k + 1 \in 1..n /\ (k + 1) - 1 = k
      BY <1>0
    <2>1. Far(f[k], k)
      <3>. HIDE DEF Far
      <3>. QED  BY <1>16, <2>0
    <2>2. f[k + 1] = Stretch(f[k], turns[k + 1])
      BY <1>12, <2>0
    <2>. DEFINE a == f[k]  b == Stretch(a, turns[k + 1])
    <2>3. a \in S /\ (a.found \/ a.i >= k) /\ b \in S /\ (b.found \/ b.i = n \/ b.i > a.i)
      BY <1>2, <2>1
    <2>4. CASE a.found
      <3>1. b = a
        BY <2>4 DEF Stretch
      <3>. QED  BY <2>2, <2>3, <2>4, <3>1
    <2>5. CASE ~a.found
      <3>1. a.i >= k /\ a.i \in 0..n /\ b.i \in 0..n
        BY <1>14, <2>3, <2>5
      <3>2. CASE b.found
        BY <2>2, <2>3, <3>2
      <3>3. CASE b.i = n \/ b.i > a.i
        <4>. HIDE DEF a, b
        <4>1. b.i >= k + 1
          BY <1>0, <2>0, <3>1, <3>3
        <4>. QED  BY <2>2, <2>3, <4>1 DEF a, b
      <3>. QED  BY <2>3, <3>2, <3>3
    <2>. QED  BY <2>4, <2>5
  <1>17. n \in P
    <2>. HIDE DEF P
    <2>. QED  BY <1>0, <1>15, <1>16, SetInduction
  <1>18. Far(f[n], n)
    BY <1>0, <1>17
  <1>. HIDE DEF n
  <1>. QED  BY <1>0, <1>1, <1>13, <1>14, <1>18 DEF n

\* The counters a thread searches.
Limit == MaxChunks * SearchChunk

(***************************************************************************)
(* The inductive invariant of the team.  What it says of a thread t is told *)
(* of the values that make its state: h, what it hashed; c, its cur; a,     *)
(* where it is; r, the result of its search; and handled, the shares that   *)
(* the team submitted or dropped.                                           *)
(***************************************************************************)
\* The counters hashed are the first ones of the thread, in order.
HashedInOrder(t, h) ==
  /\ h \in Seq(Nat) /\ Len(h) <= Limit
  /\ \A i \in 1..Len(h) : h[i] = NumberOf(StartOf(t)) + i - 1

\* A counter found is the last that was hashed.
FoundBy(t, h, c, r) ==
  /\ AtCounter(r.counter, t) /\ Counter(c) <= Counter(r.counter)
  /\ Len(h) = Counter(r.counter) + 1

\* cur goes along with what was hashed.
CurOf(t, h, c, a, r) ==
  /\ AtCounter(c, t) /\ Counter(c) <= Len(h)
  /\ a \in {"loop", "search"} => Len(h) = Counter(c)
  /\ a = "search" => Len(h) + SearchChunk <= Limit
  /\ a \in {"fee", "share"} => r.found \in BOOLEAN
  /\ a \in {"fee", "share"} /\ r.found => FoundBy(t, h, c, r)
  /\ a \in {"fee", "share"} /\ ~r.found => Len(h) = Counter(c) + SearchChunk

\* Of the shares hashed none is lost: it was handled or is about to be.
Pending(a, r, x) == a \in {"fee", "share"} /\ r.found /\ x = NumberOf(r.counter)
NoneLost(h, a, r, handled) ==
  \A i \in 1..Len(h) : h[i] \in PointsOf(hits \ faulty) => h[i] \in handled \/ Pending(a, r, h[i])

ThreadIs(t, h, c, a, r, handled) ==
  HashedInOrder(t, h) /\ CurOf(t, h, c, a, r) /\ NoneLost(h, a, r, handled)

\* The threads are past what was submitted, and nothing was submitted twice.
SentBefore(x, at_) ==
  \E t \in TeamThreads : \E j \in Nat : j < Counter(at_[t]) /\ x = NumberOf(StartOf(t)) + j
SentIs(s, at_) ==
  /\ s \in Seq(Nat) /\ \A i, j \in 1..Len(s) : s[i] = s[j] => i = j
  /\ \A i \in 1..Len(s) : s[i] \in PointsOf(hits \ faulty) /\ SentBefore(s[i], at_)

\* The job and the flags of the team, and how it comes to stop.
TeamFlags ==
  /\ JobOK /\ hits \subseteq TeamThreads \X Offsets /\ faulty \subseteq hits
  /\ running \in BOOLEAN /\ switchDue \in BOOLEAN /\ replaced \in BOOLEAN
  /\ stopRc \in {"none", "cancelled", "fee switch"}
  /\ returned \in {"no", "cancelled", "fee switch"}
  /\ ~running => stopRc # "none" \/ replaced
  /\ stopRc = "cancelled" => replaced
  /\ stopRc = "fee switch" => switchDue
  /\ dropped # {} => replaced
  /\ returned = "cancelled" => replaced
  /\ returned = "fee switch" => switchDue

TeamPlaces ==
  /\ at \in [TeamThreads -> {"loop", "search", "fee", "share", "done"}]
  /\ DOMAIN cur = TeamThreads /\ DOMAIN result = TeamThreads /\ DOMAIN hashed = TeamThreads
  /\ cur = [t \in TeamThreads |-> cur[t]] /\ result = [t \in TeamThreads |-> result[t]]
  /\ hashed = [t \in TeamThreads |-> hashed[t]]
  /\ \A t \in TeamThreads : at[t] = "done" => ~running
  /\ returned # "no" => \A t \in TeamThreads : at[t] = "done"

Handled == Range(sent) \cup dropped
TeamThread(t) == ThreadIs(t, hashed[t], cur[t], at[t], result[t], Handled)
CpuTeamInv == TeamFlags /\ TeamPlaces /\ SentIs(sent, cur) /\ \A t \in TeamThreads : TeamThread(t)

\* The counters searched fit the digits kept for them.
LEMMA LimitIs ==
  /\ Limit \in Nat /\ Power[HotLength] \in Nat
  /\ \A n \in Nat : n <= Limit => n < Power[HotLength]
  <1>. DEFINE L == MaxChunks * SearchChunk  p == Power[HotLength]
  <1>1. L \in Nat /\ p \in Nat
    BY TeamConstants, PowerIs, Products
  <1>2. L < p
    BY TeamBoundsAssumption
  <1>. HIDE DEF L, p
  <1>3. \A n \in Nat : n <= L => n < p
    BY <1>1, <1>2
  <1>. QED  BY <1>1, <1>3 DEF Limit, L, p

\* More shares handled do no harm.
LEMMA ThreadMore ==
  ASSUME NEW t, NEW h, NEW c, NEW a, NEW r, NEW D, NEW E, ThreadIs(t, h, c, a, r, D), D \subseteq E
  PROVE  ThreadIs(t, h, c, a, r, E)
  BY DEF ThreadIs, NoneLost

\* How a thread begins.
LEMMA ThreadStarts ==
  ASSUME JobOK, NEW t \in TeamThreads, NEW D
  PROVE  ThreadIs(t, <<>>, StartOf(t), "loop", NoResult, D)
  <1>1. AtCounter(StartOf(t), t) /\ Counter(StartOf(t)) = 0
    BY CounterStart
  <1>2. CurOf(t, <<>>, StartOf(t), "loop", NoResult)
    BY <1>1 DEF CurOf
  <1>3. HashedInOrder(t, <<>>) /\ NoneLost(<<>>, "loop", NoResult, D)
    BY LimitIs DEF HashedInOrder, NoneLost
  <1>. QED  BY <1>2, <1>3 DEF ThreadIs

\* The steps of a thread that change only where it is.
LEMMA ThreadGoes ==
  ASSUME NEW t, NEW h, NEW c, NEW r, NEW D
  PROVE  /\ ThreadIs(t, h, c, "loop", r, D) => ThreadIs(t, h, c, "done", r, D)
         /\ ThreadIs(t, h, c, "loop", r, D) /\ Len(h) + SearchChunk <= Limit
              => ThreadIs(t, h, c, "search", r, D)
         /\ ThreadIs(t, h, c, "fee", r, D) => ThreadIs(t, h, c, "share", r, D)
  BY DEF ThreadIs, CurOf, NoneLost, Pending

\* A search.
LEMMA ThreadSearches ==
  ASSUME JobOK, NEW t \in TeamThreads, NEW h, NEW c, NEW r, NEW D,
         ThreadIs(t, h, c, "search", r, D)
  PROVE  LET q == SearchRange(c) IN
         ThreadIs(t, h \o q.hashed, c, "fee", [found |-> q.found, counter |-> q.ctr], D)
  <1>. DEFINE q == SearchRange(c)  g == h \o q.hashed  s == [found |-> q.found, counter |-> q.ctr]
              S == NumberOf(StartOf(t))  points == PointsOf(hits)  true == PointsOf(hits \ faulty)
  <1>1. /\ h \in Seq(Nat) /\ Len(h) + SearchChunk <= Limit /\ Len(h) = Counter(c) /\ AtCounter(c, t)
        /\ Len(h) \in Nat /\ SearchChunk \in Nat /\ SearchChunk > 0 /\ Limit \in Nat
        /\ \A i \in 1..Len(h) : h[i] = S + i - 1
        /\ \A i \in 1..Len(h) : h[i] \in true => h[i] \in D
    <2>1. h \in Seq(Nat) /\ \A i \in 1..Len(h) : h[i] = S + i - 1
      BY DEF ThreadIs, HashedInOrder
    <2>2. Len(h) + SearchChunk <= Limit /\ Len(h) = Counter(c) /\ AtCounter(c, t)
      BY DEF ThreadIs, CurOf
    <2>3. \A i \in 1..Len(h) : h[i] \in true => h[i] \in D
      BY Zenon DEF ThreadIs, NoneLost, Pending
    <2>4. SearchChunk \in Nat /\ SearchChunk > 0 /\ Limit \in Nat
      BY TeamConstants, LimitIs
    <2>5. Len(h) \in Nat
      BY <2>1
    <2>. HIDE DEF S, true
    <2>. QED  BY ONLY <2>1, <2>2, <2>3, <2>4, <2>5
  <1>2. Counter(c) \in Nat /\ S \in Nat /\ NumberOf(c) = S + Counter(c)
    BY <1>1, CounterIs
  <1>3. Searched(q, c, t) /\ (q.found \/ q.i = SearchChunk)
    <2>1. Counter(c) + SearchChunk \in Nat /\ Counter(c) + SearchChunk <= Limit
      BY <1>1
    <2>2. Counter(c) + SearchChunk < Power[HotLength]
      BY <2>1, LimitIs
    <2>. QED  BY <1>1, <2>2, SearchRangeIs
  <1>. HIDE DEF q, S
  <1>4. /\ q.found \in BOOLEAN /\ q.hashed \in Seq(Nat) /\ AtCounter(q.ctr, t) /\ Counter(c) <= Counter(q.ctr)
        /\ \A x \in 1..Len(q.hashed) :
             q.hashed[x] = NumberOf(c) + x - 1
             /\ (x <= Counter(q.ctr) - Counter(c) => q.hashed[x] \notin points)
    BY <1>3 DEF Searched
  <1>5. q.found => /\ Counter(q.ctr) < Counter(c) + SearchChunk
                   /\ Len(q.hashed) = Counter(q.ctr) - Counter(c) + 1
    BY <1>3 DEF Searched
  <1>6. ~q.found => Counter(q.ctr) = Counter(c) + SearchChunk /\ Len(q.hashed) = SearchChunk
    BY <1>3 DEF Searched
  <1>7. Counter(q.ctr) \in Nat /\ NumberOf(q.ctr) = S + Counter(q.ctr)
    BY <1>4, CounterIs DEF S
  <1>. DEFINE H == Len(h)  G == Len(q.hashed)  C == Counter(q.ctr)
  <1>8. /\ H \in Nat /\ G \in Nat /\ C \in Nat /\ Counter(c) = H /\ H <= C /\ G <= SearchChunk
        /\ q.found => C < H + SearchChunk /\ G = C - H + 1
        /\ ~q.found => C = H + SearchChunk /\ G = SearchChunk
    <2>1. H \in Nat /\ G \in Nat /\ C \in Nat /\ Counter(c) = H /\ H <= C
      BY <1>1, <1>4, <1>7
    <2>2. CASE q.found
      <3>1. C < H + SearchChunk /\ G = C - H + 1
        BY <1>5, <2>1, <2>2
      <3>2. G <= SearchChunk
        <4>. HIDE DEF C, G, H
        <4>. QED  BY <1>1, <2>1, <3>1
      <3>. QED  BY <2>1, <2>2, <3>1, <3>2
    <2>3. CASE ~q.found
      BY <1>1, <1>6, <2>1, <2>3
    <2>. QED  BY <2>2, <2>3
  <1>9. /\ g \in Seq(Nat) /\ Len(g) = H + G
        /\ \A x \in 1..H : g[x] = h[x]
        /\ \A x \in 1..G : g[H + x] = q.hashed[x]
    BY <1>1, <1>4, Spliced
  <1>. HIDE DEF g, H, G, C
  <1>10. \A x \in 1..(H + G) : x \in 1..H \/ (x - H \in 1..G /\ H + (x - H) = x)
    BY <1>8
  <1>11. ASSUME NEW x \in 1..(H + G) PROVE g[x] = S + x - 1
    <2>1. CASE x \in 1..H
      BY <1>1, <1>9, <2>1 DEF H
    <2>2. CASE x - H \in 1..G /\ H + (x - H) = x
      <3>1. g[x] = q.hashed[x - H]
        BY <1>9, <2>2
      <3>2. q.hashed[x - H] = NumberOf(c) + (x - H) - 1
        BY <1>4, <2>2 DEF G
      <3>3. NumberOf(c) = S + H
        BY <1>2, <1>8
      <3>. QED  BY <1>2, <1>8, <3>1, <3>2, <3>3
    <2>. QED  BY <1>10, <2>1, <2>2
  <1>12. HashedInOrder(t, g)
    <2>1. H + G <= Limit
      BY <1>1, <1>8 DEF H
    <2>2. H + G \in Nat
      BY <1>8
    <2>. QED  BY <1>9, <1>11, <2>1 DEF HashedInOrder, S
  <1>13. CurOf(t, g, c, "fee", s)
    <2>1. Counter(c) <= H + G /\ (q.found => H + G = C + 1) /\ (~q.found => H + G = Counter(c) + SearchChunk)
      <3>1. CASE q.found
        <4>1. G = C - H + 1 /\ Counter(c) = H
          BY <1>8, <3>1
        <4>2. H <= H + G /\ H + G = C + 1
          BY <1>8, <4>1
        <4>. QED  BY <3>1, <4>1, <4>2
      <3>2. CASE ~q.found
        <4>1. G = SearchChunk /\ Counter(c) = H
          BY <1>8, <3>2
        <4>2. H <= H + G
          BY <1>8
        <4>. QED  BY <3>2, <4>1, <4>2
      <3>. QED  BY <3>1, <3>2
    <2>2. s.found = q.found /\ s.counter = q.ctr
      OBVIOUS
    <2>. HIDE DEF s
    <2>3. q.found => FoundBy(t, g, c, s)
      BY <1>4, <1>8, <1>9, <2>1, <2>2 DEF FoundBy, C
    <2>. QED  BY <1>1, <1>4, <1>9, <2>1, <2>2, <2>3 DEF CurOf
  <1>14. NoneLost(g, "fee", s, D)
    <2>. SUFFICES ASSUME NEW x \in 1..(H + G), g[x] \in true
                  PROVE  g[x] \in D \/ Pending("fee", s, g[x])
      BY <1>9 DEF NoneLost
    <2>1. CASE x \in 1..H
      BY <1>1, <1>9, <2>1 DEF H
    <2>2. CASE x - H \in 1..G /\ H + (x - H) = x
      <3>1. g[x] = q.hashed[x - H]
        BY <1>9, <2>2
      <3>2. g[x] \in points
        BY DEF PointsOf
      <3>3. ~(x - H <= C - H)
        BY <1>4, <1>8, <2>2, <3>1, <3>2 DEF G, C
      <3>4. q.found
        <4>. SUFFICES ASSUME ~q.found PROVE FALSE
          OBVIOUS
        <4>1. C = H + SearchChunk /\ G = SearchChunk
          BY <1>8
        <4>. QED  BY <1>1, <1>8, <2>2, <3>3, <4>1
      <3>5. G = C - H + 1
        BY <1>8, <3>4
      <3>6. x = C + 1
        BY <1>8, <2>2, <3>3, <3>5
      <3>7. g[x] = S + x - 1
        BY <1>11
      <3>8. g[x] = NumberOf(q.ctr)
        BY <1>2, <1>7, <1>8, <3>6, <3>7 DEF C
      <3>. QED  BY <3>4, <3>8 DEF Pending
    <2>. QED  BY <1>10, <2>1, <2>2
  <1>. QED  BY <1>12, <1>13, <1>14 DEF ThreadIs, q, g, s

\* A thread goes on from a counter of its own that is all it hashed.
LEMMA ThreadContinues ==
  ASSUME NEW t, NEW h, NEW c, NEW a, NEW r, NEW D, NEW E, D \subseteq E, NEW d,
         ThreadIs(t, h, c, a, r, D), AtCounter(d, t), Counter(d) = Len(h),
         \A x : Pending(a, r, x) /\ x \in PointsOf(hits \ faulty) => x \in E
  PROVE  ThreadIs(t, h, d, "loop", NoResult, E) /\ ThreadIs(t, h, d, "done", NoResult, E)
  <1>1. HashedInOrder(t, h)
    BY DEF ThreadIs
  <1>2. \A i \in 1..Len(h) : h[i] \in PointsOf(hits \ faulty) => h[i] \in E
    BY DEF ThreadIs, NoneLost
  <1>3. Len(h) \in Nat
    BY <1>1 DEF HashedInOrder
  <1>4. CurOf(t, h, d, "loop", NoResult) /\ CurOf(t, h, d, "done", NoResult)
    BY <1>3 DEF CurOf
  <1>. QED  BY <1>1, <1>2, <1>4 DEF ThreadIs, NoneLost

\* No counter found: the next chunk.
LEMMA ThreadFindsNothing ==
  ASSUME JobOK, NEW t \in TeamThreads, NEW h, NEW c, NEW r, NEW D,
         ThreadIs(t, h, c, "share", r, D), ~r.found
  PROVE  /\ ThreadIs(t, h, AddBe(c, SearchChunk), "loop", NoResult, D)
         /\ Counter(c) \in Nat /\ Counter(AddBe(c, SearchChunk)) = Counter(c) + SearchChunk
  <1>1. /\ AtCounter(c, t) /\ Len(h) = Counter(c) + SearchChunk /\ Len(h) <= Limit /\ Len(h) \in Nat
    BY DEF ThreadIs, CurOf, HashedInOrder
  <1>2. SearchChunk \in Nat /\ Counter(c) \in Nat
    BY <1>1, TeamConstants, CounterIs
  <1>3. Counter(c) + SearchChunk < Power[HotLength]
    BY <1>1, LimitIs
  <1>4. AtCounter(AddBe(c, SearchChunk), t) /\ Counter(AddBe(c, SearchChunk)) = Counter(c) + SearchChunk
    BY <1>1, <1>2, <1>3, CounterAdd
  <1>5. \A x : ~Pending("share", r, x)
    BY DEF Pending
  <1>. QED  BY <1>1, <1>2, <1>4, <1>5, ThreadContinues

\* A counter found and dealt with: the one after it.
LEMMA ThreadGoesOn ==
  ASSUME JobOK, NEW t \in TeamThreads, NEW h, NEW c, NEW r, NEW D, NEW E, D \subseteq E,
         ThreadIs(t, h, c, "share", r, D), r.found,
         NumberOf(r.counter) \in PointsOf(hits \ faulty) => NumberOf(r.counter) \in E
  PROVE  /\ ThreadIs(t, h, IncBe(r.counter), "loop", NoResult, E)
         /\ Counter(c) \in Nat /\ Counter(r.counter) \in Nat /\ Counter(c) <= Counter(r.counter)
         /\ Counter(r.counter) <= Limit
         /\ NumberOf(r.counter) = NumberOf(StartOf(t)) + Counter(r.counter)
         /\ Counter(IncBe(r.counter)) = Counter(r.counter) + 1
  <1>1. /\ AtCounter(c, t) /\ FoundBy(t, h, c, r) /\ Len(h) <= Limit /\ Len(h) \in Nat
    BY DEF ThreadIs, CurOf, HashedInOrder
  <1>2. /\ AtCounter(r.counter, t) /\ Counter(c) <= Counter(r.counter)
        /\ Len(h) = Counter(r.counter) + 1
    BY <1>1 DEF FoundBy
  <1>3. /\ Counter(c) \in Nat /\ Counter(r.counter) \in Nat
        /\ NumberOf(r.counter) = NumberOf(StartOf(t)) + Counter(r.counter)
    BY <1>1, <1>2, CounterIs
  <1>4. Counter(r.counter) + 1 < Power[HotLength] /\ 1 \in Nat
    BY <1>1, <1>2, LimitIs
  <1>5. AtCounter(IncBe(r.counter), t) /\ Counter(IncBe(r.counter)) = Counter(r.counter) + 1
    BY <1>2, <1>4, CounterAdd DEF IncBe
  <1>6. \A x : Pending("share", r, x) /\ x \in PointsOf(hits \ faulty) => x \in E
    BY DEF Pending
  <1>7. ThreadIs(t, h, IncBe(r.counter), "loop", NoResult, E)
    BY <1>2, <1>5, <1>6, ThreadContinues
  <1>8. Counter(r.counter) <= Limit
    BY <1>1, <1>2, <1>3, LimitIs
  <1>. QED  BY <1>2, <1>3, <1>5, <1>7, <1>8

\* A counter dropped: the thread is done.
LEMMA ThreadDrops ==
  ASSUME NEW t, NEW h, NEW c, NEW r, NEW D, NEW E, D \subseteq E,
         ThreadIs(t, h, c, "share", r, D), NumberOf(r.counter) \in E
  PROVE  ThreadIs(t, h, c, "done", r, E)
  <1>1. HashedInOrder(t, h) /\ CurOf(t, h, c, "done", r)
    BY DEF ThreadIs, CurOf
  <1>2. NoneLost(h, "done", r, E)
    BY Zenon DEF ThreadIs, NoneLost, Pending
  <1>. QED  BY <1>1, <1>2 DEF ThreadIs

\* What was submitted stays so when threads go on.
LEMMA SentStays ==
  ASSUME NEW s, NEW c, NEW d, SentIs(s, c),
         \A t \in TeamThreads : \A j \in Nat : j < Counter(c[t]) => j < Counter(d[t])
  PROVE  SentIs(s, d)
  BY Zenon DEF SentIs, SentBefore

\* A thread submits x, the counter n it found, and goes past it: its cur is c
\* before and d after.
Submitting(s, c, d, t, n, x) ==
  /\ SentIs(s, c) /\ t \in TeamThreads /\ n \in Nat /\ x \in Nat
  /\ Counter(c[t]) <= n /\ n < Counter(d[t]) /\ n <= Limit
  /\ \A u \in TeamThreads : Counter(c[u]) \in Nat /\ Counter(c[u]) <= Limit
  /\ \A u \in TeamThreads : \A j \in Nat : j < Counter(c[u]) => j < Counter(d[u])
  /\ x = NumberOf(StartOf(t)) + n /\ x \in PointsOf(hits \ faulty)

\* It was not submitted before.
LEMMA SentAppend ==
  ASSUME JobOK, NEW s, NEW c, NEW d, NEW t, NEW n, NEW x, Submitting(s, c, d, t, n, x)
  PROVE  SentIs(Append(s, x), d) /\ Range(Append(s, x)) = Range(s) \cup {x}
  <1>. USE DEF Submitting
  <1>. DEFINE g == Append(s, x)  L == Len(s)
  <1>1. /\ s \in Seq(Nat) /\ L \in Nat /\ g \in Seq(Nat) /\ Len(g) = L + 1 /\ g[L + 1] = x
        /\ DOMAIN s = 1..L /\ DOMAIN g = 1..(L + 1) /\ \A i \in 1..L : g[i] = s[i]
    BY DEF SentIs
  <1>2. SentIs(s, d)
    BY SentStays
  <1>3. \A i \in 1..L : s[i] # x
    <2>. SUFFICES ASSUME NEW i \in 1..L, s[i] = x PROVE FALSE
      OBVIOUS
    <2>1. PICK u \in TeamThreads, j \in Nat : j < Counter(c[u]) /\ x = NumberOf(StartOf(u)) + j
      BY DEF SentIs, SentBefore
    <2>2. j <= Limit
      BY <2>1, LimitIs
    <2>3. j < Power[HotLength] /\ n < Power[HotLength]
      BY <2>2, LimitIs
    <2>4. t = u /\ n = j
      BY <2>1, <2>3, CountersApart DEF JobOK
    <2>. QED  BY <2>1, <2>4
  <1>4. SentBefore(x, d)
    BY DEF SentBefore
  <1>. HIDE DEF g
  <1>5. \A i \in 1..(L + 1) : i \in 1..L \/ i = L + 1
    BY <1>1
  <1>6. \A i, j \in 1..(L + 1) : g[i] = g[j] => i = j
    <2>1. \A i, j \in 1..L : s[i] = s[j] => i = j
      BY DEF SentIs
    <2>. HIDE DEF L
    <2>. QED  BY <1>1, <1>3, <1>5, <2>1
  <1>7. \A i \in 1..(L + 1) : g[i] \in PointsOf(hits \ faulty) /\ SentBefore(g[i], d)
    <2>1. \A i \in 1..L : s[i] \in PointsOf(hits \ faulty) /\ SentBefore(s[i], d)
      BY <1>2 DEF SentIs
    <2>. QED  BY <1>1, <1>4, <1>5, <2>1
  <1>8. SentIs(g, d)
    BY <1>1, <1>6, <1>7 DEF SentIs
  <1>9. Range(g) = Range(s) \cup {x}
    <2>. HIDE DEF L
    <2>1. \A i \in 1..L : i \in 1..(L + 1)
      BY <1>1
    <2>2. L + 1 \in 1..(L + 1)
      BY <1>1
    <2>. QED  BY <1>1, <1>5, <2>1, <2>2 DEF Range
  <1>. QED  BY <1>8, <1>9 DEF g

\* What no step changes.
LEMMA JobKept ==
  ASSUME UNCHANGED jobVars
  PROVE  /\ JobOK' <=> JobOK
         /\ \A t, h, c, a, r, D : ThreadIs(t, h, c, a, r, D)' <=> ThreadIs(t, h, c, a, r, D)
         /\ \A s, c : SentIs(s, c)' <=> SentIs(s, c)
  <1>1. /\ extranonceLen' = extranonceLen /\ salt' = salt /\ hits' = hits /\ faulty' = faulty
    BY DEF jobVars
  <1>2. \A t : StartOf(t)' = StartOf(t)
    BY <1>1 DEF StartOf
  <1>3. PointsOf(hits \ faulty)' = PointsOf(hits \ faulty)
    BY <1>1, <1>2 DEF PointsOf, TrueAt
  <1>4. \A t, c : AtCounter(c, t)' <=> AtCounter(c, t)
    BY <1>2 DEF AtCounter
  <1>5. \A t, h, c, r : FoundBy(t, h, c, r)' <=> FoundBy(t, h, c, r)
    BY <1>4 DEF FoundBy
  <1>6. \A t, h, c, a, r : CurOf(t, h, c, a, r)' <=> CurOf(t, h, c, a, r)
    BY <1>4, <1>5 DEF CurOf
  <1>7. \A t, h : HashedInOrder(t, h)' <=> HashedInOrder(t, h)
    BY <1>2 DEF HashedInOrder
  <1>8. \A h, a, r, D : NoneLost(h, a, r, D)' <=> NoneLost(h, a, r, D)
    BY <1>3 DEF NoneLost
  <1>9. \A x, c : SentBefore(x, c)' <=> SentBefore(x, c)
    BY <1>2 DEF SentBefore
  <1>. QED  BY <1>1, <1>3, <1>6, <1>7, <1>8, <1>9 DEF JobOK, ThreadIs, SentIs

\* The invariant of the next state, thread by thread.
LEMMA TeamThreadSteps ==
  ASSUME CpuTeamInv, UNCHANGED jobVars, NEW t \in TeamThreads, Handled \subseteq Handled',
         ThreadIs(t, hashed'[t], cur'[t], at'[t], result'[t], Handled'),
         \A u \in TeamThreads : u # t => /\ at'[u] = at[u] /\ cur'[u] = cur[u]
                                         /\ result'[u] = result[u] /\ hashed'[u] = hashed[u],
         SentIs(sent', cur'), TeamFlags', TeamPlaces'
  PROVE  CpuTeamInv'
  <1>1. ASSUME NEW u \in TeamThreads PROVE ThreadIs(u, hashed'[u], cur'[u], at'[u], result'[u], Handled')
    <2>1. CASE u # t
      <3>1. ThreadIs(u, hashed[u], cur[u], at[u], result[u], Handled)
        BY DEF CpuTeamInv, TeamThread
      <3>2. ThreadIs(u, hashed[u], cur[u], at[u], result[u], Handled')
        BY <3>1, ThreadMore
      <3>. QED  BY <2>1, <3>2
    <2>. QED  BY <2>1
  <1>2. \A u \in TeamThreads : TeamThread(u)'
    BY <1>1, JobKept DEF TeamThread
  <1>3. SentIs(sent, cur)'
    BY JobKept
  <1>4. TeamThreads' = TeamThreads
    BY DEF TeamThreads
  <1>. QED  BY <1>2, <1>3, <1>4 DEF CpuTeamInv

\* A step that leaves the threads alone.
LEMMA TeamThreadsStay ==
  ASSUME CpuTeamInv, UNCHANGED <<jobVars, threadVars, sent, dropped>>, TeamFlags', TeamPlaces'
  PROVE  CpuTeamInv'
  <1>1. UNCHANGED <<at, cur, result, hashed, sent, dropped>> /\ UNCHANGED jobVars
    BY DEF threadVars
  <1>2. Handled' = Handled
    BY <1>1 DEF Handled
  <1>3. \A u \in TeamThreads : ThreadIs(u, hashed'[u], cur'[u], at'[u], result'[u], Handled')
    BY <1>1, <1>2 DEF CpuTeamInv, TeamThread
  <1>4. \A u \in TeamThreads : TeamThread(u)'
    BY <1>1, <1>3, JobKept DEF TeamThread
  <1>5. SentIs(sent, cur)'
    BY <1>1, JobKept DEF CpuTeamInv
  <1>6. TeamThreads' = TeamThreads
    BY DEF TeamThreads
  <1>. QED  BY <1>4, <1>5, <1>6 DEF CpuTeamInv

\* The invariant holds at first.
LEMMA CpuTeamInitInv == TeamInit => CpuTeamInv
  <1>. SUFFICES ASSUME TeamInit PROVE CpuTeamInv
    OBVIOUS
  <1>1. TeamFlags
    BY DEF TeamInit, TeamFlags, JobOK
  <1>2. TeamPlaces
    BY DEF TeamInit, TeamPlaces
  <1>3. SentIs(sent, cur)
    BY DEF TeamInit, SentIs
  <1>4. ASSUME NEW t \in TeamThreads PROVE TeamThread(t)
    <2>1. at[t] = "loop" /\ cur[t] = StartOf(t) /\ result[t] = NoResult /\ hashed[t] = <<>>
      BY DEF TeamInit
    <2>. QED  BY <1>1, <2>1, ThreadStarts DEF TeamThread, TeamFlags
  <1>. QED  BY <1>1, <1>2, <1>3, <1>4 DEF CpuTeamInv

\* The head of the loop.
LEMMA LoopKeeps ==
  ASSUME CpuTeamInv, NEW t \in TeamThreads, Loop(t)
  PROVE  CpuTeamInv'
  <1>1. /\ at[t] = "loop" /\ UNCHANGED jobVars
        /\ UNCHANGED <<cur, result, hashed, switchDue, sent, dropped, returned, replaced>>
    BY DEF Loop
  <1>2. /\ ThreadIs(t, hashed[t], cur[t], at[t], result[t], Handled) /\ SentIs(sent, cur)
        /\ TeamFlags /\ TeamPlaces
    BY DEF CpuTeamInv, TeamThread
  <1>3. Handled' = Handled
    BY <1>1 DEF Handled
  <1>4. PICK p \in {"done", "search"} :
          /\ at' = [at EXCEPT ![t] = p] /\ stopRc' \in {stopRc, "cancelled"}
          /\ p = "done" => ~running'
          /\ p = "search" => Len(hashed[t]) + SearchChunk <= Limit /\ UNCHANGED running /\ running
          /\ running' \in BOOLEAN /\ (running' => running)
          /\ stopRc' = stopRc => UNCHANGED running \/ replaced
          /\ stopRc' # stopRc => replaced
    <2>1. CASE ~running /\ Goto(t, "done") /\ UNCHANGED <<stopRc, running>>
      <3>1. at' = [at EXCEPT ![t] = "done"] /\ stopRc' = stopRc /\ running' = running /\ ~running
        BY <2>1 DEF Goto
      <3>2. running \in BOOLEAN
        BY <1>2 DEF TeamFlags
      <3>. QED  BY <3>1, <3>2
    <2>2. CASE running /\ replaced /\ Goto(t, "done") /\ Stop("cancelled")
      <3>1. at' = [at EXCEPT ![t] = "done"] /\ stopRc' = "cancelled" /\ running' = FALSE /\ replaced
        BY <2>2 DEF Goto, Stop
      <3>. QED  BY <3>1
    <2>3. CASE /\ running /\ ~replaced /\ Len(hashed[t]) + SearchChunk <= MaxChunks * SearchChunk
               /\ Goto(t, "search") /\ UNCHANGED <<stopRc, running>>
      <3>1. /\ at' = [at EXCEPT ![t] = "search"] /\ stopRc' = stopRc /\ running' = running /\ running
            /\ Len(hashed[t]) + SearchChunk <= Limit
        BY <2>3 DEF Goto, Limit
      <3>2. running \in BOOLEAN
        BY <1>2 DEF TeamFlags
      <3>. QED  BY <3>1, <3>2
    <2>. QED  BY <2>1, <2>2, <2>3 DEF Loop
  <1>5. /\ at' \in [TeamThreads -> {"loop", "search", "fee", "share", "done"}] /\ at'[t] = p
        /\ \A u \in TeamThreads : u # t => at'[u] = at[u]
    BY <1>2, <1>4 DEF TeamPlaces
  <1>6. ThreadIs(t, hashed'[t], cur'[t], at'[t], result'[t], Handled')
    BY <1>1, <1>2, <1>3, <1>4, <1>5, ThreadGoes
  <1>7. TeamFlags'
    BY <1>1, <1>2, <1>4, JobKept DEF TeamFlags, jobVars, TeamThreads, Offsets
  <1>8. TeamPlaces'
    <2>1. returned' = "no"
      BY <1>1, <1>2 DEF TeamPlaces, TeamFlags
    <2>2. \A u \in TeamThreads : at'[u] = "done" => ~running'
      BY <1>2, <1>4, <1>5 DEF TeamPlaces, TeamFlags
    <2>. QED  BY <1>1, <1>2, <1>5, <2>1, <2>2 DEF TeamPlaces, TeamThreads
  <1>. QED  BY <1>1, <1>2, <1>3, <1>5, <1>6, <1>7, <1>8, TeamThreadSteps

\* A chunk is searched.
LEMMA SearchKeeps ==
  ASSUME CpuTeamInv, NEW t \in TeamThreads, Search(t)
  PROVE  CpuTeamInv'
  <1>. DEFINE q == SearchRange(cur[t])
  <1>1. /\ at[t] = "search" /\ UNCHANGED jobVars /\ at' = [at EXCEPT ![t] = "fee"]
        /\ UNCHANGED <<cur, running, stopRc, switchDue, sent, dropped, returned, replaced>>
        /\ result' = [result EXCEPT ![t] = [found |-> q.found, counter |-> q.ctr]]
        /\ hashed' = [hashed EXCEPT ![t] = @ \o q.hashed]
    BY DEF Search, Goto
  <1>2. /\ ThreadIs(t, hashed[t], cur[t], at[t], result[t], Handled) /\ SentIs(sent, cur)
        /\ TeamFlags /\ TeamPlaces
    BY DEF CpuTeamInv, TeamThread
  <1>3. Handled' = Handled
    BY <1>1 DEF Handled
  <1>4. ThreadIs(t, hashed[t] \o q.hashed, cur[t], "fee", [found |-> q.found, counter |-> q.ctr], Handled)
    BY <1>1, <1>2, ThreadSearches DEF TeamFlags
  <1>. HIDE DEF q
  <1>5. /\ at' \in [TeamThreads -> {"loop", "search", "fee", "share", "done"}] /\ at'[t] = "fee"
        /\ result'[t] = [found |-> q.found, counter |-> q.ctr] /\ hashed'[t] = hashed[t] \o q.hashed
        /\ DOMAIN result' = TeamThreads /\ DOMAIN hashed' = TeamThreads
        /\ \A u \in TeamThreads : u # t => at'[u] = at[u] /\ result'[u] = result[u] /\ hashed'[u] = hashed[u]
    BY <1>1, <1>2 DEF TeamPlaces
  <1>6. ThreadIs(t, hashed'[t], cur'[t], at'[t], result'[t], Handled')
    BY <1>1, <1>3, <1>4, <1>5
  <1>7. TeamFlags'
    BY <1>1, <1>2, JobKept DEF TeamFlags, jobVars, TeamThreads, Offsets
  <1>8. TeamPlaces'
    <2>1. returned' = "no"
      BY <1>1, <1>2 DEF TeamPlaces, TeamFlags
    <2>2. \A u \in TeamThreads : at'[u] = "done" => ~running'
      BY <1>1, <1>2, <1>5 DEF TeamPlaces
    <2>3. result' = [u \in TeamThreads |-> result'[u]] /\ hashed' = [u \in TeamThreads |-> hashed'[u]]
      BY <1>1, <1>2 DEF TeamPlaces
    <2>. QED  BY <1>1, <1>2, <1>5, <2>1, <2>2, <2>3 DEF TeamPlaces, TeamThreads
  <1>. QED  BY <1>1, <1>2, <1>3, <1>5, <1>6, <1>7, <1>8, TeamThreadSteps

\* The time is noted for the fee.
LEMMA NoteFeeKeeps ==
  ASSUME CpuTeamInv, NEW t \in TeamThreads, NoteFee(t)
  PROVE  CpuTeamInv'
  <1>1. /\ at[t] = "fee" /\ UNCHANGED jobVars /\ at' = [at EXCEPT ![t] = "share"]
        /\ UNCHANGED <<cur, result, hashed, sent, dropped, returned, replaced>>
        /\ switchDue' \in {switchDue, TRUE}
        /\ switchDue' => stopRc' = "fee switch" /\ running' = FALSE
        /\ ~switchDue' => UNCHANGED <<stopRc, running>>
    BY Zenon DEF NoteFee, Goto, Stop
  <1>2. /\ ThreadIs(t, hashed[t], cur[t], at[t], result[t], Handled) /\ SentIs(sent, cur)
        /\ TeamFlags /\ TeamPlaces
    BY DEF CpuTeamInv, TeamThread
  <1>3. Handled' = Handled
    BY <1>1 DEF Handled
  <1>5. /\ at' \in [TeamThreads -> {"loop", "search", "fee", "share", "done"}] /\ at'[t] = "share"
        /\ \A u \in TeamThreads : u # t => at'[u] = at[u]
    BY <1>1, <1>2 DEF TeamPlaces
  <1>6. ThreadIs(t, hashed'[t], cur'[t], at'[t], result'[t], Handled')
    BY <1>1, <1>2, <1>3, <1>5, ThreadGoes
  <1>7. TeamFlags'
    BY <1>1, <1>2, JobKept DEF TeamFlags, jobVars, TeamThreads, Offsets
  <1>8. TeamPlaces'
    <2>1. returned' = "no"
      BY <1>1, <1>2 DEF TeamPlaces, TeamFlags
    <2>2. \A u \in TeamThreads : at'[u] = "done" => ~running'
      BY <1>1, <1>2, <1>5 DEF TeamPlaces, TeamFlags
    <2>. QED  BY <1>1, <1>2, <1>5, <2>1, <2>2 DEF TeamPlaces, TeamThreads
  <1>. QED  BY <1>1, <1>2, <1>3, <1>5, <1>6, <1>7, <1>8, TeamThreadSteps

\* Where the threads are after one of them goes back to the head of the loop.
LEMMA ContinuesPlaces ==
  ASSUME TeamFlags, TeamPlaces, UNCHANGED <<hashed, running, returned>>, NEW t \in TeamThreads,
         at[t] = "share", at' = [at EXCEPT ![t] = "loop"],
         NEW d, cur' = [cur EXCEPT ![t] = d], NEW r, result' = [result EXCEPT ![t] = r]
  PROVE  TeamPlaces'
  <1>1. /\ at' \in [TeamThreads -> {"loop", "search", "fee", "share", "done"}] /\ at'[t] = "loop"
        /\ DOMAIN cur' = TeamThreads /\ DOMAIN result' = TeamThreads
        /\ cur' = [u \in TeamThreads |-> cur'[u]] /\ result' = [u \in TeamThreads |-> result'[u]]
        /\ \A u \in TeamThreads : u # t => at'[u] = at[u]
    BY DEF TeamPlaces
  <1>2. returned' = "no"
    BY DEF TeamPlaces
  <1>3. \A u \in TeamThreads : at'[u] = "done" => ~running'
    BY <1>1 DEF TeamPlaces
  <1>. QED  BY <1>1, <1>2, <1>3 DEF TeamPlaces, TeamThreads

\* A thread found nothing.
LEMMA NothingFoundKeeps ==
  ASSUME CpuTeamInv, NEW t \in TeamThreads, NothingFound(t)
  PROVE  CpuTeamInv'
  <1>. DEFINE d == AddBe(cur[t], SearchChunk)
  <1>1. /\ at[t] = "share" /\ ~result[t].found /\ UNCHANGED jobVars /\ at' = [at EXCEPT ![t] = "loop"]
        /\ cur' = [cur EXCEPT ![t] = d] /\ result' = [result EXCEPT ![t] = NoResult]
        /\ UNCHANGED <<hashed, running, stopRc, switchDue, sent, dropped, returned, replaced>>
    BY DEF NothingFound, Continue, Goto
  <1>2. /\ ThreadIs(t, hashed[t], cur[t], at[t], result[t], Handled) /\ SentIs(sent, cur)
        /\ TeamFlags /\ TeamPlaces
    BY DEF CpuTeamInv, TeamThread
  <1>3. Handled' = Handled
    BY <1>1 DEF Handled
  <1>4. /\ ThreadIs(t, hashed[t], d, "loop", NoResult, Handled)
        /\ Counter(cur[t]) \in Nat /\ Counter(d) = Counter(cur[t]) + SearchChunk
    BY <1>1, <1>2, ThreadFindsNothing DEF TeamFlags
  <1>. HIDE DEF d
  <1>5. /\ at'[t] = "loop" /\ cur'[t] = d /\ result'[t] = NoResult
        /\ \A u \in TeamThreads : u # t => at'[u] = at[u] /\ result'[u] = result[u] /\ cur'[u] = cur[u]
    BY <1>1, <1>2 DEF TeamPlaces
  <1>6. ThreadIs(t, hashed'[t], cur'[t], at'[t], result'[t], Handled')
    BY <1>1, <1>3, <1>4, <1>5
  <1>7. TeamFlags'
    BY <1>1, <1>2, JobKept DEF TeamFlags, jobVars, TeamThreads, Offsets
  <1>8. TeamPlaces'
    BY <1>1, <1>2, ContinuesPlaces
  <1>9. \A u \in TeamThreads : \A j \in Nat : j < Counter(cur[u]) => j < Counter(cur'[u])
    <2>1. \A j \in Nat : j < Counter(cur[t]) => j < Counter(d)
      BY <1>4, TeamConstants
    <2>. QED  BY <1>5, <2>1
  <1>10. SentIs(sent', cur')
    BY <1>1, <1>2, <1>9, SentStays
  <1>. QED  BY <1>1, <1>3, <1>5, <1>6, <1>7, <1>8, <1>10, TeamThreadSteps

\* A counter that is no share after all.
LEMMA NotConfirmedKeeps ==
  ASSUME CpuTeamInv, NEW t \in TeamThreads, NotConfirmed(t)
  PROVE  CpuTeamInv'
  <1>. DEFINE d == IncBe(result[t].counter)
  <1>1. /\ at[t] = "share" /\ result[t].found /\ UNCHANGED jobVars /\ at' = [at EXCEPT ![t] = "loop"]
        /\ cur' = [cur EXCEPT ![t] = d] /\ result' = [result EXCEPT ![t] = NoResult]
        /\ UNCHANGED <<hashed, running, stopRc, switchDue, sent, dropped, returned, replaced>>
        /\ NumberOf(result[t].counter) \notin PointsOf(hits \ faulty)
    BY DEF NotConfirmed, Continue, Goto, ReferenceOk
  <1>2. /\ ThreadIs(t, hashed[t], cur[t], at[t], result[t], Handled) /\ SentIs(sent, cur)
        /\ TeamFlags /\ TeamPlaces
    BY DEF CpuTeamInv, TeamThread
  <1>3. Handled' = Handled
    BY <1>1 DEF Handled
  <1>4. /\ ThreadIs(t, hashed[t], d, "loop", NoResult, Handled)
        /\ Counter(cur[t]) \in Nat /\ Counter(result[t].counter) \in Nat
        /\ Counter(cur[t]) <= Counter(result[t].counter)
        /\ Counter(d) = Counter(result[t].counter) + 1
    <2>. DEFINE r == result[t]  h == hashed[t]  c == cur[t]  D == Handled
    <2>1. /\ JobOK /\ ThreadIs(t, h, c, "share", r, D) /\ r.found /\ D \subseteq D
          /\ NumberOf(r.counter) \in PointsOf(hits \ faulty) => NumberOf(r.counter) \in D
      BY <1>1, <1>2 DEF TeamFlags
    <2>. HIDE DEF r, h, c, D
    <2>2. /\ ThreadIs(t, h, IncBe(r.counter), "loop", NoResult, D)
          /\ Counter(c) \in Nat /\ Counter(r.counter) \in Nat /\ Counter(c) <= Counter(r.counter)
          /\ Counter(IncBe(r.counter)) = Counter(r.counter) + 1
      BY <2>1, ThreadGoesOn
    <2>. QED  BY <2>2 DEF r, h, c, D
  <1>. HIDE DEF d
  <1>5. /\ at'[t] = "loop" /\ cur'[t] = d /\ result'[t] = NoResult
        /\ \A u \in TeamThreads : u # t => at'[u] = at[u] /\ result'[u] = result[u] /\ cur'[u] = cur[u]
    BY <1>1, <1>2 DEF TeamPlaces
  <1>6. ThreadIs(t, hashed'[t], cur'[t], at'[t], result'[t], Handled')
    BY <1>1, <1>3, <1>4, <1>5
  <1>7. TeamFlags'
    BY <1>1, <1>2, JobKept DEF TeamFlags, jobVars, TeamThreads, Offsets
  <1>8. TeamPlaces'
    BY <1>1, <1>2, ContinuesPlaces
  <1>9. \A u \in TeamThreads : \A j \in Nat : j < Counter(cur[u]) => j < Counter(cur'[u])
    <2>1. \A j \in Nat : j < Counter(cur[t]) => j < Counter(d)
      BY <1>4
    <2>. QED  BY <1>5, <2>1
  <1>10. SentIs(sent', cur')
    BY <1>1, <1>2, <1>9, SentStays
  <1>. QED  BY <1>1, <1>3, <1>5, <1>6, <1>7, <1>8, <1>10, TeamThreadSteps

\* A share of a replaced job.
LEMMA DropShareKeeps ==
  ASSUME CpuTeamInv, NEW t \in TeamThreads, DropShare(t)
  PROVE  CpuTeamInv'
  <1>. DEFINE x == NumberOf(result[t].counter)
  <1>1. /\ at[t] = "share" /\ UNCHANGED jobVars /\ at' = [at EXCEPT ![t] = "done"]
        /\ replaced /\ dropped' = dropped \cup {x} /\ stopRc' = "none" /\ running' = FALSE
        /\ UNCHANGED <<cur, result, hashed, switchDue, sent, returned, replaced>>
    BY DEF DropShare, Goto, Stop
  <1>2. /\ ThreadIs(t, hashed[t], cur[t], at[t], result[t], Handled) /\ SentIs(sent, cur)
        /\ TeamFlags /\ TeamPlaces
    BY DEF CpuTeamInv, TeamThread
  <1>3. Handled' = Handled \cup {x}
    BY <1>1 DEF Handled
  <1>4. ThreadIs(t, hashed[t], cur[t], "done", result[t], Handled')
    BY <1>1, <1>2, <1>3, ThreadDrops
  <1>5. /\ at' \in [TeamThreads -> {"loop", "search", "fee", "share", "done"}] /\ at'[t] = "done"
        /\ \A u \in TeamThreads : u # t => at'[u] = at[u]
    BY <1>1, <1>2 DEF TeamPlaces
  <1>6. ThreadIs(t, hashed'[t], cur'[t], at'[t], result'[t], Handled')
    BY <1>1, <1>4, <1>5
  <1>7. TeamFlags'
    BY <1>1, <1>2, JobKept DEF TeamFlags, jobVars, TeamThreads, Offsets
  <1>8. TeamPlaces'
    <2>1. returned' = "no"
      BY <1>1, <1>2 DEF TeamPlaces, TeamFlags
    <2>. QED  BY <1>1, <1>2, <1>5, <2>1 DEF TeamPlaces, TeamThreads
  <1>. QED  BY <1>1, <1>2, <1>3, <1>5, <1>6, <1>7, <1>8, TeamThreadSteps

\* A share is submitted.
LEMMA SubmitShareKeeps ==
  ASSUME CpuTeamInv, NEW t \in TeamThreads, SubmitShare(t)
  PROVE  CpuTeamInv'
  <1>. DEFINE c == result[t].counter  d == IncBe(c)  x == NumberOf(c)
  <1>1. /\ at[t] = "share" /\ result[t].found /\ UNCHANGED jobVars /\ at' = [at EXCEPT ![t] = "loop"]
        /\ cur' = [cur EXCEPT ![t] = d] /\ result' = [result EXCEPT ![t] = NoResult]
        /\ sent' = Append(sent, x) /\ x \in PointsOf(hits \ faulty)
        /\ UNCHANGED <<hashed, running, stopRc, switchDue, dropped, returned, replaced>>
    BY DEF SubmitShare, Continue, Goto, ReferenceOk
  <1>2. /\ ThreadIs(t, hashed[t], cur[t], at[t], result[t], Handled) /\ SentIs(sent, cur)
        /\ TeamFlags /\ TeamPlaces /\ JobOK
    BY DEF CpuTeamInv, TeamThread, TeamFlags
  <1>3. /\ ThreadIs(t, hashed[t], d, "loop", NoResult, Handled \cup {x})
        /\ Counter(cur[t]) \in Nat /\ Counter(c) \in Nat /\ Counter(cur[t]) <= Counter(c)
        /\ Counter(c) <= Limit /\ x = NumberOf(StartOf(t)) + Counter(c) /\ Counter(d) = Counter(c) + 1
    <2>. DEFINE r == result[t]  h == hashed[t]  b == cur[t]  D == Handled  E == D \cup {x}
    <2>1. /\ JobOK /\ ThreadIs(t, h, b, "share", r, D) /\ r.found /\ D \subseteq E
          /\ NumberOf(r.counter) \in PointsOf(hits \ faulty) => NumberOf(r.counter) \in E
      BY <1>1, <1>2
    <2>. HIDE DEF r, h, b, D, E
    <2>2. /\ ThreadIs(t, h, IncBe(r.counter), "loop", NoResult, E)
          /\ Counter(b) \in Nat /\ Counter(r.counter) \in Nat /\ Counter(b) <= Counter(r.counter)
          /\ Counter(r.counter) <= Limit
          /\ NumberOf(r.counter) = NumberOf(StartOf(t)) + Counter(r.counter)
          /\ Counter(IncBe(r.counter)) = Counter(r.counter) + 1
      BY <2>1, ThreadGoesOn
    <2>. QED  BY <2>2 DEF r, h, b, D, E
  <1>4. /\ Counter(cur[t]) \in Nat /\ Counter(c) \in Nat /\ Counter(cur[t]) <= Counter(c)
        /\ Counter(c) <= Limit /\ x = NumberOf(StartOf(t)) + Counter(c) /\ Counter(d) = Counter(c) + 1
    BY <1>3
  <1>5. NumberOf(StartOf(t)) \in Nat
    BY <1>2, CounterStart, CounterIs
  <1>. HIDE DEF c, d, x
  <1>6. /\ at'[t] = "loop" /\ cur'[t] = d /\ result'[t] = NoResult
        /\ \A u \in TeamThreads : u # t => at'[u] = at[u] /\ result'[u] = result[u] /\ cur'[u] = cur[u]
    BY <1>1, <1>2 DEF TeamPlaces
  <1>7. \A u \in TeamThreads : \A j \in Nat : j < Counter(cur[u]) => j < Counter(cur'[u])
    <2>1. \A j \in Nat : j < Counter(cur[t]) => j < Counter(d)
      BY <1>4
    <2>. QED  BY <1>6, <2>1
  <1>8. \A u \in TeamThreads : Counter(cur[u]) \in Nat /\ Counter(cur[u]) <= Limit
    <2>. SUFFICES ASSUME NEW u \in TeamThreads PROVE Counter(cur[u]) \in Nat /\ Counter(cur[u]) <= Limit
      OBVIOUS
    <2>1. /\ AtCounter(cur[u], u) /\ Counter(cur[u]) <= Len(hashed[u]) /\ Len(hashed[u]) <= Limit
          /\ Len(hashed[u]) \in Nat
      BY DEF CpuTeamInv, TeamThread, ThreadIs, CurOf, HashedInOrder
    <2>2. Counter(cur[u]) \in Nat
      BY <1>2, <2>1, CounterIs
    <2>. QED  BY <2>1, <2>2, LimitIs
  <1>9. SentIs(sent', cur') /\ Range(sent') = Range(sent) \cup {x}
    <2>. DEFINE n == Counter(c)
    <2>1. n \in Nat /\ Counter(cur[t]) <= n /\ n < Counter(cur'[t]) /\ n <= Limit
      BY <1>4, <1>6
    <2>2. x \in Nat /\ x = NumberOf(StartOf(t)) + n
      BY <1>4, <1>5
    <2>. HIDE DEF n
    <2>. DEFINE s == sent  b == cur  e == cur'
    <2>3. /\ JobOK /\ SentIs(s, b) /\ Counter(b[t]) <= n /\ n < Counter(e[t])
          /\ \A u \in TeamThreads : Counter(b[u]) \in Nat /\ Counter(b[u]) <= Limit
          /\ \A u \in TeamThreads : \A j \in Nat : j < Counter(b[u]) => j < Counter(e[u])
          /\ sent' = Append(s, x) /\ x \in PointsOf(hits \ faulty)
      BY <1>1, <1>2, <1>7, <1>8, <2>1
    <2>. HIDE DEF s, b, e
    <2>4. SentIs(Append(s, x), e) /\ Range(Append(s, x)) = Range(s) \cup {x}
      <3>1. Submitting(s, b, e, t, n, x)
        BY <2>1, <2>2, <2>3 DEF Submitting, b
      <3>. QED  BY <2>3, <3>1, SentAppend
    <2>. QED  BY <2>3, <2>4 DEF s, e
  <1>10. Handled' = Handled \cup {x}
    BY <1>1, <1>9 DEF Handled
  <1>11. ThreadIs(t, hashed'[t], cur'[t], at'[t], result'[t], Handled')
    BY <1>1, <1>3, <1>6, <1>10
  <1>12. TeamFlags'
    BY <1>1, <1>2, JobKept DEF TeamFlags, jobVars, TeamThreads, Offsets
  <1>13. TeamPlaces'
    BY <1>1, <1>2, ContinuesPlaces
  <1>. QED  BY <1>1, <1>6, <1>9, <1>10, <1>11, <1>12, <1>13, TeamThreadSteps

\* Another job.
LEMMA ReplaceJobKeeps ==
  ASSUME CpuTeamInv, ReplaceJob
  PROVE  CpuTeamInv'
  <1>1. /\ replaced' = TRUE
        /\ UNCHANGED <<jobVars, threadVars, running, stopRc, switchDue, sent, dropped, returned>>
    BY DEF ReplaceJob
  <1>2. TeamFlags /\ TeamPlaces
    BY DEF CpuTeamInv
  <1>3. TeamFlags'
    BY <1>1, <1>2, JobKept DEF TeamFlags, jobVars, TeamThreads, Offsets
  <1>4. TeamPlaces'
    BY <1>1, <1>2 DEF TeamPlaces, TeamThreads, threadVars
  <1>. QED  BY <1>1, <1>3, <1>4, TeamThreadsStay

\* The team returns.
LEMMA TeamReturnsKeeps ==
  ASSUME CpuTeamInv, TeamReturns
  PROVE  CpuTeamInv'
  <1>1. /\ \A t \in TeamThreads : at[t] = "done"
        /\ returned' = IF stopRc = "none" THEN "cancelled" ELSE stopRc
        /\ UNCHANGED <<jobVars, threadVars, running, stopRc, switchDue, sent, dropped, replaced>>
    BY DEF TeamReturns
  <1>2. TeamFlags /\ TeamPlaces
    BY DEF CpuTeamInv
  <1>3. ~running
    <2>1. 0 \in TeamThreads
      BY TeamConstants DEF TeamThreads
    <2>. QED  BY <1>1, <1>2, <2>1 DEF TeamPlaces
  <1>4. TeamFlags'
    BY <1>1, <1>2, <1>3, JobKept DEF TeamFlags, jobVars, TeamThreads, Offsets
  <1>5. TeamPlaces'
    BY <1>1, <1>2 DEF TeamPlaces, TeamThreads, threadVars
  <1>. QED  BY <1>1, <1>4, <1>5, TeamThreadsStay

\* Every step of the team keeps the invariant.
LEMMA CpuTeamStep == CpuTeamInv /\ [TeamNext]_teamVars => CpuTeamInv'
  <1>. SUFFICES ASSUME CpuTeamInv, [TeamNext]_teamVars PROVE CpuTeamInv'
    OBVIOUS
  <1>1. CASE UNCHANGED teamVars
    <2>1. /\ UNCHANGED <<jobVars, threadVars, sent, dropped>>
          /\ UNCHANGED <<running, stopRc, switchDue, returned, replaced>>
      BY <1>1 DEF teamVars
    <2>2. TeamFlags'
      BY <2>1, JobKept DEF CpuTeamInv, TeamFlags, jobVars, TeamThreads, Offsets
    <2>3. TeamPlaces'
      BY <2>1 DEF CpuTeamInv, TeamPlaces, TeamThreads, threadVars
    <2>. QED  BY <2>1, <2>2, <2>3, TeamThreadsStay
  <1>2. ASSUME NEW t \in TeamThreads,
               Loop(t) \/ Search(t) \/ NoteFee(t) \/ NothingFound(t) \/ NotConfirmed(t)
                 \/ DropShare(t) \/ SubmitShare(t)
        PROVE  CpuTeamInv'
    BY <1>2, LoopKeeps, SearchKeeps, NoteFeeKeeps, NothingFoundKeeps, NotConfirmedKeeps,
       DropShareKeeps, SubmitShareKeeps
  <1>3. CASE ReplaceJob \/ TeamReturns
    BY <1>3, ReplaceJobKeeps, TeamReturnsKeeps
  <1>. QED  BY <1>1, <1>2, <1>3 DEF TeamNext

\* The invariant says what EachShareOnce and the type invariant do.
LEMMA CpuTeamInvGives == CpuTeamInv => EachShareOnce /\ TeamTypeOK
  <1>. SUFFICES ASSUME CpuTeamInv PROVE EachShareOnce /\ TeamTypeOK
    OBVIOUS
  <1>. DEFINE S(t) == NumberOf(StartOf(t))
  <1>1. TeamFlags /\ TeamPlaces /\ JobOK
    BY DEF CpuTeamInv, TeamFlags
  <1>2. ASSUME NEW t \in TeamThreads
        PROVE  /\ hashed[t] \in Seq(Nat) /\ DOMAIN hashed[t] = 1..Len(hashed[t])
               /\ \A i \in 1..Len(hashed[t]) : hashed[t][i] = S(t) + i - 1
               /\ Len(hashed[t]) \in Nat /\ Len(hashed[t]) <= Limit
               /\ AtCounter(cur[t], t) /\ S(t) \in Nat /\ TrueAt(t, 0) = S(t)
    <2>1. HashedInOrder(t, hashed[t]) /\ AtCounter(cur[t], t)
      BY DEF CpuTeamInv, TeamThread, ThreadIs, CurOf
    <2>2. S(t) \in Nat
      BY <1>1, <2>1, CounterIs
    <2>3. TrueAt(t, 0) = S(t) + 0
      BY DEF TrueAt
    <2>. HIDE DEF S
    <2>4. TrueAt(t, 0) = S(t)
      BY <2>2, <2>3
    <2>. QED  BY <2>1, <2>2, <2>4 DEF HashedInOrder, S
  <1>3. ASSUME NEW t \in TeamThreads, NEW u \in TeamThreads, t # u
        PROVE  Range(hashed[t]) \cap Range(hashed[u]) = {}
    <2>. SUFFICES ASSUME NEW i \in 1..Len(hashed[t]), NEW j \in 1..Len(hashed[u]),
                         hashed[t][i] = hashed[u][j]
                  PROVE  FALSE
      <3>1. DOMAIN hashed[t] = 1..Len(hashed[t]) /\ DOMAIN hashed[u] = 1..Len(hashed[u])
        BY <1>2
      <3>. DEFINE f == hashed[t]  g == hashed[u]
      <3>2. \A e : e \in Range(f) \cap Range(g) =>
              \E i \in DOMAIN f, j \in DOMAIN g : f[i] = g[j]
        <4>. HIDE DEF f, g
        <4>. QED  BY DEF Range
      <3>. QED  BY <3>1, <3>2
    <2>1. /\ hashed[t][i] = S(t) + i - 1 /\ hashed[u][j] = S(u) + j - 1 /\ S(t) \in Nat /\ S(u) \in Nat
          /\ Len(hashed[t]) \in Nat /\ Len(hashed[t]) <= Limit
          /\ Len(hashed[u]) \in Nat /\ Len(hashed[u]) <= Limit
      BY <1>2
    <2>2. i - 1 \in Nat /\ j - 1 \in Nat /\ i - 1 <= Limit /\ j - 1 <= Limit
      BY <2>1, LimitIs
    <2>3. S(t) + (i - 1) = S(u) + (j - 1)
      <3>. HIDE DEF S
      <3>. QED  BY <2>1
    <2>4. i - 1 < Power[HotLength] /\ j - 1 < Power[HotLength]
      BY <2>2, LimitIs
    <2>. QED  BY <1>1, <1>3, <2>2, <2>3, <2>4, CountersApart DEF JobOK
  <1>4. CountersInOrder
    <2>1. ASSUME NEW t \in TeamThreads
          PROVE  hashed[t] = [i \in DOMAIN hashed[t] |-> TrueAt(t, 0) + i - 1]
      <3>1. hashed[t] = [i \in 1..Len(hashed[t]) |-> hashed[t][i]]
        BY <1>2
      <3>2. \A i \in 1..Len(hashed[t]) : hashed[t][i] = TrueAt(t, 0) + i - 1
        BY <1>2
      <3>. QED  BY <1>2, <3>1, <3>2
    <2>2. \A t \in TeamThreads : SubSeq(cur[t], 1, extranonceLen) = SubSeq(StartOf(t), 1, extranonceLen)
      BY <1>1, <1>2, CounterIs
    <2>. QED  BY <1>3, <2>1, <2>2 DEF CountersInOrder
  <1>5. DOMAIN sent = 1..Len(sent) /\ SentIs(sent, cur)
    <2>1. SentIs(sent, cur)
      BY DEF CpuTeamInv
    <2>2. sent \in Seq(Nat)
      BY <2>1 DEF SentIs
    <2>. QED  BY <2>1, <2>2
  <1>6. ASSUME returned # "no", NEW h \in hits \ faulty, TrueAt(h[1], h[2]) \in Range(hashed[h[1]])
        PROVE  TrueAt(h[1], h[2]) \in Range(sent) \cup dropped
    <2>. DEFINE t == h[1]  x == TrueAt(h[1], h[2])
    <2>1. t \in TeamThreads
      BY <1>1 DEF TeamFlags
    <2>2. x \in PointsOf(hits \ faulty)
      BY DEF PointsOf
    <2>3. at[t] = "done" /\ NoneLost(hashed[t], at[t], result[t], Handled)
      BY <1>1, <1>6, <2>1 DEF TeamPlaces, CpuTeamInv, TeamThread, ThreadIs
    <2>4. PICK i \in 1..Len(hashed[t]) : hashed[t][i] = x
      BY <1>2, <1>6, <2>1 DEF Range
    <2>5. x \in Handled \/ Pending(at[t], result[t], x)
      BY <2>2, <2>3, <2>4 DEF NoneLost
    <2>. QED  BY <2>3, <2>5 DEF Pending, Handled
  <1>7. SharesOfTeam
    <2>1. \A i, j \in DOMAIN sent : sent[i] = sent[j] => i = j
      BY <1>5 DEF SentIs
    <2>2. Range(sent) \subseteq PointsOf(hits \ faulty)
      BY <1>5 DEF SentIs, Range
    <2>. QED  BY <1>1, <1>6, <2>1, <2>2 DEF SharesOfTeam, TeamFlags
  <1>8. TeamTypeOK
    <2>1. cur \in [TeamThreads -> [1..NonceLength -> 0..(Radix - 1)]]
      BY <1>1, <1>2 DEF TeamPlaces, AtCounter, Nonces
    <2>. QED  BY <1>1, <2>1 DEF TeamTypeOK, TeamFlags, TeamPlaces
  <1>. QED  BY <1>4, <1>7, <1>8 DEF EachShareOnce

-----------------------------------------------------------------------------
\* The invariants of the parts together.
PartsInv ==
  /\ TreeInv /\ ScanInv /\ NpuInv /\ ConnectInv /\ FrameInv /\ WireBounds /\ CpuTeamInv

\* They hold initially.
LEMMA PartsInitInv == PartsInit => PartsInv
  BY TreeInitInv, ScanInitInv, NpuInitInv, ConnectInitInv, FrameInitInv, WireBoundsInit, CpuTeamInitInv
     DEF PartsInit, PartsInv

\* Every step is a step of each part or leaves its variables alone.
LEMMA PartsStep ==
  ASSUME PartsInv, [PartsNext]_<<part, wireVars, treeVars, teamVars, scanVars, npuVars>>
  PROVE  PartsInv'
  <1>. DEFINE partsVars == <<part, wireVars, treeVars, teamVars, scanVars, npuVars>>
  <1>1. /\ [TreeNext]_treeVars /\ [ScanNext]_scanVars /\ [NpuNext]_npuVars
        /\ [WireNext]_wireVars /\ [TeamNext]_teamVars
    BY DEF PartsNext
  <1>2. ScanInv'
    BY <1>1, ScanStep DEF PartsInv
  <1>3. NpuInv'
    BY <1>1, NpuStep DEF PartsInv
  <1>4. ConnectInv'
    BY <1>1, ConnectStep DEF PartsInv
  <1>5. FrameInv'
    BY <1>1, FrameStep DEF PartsInv
  <1>6. CpuTeamInv'
    BY <1>1, CpuTeamStep DEF PartsInv
  <1>7. WireBounds'
    BY <1>1, WireBoundsStep DEF PartsInv
  <1>8. TreeInv'
    BY <1>1, TreeStep DEF PartsInv
  <1>. QED  BY <1>2, <1>3, <1>4, <1>5, <1>6, <1>7, <1>8 DEF PartsInv

\* They hold always.
THEOREM PartsInvariant == PartsSpec => []PartsInv
  <1>1. PartsInv /\ [PartsNext]_<<part, wireVars, treeVars, teamVars, scanVars, npuVars>> => PartsInv'
    BY PartsStep
  <1>. QED  BY <1>1, PartsInitInv, PTL DEF PartsSpec

(***************************************************************************)
(* On every backend, with any number of launches, tiles and attempts, what  *)
(* an attempt reports is so: a hit is a marked launch of this attempt, and  *)
(* none means that every launch was looked at and none is marked; on the    *)
(* NPU the hit is the first launch that shows one (mine_attempt of the      *)
(* workers, cp_pearl_npu_worker.cpp).                                       *)
(***************************************************************************)
THEOREM AttemptsReportKept == PartsSpec => []AttemptsReportRight
  <1>1. PartsInv => AttemptsReportRight
    BY DEF PartsInv, ScanInv, ReturnInv, NpuInv, OutcomeInv, AttemptsReportRight
  <1>. QED  BY <1>1, PartsInvariant, PTL

(***************************************************************************)
(* How panels change hands, with any numbers of panels, column blocks,      *)
(* slots and requests: a launch that runs finds its whole panel in its      *)
(* slot, the two threads never wait for each other, and nothing runs when   *)
(* the attempt is over (cp_pearl_npu_worker.cpp:275-305, 348-420).          *)
(***************************************************************************)
THEOREM PanelHandoverKept == PartsSpec => []PanelHandover
  <1>1. PartsInv => PanelHandover
    BY HandoverKept DEF PartsInv
  <1>. QED  BY <1>1, PartsInvariant, PTL

(***************************************************************************)
(* Connecting takes no longer than the budget, and fails only if no address *)
(* answers within its equal share of it, with any number of addresses and   *)
(* any budget (cp_tcp.cpp:58-96).                                          *)
(***************************************************************************)
THEOREM BudgetSharedKept == PartsSpec => []BudgetShared
  <1>1. PartsInv => BudgetShared
    BY DEF PartsInv, ConnectInv
  <1>. QED  BY <1>1, PartsInvariant, PTL

(***************************************************************************)
(* However the bytes of a pool are split over reads, the frames dispatched  *)
(* are the messages of its script in their order, and a connection is       *)
(* refused only at a message that is not an object, nests deeper than the   *)
(* scanner remembers or does not fit the buffer, for any sizes of buffer    *)
(* and depth, any nesting and any number of messages                        *)
(* (cp_json_frame.cpp, cp_json_object_length; cp_pool.cpp, the reader).     *)
(***************************************************************************)
THEOREM FramesAsSentKept == PartsSpec => []FramesAsSent
  <1>1. PartsInv => FramesAsSent
    BY FrameInvFrames DEF PartsInv
  <1>. QED  BY <1>1, PartsInvariant, PTL

(***************************************************************************)
(* The threads of a team hash the counters after their starts one after the *)
(* other, none twice and no two threads the same, in the salted part of the *)
(* nonce that the pool's extranonce and the thread's stamp leave them; and  *)
(* a share among them is submitted once and none lost, but for a replaced   *)
(* job, for any number of threads, any job of the pool, any shares and any  *)
(* lengths of line and chunk (cp_qpow_mine.cpp, mine_job_cpu;               *)
(* qpow/miner.hpp, search_range_scalar).                                    *)
(***************************************************************************)
THEOREM EachShareOnceKept == PartsSpec => []EachShareOnce
  <1>1. PartsInv => EachShareOnce
    BY CpuTeamInvGives DEF PartsInv
  <1>. QED  BY <1>1, PartsInvariant, PTL

(***************************************************************************)
(* The root that an attempt commits to is the keyed BLAKE3 hash of all      *)
(* chunks of A as it wrote them, whether the host made the whole tree, made *)
(* again what changed, had a level fail and hashed in the order of chunks,  *)
(* or took the tree of a new key from the device; for any numbers of chunks *)
(* and attempts, any chunks written and any sizes of the device's groups    *)
(* (cp_noise.c, pearl_matrix_hash_digest, pearl_matrix_hash_from_tree).      *)
(***************************************************************************)
THEOREM CommitsToThisAKept == PartsSpec => []CommitsToThisA
  <1>1. PartsInv => CommitsToThisA
    BY DEF PartsInv, TreeInv
  <1>. QED  BY <1>1, PartsInvariant, PTL

(***************************************************************************)
(* The variables of all parts have their types: among them, the buffer of   *)
(* the reader keeps its last byte free (cp_pool.cpp, net_buf), and a tree   *)
(* that is valid has all levels of all chunks (cp_noise.c,                  *)
(* pearl_mh_alloc_levels).                                                  *)
(***************************************************************************)
THEOREM PartsTyped == PartsSpec => []PartsTypeOK
  <1>1. PartsInv => PartsTypeOK
    BY TreeTypes, WireTypes, ScanTypeParts, CpuTeamInvGives DEF PartsInv, ScanInv, NpuInv, PartsTypeOK
  <1>. QED  BY <1>1, PartsInvariant, PTL
================================================================================
