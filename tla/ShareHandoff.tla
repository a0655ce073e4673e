---------------------------- MODULE ShareHandoff ----------------------------
(***************************************************************************)
(* What the share queue promises its user, without locks, threads, a        *)
(* condition variable or a pool: the contract in include/cp_share_queue.h.  *)
(* Shares found in a job are settled one by one in the order they were      *)
(* handed over, each exactly once; with a share go the matrices it was      *)
(* found in, which come back after it is settled; and a job can be closed   *)
(* only when nothing of it is left.                                         *)
(***************************************************************************)
EXTENDS Naturals, Sequences

CONSTANTS
  Shares,      \* identities of shares
  Depth        \* shares that may wait

VARIABLES
  open,        \* a job accepts shares
  waiting,     \* shares handed over and not settled, oldest first
  settled,     \* shares done with
  holder       \* who has the matrices: "miner", "queue", "slot", "freed", or
               \* "nobody" when shares come with device witnesses instead

abstractVars == <<open, waiting, settled, holder>>

HandoffInit ==
  /\ open = FALSE /\ waiting = <<>> /\ settled = {}
  /\ holder \in {"miner", "nobody"}

Open ==
  /\ ~open /\ waiting = <<>> /\ holder \in {"miner", "nobody"}
  /\ open' = TRUE /\ UNCHANGED <<waiting, settled, holder>>

\* A share is handed over at most once, with the matrices if there are any.
HandOver(s) ==
  /\ open /\ s \notin settled /\ Len(waiting) < Depth
  /\ \A i \in 1..Len(waiting) : waiting[i] # s
  /\ holder \in {"miner", "nobody"}
  /\ waiting' = Append(waiting, s)
  /\ holder' = IF holder = "miner" THEN "queue" ELSE holder
  /\ UNCHANGED <<open, settled>>

Settle ==
  /\ waiting # <<>>
  /\ waiting' = Tail(waiting) /\ settled' = settled \cup {Head(waiting)}
  /\ UNCHANGED <<open, holder>>

GiveBack ==
  /\ holder = "queue" /\ waiting = <<>>
  /\ holder' = "slot" /\ UNCHANGED <<open, waiting, settled>>

TakeBack ==
  /\ holder = "slot"
  /\ holder' = "miner" /\ UNCHANGED <<open, waiting, settled>>

\* The job stops accepting shares; what was accepted is still settled.
Close ==
  /\ open /\ open' = FALSE /\ UNCHANGED <<waiting, settled, holder>>

\* The program ends: the matrices are freed where they are.
Free ==
  /\ ~open /\ waiting = <<>> /\ holder = "miner"
  /\ holder' = "freed" /\ UNCHANGED <<open, waiting, settled>>

HandoffNext ==
  \/ Open \/ Settle \/ GiveBack \/ TakeBack \/ Close \/ Free
  \/ \E s \in Shares : HandOver(s)

HandoffSafety == HandoffInit /\ [][HandoffNext]_abstractVars

HandoffSpec ==
  /\ HandoffSafety
  /\ WF_abstractVars(Settle) /\ WF_abstractVars(GiveBack)
=============================================================================
