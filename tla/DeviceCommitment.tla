-------------------------- MODULE DeviceCommitment ---------------------------
(***************************************************************************)
(* Signal A and its commitment on the Pearl backends.                       *)
(*                                                                         *)
(* A backend keeps signal A from attempt to attempt and writes one random   *)
(* row per nonce.  A is committed by a keyed Merkle root; the sub-roots of  *)
(* its groups (256 chunks; on the host: every node of the tree) are kept    *)
(* too, so that an attempt hashes again the group of its row only.  The     *)
(* root and the seed of noisy B give the key the scan hashes tiles with,    *)
(* and a share is proven with A's blocks, the stored sub-roots and the root.*)
(*                                                                         *)
(* Four implementations, in variable backend:                               *)
(*   cuda    src/cuda/cp_gpu.cu, gpu_prepare_attempt_a                      *)
(*   opencl  src/opencl/case33_ocl_prep.cpp, update_signal_a_               *)
(*   wgpu    rust/cp-pearl-wgpu-ffi/src/engine.rs, prep_a_signal            *)
(*   host    src/cpu/cp_cpu_worker.cpp with PearlMatrixHash of cp_noise.c   *)
(*                                                                         *)
(* The content of a group is named by the number of the write that made it  *)
(* (0: zeros), a job key by the order in which the pool first sent it, and  *)
(* a hash by what was hashed.  m and n are fixed when the program starts    *)
(* (cp_options.cpp:580).  Device calls succeed: a failed one ends the job   *)
(* with an error (cp_mine.cpp:276-289).                                     *)
(***************************************************************************)
EXTENDS Integers

CONSTANTS
  Backends,      \* of {"cuda", "opencl", "wgpu", "host"}
  Groups,        \* sub-root groups of A
  RepeatAfterCancel, \* backends that may get a key again after a cancelled job
  MaxJobs, MaxWrites \* bounds: jobs, rows written

ASSUME BackendsAssumption ==
  /\ Backends \subseteq {"cuda", "opencl", "wgpu", "host"}
  /\ RepeatAfterCancel \subseteq Backends
ASSUME CommitmentBoundsAssumption == MaxJobs \in Nat /\ MaxWrites \in Nat

VARIABLES
  backend,
  pc, jobs, key, newest, cancel, cancelled, \* job loop; cancelled: the last job
  bReady, bKey, bSeed, bNoisy, \* zero-B cache: valid, its key, seed, matrix
  A, writes, ready, row,       \* signal A, initialised or zeroed, row's group
  whole,                       \* OpenCL full_hash: A was zeroed this attempt
  sub, subValid, subKey,       \* stored sub-roots, and the key they hold for
  devKey,                      \* the job key in device memory
  root, seed,                  \* root of this attempt, key of its scan
  witnessValid, witness        \* of the last share fetched

jobVars == <<pc, jobs, key, newest, cancel, cancelled>>
bVars   == <<bReady, bKey, bSeed, bNoisy>>
aVars   == <<A, writes, ready, row, whole>>
subVars == <<sub, subValid, subKey, devKey>>
outVars == <<root, seed, witnessValid, witness>>
vars == <<backend, jobVars, bVars, aVars, subVars, outVars>>

Zeros == [g \in Groups |-> 0]
NoKey == 0

\* The sub-root of a group, and the sub-roots of all of a signal.
SubRoot(content, k) == [of |-> content, key |-> k]
AllSubRoots(signal, k) == [g \in Groups |-> SubRoot(signal[g], k)]
NoRoot == AllSubRoots(Zeros, NoKey)
NoShare == [blocks |-> Zeros, subs |-> NoRoot, root |-> NoRoot]

Init ==
  /\ backend \in Backends
  /\ pc = "idle" /\ jobs = 0 /\ key = NoKey /\ newest = NoKey
  /\ cancel = FALSE /\ cancelled = FALSE
  /\ bReady = FALSE /\ bKey = NoKey /\ bSeed = NoKey /\ bNoisy = NoKey
  /\ A = Zeros /\ writes = 0 /\ row \in Groups /\ whole = FALSE
  /\ ready = FALSE
  /\ sub = NoRoot /\ subValid = FALSE /\ subKey = NoKey /\ devKey = NoKey
  /\ root = NoRoot /\ seed = [root |-> NoRoot, b |-> NoKey]
  /\ witnessValid = FALSE /\ witness = NoShare

-----------------------------------------------------------------------------
(***************************************************************************)
(* Job loop                                                                 *)
(***************************************************************************)

\* The key of the next job: a new header has a new key.  The pool may also
\* send a job the miner had before, as it does after a new login, or the
\* miner takes up the same job again after a fee switch.
NextKeys ==
  {newest + 1}
    \cup (IF ~cancelled /\ key # NoKey THEN {key} ELSE {})
    \cup (IF backend \in RepeatAfterCancel THEN 1..newest ELSE {})

\* Mutant: the job takes a key that was never sent.
BeginJobKeyAhead ==
  /\ pc = "idle" /\ jobs < MaxJobs
  /\ \E k \in NextKeys : key' = k /\ newest' = newest
  /\ jobs' = jobs + 1 /\ cancel' = FALSE
  /\ bReady' = FALSE
  /\ pc' = "beginB"
  /\ UNCHANGED <<backend, cancelled, bKey, bSeed, bNoisy, aVars, subVars, outVars>>

\* cp_worker_begin_job: the cache of noisy B is dropped and made for the job.
BeginJob ==
  /\ pc = "idle" /\ jobs < MaxJobs
  /\ \E k \in NextKeys :
       /\ key' = k
       /\ newest' = IF k > newest THEN k ELSE newest
  /\ jobs' = jobs + 1 /\ cancel' = FALSE
  /\ bReady' = FALSE
  /\ pc' = "beginB"
  /\ UNCHANGED <<backend, cancelled, bKey, bSeed, bNoisy, aVars, subVars, outVars>>

\* The pool, or its connection, cancels the job: at any time.
Cancel ==
  /\ pc # "idle" /\ ~cancel
  /\ cancel' = TRUE
  /\ UNCHANGED <<backend, pc, jobs, key, newest, cancelled, bVars, aVars, subVars, outVars>>

Ended == pc' = "idle" /\ cancelled' = cancel
JobKeeps == UNCHANGED <<backend, jobs, key, newest, cancel>>

\* The loop sees the cancellation between two attempts, or leaves the job
\* for a fee switch.
EndJob ==
  /\ pc = "start"
  /\ Ended
  /\ JobKeeps /\ UNCHANGED <<bVars, aVars, subVars, outVars>>

\* The cache holds noisy B of this job.
BCached == bReady /\ bKey = key

StartAttempt ==
  /\ pc = "start" /\ writes < MaxWrites
  /\ pc' = IF BCached THEN "row" ELSE "attemptB"
  /\ JobKeeps /\ UNCHANGED <<cancelled, bVars, aVars, subVars, outVars>>

-----------------------------------------------------------------------------
(***************************************************************************)
(* Noisy B of the job, whose signal is zero: made by begin_job, or by an    *)
(* attempt that finds none.                                                 *)
(***************************************************************************)

MakesB(b) == pc \in {"beginB", "attemptB"} /\ backend = b
AfterB == pc' = (IF pc = "beginB" THEN "start" ELSE "row") /\ UNCHANGED cancelled
BMade ==
  /\ bReady' = TRUE /\ bKey' = key /\ bSeed' = key /\ bNoisy' = key
  /\ JobKeeps /\ UNCHANGED <<aVars, sub, subValid, subKey, outVars>>

\* Hashes the zero B^T with the device's job key; the last look at the
\* cancellation ends an attempt, and begin_job ignores it.
CudaB ==
  /\ MakesB("cuda") /\ BMade
  /\ devKey' = key
  /\ IF pc = "attemptB" /\ cancel THEN Ended ELSE AfterB

OpenclB == MakesB("opencl") /\ BMade /\ devKey' = key /\ AfterB

\* wgpu hashes B^T on the host.
WgpuB == MakesB("wgpu") /\ BMade /\ UNCHANGED devKey /\ AfterB

HostB == MakesB("host") /\ BMade /\ UNCHANGED devKey /\ AfterB

\* The host stops building noisy B once the job is cancelled; the cache's
\* key and seed are already those of the new job.
HostBStopped ==
  /\ MakesB("host") /\ cancel
  /\ bKey' = key /\ bSeed' = key /\ bReady' = FALSE
  /\ IF pc = "beginB" THEN AfterB ELSE Ended
  /\ JobKeeps /\ UNCHANGED <<bNoisy, aVars, subVars, outVars>>

-----------------------------------------------------------------------------
(***************************************************************************)
(* The row of the nonce, in a signal that is zeroed first when it was not   *)
(* prepared yet (the host's is zero from its allocation).                   *)
(***************************************************************************)

RowWritten(b, g) ==
  /\ pc = "row" /\ backend = b
  /\ writes' = writes + 1
  /\ A' = [(IF ready THEN A ELSE Zeros) EXCEPT ![g] = writes + 1]
  /\ row' = g /\ ready' = TRUE
  /\ pc' = "hash"
  /\ JobKeeps
  /\ UNCHANGED <<cancelled, bVars, sub, subKey, devKey, root, seed, witness>>

CudaRow(g) ==
  /\ RowWritten("cuda", g)
  /\ subValid' = (subValid /\ ready)
  /\ witnessValid' = FALSE
  /\ UNCHANGED whole

OpenclRow(g) ==
  /\ RowWritten("opencl", g)
  /\ whole' = ~ready
  /\ UNCHANGED <<subValid, witnessValid>>

WgpuRow(g) ==
  /\ RowWritten("wgpu", g)
  /\ witnessValid' = FALSE
  /\ UNCHANGED <<subValid, whole>>

HostRow(g) ==
  /\ RowWritten("host", g)
  /\ subValid' = (subValid /\ ready)
  /\ UNCHANGED <<witnessValid, whole>>

\* CUDA looks at the cancellation between the row and its commitment.
CancelBeforeHash ==
  /\ pc = "hash" /\ backend = "cuda" /\ cancel
  /\ Ended
  /\ JobKeeps /\ UNCHANGED <<bVars, aVars, subVars, outVars>>

-----------------------------------------------------------------------------
(***************************************************************************)
(* The commitment: all of A after the first row and under a new job key,    *)
(* else the group of the row.  Sub-roots are folded to the root in a copy.  *)
(***************************************************************************)

\* Mutant: a new job key is no reason to hash all of A.
NeedsHashOfAnyKey == whole \/ ~subValid
NeedsWholeHash == whole \/ ~subValid \/ subKey # key

Committed(subRoots) ==
  /\ sub' = subRoots /\ root' = subRoots
  /\ pc' = "seed"
  /\ JobKeeps /\ UNCHANGED <<cancelled, bVars, aVars, seed, witness>>

HashedAll(b) ==
  /\ pc = "hash" /\ backend = b /\ NeedsWholeHash
  /\ Committed(AllSubRoots(A, key))
  /\ subValid' = TRUE /\ subKey' = key

\* Mutant: the new sub-root goes to the copy that is folded only.
HashedInCopy(b, k) ==
  /\ pc = "hash" /\ backend = b /\ ~NeedsWholeHash
  /\ root' = [sub EXCEPT ![row] = SubRoot(A[row], k)]
  /\ pc' = "seed"
  /\ JobKeeps /\ UNCHANGED <<sub, cancelled, bVars, aVars, seed, witness>>
  /\ UNCHANGED <<subValid, subKey>>

\* The group's sub-root with key k.
HashedGroup(b, k) ==
  /\ pc = "hash" /\ backend = b /\ ~NeedsWholeHash
  /\ Committed([sub EXCEPT ![row] = SubRoot(A[row], k)])
  /\ UNCHANGED <<subValid, subKey>>

CudaHashAll == HashedAll("cuda") /\ devKey' = key /\ UNCHANGED witnessValid
CudaRehash == HashedGroup("cuda", key) /\ devKey' = key /\ UNCHANGED witnessValid

OpenclHashAll == HashedAll("opencl") /\ devKey' = key /\ witnessValid' = TRUE
OpenclRehash == HashedGroup("opencl", key) /\ devKey' = key /\ witnessValid' = TRUE

WgpuHashAll == HashedAll("wgpu") /\ devKey' = key /\ witnessValid' = TRUE

\* The job key buffer holds the key the sub-roots were made with.
WgpuRehash ==
  HashedGroup("wgpu", devKey) /\ UNCHANGED devKey /\ witnessValid' = TRUE

HostHashAll == HashedAll("host") /\ UNCHANGED <<devKey, witnessValid>>
\* The tree has a key of its own.
HostRehash == HashedGroup("host", subKey) /\ UNCHANGED <<devKey, witnessValid>>

-----------------------------------------------------------------------------
(***************************************************************************)
(* The scan's key from the root and the seed of B, then noisy A, which CUDA *)
(* and the host leave when the job is cancelled.                            *)
(***************************************************************************)

SeedMade(b) ==
  /\ pc = "seed" /\ backend = b
  /\ seed' = [root |-> root, b |-> bSeed]
  /\ JobKeeps /\ UNCHANGED <<bVars, aVars, subVars, root, witness>>
Scans == pc' = "scan" /\ UNCHANGED cancelled

CudaSeed ==
  SeedMade("cuda") /\ witnessValid' = TRUE /\ IF cancel THEN Ended ELSE Scans
OpenclSeed == SeedMade("opencl") /\ UNCHANGED witnessValid /\ Scans
WgpuSeed == SeedMade("wgpu") /\ UNCHANGED witnessValid /\ Scans
HostSeed ==
  SeedMade("host") /\ UNCHANGED witnessValid /\ (Scans \/ (cancel /\ Ended))

-----------------------------------------------------------------------------
(***************************************************************************)
(* The scan, and what the prover is given of a share: the blocks of A, the  *)
(* sub-roots and the root as they are when fetched.                         *)
(***************************************************************************)

ScanMiss ==
  /\ pc = "scan"
  /\ pc' = "start"
  /\ JobKeeps /\ UNCHANGED <<cancelled, bVars, aVars, subVars, outVars>>

ScanCancelled ==
  /\ pc = "scan" /\ cancel
  /\ Ended
  /\ JobKeeps /\ UNCHANGED <<bVars, aVars, subVars, outVars>>

\* OpenCL and wgpu drop a hit of a cancelled job.
ScanHit ==
  /\ pc = "scan" /\ (backend \in {"opencl", "wgpu"} => ~cancel)
  /\ pc' = "found"
  /\ JobKeeps /\ UNCHANGED <<cancelled, bVars, aVars, subVars, outVars>>

Fetched(b, subRoots) ==
  /\ pc = "found" /\ backend = b
  /\ witness' = [blocks |-> A, subs |-> subRoots, root |-> root]
  /\ pc' = "start"
  /\ JobKeeps
  /\ UNCHANGED <<cancelled, bVars, aVars, subVars, root, seed, witnessValid>>

CanFetch == witnessValid /\ bReady
CudaFetch == CanFetch /\ Fetched("cuda", sub)
OpenclFetch == CanFetch /\ Fetched("opencl", sub)
WgpuFetch == CanFetch /\ Fetched("wgpu", sub)

\* A itself is handed over and the prover makes the tree from it.
HostFetch == Fetched("host", AllSubRoots(A, key))

Cuda ==
  \/ \E g \in Groups : CudaRow(g)
  \/ CancelBeforeHash
  \/ CudaB \/ CudaHashAll \/ CudaRehash \/ CudaSeed \/ CudaFetch
Opencl ==
  \/ \E g \in Groups : OpenclRow(g)
  \/ OpenclB \/ OpenclHashAll \/ OpenclRehash \/ OpenclSeed \/ OpenclFetch
Wgpu ==
  \/ \E g \in Groups : WgpuRow(g)
  \/ WgpuB \/ WgpuHashAll \/ WgpuRehash \/ WgpuSeed \/ WgpuFetch
Host ==
  \/ \E g \in Groups : HostRow(g)
  \/ HostB \/ HostBStopped
  \/ HostHashAll \/ HostRehash \/ HostSeed \/ HostFetch
JobLoop ==
  BeginJob \/ Cancel \/ EndJob \/ StartAttempt
  \/ ScanMiss \/ ScanCancelled \/ ScanHit

Next == JobLoop \/ Cuda \/ Opencl \/ Wgpu \/ Host

Spec == Init /\ [][Next]_vars

-----------------------------------------------------------------------------
(***************************************************************************)
(* Properties                                                               *)
(***************************************************************************)

Content == Nat
Roots == [Groups -> [of: Content, key: Nat]]

\* Type invariant of the job loop, the caches and the commitment.
TypeOK ==
  /\ backend \in Backends
  /\ pc \in {"idle", "beginB", "start", "attemptB", "row", "hash", "seed",
             "scan", "found"}
  /\ jobs \in 0..MaxJobs /\ newest \in Nat /\ key \in 0..newest
  /\ cancel \in BOOLEAN /\ cancelled \in BOOLEAN
  /\ bReady \in BOOLEAN /\ {bKey, bSeed, bNoisy} \subseteq 0..newest
  /\ A \in [Groups -> Content] /\ writes \in 0..MaxWrites
  /\ ready \in BOOLEAN /\ row \in Groups /\ whole \in BOOLEAN
  /\ sub \in Roots /\ subValid \in BOOLEAN
  /\ subKey \in 0..newest /\ devKey \in 0..newest
  /\ root \in Roots /\ seed \in [root: Roots, b: Nat]
  /\ witnessValid \in BOOLEAN
  /\ witness \in [blocks: [Groups -> Content], subs: Roots, root: Roots]

\* The key a scan hashes its tiles with commits the whole of signal A as it
\* is, under the key of the job, and goes with the noisy B in place: what
\* the pool computes from the proof.  Many attempts, jobs and cancellations
\* lie between a full hash and the group hashes that rely on it.
ScanOfWholeSignal ==
  pc \in {"scan", "found"} =>
    /\ seed = [root |-> AllSubRoots(A, key), b |-> key]
    /\ bNoisy = key

\* A hit on a device can always be proven: its witness is there to fetch.
WitnessAtHand ==
  pc = "found" /\ backend # "host" => CanFetch

\* Together: what a scan searches can be proven to the pool.
ScansCanBeProven == ScanOfWholeSignal /\ WitnessAtHand

\* The blocks of a witness hash to its sub-roots, these to its root, and the
\* root is the one the scan's key was made from.
WitnessOfTheScan ==
  [][witness' # witness =>
       /\ witness'.subs = AllSubRoots(witness'.blocks, key)
       /\ witness'.root = witness'.subs
       /\ seed.root = witness'.root]_vars

\* cp_gpu.cu:936: "Signal A changed only inside sub-root group `group`",
\* said of each attempt whose commitment hashes one group again.
OnlyOneGroupChanged ==
  pc = "hash" /\ ~NeedsWholeHash =>
    \A g \in Groups \ {row} : sub[g] = SubRoot(A[g], subKey)
=============================================================================
