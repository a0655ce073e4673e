----------------------- MODULE DeviceCommitmentProofs -----------------------
(***************************************************************************)
(* Theorems about DeviceCommitment: for any number of groups, rows, jobs    *)
(* and keys.  What a scan and a witness use is right because the stored     *)
(* sub-roots of all groups but the one just written are those of signal A   *)
(* whenever an attempt may rely on them (GroupsHashed).  For a backend that *)
(* may get a key again after a cancelled job they must be so under          *)
(* whichever key they have; for CUDA, whose cancelled attempt leaves a row  *)
(* unhashed, only while its last job was not cancelled, which is enough     *)
(* when such a key never comes again (CudaKeysAreNew).                      *)
(***************************************************************************)
EXTENDS DeviceCommitment, TLAPS

CudaKeysAreNew == "cuda" \notin RepeatAfterCancel

InAttempt == pc \in {"row", "hash", "seed", "scan", "found"}

\* Noisy B, its seed and the cache's key are of one job, and of this one once
\* an attempt writes A.
CacheInv ==
  /\ bReady => bSeed = bKey /\ bNoisy = bKey
  /\ InAttempt => BCached

\* The stored sub-roots may be relied on.
Trusted ==
  /\ subValid
  /\ \/ backend \in RepeatAfterCancel
     \/ subKey = key /\ (pc = "idle" => ~cancelled)

\* They are those of A, but for the row not hashed yet.
GroupsHashed ==
  Trusted => \A g \in Groups : (pc = "hash" => g # row)
                                 => sub[g] = SubRoot(A[g], subKey)

\* wgpu hashes with the key in the device, the others look at theirs.
KeyInv ==
  /\ subValid => ready
  /\ pc = "hash" => ready
  /\ subValid /\ backend = "wgpu" => devKey = subKey

\* From the commitment to the proof: sub-roots and root of A, the scan's key,
\* and a witness to fetch.
RootInv ==
  /\ pc \in {"seed", "scan", "found"} =>
       sub = AllSubRoots(A, key) /\ root = sub /\ subValid /\ subKey = key
  /\ pc \in {"scan", "found"} => seed = [root |-> root, b |-> bSeed]
  /\ pc = "seed" /\ backend \in {"opencl", "wgpu"} => witnessValid
  /\ pc \in {"scan", "found"} /\ backend # "host" => witnessValid

\* The bound on rows, kept by StartAttempt.
RoomInv == pc \in {"attemptB", "row"} => writes < MaxWrites

TInv == TypeOK /\ RoomInv
HInv == CacheInv /\ KeyInv /\ GroupsHashed /\ RootInv
CInv == TInv /\ HInv

-----------------------------------------------------------------------------
(***************************************************************************)
(* Lemmas about sub-roots.                                                  *)
(***************************************************************************)

\* Signals and roots are functions on the groups.
LEMMA AllSubRootsType ==
  ASSUME NEW f \in [Groups -> Content], NEW k \in Nat
  PROVE  AllSubRoots(f, k) \in Roots
BY DEF Roots, AllSubRoots, SubRoot

LEMMA SubRootsTypeUpdate ==
  ASSUME NEW r \in Roots, NEW g \in Groups, NEW c \in Content, NEW k \in Nat
  PROVE  [r EXCEPT ![g] = SubRoot(c, k)] \in Roots
BY DEF Roots, SubRoot

LEMMA ZeroTypes == Zeros \in [Groups -> Content] /\ NoRoot \in Roots
<1>1. Zeros \in [Groups -> Content]
  BY DEF Zeros, Content
<1>2. NoRoot \in Roots
  BY <1>1, AllSubRootsType DEF NoRoot, NoKey
<1> QED
  BY <1>1, <1>2

\* A signal whose other groups are hashed is hashed with the one group more.
LEMMA OneGroupMore ==
  ASSUME NEW r \in Roots, NEW f \in [Groups -> Content], NEW k \in Nat,
         NEW h \in Groups,
         \A g \in Groups : g # h => r[g] = SubRoot(f[g], k)
  PROVE  [r EXCEPT ![h] = SubRoot(f[h], k)] = AllSubRoots(f, k)
BY DEF Roots, AllSubRoots, Content

-----------------------------------------------------------------------------
(***************************************************************************)
(* The invariant.                                                           *)
(***************************************************************************)

LEMMA Initial == Init => CInv
<1> SUFFICES ASSUME Init PROVE CInv
  OBVIOUS
<1>1. TypeOK
  <2>1. 0 \in 0..MaxJobs /\ 0 \in 0..MaxWrites /\ 0 \in 0..0
    BY CommitmentBoundsAssumption
  <2>2. {bKey, bSeed, bNoisy} \subseteq 0..newest
    BY <2>1 DEF Init, NoKey
  <2>3. witness \in [blocks: [Groups -> Content], subs: Roots, root: Roots]
    BY ZeroTypes DEF Init, NoShare
  <2>4. seed \in [root: Roots, b: Nat]
    BY ZeroTypes DEF Init, NoKey
  <2> QED
    BY <2>1, <2>2, <2>3, <2>4, ZeroTypes DEF Init, TypeOK, NoKey
<1> QED
  BY <1>1 DEF Init, CInv, TInv, HInv, RoomInv, CacheInv, InAttempt, KeyInv, GroupsHashed,
     Trusted, RootInv

(***************************************************************************)
(* Types.  A row is written only while the bound allows one more.           *)
(***************************************************************************)

\* Jobs begin and end, are cancelled, attempts start and scan.
LEMMA JobLoopTypes ==
  ASSUME TInv, JobLoop
  PROVE  TInv'
<1> USE DEF TInv, TypeOK, RoomInv, JobKeeps, bVars, aVars, subVars, outVars
<1>1. CASE BeginJob
  <2>1. PICK k \in NextKeys : key' = k /\ newest' = (IF k > newest THEN k ELSE newest)
    BY <1>1 DEF BeginJob
  <2>2. k \in Nat /\ k <= newest'
    BY <2>1 DEF NextKeys
  <2>3. jobs' \in 0..MaxJobs
    BY <1>1, CommitmentBoundsAssumption DEF BeginJob
  <2>4. /\ newest' \in Nat /\ newest <= newest' /\ key' \in 0..newest'
    BY <2>1, <2>2
  <2>5. \A x \in 0..newest : x \in 0..newest'
    BY <2>4
  <2>6. {bKey, bSeed, bNoisy}' \subseteq 0..newest' /\ subKey' \in 0..newest'
          /\ devKey' \in 0..newest'
    BY <1>1, <2>5 DEF BeginJob
  <2> QED
    BY <1>1, <2>3, <2>4, <2>6 DEF BeginJob
<1>2. CASE Cancel
  BY <1>2 DEF Cancel
<1>3. CASE EndJob
  BY <1>3 DEF EndJob, Ended
<1>4. CASE StartAttempt
  BY <1>4 DEF StartAttempt
<1>5. CASE ScanMiss
  BY <1>5 DEF ScanMiss
<1>6. CASE ScanCancelled
  BY <1>6 DEF ScanCancelled, Ended
<1>7. CASE ScanHit
  BY <1>7 DEF ScanHit
<1> QED
  BY <1>1, <1>2, <1>3, <1>4, <1>5, <1>6, <1>7 DEF JobLoop

\* Noisy B is made, or not.
LEMMA NoisyBTypes ==
  ASSUME TInv, CudaB \/ OpenclB \/ WgpuB \/ HostB \/ HostBStopped
  PROVE  TInv'
<1> USE DEF TInv, TypeOK, RoomInv, JobKeeps, bVars, aVars, subVars, outVars, MakesB, AfterB,
       Ended
<1>1. CASE CudaB
  BY <1>1 DEF CudaB, BMade
<1>2. CASE OpenclB
  BY <1>2 DEF OpenclB, BMade
<1>3. CASE WgpuB
  BY <1>3 DEF WgpuB, BMade
<1>4. CASE HostB
  BY <1>4 DEF HostB, BMade
<1>5. CASE HostBStopped
  BY <1>5 DEF HostBStopped
<1> QED
  BY <1>1, <1>2, <1>3, <1>4, <1>5

\* What the four ways to write a row have in common.
LEMMA RowCommon ==
  ASSUME TypeOK, NEW g \in Groups,
         CudaRow(g) \/ OpenclRow(g) \/ WgpuRow(g) \/ HostRow(g)
  PROVE  /\ RowWritten(backend, g)
         /\ subValid' => subValid
         /\ subValid' \in BOOLEAN /\ whole' \in BOOLEAN /\ witnessValid' \in BOOLEAN
<1> USE DEF RowWritten, TypeOK
<1>1. CASE CudaRow(g)
  BY <1>1, Zenon DEF CudaRow
<1>2. CASE OpenclRow(g)
  BY <1>2, Zenon DEF OpenclRow
<1>3. CASE WgpuRow(g)
  BY <1>3, Zenon DEF WgpuRow
<1>4. CASE HostRow(g)
  BY <1>4, Zenon DEF HostRow
<1> QED
  BY <1>1, <1>2, <1>3, <1>4

LEMMA RowTypes ==
  ASSUME TInv, NEW g \in Groups,
         CudaRow(g) \/ OpenclRow(g) \/ WgpuRow(g) \/ HostRow(g)
  PROVE  TInv'
<1>1. /\ TypeOK /\ RoomInv /\ RowWritten(backend, g)
      /\ subValid' \in BOOLEAN /\ whole' \in BOOLEAN /\ witnessValid' \in BOOLEAN
  BY RowCommon DEF TInv
<1>2. A' \in [Groups -> Content]
  <2>1. A \in [Groups -> Content] /\ Zeros \in [Groups -> Content]
    BY <1>1, ZeroTypes DEF TypeOK
  <2>2. writes + 1 \in Content
    BY <1>1 DEF TypeOK, Content
  <2> QED
    BY <1>1, <2>1, <2>2 DEF RowWritten
<1>3. writes' \in 0..MaxWrites
  BY <1>1, CommitmentBoundsAssumption DEF RowWritten, TypeOK, RoomInv
<1> QED
  BY <1>1, <1>2, <1>3 DEF TInv, RoomInv, RowWritten, TypeOK, JobKeeps, bVars

\* All of A is hashed, or a group of it, with a key that is known.
LEMMA HashTypes ==
  ASSUME TInv, \/ CudaHashAll \/ OpenclHashAll \/ WgpuHashAll \/ HostHashAll
               \/ CudaRehash \/ OpenclRehash \/ WgpuRehash \/ HostRehash
  PROVE  TInv'
<1>1. PICK r : /\ Committed(r) /\ pc = "hash" /\ subKey' \in {key, subKey}
               /\ r \in {AllSubRoots(A, key)} \cup
                        {[sub EXCEPT ![row] = SubRoot(A[row], k)] : k \in {key, devKey, subKey}}
  BY DEF CudaHashAll, OpenclHashAll, WgpuHashAll, HostHashAll, HashedAll,
     CudaRehash, OpenclRehash, WgpuRehash, HostRehash, HashedGroup
<1>2. /\ devKey' \in {key, devKey}
      /\ subValid' \in {TRUE, subValid} /\ witnessValid' \in {TRUE, witnessValid}
  BY DEF CudaHashAll, OpenclHashAll, WgpuHashAll, HostHashAll, HashedAll,
     CudaRehash, OpenclRehash, WgpuRehash, HostRehash, HashedGroup
<1>3. r \in Roots
  <2>1. /\ sub \in Roots /\ A \in [Groups -> Content] /\ row \in Groups
        /\ key \in Nat /\ devKey \in Nat /\ subKey \in Nat
    BY DEF TInv, TypeOK
  <2>2. AllSubRoots(A, key) \in Roots
    BY <2>1, AllSubRootsType
  <2>3. \A k \in {key, devKey, subKey} : [sub EXCEPT ![row] = SubRoot(A[row], k)] \in Roots
    BY <2>1, SubRootsTypeUpdate
  <2> QED
    BY <1>1, <2>2, <2>3
<1>4. subValid' \in BOOLEAN /\ witnessValid' \in BOOLEAN
  BY <1>2 DEF TInv, TypeOK
<1> QED
  BY <1>1, <1>2, <1>3, <1>4 DEF TInv, TypeOK, RoomInv, Committed, JobKeeps, bVars, aVars

\* The scan's key is made, or the job ends; CUDA also leaves one before it.
LEMMA SeedTypes ==
  ASSUME TInv, CudaSeed \/ OpenclSeed \/ WgpuSeed \/ HostSeed \/ CancelBeforeHash
  PROVE  TInv'
<1>1. CASE CancelBeforeHash
  BY <1>1 DEF CancelBeforeHash, TInv, TypeOK, RoomInv, JobKeeps, bVars, aVars, subVars,
     outVars, Ended
<1>2. CASE ~CancelBeforeHash
  <2>1. /\ SeedMade(backend) /\ (Scans \/ Ended)
        /\ witnessValid' \in {TRUE, witnessValid}
    BY <1>2 DEF CudaSeed, OpenclSeed, WgpuSeed, HostSeed, SeedMade
  <2>2. seed' \in [root: Roots, b: Nat]
    BY <2>1 DEF TInv, TypeOK, SeedMade
  <2>3. pc' \in {"scan", "idle"} /\ cancelled' \in BOOLEAN /\ witnessValid' \in BOOLEAN
    BY <2>1 DEF TInv, TypeOK, Scans, Ended
  <2> QED
    BY <2>1, <2>2, <2>3 DEF TInv, TypeOK, RoomInv, SeedMade, JobKeeps, bVars, aVars, subVars
<1> QED
  BY <1>1, <1>2

\* What is fetched is the stored sub-roots, or those of A.
LEMMA FetchCommon ==
  ASSUME TypeOK, CudaFetch \/ OpenclFetch \/ WgpuFetch \/ HostFetch
  PROVE  \E r \in Roots : Fetched(backend, r) /\ (r = sub \/ r = AllSubRoots(A, key))
<1>1. sub \in Roots /\ AllSubRoots(A, key) \in Roots
  BY AllSubRootsType DEF TypeOK
<1> QED
  BY <1>1 DEF CudaFetch, OpenclFetch, WgpuFetch, HostFetch, Fetched

LEMMA TypeStep ==
  ASSUME TInv, [Next]_vars
  PROVE  TInv'
<1>1. CASE CudaFetch \/ OpenclFetch \/ WgpuFetch \/ HostFetch
  <2>1. PICK r \in Roots : Fetched(backend, r)
    BY <1>1, FetchCommon DEF TInv
  <2> QED
    BY <2>1 DEF TInv, TypeOK, RoomInv, Fetched, JobKeeps, bVars, aVars, subVars
<1>2. CASE UNCHANGED vars
  BY <1>2 DEF vars, jobVars, TInv, TypeOK, RoomInv, bVars, aVars, subVars, outVars
<1> QED
  BY <1>1, <1>2, JobLoopTypes, NoisyBTypes, RowTypes, HashTypes, SeedTypes
     DEF Next, Cuda, Opencl, Wgpu, Host

-----------------------------------------------------------------------------
(***************************************************************************)
(* Keys, caches and sub-roots.                                              *)
(***************************************************************************)

\* Jobs begin and end, are cancelled, attempts start and scan: neither A nor
\* its sub-roots change.
LEMMA JobLoopStep ==
  ASSUME CudaKeysAreNew, CInv, JobLoop
  PROVE  HInv'
<1> USE DEF CInv, TInv, HInv, TypeOK, CacheInv, InAttempt, KeyInv, GroupsHashed, Trusted,
       RootInv, BCached, JobKeeps, bVars, aVars, subVars, outVars
<1>1. CASE BeginJob
  <2>1. PICK k \in NextKeys : key' = k /\ newest' = (IF k > newest THEN k ELSE newest)
    BY <1>1 DEF BeginJob
  <2>2. k \in Nat /\ k <= newest'
    BY <2>1 DEF NextKeys
  <2>3. backend \in RepeatAfterCancel \/ k > newest \/ (k = key /\ ~cancelled)
    BY <2>1 DEF NextKeys
  <2>4. GroupsHashed'
    BY <1>1, <2>1, <2>2, <2>3 DEF BeginJob
  <2> QED
    BY <1>1, <2>4 DEF BeginJob
<1>2. CASE Cancel
  BY <1>2 DEF Cancel
<1>3. CASE EndJob
  BY <1>3 DEF EndJob, Ended
<1>4. CASE StartAttempt
  BY <1>4 DEF StartAttempt
<1>5. CASE ScanMiss
  BY <1>5 DEF ScanMiss
<1>6. CASE ScanCancelled
  BY <1>6 DEF ScanCancelled, Ended
<1>7. CASE ScanHit
  BY <1>7 DEF ScanHit
<1> QED
  BY <1>1, <1>2, <1>3, <1>4, <1>5, <1>6, <1>7 DEF JobLoop

\* Noisy B is made, or not: A and its sub-roots stay.
LEMMA NoisyBStep ==
  ASSUME CInv, CudaB \/ OpenclB \/ WgpuB \/ HostB \/ HostBStopped
  PROVE  HInv'
<1> USE DEF CInv, TInv, HInv, TypeOK, CacheInv, InAttempt, KeyInv, GroupsHashed, Trusted,
       RootInv, BCached, JobKeeps, bVars, aVars, subVars, outVars, MakesB, AfterB, Ended
<1>1. CASE CudaB
  BY <1>1 DEF CudaB, BMade
<1>2. CASE OpenclB
  BY <1>2 DEF OpenclB, BMade
<1>3. CASE WgpuB
  BY <1>3 DEF WgpuB, BMade
<1>4. CASE HostB
  BY <1>4 DEF HostB, BMade
<1>5. CASE HostBStopped
  BY <1>5 DEF HostBStopped
<1> QED
  BY <1>1, <1>2, <1>3, <1>4, <1>5

\* A row is written: its group is the one not hashed.
LEMMA RowStep ==
  ASSUME CInv, NEW g \in Groups,
         CudaRow(g) \/ OpenclRow(g) \/ WgpuRow(g) \/ HostRow(g)
  PROVE  HInv'
<1>1. /\ TypeOK /\ HInv /\ RowWritten(backend, g)
      /\ subValid' => subValid
  BY RowCommon DEF CInv, TInv
<1>2. GroupsHashed'
  <2> SUFFICES ASSUME Trusted', NEW h \in Groups, h # g
               PROVE  sub'[h] = SubRoot(A'[h], subKey')
    BY <1>1 DEF GroupsHashed, RowWritten
  <2>1. Trusted /\ ready
    BY <1>1 DEF HInv, KeyInv, JobKeeps, Trusted, RowWritten
  <2>2. A'[h] = A[h]
    BY <1>1, <2>1 DEF RowWritten, TypeOK
  <2> QED
    BY <1>1, <2>1, <2>2 DEF HInv, GroupsHashed, RowWritten
<1>3. KeyInv' /\ CacheInv' /\ RootInv'
  BY <1>1 DEF HInv, KeyInv, CacheInv, InAttempt, RootInv, BCached, JobKeeps, bVars, RowWritten
<1> QED
  BY <1>2, <1>3 DEF HInv

\* CUDA leaves the row unhashed: its sub-roots are not relied on any more.
LEMMA CancelStep ==
  ASSUME CudaKeysAreNew, CInv, CancelBeforeHash
  PROVE  HInv'
BY DEF CudaKeysAreNew, CancelBeforeHash, CInv, HInv, CacheInv, InAttempt, KeyInv, GroupsHashed,
   Trusted, RootInv, BCached, JobKeeps, bVars, aVars, subVars, outVars, Ended

\* All of A is hashed with the key of the job.
LEMMA HashAllStep ==
  ASSUME CInv, CudaHashAll \/ OpenclHashAll \/ WgpuHashAll \/ HostHashAll
  PROVE  HInv'
<1>1. /\ HashedAll(backend)
      /\ backend = "wgpu" => devKey' = key
      /\ witnessValid' \in {TRUE, witnessValid}
      /\ backend \in {"opencl", "wgpu"} => witnessValid'
  BY DEF CudaHashAll, OpenclHashAll, WgpuHashAll, HostHashAll, HashedAll
<1>2. \A g \in Groups : AllSubRoots(A, key)[g] = SubRoot(A[g], key)
  BY DEF AllSubRoots
<1> QED
  BY <1>1, <1>2 DEF CInv, HInv, HashedAll, Committed, JobKeeps, bVars, aVars, CacheInv,
     InAttempt, KeyInv, GroupsHashed, Trusted, RootInv, BCached

\* The group of the row is hashed again.
LEMMA RehashStep ==
  ASSUME CInv, CudaRehash \/ OpenclRehash \/ WgpuRehash \/ HostRehash
  PROVE  HInv'
<1>1. PICK k : /\ HashedGroup(backend, k)
               /\ k = key \/ (backend = "wgpu" /\ k = devKey) \/ k = subKey
               /\ backend = "wgpu" => devKey' = devKey
               /\ witnessValid' \in {TRUE, witnessValid}
               /\ backend \in {"opencl", "wgpu"} => witnessValid'
  BY DEF CudaRehash, OpenclRehash, WgpuRehash, HostRehash, HashedGroup
<1>2. pc = "hash" /\ subValid /\ subKey = key
  BY <1>1 DEF HashedGroup, NeedsWholeHash
<1>3. k = key
  BY <1>1, <1>2 DEF CInv, HInv, KeyInv
<1>4. \A g \in Groups : g # row => sub[g] = SubRoot(A[g], key)
  BY <1>2 DEF CInv, HInv, GroupsHashed, Trusted
<1>5. [sub EXCEPT ![row] = SubRoot(A[row], key)] = AllSubRoots(A, key)
  <2>1. /\ sub \in Roots /\ A \in [Groups -> Content] /\ key \in Nat
        /\ row \in Groups
    BY DEF CInv, TInv, TypeOK
  <2> QED
    BY <1>4, <2>1, OneGroupMore
<1>6. \A g \in Groups : AllSubRoots(A, key)[g] = SubRoot(A[g], key)
  BY DEF AllSubRoots
<1>7. sub' = AllSubRoots(A, key) /\ root' = AllSubRoots(A, key)
  BY <1>1, <1>3, <1>5 DEF HashedGroup, Committed
<1> QED
  BY <1>1, <1>2, <1>6, <1>7 DEF CInv, HInv, HashedGroup, Committed, JobKeeps, bVars, aVars,
     CacheInv, InAttempt, KeyInv, GroupsHashed, Trusted, RootInv, BCached

\* The scan's key is made, or the job ends.
LEMMA SeedStep ==
  ASSUME CInv, CudaSeed \/ OpenclSeed \/ WgpuSeed \/ HostSeed
  PROVE  HInv'
<1>1. /\ SeedMade(backend)
      /\ Scans \/ Ended
      /\ witnessValid' \in {TRUE, witnessValid}
      /\ backend = "cuda" => witnessValid'
  BY DEF CudaSeed, OpenclSeed, WgpuSeed, HostSeed, SeedMade
<1>2. pc' \in {"scan", "found"} /\ backend' # "host" => witnessValid'
  <2>1. backend \in {"cuda", "opencl", "wgpu", "host"} /\ backend' = backend
    BY <1>1, BackendsAssumption DEF CInv, TInv, TypeOK, SeedMade, JobKeeps
  <2>2. backend \in {"opencl", "wgpu"} => witnessValid'
    <3>1. backend \in {"opencl", "wgpu"} => witnessValid
      BY <1>1 DEF CInv, HInv, RootInv, SeedMade
    <3>2. witnessValid => witnessValid'
      BY <1>1, Zenon
    <3> QED
      BY <3>1, <3>2
  <2> QED
    BY <1>1, <2>1, <2>2
<1>3. RootInv'
  <2>1. sub = AllSubRoots(A, key) /\ root = sub /\ subValid /\ subKey = key
    BY <1>1 DEF CInv, HInv, RootInv, SeedMade
  <2> QED
    BY <1>1, <1>2, <2>1 DEF RootInv, SeedMade, Scans, Ended, JobKeeps, bVars, aVars, subVars
<1>4. CacheInv' /\ KeyInv'
  BY <1>1 DEF CInv, HInv, SeedMade, Scans, Ended, JobKeeps, bVars, aVars, subVars,
     CacheInv, InAttempt, KeyInv, BCached
<1>5. GroupsHashed'
  BY <1>1 DEF CInv, HInv, SeedMade, Scans, Ended, JobKeeps, aVars, subVars,
     GroupsHashed, Trusted
<1> QED
  BY <1>3, <1>4, <1>5 DEF HInv

\* A share is fetched.
LEMMA FetchStep ==
  ASSUME CInv, CudaFetch \/ OpenclFetch \/ WgpuFetch \/ HostFetch
  PROVE  HInv'
<1>1. PICK r \in Roots : Fetched(backend, r)
  BY FetchCommon DEF CInv, TInv
<1> QED
  BY <1>1 DEF CInv, HInv, Fetched, JobKeeps, bVars, aVars, subVars, CacheInv, InAttempt,
     KeyInv, GroupsHashed, Trusted, RootInv, BCached

LEMMA Stutter == ASSUME CInv, UNCHANGED vars PROVE HInv'
BY DEF vars, jobVars, CInv, HInv, CacheInv, InAttempt, KeyInv, GroupsHashed, Trusted,
   RootInv, BCached, bVars, aVars, subVars, outVars

LEMMA Inductive ==
  ASSUME CudaKeysAreNew, CInv, [Next]_vars
  PROVE  CInv'
<1>1. TInv'
  BY TypeStep DEF CInv
<1>2. HInv'
  BY JobLoopStep, NoisyBStep, RowStep, CancelStep, HashAllStep, RehashStep, SeedStep,
     FetchStep, Stutter DEF Next, Cuda, Opencl, Wgpu, Host
<1> QED
  BY <1>1, <1>2 DEF CInv

-----------------------------------------------------------------------------
(***************************************************************************)
(* Every variable of the job loop, the caches and the commitment keeps its  *)
(* type, on every backend and whatever keys the pool sends.                 *)
(***************************************************************************)
THEOREM TypesKept == Spec => []TypeOK
<1>1. Init => TInv
  BY Initial DEF CInv
<1>2. TInv /\ [Next]_vars => TInv'
  BY TypeStep
<1>3. TInv => TypeOK
  BY DEF TInv
<1> QED
  BY <1>1, <1>2, <1>3, PTL DEF Spec

(***************************************************************************)
(* The invariant holds when the pool never sends a CUDA miner the key of a  *)
(* cancelled job again.                                                     *)
(***************************************************************************)
THEOREM Invariance == ASSUME CudaKeysAreNew PROVE Spec => []CInv
<1>1. CInv /\ [Next]_vars => CInv'
  BY Inductive
<1> QED
  BY <1>1, Initial, PTL DEF Spec

(***************************************************************************)
(* The key of a scan commits the whole of signal A under the key of its     *)
(* job, and a hit on a device can be proven, whatever was cancelled before. *)
(***************************************************************************)
THEOREM ScansAreProvable ==
  ASSUME CudaKeysAreNew PROVE Spec => []ScansCanBeProven
<1>1. CInv => ScanOfWholeSignal
  BY DEF CInv, HInv, RootInv, CacheInv, InAttempt, BCached, ScanOfWholeSignal
<1>2. CInv => WitnessAtHand
  BY DEF CInv, HInv, RootInv, CacheInv, InAttempt, BCached, WitnessAtHand, CanFetch
<1>3. CInv => ScansCanBeProven
  BY <1>1, <1>2 DEF ScansCanBeProven
<1> QED
  BY <1>3, Invariance, PTL

(***************************************************************************)
(* The blocks, sub-roots and root of a witness and the key of the scan it   *)
(* proves are of one signal and one job.                                    *)
(***************************************************************************)
THEOREM WitnessesOfScans ==
  ASSUME CudaKeysAreNew PROVE Spec => WitnessOfTheScan
<1>1. ASSUME CInv, [Next]_vars
      PROVE  [witness' # witness =>
                /\ witness'.subs = AllSubRoots(witness'.blocks, key)
                /\ witness'.root = witness'.subs
                /\ seed.root = witness'.root]_vars
  <2>1. SUFFICES ASSUME witness' # witness
                 PROVE  /\ witness'.subs = AllSubRoots(witness'.blocks, key)
                        /\ witness'.root = witness'.subs
                        /\ seed.root = witness'.root
    OBVIOUS
  <2>2. CudaFetch \/ OpenclFetch \/ WgpuFetch \/ HostFetch
    BY <1>1, <2>1 DEF Next, JobLoop, Cuda, Opencl, Wgpu, Host, vars, outVars, BeginJob,
       Cancel, EndJob, StartAttempt, ScanMiss, ScanCancelled, ScanHit, CudaB, OpenclB, WgpuB,
       HostB, BMade, HostBStopped, CudaRow, OpenclRow, WgpuRow, HostRow, RowWritten,
       CancelBeforeHash, CudaHashAll, OpenclHashAll, WgpuHashAll, HostHashAll, HashedAll,
       CudaRehash, OpenclRehash, WgpuRehash, HostRehash, HashedGroup, Committed, CudaSeed,
       OpenclSeed, WgpuSeed, HostSeed, SeedMade
  <2>3. PICK r : Fetched(backend, r) /\ (r = sub \/ r = AllSubRoots(A, key))
    BY <2>2 DEF CudaFetch, OpenclFetch, WgpuFetch, HostFetch, Fetched
  <2>4. pc = "found"
    BY <2>3 DEF Fetched
  <2>5. sub = AllSubRoots(A, key) /\ root = sub /\ seed.root = root
    BY <1>1, <2>4 DEF CInv, HInv, RootInv
  <2> QED
    BY <2>3, <2>5 DEF Fetched
<1> QED
  BY <1>1, Invariance, PTL DEF Spec, WitnessOfTheScan
=============================================================================
