------------------------------ MODULE MatrixTree ------------------------------
(***************************************************************************)
(* The keyed commitment of a matrix on the host (PearlMatrixHash in         *)
(* src/common/cp_noise.c) as the CPU and Hexagon backends use it for signal *)
(* A: the tree of chunk hashes is kept from attempt to attempt, and an      *)
(* attempt hashes the chunks it wrote and the nodes above them again.  When *)
(* that runs out of memory all chunks are hashed with the stack of          *)
(* pearl_root_from_chunk_cvs.  The tree of a new job can be made by the     *)
(* threads of the DSP (pearlx_tree_cvs) and copied.                         *)
(*                                                                         *)
(* BLAKE3 is symbolic: a hash is the tuple of what went into it, so that    *)
(* two are equal exactly when the same bytes were hashed under the same key *)
(* in the same tree.  The content of a chunk is how often it was written.   *)
(* The buffer and its size stay the same: the share queue gives the one it  *)
(* was lent back.                                                           *)
(***************************************************************************)
EXTENDS Integers, Sequences, FiniteSets

CONSTANTS
  ChunkCounts,   \* numbers of chunks a matrix may have, more than one
  Threads,       \* threads of the DSP
  CvGroup,       \* CV_GROUP: chunks of one vector
  PtGroup,       \* PT_GROUP: parents of one step
  MaxDirty,      \* bound: chunks an attempt writes
  MaxWrites,     \* bound: attempts
  MaxJobs        \* bound: keys

ASSUME ChunksAssumption == ChunkCounts \subseteq Nat \ {0, 1}
ASSUME DeviceAssumption == {Threads, CvGroup, PtGroup} \subseteq Nat \ {0}
ASSUME TreeBoundsAssumption == {MaxDirty, MaxWrites} \subseteq Nat /\ MaxJobs \in Nat \ {0}

VARIABLES
  \* h_A_sig: its chunks and how often each was written; the job key
  chunks, chunk, key,
  \* PearlMatrixHash: valid, key, level
  valid, treeKey, level,
  \* the commitment of the last attempt (None: none of this job); attempts
  commitment, writes

matrixVars == <<chunks, chunk, key>>
cacheVars == <<valid, treeKey, level>>
treeVars == <<matrixVars, cacheVars, commitment, writes>>

Indices == 0..(chunks - 1)
None == <<>>

\* Numbers of a tree over n chunks: its levels, the nodes of one.
Two[j \in Nat] == IF j = 0 THEN 1 ELSE 2 * Two[j - 1]
TopLevel(n) == CHOOSE t \in 0..n : Two[t] <= n /\ n < Two[t + 1]
Levels(n) == 0..TopLevel(n)
Nodes(n, j) == 0..((n \div Two[j]) - 1)

ChunkCv(k, i, content) == <<"chunk", k, i, content>>
ParentCv(k, l, r) == <<"parent", k, l, r>>
RootOf(k, l, r) == <<"root", k, l, r>>

ChunkCvs(k, c, over) == [i \in over |-> ChunkCv(k, i, c[i])]
Parents(k, below, over) == [i \in over |-> ParentCv(k, below[2 * i], below[2 * i + 1])]

\* The nodes of a level with those that are hashed again.
Rehashed(nodes, old) ==
  [i \in DOMAIN nodes \cup DOMAIN old |-> IF i \in DOMAIN nodes THEN nodes[i] ELSE old[i]]

\* pearl_mh_build_parents, over the chunk hashes given.
BuildParents(k, cvs, n) ==
  LET Built[j \in Levels(n)] == IF j = 0 THEN cvs ELSE Parents(k, Built[j - 1], Nodes(n, j))
  IN  Built

\* The end of pearl_mh_root and of pearl_root_from_chunk_cvs: subtrees are merged
\* from the right.
MergedFromRight(k, tops) ==
  LET Below[b \in 2..Len(tops)] ==
        IF b = Len(tops) THEN tops[b] ELSE ParentCv(k, tops[b], Below[b + 1])
  IN  RootOf(k, tops[1], Below[2])

\* pearl_mh_root: a set bit of n is a perfect subtree, which starts after those of the
\* bits above; of a power of two the children of the only one are taken.
TakeTop(levels, n, j, above) ==
  IF (n \div Two[j]) % 2 = 1
  THEN [tops  |-> Append(above.tops, levels[j][above.start \div Two[j]]),
        start |-> above.start + Two[j]]
  ELSE above

Tops(levels, n) ==
  LET From[j \in 0..(TopLevel(n) + 1)] ==
        IF j = TopLevel(n) + 1 THEN [tops |-> <<>>, start |-> 0]
        ELSE TakeTop(levels, n, j, From[j + 1])
  IN  IF Len(From[0].tops) = 1
      THEN <<levels[TopLevel(n) - 1][0], levels[TopLevel(n) - 1][1]>> ELSE From[0].tops

Root(k, levels, n) == MergedFromRight(k, Tops(levels, n))

\* pearl_popcnt64
PopCount(x) == Cardinality({j \in 0..x : (x \div Two[j]) % 2 = 1})

\* pearl_merge_cv_stack: the last two of the stack become one, down to post of them.
MergeStack(k, stack, post) ==
  LET Merged[m \in 0..(Len(stack) - post)] ==
        IF m = 0 THEN stack
        ELSE LET st == Merged[m - 1]
             IN  Append(SubSeq(st, 1, Len(st) - 2),
                        ParentCv(k, st[Len(st) - 1], st[Len(st)]))
  IN  Merged[Len(stack) - post]

\* pearl_root_from_chunk_cvs: subtrees of one size are merged as chunks come.
StackRoot(k, c, n) ==
  LET Stack[i \in 0..n] ==
        IF i = 0 THEN <<>>
        ELSE Append(MergeStack(k, Stack[i - 1], PopCount(i - 1)),
                    ChunkCv(k, i - 1, c[i - 1]))
  IN  MergedFromRight(k, Stack[n])

-----------------------------------------------------------------------------
\* Mutant: a node is not hashed again if only its right child changed.
AboveLeft(nodes) == {v \div 2 : v \in {w \in nodes : w % 2 = 0}}

Above(nodes) == {v \div 2 : v \in nodes}

(***************************************************************************)
(* pearl_mh_update: the chunks that changed, then level by level the        *)
(* parents of the nodes that did; a node without a complete parent is one   *)
(* of the tops the root is merged from.                                     *)
(***************************************************************************)
Changed(dirty, n) ==
  LET Again[j \in Levels(n)] ==
        IF j = 0 THEN dirty ELSE Above(Again[j - 1]) \cap Nodes(n, j)
  IN  Again

Update(k, old, c, dirty, n) ==
  LET New[j \in Levels(n)] ==
        Rehashed(IF j = 0 THEN ChunkCvs(k, c, dirty)
                 ELSE Parents(k, New[j - 1], Changed(dirty, n)[j]), old[j])
  IN  New

-----------------------------------------------------------------------------
(***************************************************************************)
(* The DSP.  A level's nodes are written in whole groups by several threads *)
(* and the rest of it by the last; the levels lie one after the other, each *)
(* padded to four nodes.                                                    *)
(***************************************************************************)
LevelOffset(n) ==
  LET Offset[j \in Nat] ==
        IF j = 0 THEN 0 ELSE Offset[j - 1] + (((n \div Two[j - 1]) + 3) \div 4) * 4
  IN  Offset

\* cv_level, pearlx_tree_cvs: the groups of job t of nc.
JobGroups(t, nc, groups) == ((groups * t) \div nc)..(((groups * (t + 1)) \div nc) - 1)

\* The nodes of a level of len that its jobs write.
Written(len, per) ==
  LET groups == len \div per
      nc == IF groups = 0 THEN 1 ELSE IF Threads < groups THEN Threads ELSE groups
      whole == UNION {JobGroups(t, nc, groups) : t \in 0..(nc - 1)}
  IN  {g * per + i : g \in whole, i \in 0..(per - 1)}
        \cup {groups * per + i : i \in 0..((len % per) - 1)}

\* Nodes at their offsets in the memory of the tree, and read from there (None: not
\* written).
Stored(n, j, nodes) ==
  [a \in {LevelOffset(n)[j] + i : i \in DOMAIN nodes} |-> nodes[a - LevelOffset(n)[j]]]

Read(memory, n, j) ==
  [i \in Nodes(n, j) |-> IF LevelOffset(n)[j] + i \in DOMAIN memory
                         THEN memory[LevelOffset(n)[j] + i] ELSE None]

DeviceTree(k, c, n) ==
  LET Memory[j \in Levels(n)] ==
        IF j = 0 THEN Stored(n, 0, ChunkCvs(k, c, Written(n, CvGroup)))
        ELSE Rehashed(Stored(n, j, Parents(k, Read(Memory[j - 1], n, j - 1),
                                           Written(n \div Two[j], PtGroup))), Memory[j - 1])
  IN  Memory[TopLevel(n)]

\* pearl_matrix_hash_from_tree: the levels copied out of that memory.
FromTree(memory, n) == [j \in Levels(n) |-> Read(memory, n, j)]

-----------------------------------------------------------------------------
TreeInit ==
  /\ chunks \in ChunkCounts /\ chunk = [i \in Indices |-> 0]
  /\ key = 1 /\ valid = FALSE /\ treeKey = 0 /\ level = <<>>
  /\ commitment = None /\ writes = 0

\* A job with another key: the CPU and the NPU leave the tree of the old one.
NewKey ==
  /\ key < MaxJobs /\ key' = key + 1 /\ commitment' = None
  /\ UNCHANGED <<chunks, chunk, cacheVars, writes>>

(***************************************************************************)
(* prepare_job of the Hexagon backend: the tree of the new key from the     *)
(* DSP, or from its chunk hashes, or none when a call or memory fails.      *)
(***************************************************************************)
NewKeyFromDevice ==
  /\ key < MaxJobs /\ key' = key + 1 /\ commitment' = None
  /\ \/ /\ chunks % CvGroup = 0 /\ valid' = TRUE /\ treeKey' = key'
        /\ level' \in {FromTree(DeviceTree(key', chunk, chunks), chunks),
                       BuildParents(key', ChunkCvs(key', chunk, Written(chunks, CvGroup)),
                                    chunks)}
     \/ valid' = FALSE /\ treeKey' = key' /\ level' = <<>>
     \/ valid' = FALSE /\ UNCHANGED <<treeKey, level>>
  /\ UNCHANGED <<chunks, chunk, writes>>

\* The chunks an attempt writes: those of a row, or one per column anywhere.
Write(dirty) ==
  /\ writes < MaxWrites /\ writes' = writes + 1
  /\ chunk' = [i \in Indices |-> chunk[i] + (IF i \in dirty THEN 1 ELSE 0)]
  /\ UNCHANGED <<chunks, key>>

TreeIsOurs == valid /\ treeKey = key

\* pearl_matrix_hash_digest, the tree anew.
DigestAll(c) ==
  LET levels == BuildParents(key, ChunkCvs(key, c, Indices), chunks)
  IN  /\ valid' = TRUE /\ treeKey' = key /\ level' = levels
      /\ commitment' = Root(key, levels, chunks)

\* pearl_matrix_hash_digest, the changed chunks and what is above them.
DigestChanged(c, dirty) ==
  LET levels == Update(key, level, c, dirty, chunks)
  IN  /\ level' = levels /\ commitment' = Root(key, levels, chunks)
      /\ UNCHANGED <<valid, treeKey>>

\* Memory ran out: the tree is dropped and the attempt hashes without it.
DigestFails(c) == valid' = FALSE /\ commitment' = StackRoot(key, c, chunks)
BuildFails(c) == DigestFails(c) /\ treeKey' = key /\ level' = <<>>
UpdateFails(c) == DigestFails(c) /\ UNCHANGED <<treeKey, level>>

\* An attempt writes A and commits to it.
Attempt ==
  \E dirty \in SUBSET Indices :
    /\ dirty # {} /\ Cardinality(dirty) <= MaxDirty /\ Write(dirty)
    /\ \/ ~TreeIsOurs /\ (DigestAll(chunk') \/ BuildFails(chunk'))
       \/ TreeIsOurs /\ (DigestChanged(chunk', dirty) \/ UpdateFails(chunk'))

\* CP_CPU_PREP_ROWPOKE=0: all of A is made anew, and the tree dropped first.
AttemptAllNew == Write(Indices) /\ (DigestAll(chunk') \/ BuildFails(chunk'))

TreeNext == NewKey \/ NewKeyFromDevice \/ Attempt \/ AttemptAllNew

-----------------------------------------------------------------------------
(***************************************************************************)
(* Properties                                                               *)
(***************************************************************************)

\* Every variable has its type, and a valid tree has all its levels.
TreeTypeOK ==
  /\ chunks \in ChunkCounts /\ chunk \in [Indices -> 0..MaxWrites]
  /\ key \in 1..MaxJobs /\ treeKey \in 0..MaxJobs /\ valid \in BOOLEAN
  /\ writes \in 0..MaxWrites
  /\ valid => /\ DOMAIN level = Levels(chunks)
              /\ \A j \in Levels(chunks) : DOMAIN level[j] = Nodes(chunks, j)

\* The keyed tree hash by its definition: the left subtree of more than one
\* chunk has the largest power of two of chunks that leaves some for the right.
Left(len) == Two[TopLevel(len - 1)]
KeyedCvs(k, c) ==
  LET Cvs[len \in Nat \ {0}] ==
        [first \in Nat |->
           IF len = 1 THEN ChunkCv(k, first, c[first])
           ELSE ParentCv(k, Cvs[Left(len)][first], Cvs[len - Left(len)][first + Left(len)])]
  IN  Cvs
Blake3Root(k, c, n) ==
  RootOf(k, KeyedCvs(k, c)[Left(n)][0], KeyedCvs(k, c)[n - Left(n)][Left(n)])

(***************************************************************************)
(* What an attempt commits to is the hash of all of the A it has, under the *)
(* key of its job: no node of the tree is of other bytes or another key,    *)
(* however the tree came about and whatever failed (src/include/cp_noise.h, *)
(* pearl_matrix_hash_digest).                                               *)
(***************************************************************************)
CommitsToThisA == commitment # None => commitment = Blake3Root(key, chunk, chunks)
=============================================================================
