------------------------------ MODULE QpowCpuTeam ------------------------------
(***************************************************************************)
(* The CPU search of one Quantus job: mine_job_cpu and the nonces it counts *)
(* (src/common/cp_qpow_mine.cpp), with search_range_scalar                  *)
(* (src/qpow/include/qpow/miner.hpp).  A team of threads, each from a nonce *)
(* of its own, searches chunk after chunk, notes the time for the fee and   *)
(* submits the shares it finds, until the job is replaced or a fee switch   *)
(* is due.                                                                  *)
(*                                                                         *)
(* A nonce is a sequence of NonceLength digits instead of 64 bytes, laid    *)
(* out as in the code: extranonce, thread, salt, and a counter that starts  *)
(* at 0.  The hash of a counter is computed from the constants of its line  *)
(* and its place in it, so what was hashed is the number these two stand    *)
(* for.                                                                     *)
(***************************************************************************)
EXTENDS Integers, Sequences, SequencesExt, FiniteSets

CONSTANTS
  NThreads,      \* threads of the team
  Radix,         \* values of a digit
  NonceLength,   \* CP_QPOW_NONCE_BYTES, even
  StampLength,   \* digits of the thread's number
  HotLength,     \* digits of the counter kept free of salt
  Extranonces,   \* lengths the pool's extranonce may have
  Salts,         \* salts: a name and random digits, or zeros
  LineSpan,      \* kTSpan: counters of a line
  SearchChunk,   \* k_search_chunk
  MaxChunks,     \* bound: chunks a thread searches
  MaxHits        \* bound: shares to be found

Half == NonceLength \div 2
SaltLength == Half - HotLength

\* The powers of the radix.
Power[k \in Nat] == IF k = 0 THEN 1 ELSE Radix * Power[k - 1]

ASSUME TeamAssumption ==
  /\ {NThreads, StampLength, HotLength, LineSpan, SearchChunk} \subseteq Nat \ {0}
  /\ Radix \in Nat \ {0, 1} /\ NThreads <= Power[StampLength]
  /\ NonceLength \in Nat /\ NonceLength = 2 * Half /\ StampLength + HotLength <= Half
  /\ Extranonces \subseteq 0..Half /\ Salts \subseteq [1..SaltLength -> 0..(Radix - 1)]
\* The counter of a thread stays below the salt, as 2^64 hashes do.
ASSUME TeamBoundsAssumption ==
  MaxChunks \in Nat /\ MaxHits \in Nat /\ MaxChunks * SearchChunk < Power[HotLength]

VARIABLES
  \* the job: length of the extranonce, salt; <<thread, offset>> of the
  \* counters that are shares, those only the fast path takes for one
  extranonceLen, salt, hits, faulty,
  \* of each thread: where it is, cur, its search's result, what it hashed
  at, cur, result, hashed,
  \* shared by the team: running, stop_rc, the switch the ledger asks for,
  \* shares handed to send and dropped, and what mine_job_cpu returned
  running, stopRc, switchDue, sent, dropped, returned,
  \* the job was replaced or the connection lost
  replaced

jobVars == <<extranonceLen, salt, hits, faulty>>
threadVars == <<at, cur, result, hashed>>
teamVars == <<jobVars, threadVars, running, stopRc, switchDue, sent, dropped,
              returned, replaced>>

TeamThreads == 0..(NThreads - 1)
Offsets == 0..(MaxChunks * SearchChunk - 1)
NoResult == [found |-> FALSE]

-----------------------------------------------------------------------------
(***************************************************************************)
(* Nonces                                                                   *)
(***************************************************************************)
NumberOf(digits) == FoldLeft(LAMBDA n, d : n * Radix + d, 0, digits)

\* build_start_nonce: zeros but for the salt (the extranonce is all zeros).
StartNonce(en, of) ==
  LET offset == IF en + StampLength > Half THEN Half ELSE en + StampLength
  IN  [i \in 1..NonceLength |->
         IF i - offset \in 1..SaltLength THEN of[i - offset] ELSE 0]

\* stamp_thread_id, after build_start_nonce.
Stamped(nonce, en, t) ==
  [i \in 1..NonceLength |->
     IF i - en \in 1..StampLength
     THEN (t \div Power[StampLength - (i - en)]) % Radix ELSE nonce[i]]

StartOf(t) == Stamped(StartNonce(extranonceLen, salt), extranonceLen, t)

\* Mutant: a digit that overflows does not carry.
AddNoCarry(n, add) == [n EXCEPT ![NonceLength] = (@ + add) % Radix]

\* add_be_u64 and nonce_line::add_be: from the last digit, while there is a carry.
AddBe(n, add) ==
  LET Digit(st, i) == LET c == st.carry + st.n[i] IN
        [n |-> [st.n EXCEPT ![i] = c % Radix], carry |-> c \div Radix]
  IN  FoldLeft(Digit, [n |-> n, carry |-> add], [x \in 1..NonceLength |-> NonceLength + 1 - x]).n

\* inc_be.
IncBe(n) == AddBe(n, 1)

\* nonce_line: the lower half of a counter is a place t on a line k.
LowHalf(n) == NumberOf(SubSeq(n, Half + 1, NonceLength))
TOf(n) == LowHalf(n) % LineSpan
LineOf(n) == [high |-> NumberOf(SubSeq(n, 1, Half)), k |-> LowHalf(n) \div LineSpan]

\* hash_if_valid for the line's constants and a place: the counter it hashes.
Hashed(line, t) == line.high * Power[Half] + line.k * LineSpan + t
TrueAt(t, offset) == NumberOf(StartOf(t)) + offset
PointsOf(of) == {TrueAt(h[1], h[2]) : h \in of}

(***************************************************************************)
(* search_range_scalar: stretches of one line each, their constants made    *)
(* anew (LineCache) when the counter has left it.                           *)
(***************************************************************************)
Stretch(search, turn) ==
  LET line == LineOf(search.ctr)
      t == TOf(search.ctr)
      n == IF LineSpan - t < SearchChunk - search.i THEN LineSpan - t
           ELSE SearchChunk - search.i
      points == PointsOf(hits)
      good == {j \in 0..(n - 1) : Hashed(line, t + j) \in points}
      stop == IF good = {} THEN n ELSE CHOOSE j \in good : \A x \in good : j <= x
      upTo == IF good = {} THEN n - 1 ELSE stop
  IN  IF search.found \/ search.i >= SearchChunk THEN search
      ELSE [ctr |-> AddBe(search.ctr, stop), i |-> search.i + n, found |-> good # {},
            hashed |-> search.hashed \o [j \in 1..(upTo + 1) |-> Hashed(line, t + j - 1)]]

SearchRange(start) ==
  FoldLeft(Stretch, [ctr |-> start, i |-> 0, found |-> FALSE, hashed |-> <<>>],
           [turn \in 1..SearchChunk |-> turn])

-----------------------------------------------------------------------------
TeamInit ==
  /\ extranonceLen \in Extranonces /\ salt \in Salts
  /\ hits \in {h \in SUBSET (TeamThreads \X Offsets) : Cardinality(h) <= MaxHits}
  /\ faulty \in {f \in SUBSET hits : Cardinality(f) <= 1}
  /\ at = [t \in TeamThreads |-> "loop"] /\ cur = [t \in TeamThreads |-> StartOf(t)]
  /\ result = [t \in TeamThreads |-> NoResult] /\ hashed = [t \in TeamThreads |-> <<>>]
  /\ running = TRUE /\ stopRc = "none" /\ switchDue = FALSE
  /\ sent = <<>> /\ dropped = {} /\ returned = "no" /\ replaced = FALSE

Goto(t, place) == at' = [at EXCEPT ![t] = place]
Stop(rc) == stopRc' = rc /\ running' = FALSE

\* The head of the loop: the job may be replaced, or the team told to stop.
Loop(t) ==
  /\ at[t] = "loop"
  /\ \/ ~running /\ Goto(t, "done") /\ UNCHANGED <<stopRc, running>>
     \/ running /\ replaced /\ Goto(t, "done") /\ Stop("cancelled")
     \/ /\ running /\ ~replaced /\ Len(hashed[t]) + SearchChunk <= MaxChunks * SearchChunk
        /\ Goto(t, "search") /\ UNCHANGED <<stopRc, running>>
  /\ UNCHANGED <<jobVars, cur, result, hashed, switchDue, sent, dropped, returned, replaced>>

Search(t) ==
  /\ at[t] = "search" /\ Goto(t, "fee")
  /\ LET r == SearchRange(cur[t]) IN
       /\ result' = [result EXCEPT ![t] = [found |-> r.found, counter |-> r.ctr]]
       /\ hashed' = [hashed EXCEPT ![t] = @ \o r.hashed]
  /\ UNCHANGED <<jobVars, cur, running, stopRc, switchDue, sent, dropped, returned, replaced>>

\* Under fee_mx: the ledger takes the time and may ask for a switch.
NoteFee(t) ==
  /\ at[t] = "fee" /\ Goto(t, "share")
  /\ switchDue' \in {switchDue, TRUE}
  /\ IF switchDue' THEN Stop("fee switch") ELSE UNCHANGED <<stopRc, running>>
  /\ UNCHANGED <<jobVars, cur, result, hashed, sent, dropped, returned, replaced>>

Continue(t, from) ==
  /\ cur' = [cur EXCEPT ![t] = from] /\ result' = [result EXCEPT ![t] = NoResult]
  /\ Goto(t, "loop")

NothingFound(t) ==
  /\ at[t] = "share" /\ ~result[t].found /\ Continue(t, AddBe(cur[t], SearchChunk))
  /\ UNCHANGED <<jobVars, hashed, running, stopRc, switchDue, sent, dropped, returned, replaced>>

\* qpow_reference_hash_ok: the hash as it is defined.
ReferenceOk(counter) == NumberOf(counter) \in PointsOf(hits \ faulty)

\* The reference hash does not confirm the share: it is no share.
NotConfirmed(t) ==
  /\ at[t] = "share" /\ result[t].found /\ ~ReferenceOk(result[t].counter)
  /\ Continue(t, IncBe(result[t].counter))
  /\ UNCHANGED <<jobVars, hashed, running, stopRc, switchDue, sent, dropped, returned, replaced>>

\* on_qpow_share_found under submit_mx, with the job replaced: it is dropped.
DropShare(t) ==
  /\ at[t] = "share" /\ result[t].found /\ ReferenceOk(result[t].counter)
  /\ replaced /\ dropped' = dropped \cup {NumberOf(result[t].counter)}
  /\ Stop("none") /\ Goto(t, "done")
  /\ UNCHANGED <<jobVars, cur, result, hashed, switchDue, sent, returned, replaced>>

\* on_qpow_share_found under submit_mx: the share is handed to send, whose failure
\* the caller takes no notice of: `sent` does not mean that the pool got it.
SubmitShare(t) ==
  /\ at[t] = "share" /\ result[t].found /\ ReferenceOk(result[t].counter)
  /\ ~replaced /\ sent' = Append(sent, NumberOf(result[t].counter))
  /\ Continue(t, IncBe(result[t].counter))
  /\ UNCHANGED <<jobVars, hashed, running, stopRc, switchDue, dropped, returned, replaced>>

\* External: another job comes, or the connection is lost.
ReplaceJob ==
  /\ returned = "no" /\ ~replaced /\ replaced' = TRUE
  /\ UNCHANGED <<jobVars, threadVars, running, stopRc, switchDue, sent, dropped, returned>>

\* The end of the parallel region.
TeamReturns ==
  /\ returned = "no" /\ \A t \in TeamThreads : at[t] = "done"
  /\ returned' = IF stopRc = "none" THEN "cancelled" ELSE stopRc
  /\ UNCHANGED <<jobVars, threadVars, running, stopRc, switchDue, sent, dropped, replaced>>

TeamNext ==
  \/ \E t \in TeamThreads :
       \/ Loop(t) \/ Search(t) \/ NoteFee(t) \/ NothingFound(t) \/ NotConfirmed(t)
       \/ DropShare(t) \/ SubmitShare(t)
  \/ ReplaceJob \/ TeamReturns

-----------------------------------------------------------------------------
(***************************************************************************)
(* Properties                                                               *)
(***************************************************************************)

\* Every variable has its type.
TeamTypeOK ==
  /\ at \in [TeamThreads -> {"loop", "search", "fee", "share", "done"}]
  /\ cur \in [TeamThreads -> [1..NonceLength -> 0..(Radix - 1)]]
  /\ running \in BOOLEAN /\ switchDue \in BOOLEAN /\ replaced \in BOOLEAN
  /\ stopRc \in {"none", "cancelled", "fee switch"}
  /\ returned \in {"no", "cancelled", "fee switch"}

(***************************************************************************)
(* The team covers its counters: each thread hashes those after its start   *)
(* one after the other and none twice, whatever it found on the way; no two *)
(* threads hash the same, for any length of the extranonce, which is kept.  *)
(***************************************************************************)
CountersInOrder ==
  /\ \A t \in TeamThreads : LET start == TrueAt(t, 0) IN
       hashed[t] = [i \in DOMAIN hashed[t] |-> start + i - 1]
  /\ \A t, u \in TeamThreads : t # u => Range(hashed[t]) \cap Range(hashed[u]) = {}
  /\ \A t \in TeamThreads : SubSeq(cur[t], 1, extranonceLen) = SubSeq(StartOf(t), 1, extranonceLen)

(***************************************************************************)
(* A share that was hashed is submitted once, also when the team is already *)
(* stopping for the fee ("A share in this chunk is still submitted",        *)
(* cp_qpow_mine.cpp:665); only that of a replaced job may be dropped, and   *)
(* the team returns what stopped it.                                        *)
(***************************************************************************)
SharesOfTeam ==
  /\ \A i, j \in DOMAIN sent : sent[i] = sent[j] => i = j
  /\ Range(sent) \subseteq PointsOf(hits \ faulty)
  /\ dropped # {} => replaced
  /\ returned # "no" => \A h \in hits \ faulty :
       TrueAt(h[1], h[2]) \in Range(hashed[h[1]]) =>
         TrueAt(h[1], h[2]) \in Range(sent) \cup dropped
  /\ returned = "cancelled" => replaced
  /\ returned = "fee switch" => switchDue

EachShareOnce == CountersInOrder /\ SharesOfTeam
=============================================================================
