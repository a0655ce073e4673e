----------------------------- MODULE AttemptProofs -----------------------------
(***************************************************************************)
(* Two parts of an attempt, for any matrices, devices and attempts: the     *)
(* commitment to signal A (MatrixTree) and the scan of the tiles (TileScan).*)
(* PartsProofs concludes from TreeStep and ScanStep what they keep.         *)
(*                                                                         *)
(* The tree: a node of it is the tree over 2^j chunks (NodeOf), and what is *)
(* left of a number of chunks are perfect subtrees, one for each bit set in *)
(* it, the largest first (FirstTops).  Such a row of subtrees folded from   *)
(* the right is the BLAKE3 root of all chunks, since each is no smaller     *)
(* than all that follow (IsCut).  So the root is right if the nodes are     *)
(* (RootRight), and so is the one of the stack, whose elements are that row *)
(* after every chunk, the merges being the ones at the end of the number of *)
(* chunks (StackRight).  That the nodes are right is shown level by level:  *)
(* for a tree made anew (BuiltRight), for one of which only the nodes above *)
(* changed chunks are made again (UpdatedRight), and for the device's, in   *)
(* whose memory no two levels overlap (DeviceRight).                        *)
(*                                                                         *)
(* The scan: that an attempt without a hit looked at everything needs to    *)
(* know at every step that no marked launch was missed so far (SeenInv):    *)
(* once its hash has run the flag is set, once its read has run the host    *)
(* knows.  That again rests on what is in the queue (ScanQueueInv): which   *)
(* launches, in which order, and that none is there without its read.  On   *)
(* the CPU the team's tiles taken are those counted and those being looked  *)
(* at (SumInv).                                                             *)
(***************************************************************************)
EXTENDS MatrixTree, TileScan, SequenceTheorems, FiniteSetTheorems, WellFoundedInduction, TLAPS

\* Induction over the natural numbers, for a set instead of a predicate.
LEMMA SetInduction ==
  ASSUME NEW P, 0 \in P, \A n \in Nat : n \in P => n + 1 \in P
  PROVE  Nat \subseteq P
  <1>. DEFINE T == Nat \ P
  <1>. SUFFICES ASSUME T # {} PROVE FALSE
    OBVIOUS
  <1>1. PICK m \in T : \A k \in T : ~(<<k, m>> \in OpToRel(<, Nat))
    BY NatLessThanWellFounded, WFMin
  <1>2. m # 0 /\ m \in Nat /\ m \notin P
    BY <1>1
  <1>3. m - 1 \in Nat /\ m - 1 < m /\ (m - 1) + 1 = m
    BY <1>2
  <1>4. m - 1 \notin T
    <2>. SUFFICES ASSUME m - 1 \in T PROVE FALSE
      OBVIOUS
    <2>1. <<m - 1, m>> \in OpToRel(<, Nat)
      BY <1>2, <1>3 DEF OpToRel
    <2>. QED  BY <1>1, <2>1
  <1>. QED  BY <1>2, <1>3, <1>4

\* Multiplication by a natural number is monotone,
LEMMA TimesMonotone ==
  ASSUME NEW n \in Nat, NEW a \in Int, NEW b \in Int, a <= b
  PROVE  n * a \in Int /\ n * b \in Int /\ n * a <= n * b
  OBVIOUS

\* strictly by one that is not 0,
LEMMA TimesLess ==
  ASSUME NEW n \in Nat, n > 0, NEW a \in Int, NEW b \in Int, n * a < n * b
  PROVE  a < b
  OBVIOUS

\* and distributes over sums.
LEMMA TimesSum ==
  ASSUME NEW n \in Int, NEW a \in Int, NEW b \in Int
  PROVE  n * (a + b) = n * a + n * b /\ n * a \in Int /\ n * b \in Int
  OBVIOUS

\* Products of numbers.
LEMMA Products ==
  ASSUME NEW a \in Nat, NEW b \in Nat
  PROVE  a * b \in Nat /\ (a > 0 /\ b > 0 => a * b > 0)
  OBVIOUS

\* Dividing with a rest.
LEMMA Division ==
  ASSUME NEW a \in Nat, NEW n \in Nat, n > 0
  PROVE  /\ a \div n \in Nat /\ a % n \in Nat /\ a % n < n
         /\ a = n * (a \div n) + (a % n)
  <1>1. a \div n \in Int /\ a % n \in 0..(n - 1)
    OBVIOUS
  <1>3. a = n * (a \div n) + (a % n)
    OBVIOUS
  <1>2. a \div n >= 0
    OBVIOUS
  <1>. QED  BY <1>1, <1>2, <1>3

\* There is one quotient only.
LEMMA OneQuotient ==
  ASSUME NEW a \in Nat, NEW n \in Nat, NEW q \in Nat, NEW r \in Nat, r < n, a = n * q + r
  PROVE  a \div n = q /\ a % n = r
  <1>. DEFINE p == a \div n  s == a % n
  <1>1. p \in Nat /\ s \in Nat /\ s < n /\ a = n * p + s
    BY Division
  <1>. HIDE DEF p, s
  <1>2. ~(p < q)
    <2>. SUFFICES ASSUME p < q PROVE FALSE
      OBVIOUS
    <2>1. PICK e \in Nat : q = p + 1 + e
      <3>1. q - p - 1 \in Nat /\ q = p + 1 + (q - p - 1)
        BY <1>1
      <3>. QED  BY <3>1
    <2>2. n * q = n * p + n + n * e /\ n * e \in Nat /\ n * p \in Nat
      BY <1>1, <2>1
    <2>. QED  BY <1>1, <2>2
  <1>3. ~(q < p)
    <2>. SUFFICES ASSUME q < p PROVE FALSE
      OBVIOUS
    <2>1. PICK e \in Nat : p = q + 1 + e
      <3>1. p - q - 1 \in Nat /\ p = q + 1 + (p - q - 1)
        BY <1>1
      <3>. QED  BY <3>1
    <2>2. n * p = n * q + n + n * e /\ n * e \in Nat /\ n * q \in Nat
      BY <1>1, <2>1
    <2>. QED  BY <1>1, <2>2
  <1>4. p = q
    BY <1>1, <1>2, <1>3
  <1>5. s = r
    BY <1>1, <1>4
  <1>. QED  BY <1>4, <1>5 DEF p, s

-----------------------------------------------------------------------------
\* A function is defined by recursion over the natural numbers, for a step given as a function.
Recursive(S, s, op) == s \in S /\ op \in [Nat \X S -> S]
HasFunction(S, s, op) ==
  \E f \in [Nat -> S] : f[0] = s /\ \A n \in Nat : f[n + 1] = op[<<n, f[n]>>]
LEMMA NatRecursion ==
  ASSUME NEW S, NEW s, NEW op, Recursive(S, s, op)
  PROVE  HasFunction(S, s, op)
  <1>. USE DEF Recursive
  <1>. DEFINE Solves(f, n) == f[0] = s /\ \A k \in Nat : k < n => f[k + 1] = op[<<k, f[k]>>]
              P == {n \in Nat : \E f \in [Nat -> S] : Solves(f, n)}
  <1>1. 0 \in P
    <2>1. [k \in Nat |-> s] \in [Nat -> S] /\ Solves([k \in Nat |-> s], 0)
      OBVIOUS
    <2>. HIDE DEF Solves
    <2>. QED  BY <2>1
  <1>2. ASSUME NEW n \in Nat, n \in P PROVE n + 1 \in P
    <2>1. PICK f \in [Nat -> S] : Solves(f, n)
      BY <1>2
    <2>. DEFINE h == [f EXCEPT ![n + 1] = op[<<n, f[n]>>]]
    <2>2. op[<<n, f[n]>>] \in S
      OBVIOUS
    <2>3. /\ h \in [Nat -> S] /\ h[n + 1] = op[<<n, f[n]>>]
          /\ \A k \in Nat : k # n + 1 => h[k] = f[k]
      BY <2>2
    <2>. HIDE DEF h
    <2>4. Solves(h, n + 1)
      <3>1. h[0] = s
        BY <2>1, <2>3
      <3>2. ASSUME NEW k \in Nat, k < n + 1 PROVE h[k + 1] = op[<<k, h[k]>>]
        <4>1. k # n + 1 /\ (k + 1 = n + 1 <=> k = n) /\ (k # n => k < n)
          BY <3>2
        <4>. QED  BY <2>1, <2>3, <4>1
      <3>. QED  BY <3>1, <3>2
    <2>. HIDE DEF Solves
    <2>. QED  BY <2>3, <2>4
  <1>3. Nat \subseteq P
    <2>. HIDE DEF P
    <2>. QED  BY <1>1, <1>2, SetInduction
  <1>. DEFINE F(n) == CHOOSE f \in [Nat -> S] : Solves(f, n)
              p == [n \in Nat |-> F(n)[n]]
  <1>5. \A n \in Nat : F(n) \in [Nat -> S] /\ Solves(F(n), n)
    <2>1. \A n \in Nat : \E f \in [Nat -> S] : Solves(f, n)
      BY <1>3
    <2>. HIDE DEF Solves
    <2>. QED  BY <2>1
  <1>. HIDE DEF F
  <1>6. ASSUME NEW n \in Nat PROVE F(n + 1)[n] = F(n)[n]
    <2>. DEFINE f == F(n + 1)  g == F(n)  Q == {k \in Nat : k <= n => f[k] = g[k]}
    <2>1. Solves(f, n + 1) /\ Solves(g, n)
      BY <1>5, n + 1 \in Nat
    <2>. HIDE DEF f, g
    <2>2. 0 \in Q
      BY <2>1
    <2>3. ASSUME NEW k \in Nat, k \in Q PROVE k + 1 \in Q
      <3>. SUFFICES ASSUME k + 1 <= n PROVE f[k + 1] = g[k + 1]
        OBVIOUS
      <3>1. f[k] = g[k] /\ k < n /\ k < n + 1
        BY <2>3
      <3>. QED  BY <2>1, <3>1
    <2>4. n \in Q
      <3>. HIDE DEF Q
      <3>. QED  BY <2>2, <2>3, SetInduction
    <2>. QED  BY <2>4 DEF f, g
  <1>7. p \in [Nat -> S] /\ p[0] = s
    BY <1>5
  <1>8. ASSUME NEW n \in Nat PROVE p[n + 1] = op[<<n, p[n]>>]
    <2>1. n < n + 1 /\ n + 1 \in Nat
      OBVIOUS
    <2>2. F(n + 1)[n + 1] = op[<<n, F(n + 1)[n]>>]
      BY <1>5, <2>1
    <2>. QED  BY <1>6, <2>1, <2>2
  <1>. HIDE DEF p
  <1>. QED  BY <1>7, <1>8 DEF HasFunction

\* The equation of Two.
IsTwo(f) == f = [j \in Nat |-> IF j = 0 THEN 1 ELSE 2 * f[j - 1]]

\* The powers of two.
LEMMA TwoIs ==
  /\ Two[0] = 1
  /\ \A j \in Nat : Two[j] \in Nat /\ Two[j] > j /\ Two[j + 1] = 2 * Two[j]
  <1>. DEFINE op == [x \in Nat \X Nat |-> 2 * x[2]]
  <1>1. op \in [Nat \X Nat -> Nat] /\ \A n, a \in Nat : op[<<n, a>>] = 2 * a
    OBVIOUS
  <1>. HIDE DEF op
  <1>2. PICK f \in [Nat -> Nat] : f[0] = 1 /\ \A n \in Nat : f[n + 1] = op[<<n, f[n]>>]
    <2>1. Recursive(Nat, 1, op)
      BY <1>1 DEF Recursive
    <2>2. HasFunction(Nat, 1, op)
      BY <2>1, NatRecursion
    <2>. QED  BY <2>2 DEF HasFunction
  <1>3. \A n \in Nat : f[n + 1] = 2 * f[n]
    BY <1>1, <1>2
  <1>4. IsTwo(f)
    <2>1. ASSUME NEW j \in Nat PROVE f[j] = IF j = 0 THEN 1 ELSE 2 * f[j - 1]
      <3>1. CASE j # 0
        <4>1. j - 1 \in Nat /\ (j - 1) + 1 = j
          BY <3>1
        <4>. QED  BY <1>3, <3>1, <4>1
      <3>. QED  BY <1>2, <3>1
    <2>2. f = [j \in Nat |-> f[j]]
      OBVIOUS
    <2>. QED  BY <2>1, <2>2 DEF IsTwo
  <1>5. IsTwo(Two)
    <2>1. Two = CHOOSE g : IsTwo(g)
      BY DEF Two, IsTwo
    <2>. HIDE DEF IsTwo
    <2>. QED  BY <1>4, <2>1
  <1>6. Two[0] = 1 /\ \A j \in Nat : Two[j + 1] = 2 * Two[j]
    <2>1. \A j \in Nat : j + 1 \in Nat /\ j + 1 # 0 /\ (j + 1) - 1 = j
      OBVIOUS
    <2>. QED  BY <1>5, <2>1 DEF IsTwo
  <1>. DEFINE P == {j \in Nat : Two[j] \in Nat /\ Two[j] > j}
  <1>7. 0 \in P
    BY <1>6
  <1>8. ASSUME NEW j \in Nat, j \in P PROVE j + 1 \in P
    <2>1. Two[j] \in Nat /\ Two[j] > j /\ Two[j + 1] = 2 * Two[j]
      BY <1>6, <1>8
    <2>. QED  BY <2>1
  <1>9. Nat \subseteq P
    <2>. HIDE DEF P
    <2>. QED  BY <1>7, <1>8, SetInduction
  <1>. QED  BY <1>6, <1>9

\* A larger one is at least twice as large.
LEMMA TwoGrows ==
  ASSUME NEW i \in Nat, NEW j \in Nat, i < j
  PROVE  2 * Two[i] <= Two[j]
  <1>. DEFINE P == {d \in Nat : 2 * Two[i] <= Two[i + 1 + d]}
  <1>1. 0 \in P
    <2>1. i + 1 + 0 = i + 1 /\ Two[i + 1] = 2 * Two[i] /\ Two[i] \in Nat
      BY TwoIs
    <2>. QED  BY <2>1
  <1>2. ASSUME NEW d \in Nat, d \in P PROVE d + 1 \in P
    <2>1. i + 1 + d \in Nat /\ i + 1 + (d + 1) = (i + 1 + d) + 1
      OBVIOUS
    <2>2. Two[i + 1 + (d + 1)] = 2 * Two[i + 1 + d] /\ Two[i + 1 + d] \in Nat /\ Two[i] \in Nat
      BY <2>1, TwoIs
    <2>. QED  BY <1>2, <2>2
  <1>3. Nat \subseteq P
    <2>. HIDE DEF P
    <2>. QED  BY <1>1, <1>2, SetInduction
  <1>4. j - i - 1 \in Nat /\ i + 1 + (j - i - 1) = j
    OBVIOUS
  <1>5. j - i - 1 \in P
    BY <1>3, <1>4
  <1>. QED  BY <1>4, <1>5

\* The nodes of a level, of which each two have a parent.
LenAt(n, j) == n \div Two[j]

\* What a level's nodes cover.
LEMMA LenAtIs ==
  ASSUME NEW n \in Nat, NEW j \in Nat
  PROVE  /\ LenAt(n, j) \in Nat /\ n = Two[j] * LenAt(n, j) + (n % Two[j])
         /\ n % Two[j] \in Nat /\ n % Two[j] < Two[j]
         /\ LenAt(n, 0) = n /\ LenAt(n, j + 1) = LenAt(n, j) \div 2
         /\ n % Two[j + 1] = (n % Two[j]) + (IF LenAt(n, j) % 2 = 1 THEN Two[j] ELSE 0)
  <1>. DEFINE t == Two[j]  l == LenAt(n, j)  r == n % Two[j]  h == l \div 2  b == l % 2
  <1>1. t \in Nat /\ t > 0 /\ Two[j + 1] = 2 * t /\ Two[0] = 1
    BY TwoIs
  <1>2. l \in Nat /\ r \in Nat /\ r < t /\ n = t * l + r
    BY <1>1, Division DEF LenAt
  <1>. HIDE DEF t, l, r
  <1>3. h \in Nat /\ b \in {0, 1} /\ l = 2 * h + b
    BY <1>2
  <1>. HIDE DEF h, b
  <1>4. t * l = (2 * t) * h + t * b
    <2>1. l = h + h + b
      BY <1>3
    <2>2. \A x, y \in Nat : t * (x + y) = t * x + t * y
      BY <1>1
    <2>3. t * l = t * h + t * h + t * b
      BY <1>3, <2>1, <2>2, h + h \in Nat
    <2>4. (2 * t) * h = 2 * (t * h) /\ t * h \in Nat
      BY <1>1, <1>3
    <2>. QED  BY <2>3, <2>4
  <1>5. t * b = (IF b = 1 THEN t ELSE 0) /\ t * b \in Nat
    BY <1>1, <1>3
  <1>6. n = (2 * t) * h + (t * b + r) /\ t * b + r < 2 * t /\ t * b + r \in Nat
    <2>1. (2 * t) * h \in Nat
      BY <1>1, <1>3
    <2>. QED  BY <1>1, <1>2, <1>4, <1>5, <2>1
  <1>7. n \div (2 * t) = h /\ n % (2 * t) = t * b + r
    <2>. DEFINE w == 2 * t  e == t * b + r
    <2>1. w \in Nat /\ e \in Nat /\ e < w /\ n = w * h + e
      BY <1>1, <1>6
    <2>. HIDE DEF w, e
    <2>2. n \div w = h /\ n % w = e
      BY <1>3, <2>1, OneQuotient
    <2>. QED  BY <2>2 DEF w, e
  <1>8. LenAt(n, 0) = n
    BY <1>1 DEF LenAt
  <1>9. LenAt(n, j + 1) = h
    BY <1>1, <1>7 DEF LenAt
  <1>. USE DEF h, b, t, l, r
  <1>. QED  BY <1>1, <1>2, <1>5, <1>7, <1>8, <1>9

\* The highest level of a tree: it has one node, and there is no node above.
LEMMA TopLevelIs ==
  ASSUME NEW n \in Nat, n > 0
  PROVE  /\ TopLevel(n) \in Nat /\ Two[TopLevel(n)] <= n /\ n < Two[TopLevel(n) + 1]
         /\ \A j \in Nat : Two[j] <= n /\ n < Two[j + 1] => TopLevel(n) = j
         /\ LenAt(n, TopLevel(n)) = 1
         /\ \A j \in Nat : j > TopLevel(n) => LenAt(n, j) = 0
         /\ \A j \in Levels(n) : j \in Nat /\ j <= TopLevel(n) /\ LenAt(n, j) > 0
         /\ \A j \in Nat : j <= TopLevel(n) => j \in Levels(n)
  <1>. DEFINE t == TopLevel(n)  P == {j \in Nat : Two[j] <= n}
  <1>1. \E j \in 0..n : Two[j] <= n /\ n < Two[j + 1]
    <2>1. 0 \in P
      BY TwoIs
    <2>2. PICK j \in Nat : j \in P /\ j + 1 \notin P
      <3>1. n \notin P
        BY TwoIs
      <3>2. ~(Nat \subseteq P)
        BY <3>1
      <3>. HIDE DEF P
      <3>. QED  BY <2>1, <3>2, SetInduction
    <2>3. Two[j] <= n /\ n < Two[j + 1] /\ j < Two[j]
      BY <2>2, TwoIs
    <2>4. j \in 0..n
      BY <2>3, TwoIs
    <2>. QED  BY <2>3, <2>4
  <1>2. t \in 0..n /\ Two[t] <= n /\ n < Two[t + 1]
    BY <1>1 DEF TopLevel
  <1>. HIDE DEF t
  <1>3. t \in Nat
    BY <1>2
  <1>4. ASSUME NEW j \in Nat, Two[j] <= n, n < Two[j + 1] PROVE t = j
    <2>0. /\ Two[t] \in Nat /\ Two[j] \in Nat /\ Two[t + 1] = 2 * Two[t] /\ Two[j + 1] = 2 * Two[j]
      BY <1>3, TwoIs
    <2>1. ~(t < j)
      <3>. SUFFICES ASSUME t < j PROVE FALSE
        OBVIOUS
      <3>1. 2 * Two[t] <= Two[j]
        BY <1>3, TwoGrows
      <3>. QED  BY <1>2, <1>4, <2>0, <3>1
    <2>2. ~(j < t)
      <3>. SUFFICES ASSUME j < t PROVE FALSE
        OBVIOUS
      <3>1. 2 * Two[j] <= Two[t]
        BY <1>3, TwoGrows
      <3>. QED  BY <1>2, <1>4, <2>0, <3>1
    <2>. QED  BY <1>3, <2>1, <2>2
  <1>5. LenAt(n, t) = 1
    <2>1. /\ Two[t] \in Nat /\ Two[t] > 0 /\ n = Two[t] * 1 + (n - Two[t])
          /\ n - Two[t] \in Nat /\ n - Two[t] < Two[t]
      BY <1>2, <1>3, TwoIs
    <2>2. n \div Two[t] = 1
      BY <2>1, OneQuotient, 1 \in Nat
    <2>. QED  BY <2>2 DEF LenAt
  <1>6. ASSUME NEW j \in Nat, n < Two[j] PROVE LenAt(n, j) = 0
    <2>1. Two[j] \in Nat /\ n = Two[j] * 0 + n
      BY TwoIs
    <2>2. n \div Two[j] = 0
      BY <1>6, <2>1, OneQuotient, 0 \in Nat
    <2>. QED  BY <2>2 DEF LenAt
  <1>7. ASSUME NEW j \in Nat, j > t PROVE LenAt(n, j) = 0
    <2>1. 2 * Two[t] <= Two[j] /\ Two[t + 1] = 2 * Two[t] /\ Two[t] \in Nat /\ Two[j] \in Nat
      BY <1>3, <1>7, TwoGrows, TwoIs
    <2>2. n < Two[j]
      BY <1>2, <2>1
    <2>. QED  BY <1>6, <2>2
  <1>8. ASSUME NEW j \in Nat, j <= t PROVE LenAt(n, j) > 0
    <2>1. Two[j] \in Nat /\ Two[j] <= n
      <3>1. CASE j = t
        BY <1>2, <3>1, TwoIs
      <3>2. CASE j < t
        <4>1. 2 * Two[j] <= Two[t] /\ Two[j] \in Nat /\ Two[t] \in Nat
          BY <1>3, <3>2, TwoGrows, TwoIs
        <4>. QED  BY <1>2, <4>1
      <3>. QED  BY <1>3, <1>8, <3>1, <3>2
    <2>2. LenAt(n, j) \in Nat /\ n = Two[j] * LenAt(n, j) + (n % Two[j]) /\ n % Two[j] < Two[j]
          /\ n % Two[j] \in Nat
      BY LenAtIs
    <2>3. LenAt(n, j) # 0
      <3>. SUFFICES ASSUME LenAt(n, j) = 0 PROVE FALSE
        OBVIOUS
      <3>1. Two[j] * LenAt(n, j) = 0
        BY <2>1
      <3>. QED  BY <2>1, <2>2, <3>1
    <2>. QED  BY <2>2, <2>3
  <1>9. Levels(n) = 0..t
    BY DEF Levels, t
  <1>. QED  BY <1>2, <1>3, <1>4, <1>5, <1>7, <1>8, <1>9 DEF t

\* The left subtree: not empty, and it leaves some for the right; it is perfect,
\* and of two to a power and no more than as many again it is that power.
LEMMA LeftIs ==
  /\ \A len \in Nat \ {0, 1} :
       Left(len) \in Nat \ {0} /\ len - Left(len) \in Nat \ {0} /\ Left(len) < len
  /\ \A j \in Nat : \A r \in 1..Two[j] :
       /\ Two[j] + r \in Nat \ {0, 1}
       /\ Left(Two[j] + r) = Two[j]
  <1>1. ASSUME NEW len \in Nat \ {0, 1}
        PROVE  Left(len) \in Nat \ {0} /\ len - Left(len) \in Nat \ {0} /\ Left(len) < len
    <2>1. len - 1 \in Nat /\ len - 1 > 0
      OBVIOUS
    <2>2. TopLevel(len - 1) \in Nat /\ Two[TopLevel(len - 1)] <= len - 1
      BY <2>1, TopLevelIs
    <2>3. Left(len) \in Nat /\ Left(len) > 0 /\ Left(len) <= len - 1
      BY <2>2, TwoIs DEF Left
    <2>. QED  BY <2>1, <2>3
  <1>2. ASSUME NEW j \in Nat, NEW r \in 1..Two[j]
        PROVE  Two[j] + r \in Nat \ {0, 1} /\ Left(Two[j] + r) = Two[j]
    <2>1. Two[j] \in Nat /\ Two[j] > 0 /\ Two[j + 1] = 2 * Two[j]
      BY TwoIs
    <2>2. r \in Nat /\ r >= 1 /\ r <= Two[j]
      BY <2>1
    <2>. DEFINE m == (Two[j] + r) - 1
    <2>3. m \in Nat /\ m > 0 /\ Two[j] <= m /\ m < Two[j + 1]
      BY <2>1, <2>2
    <2>. HIDE DEF m
    <2>4. TopLevel(m) = j
      BY <2>3, TopLevelIs
    <2>5. Left(Two[j] + r) = Two[TopLevel(m)]
      BY DEF Left, m
    <2>. QED  BY <2>1, <2>2, <2>4, <2>5
  <1>. QED  BY <1>1, <1>2

\* The subtrees of len chunks by their first, from those of fewer, and the equation
\* of all.
CvsOf(g, len, k, c) ==
  [first \in Nat |->
     IF len = 1 THEN ChunkCv(k, first, c[first])
     ELSE ParentCv(k, g[Left(len)][first], g[len - Left(len)][first + Left(len)])]
IsCvs(g, k, c) == g = [len \in Nat \ {0} |-> CvsOf(g, len, k, c)]

\* The tree hash by its definition has a value for all subtrees.
LEMMA CvsExist ==
  ASSUME NEW k, NEW c
  PROVE  \E g : IsCvs(g, k, c)
  <1>. DEFINE Solves(g, m) == \A l \in 1..m : g[l] = CvsOf(g, l, k, c)
              P == {m \in Nat : \E g : Solves(g, m)}
  <1>0. ASSUME NEW l \in Nat \ {0}, NEW f, NEW g,
               \A i \in 1..(l - 1) : f[i] = g[i]
        PROVE  CvsOf(f, l, k, c) = CvsOf(g, l, k, c)
    <2>1. CASE l = 1
      BY <2>1 DEF CvsOf
    <2>2. CASE l # 1
      <3>1. Left(l) \in 1..(l - 1) /\ l - Left(l) \in 1..(l - 1)
        <4>1. Left(l) \in Nat \ {0} /\ l - Left(l) \in Nat \ {0} /\ Left(l) < l
          BY <2>2, LeftIs
        <4>. QED  BY <4>1
      <3>2. f[Left(l)] = g[Left(l)] /\ f[l - Left(l)] = g[l - Left(l)]
        BY <1>0, <3>1
      <3>. QED  BY <3>2 DEF CvsOf
    <2>. QED  BY <2>1, <2>2
  <1>1. 0 \in P
    OBVIOUS
  <1>2. ASSUME NEW m \in Nat, m \in P PROVE m + 1 \in P
    <2>1. PICK g : Solves(g, m)
      BY <1>2
    <2>. DEFINE h == [l \in 1..(m + 1) |-> IF l = m + 1 THEN CvsOf(g, m + 1, k, c) ELSE g[l]]
    <2>2. h[m + 1] = CvsOf(g, m + 1, k, c) /\ \A l \in 1..m : h[l] = g[l]
      OBVIOUS
    <2>. HIDE DEF h
    <2>3. Solves(h, m + 1)
      <3>. SUFFICES ASSUME NEW l \in 1..(m + 1) PROVE h[l] = CvsOf(h, l, k, c)
        OBVIOUS
      <3>1. CvsOf(h, l, k, c) = CvsOf(g, l, k, c)
        <4>1. \A i \in 1..(l - 1) : h[i] = g[i]
          BY <2>2
        <4>. QED  BY <1>0, <4>1
      <3>2. CASE l = m + 1
        BY <2>2, <3>1, <3>2
      <3>3. CASE l # m + 1
        <4>1. l \in 1..m
          BY <3>3
        <4>. QED  BY <2>1, <2>2, <3>1, <4>1
      <3>. QED  BY <3>2, <3>3
    <2>. HIDE DEF Solves
    <2>. QED  BY <2>3
  <1>3. Nat \subseteq P
    <2>. HIDE DEF P
    <2>. QED  BY <1>1, <1>2, SetInduction
  <1>. DEFINE F(m) == CHOOSE g : Solves(g, m)
              p == [l \in Nat \ {0} |-> F(l)[l]]
  <1>4. \A m \in Nat : Solves(F(m), m)
    <2>1. \A m \in Nat : \E g : Solves(g, m)
      BY <1>3
    <2>. HIDE DEF Solves
    <2>. QED  BY <2>1
  <1>. HIDE DEF F
  <1>5. \A m \in Nat : \A l \in Nat \ {0} : l <= m => F(m)[l] = F(l)[l]
    <2>. SUFFICES ASSUME NEW m \in Nat
                  PROVE  \A l \in Nat \ {0} : l <= m => F(m)[l] = F(l)[l]
      OBVIOUS
    <2>. DEFINE Q == {l \in Nat : \A i \in 1..l : \A a \in Nat : i <= a /\ i <= m => F(m)[i] = F(a)[i]}
    <2>1. 0 \in Q
      OBVIOUS
    <2>2. ASSUME NEW l \in Nat, l \in Q PROVE l + 1 \in Q
      <3>. SUFFICES ASSUME NEW a \in Nat, l + 1 <= a, l + 1 <= m
                    PROVE  F(m)[l + 1] = F(a)[l + 1]
        <4>1. \A i \in 1..(l + 1) : i \in 1..l \/ i = l + 1
          OBVIOUS
        <4>. QED  BY <2>2, <4>1
      <3>1. \A i \in 1..l : F(m)[i] = F(a)[i]
        BY <2>2
      <3>2. l + 1 \in 1..m /\ l + 1 \in 1..a /\ l + 1 \in Nat \ {0} /\ (l + 1) - 1 = l
        OBVIOUS
      <3>3. F(m)[l + 1] = CvsOf(F(m), l + 1, k, c) /\ F(a)[l + 1] = CvsOf(F(a), l + 1, k, c)
        BY <1>4, <3>2
      <3>4. CvsOf(F(m), l + 1, k, c) = CvsOf(F(a), l + 1, k, c)
        BY <1>0, <3>1, <3>2
      <3>. QED  BY <3>3, <3>4
    <2>3. Nat \subseteq Q
      <3>. HIDE DEF Q
      <3>. QED  BY <2>1, <2>2, SetInduction
    <2>4. ASSUME NEW l \in Nat \ {0}, l <= m PROVE F(m)[l] = F(l)[l]
      <3>1. l \in 1..l /\ l \in Q
        BY <2>3
      <3>. QED  BY <2>4, <3>1
    <2>. QED  BY <2>4
  <1>6. ASSUME NEW l \in Nat \ {0} PROVE p[l] = CvsOf(p, l, k, c)
    <2>1. \A i \in 1..(l - 1) : F(l)[i] = p[i]
      <3>. SUFFICES ASSUME NEW i \in 1..(l - 1) PROVE F(l)[i] = p[i]
        OBVIOUS
      <3>1. i \in Nat \ {0} /\ i <= l
        OBVIOUS
      <3>. QED  BY <1>5, <3>1
    <2>2. l \in 1..l
      OBVIOUS
    <2>3. F(l)[l] = CvsOf(F(l), l, k, c)
      BY <1>4, <2>2
    <2>. HIDE DEF p
    <2>4. CvsOf(F(l), l, k, c) = CvsOf(p, l, k, c)
      BY <1>0, <2>1
    <2>. QED  BY <2>3, <2>4 DEF p
  <1>7. p = [l \in Nat \ {0} |-> p[l]]
    OBVIOUS
  <1>. HIDE DEF p
  <1>8. IsCvs(p, k, c)
    BY <1>6, <1>7 DEF IsCvs
  <1>. QED  BY <1>8

\* A chunk by itself, and any larger subtree.
LEMMA CvsAre ==
  ASSUME NEW k, NEW c, NEW first \in Nat
  PROVE  /\ KeyedCvs(k, c)[1][first] = ChunkCv(k, first, c[first])
         /\ \A j \in Nat : \A r \in 1..Two[j] :
              KeyedCvs(k, c)[Two[j] + r][first] =
                ParentCv(k, KeyedCvs(k, c)[Two[j]][first], KeyedCvs(k, c)[r][first + Two[j]])
  <1>. DEFINE g == KeyedCvs(k, c)
  <1>1. IsCvs(g, k, c)
    <2>1. g = CHOOSE h : IsCvs(h, k, c)
      BY DEF KeyedCvs, IsCvs, CvsOf
    <2>. HIDE DEF g
    <2>. QED  BY <2>1, CvsExist
  <1>. HIDE DEF g
  <1>2. \A len \in Nat \ {0} : g[len] = CvsOf(g, len, k, c)
    BY <1>1 DEF IsCvs
  <1>3. g[1][first] = ChunkCv(k, first, c[first])
    <2>1. 1 \in Nat \ {0}
      OBVIOUS
    <2>2. g[1] = CvsOf(g, 1, k, c)
      BY <1>2, <2>1
    <2>. QED  BY <2>2 DEF CvsOf
  <1>4. ASSUME NEW j \in Nat, NEW r \in 1..Two[j]
        PROVE  g[Two[j] + r][first] = ParentCv(k, g[Two[j]][first], g[r][first + Two[j]])
    <2>1. Two[j] + r \in Nat \ {0, 1} /\ Left(Two[j] + r) = Two[j] /\ Two[j] \in Nat
      BY LeftIs, TwoIs
    <2>2. r \in Nat /\ (Two[j] + r) - Two[j] = r
      BY <2>1
    <2>3. g[Two[j] + r] = CvsOf(g, Two[j] + r, k, c)
      BY <1>2, <2>1
    <2>. QED  BY <2>1, <2>2, <2>3 DEF CvsOf
  <1>. QED  BY <1>3, <1>4 DEF g

-----------------------------------------------------------------------------
\* The i-th node of level j, a level of a tree and the tree, as they have to be.
NodeOf(k, c, j, i) == KeyedCvs(k, c)[Two[j]][Two[j] * i]
SomeOf(k, c, j, over) == [i \in over |-> NodeOf(k, c, j, i)]
LevelOf(k, c, n, j) == SomeOf(k, c, j, Nodes(n, j))
TreeOf(k, c, n) == [j \in Levels(n) |-> LevelOf(k, c, n, j)]

\* A node is of a chunk or of the two below it.
LEMMA NodeIs ==
  ASSUME NEW k, NEW c, NEW i \in Nat
  PROVE  /\ NodeOf(k, c, 0, i) = ChunkCv(k, i, c[i])
         /\ \A j \in Nat : NodeOf(k, c, j + 1, i) =
                             ParentCv(k, NodeOf(k, c, j, 2 * i), NodeOf(k, c, j, 2 * i + 1))
  <1>1. NodeOf(k, c, 0, i) = ChunkCv(k, i, c[i])
    <2>1. Two[0] = 1 /\ 1 * i = i
      BY TwoIs
    <2>. QED  BY <2>1, CvsAre DEF NodeOf
  <1>2. ASSUME NEW j \in Nat
        PROVE  NodeOf(k, c, j + 1, i) =
                 ParentCv(k, NodeOf(k, c, j, 2 * i), NodeOf(k, c, j, 2 * i + 1))
    <2>. DEFINE t == Two[j]  f == (2 * t) * i
    <2>1. t \in Nat /\ t > 0 /\ Two[j + 1] = 2 * t
      BY TwoIs
    <2>. HIDE DEF t
    <2>2. t * (2 * i) = f /\ t * (2 * i + 1) = f + t /\ f \in Nat
      BY <2>1
    <2>. HIDE DEF f
    <2>3. t \in 1..Two[j] /\ t + t = 2 * t
      BY <2>1 DEF t
    <2>4. KeyedCvs(k, c)[2 * t][f] = ParentCv(k, KeyedCvs(k, c)[t][f], KeyedCvs(k, c)[t][f + t])
      <3>1. KeyedCvs(k, c)[Two[j] + t][f] =
              ParentCv(k, KeyedCvs(k, c)[Two[j]][f], KeyedCvs(k, c)[t][f + Two[j]])
        BY <2>2, <2>3, CvsAre
      <3>. QED  BY <2>3, <3>1 DEF t
    <2>. QED  BY <2>1, <2>2, <2>4 DEF NodeOf, t, f
  <1>. QED  BY <1>1, <1>2

\* The nodes of a level, and the two below one of them.
LEMMA NodesAre ==
  ASSUME NEW n \in Nat, NEW j \in Nat
  PROVE  /\ \A i : i \in Nodes(n, j) <=> i \in Nat /\ i < LenAt(n, j)
         /\ \A i \in Nodes(n, j + 1) : 2 * i \in Nodes(n, j) /\ 2 * i + 1 \in Nodes(n, j)
  <1>1. LenAt(n, j) \in Nat /\ LenAt(n, j + 1) \in Nat /\ LenAt(n, j + 1) = LenAt(n, j) \div 2
    BY LenAtIs, j + 1 \in Nat
  <1>2. Nodes(n, j) = 0..(LenAt(n, j) - 1) /\ Nodes(n, j + 1) = 0..(LenAt(n, j + 1) - 1)
    BY DEF Nodes, LenAt
  <1>. DEFINE l == LenAt(n, j)
  <1>. HIDE DEF l
  <1>3. \A i : i \in 0..(l - 1) <=> i \in Nat /\ i < l
    BY <1>1 DEF l
  <1>4. ASSUME NEW i \in 0..((l \div 2) - 1) PROVE 2 * i \in 0..(l - 1) /\ 2 * i + 1 \in 0..(l - 1)
    <2>1. l \in Nat
      BY <1>1 DEF l
    <2>. QED  BY <2>1
  <1>. QED  BY <1>1, <1>2, <1>3, <1>4 DEF l

\* Some of a level, from the one below.
LEMMA ParentsAre ==
  ASSUME NEW k, NEW c, NEW n \in Nat, NEW j \in Nat, NEW over \in SUBSET Nodes(n, j + 1)
  PROVE  Parents(k, LevelOf(k, c, n, j), over) = SomeOf(k, c, j + 1, over)
  <1>1. ASSUME NEW i \in over
        PROVE  ParentCv(k, LevelOf(k, c, n, j)[2 * i], LevelOf(k, c, n, j)[2 * i + 1])
                 = NodeOf(k, c, j + 1, i)
    <2>1. i \in Nat /\ 2 * i \in Nodes(n, j) /\ 2 * i + 1 \in Nodes(n, j)
      BY NodesAre, j + 1 \in Nat
    <2>. QED  BY <2>1, NodeIs DEF LevelOf, SomeOf
  <1>. QED  BY <1>1 DEF Parents, SomeOf

\* The chunk hashes.
LEMMA ChunksAre ==
  ASSUME NEW k, NEW c, NEW n \in Nat, NEW over \in SUBSET Nodes(n, 0)
  PROVE  ChunkCvs(k, c, over) = SomeOf(k, c, 0, over)
  <1>1. \A i \in over : ChunkCv(k, i, c[i]) = NodeOf(k, c, 0, i)
    BY NodesAre, NodeIs, 0 \in Nat
  <1>. QED  BY <1>1 DEF ChunkCvs, SomeOf

\* What is so at the chunks and above a level where it is so is so at all levels.
LEMMA LevelInduction ==
  ASSUME NEW n \in Nat, n > 0, NEW P, 0 \in P,
         \A j \in Nat : j \in P /\ j + 1 \in Levels(n) => j + 1 \in P
  PROVE  Levels(n) \subseteq P
  <1>. DEFINE Q == {j \in Nat : j \in Levels(n) => j \in P}
  <1>1. ASSUME NEW j \in Nat, j \in Q PROVE j + 1 \in Q
    <2>1. j + 1 \in Levels(n) => j \in Levels(n)
      BY TopLevelIs
    <2>. QED  BY <1>1, <2>1
  <1>2. Nat \subseteq Q
    <2>. HIDE DEF Q
    <2>1. 0 \in Q
      BY DEF Q
    <2>. QED  BY <1>1, <2>1, SetInduction
  <1>. QED  BY <1>2, TopLevelIs

\* The equation of the levels that are built one from the other.
IsBuilt(g, k, cvs, n) ==
  g = [j \in Levels(n) |-> IF j = 0 THEN cvs ELSE Parents(k, g[j - 1], Nodes(n, j))]

\* The tree that is built is right.
LEMMA BuiltRight ==
  ASSUME NEW k, NEW c, NEW n \in Nat, n > 0
  PROVE  BuildParents(k, ChunkCvs(k, c, Nodes(n, 0)), n) = TreeOf(k, c, n)
  <1>. DEFINE cvs == ChunkCvs(k, c, Nodes(n, 0))  T == TreeOf(k, c, n)
              B == BuildParents(k, cvs, n)
  <1>1. cvs = LevelOf(k, c, n, 0)
    BY ChunksAre DEF LevelOf
  <1>2. ASSUME NEW j \in Levels(n), j # 0
        PROVE  /\ j - 1 \in Nat /\ (j - 1) + 1 = j /\ j - 1 \in Levels(n)
               /\ Parents(k, LevelOf(k, c, n, j - 1), Nodes(n, j)) = LevelOf(k, c, n, j)
    <2>1. j - 1 \in Nat /\ (j - 1) + 1 = j /\ j - 1 \in Levels(n)
      BY <1>2, TopLevelIs
    <2>2. ASSUME NEW m \in Nat
          PROVE  Parents(k, LevelOf(k, c, n, m), Nodes(n, m + 1)) = SomeOf(k, c, m + 1, Nodes(n, m + 1))
      <3>1. Nodes(n, m + 1) \in SUBSET Nodes(n, m + 1)
        OBVIOUS
      <3>. QED  BY <3>1, ParentsAre
    <2>3. Parents(k, LevelOf(k, c, n, j - 1), Nodes(n, j)) = SomeOf(k, c, j, Nodes(n, j))
      <3>1. Parents(k, LevelOf(k, c, n, j - 1), Nodes(n, (j - 1) + 1)) =
              SomeOf(k, c, (j - 1) + 1, Nodes(n, (j - 1) + 1))
        BY <2>1, <2>2
      <3>. QED  BY ONLY <2>1, <3>1
    <2>. QED  BY <2>1, <2>3 DEF LevelOf
  <1>. HIDE DEF cvs
  <1>3. IsBuilt(T, k, cvs, n)
    BY <1>1, <1>2 DEF IsBuilt, TreeOf
  <1>4. IsBuilt(B, k, cvs, n)
    <2>1. B = CHOOSE g : IsBuilt(g, k, cvs, n)
      BY DEF BuildParents, IsBuilt
    <2>. HIDE DEF B, T
    <2>. QED  BY <1>3, <2>1
  <1>. HIDE DEF B, T
  <1>. DEFINE P == {j \in Levels(n) : B[j] = T[j]}
  <1>5. 0 \in Levels(n)
    BY TopLevelIs
  <1>6. 0 \in P
    BY <1>3, <1>4, <1>5 DEF IsBuilt
  <1>7. ASSUME NEW j \in Nat, j \in P, j + 1 \in Levels(n) PROVE j + 1 \in P
    <2>1. (j + 1) - 1 = j /\ j + 1 # 0
      OBVIOUS
    <2>2. B[j + 1] = Parents(k, B[j], Nodes(n, j + 1)) /\ T[j + 1] = Parents(k, T[j], Nodes(n, j + 1))
      BY <1>3, <1>4, <1>7, <2>1 DEF IsBuilt
    <2>. QED  BY <1>7, <2>2
  <1>8. Levels(n) \subseteq P
    <2>. HIDE DEF P
    <2>. QED  BY <1>6, <1>7, LevelInduction
  <1>9. B = [j \in Levels(n) |-> B[j]] /\ T = [j \in Levels(n) |-> T[j]]
    BY <1>3, <1>4 DEF IsBuilt
  <1>10. \A j \in Levels(n) : B[j] = T[j]
    BY <1>8
  <1>11. B = T
    BY <1>9, <1>10
  <1>. QED  BY <1>11 DEF B, T, cvs

-----------------------------------------------------------------------------
\* The equations of the nodes hashed again and of the tree with them.
IsChanged(g, dirty, n) ==
  g = [j \in Levels(n) |-> IF j = 0 THEN dirty ELSE Above(g[j - 1]) \cap Nodes(n, j)]
NewLevel(g, k, old, c, dirty, n, j) ==
  Rehashed(IF j = 0 THEN ChunkCvs(k, c, dirty)
           ELSE Parents(k, g[j - 1], Changed(dirty, n)[j]), old[j])
IsUpdated(g, k, old, c, dirty, n) ==
  g = [j \in Levels(n) |-> NewLevel(g, k, old, c, dirty, n, j)]

\* The nodes that are hashed again.
LEMMA ChangedIs ==
  ASSUME NEW n \in Nat, n > 0, NEW dirty \in SUBSET Nodes(n, 0)
  PROVE  /\ Changed(dirty, n)[0] = dirty
         /\ \A j \in Nat : j + 1 \in Levels(n) =>
              Changed(dirty, n)[j + 1] = Above(Changed(dirty, n)[j]) \cap Nodes(n, j + 1)
         /\ \A j \in Levels(n) : Changed(dirty, n)[j] \in SUBSET Nodes(n, j)
  <1>. DEFINE S == SUBSET Nat
              op == [x \in Nat \X S |-> Above(x[2]) \cap Nodes(n, x[1] + 1)]
              g == Changed(dirty, n)
  <1>1. op \in [Nat \X S -> S] /\ \A j \in Nat : \A X \in S : op[<<j, X>>] = Above(X) \cap Nodes(n, j + 1)
    <2>1. \A j \in Nat : \A X : Above(X) \cap Nodes(n, j + 1) \in S
      BY NodesAre, \A j \in Nat : j + 1 \in Nat
    <2>. QED  BY <2>1
  <1>2. dirty \in S
    BY NodesAre, 0 \in Nat
  <1>. HIDE DEF op, S
  <1>3. PICK f \in [Nat -> S] : f[0] = dirty /\ \A j \in Nat : f[j + 1] = op[<<j, f[j]>>]
    <2>1. Recursive(S, dirty, op)
      BY <1>1, <1>2 DEF Recursive
    <2>2. HasFunction(S, dirty, op)
      BY <2>1, NatRecursion
    <2>. QED  BY <2>2 DEF HasFunction
  <1>. DEFINE h == [j \in Levels(n) |-> f[j]]
  <1>4. IsChanged(h, dirty, n)
    <2>1. ASSUME NEW j \in Levels(n), j # 0 PROVE f[j] = Above(h[j - 1]) \cap Nodes(n, j)
      <3>1. j - 1 \in Nat /\ (j - 1) + 1 = j /\ j - 1 \in Levels(n)
        BY <2>1, TopLevelIs
      <3>2. f[j] = op[<<j - 1, f[j - 1]>>] /\ f[j - 1] \in S /\ h[j - 1] = f[j - 1]
        BY <1>3, <3>1
      <3>. QED  BY <1>1, <3>1, <3>2
    <2>2. \A j \in Levels(n) : h[j] = f[j]
      OBVIOUS
    <2>3. h = [j \in Levels(n) |-> h[j]]
      OBVIOUS
    <2>. HIDE DEF h
    <2>. QED  BY <1>3, <2>1, <2>2, <2>3 DEF IsChanged
  <1>5. IsChanged(g, dirty, n)
    <2>1. g = CHOOSE x : IsChanged(x, dirty, n)
      BY DEF Changed, IsChanged
    <2>. HIDE DEF g, h
    <2>. QED  BY <1>4, <2>1
  <1>. HIDE DEF g
  <1>6. g[0] = dirty
    BY <1>5, TopLevelIs DEF IsChanged
  <1>7. \A j \in Nat : j + 1 \in Levels(n) => g[j + 1] = Above(g[j]) \cap Nodes(n, j + 1)
    <2>1. \A j \in Nat : (j + 1) - 1 = j /\ j + 1 # 0
      OBVIOUS
    <2>. QED  BY <1>5, <2>1 DEF IsChanged
  <1>8. ASSUME NEW j \in Levels(n) PROVE g[j] \in SUBSET Nodes(n, j)
    <2>1. CASE j = 0
      BY <1>6, <2>1
    <2>2. CASE j # 0
      BY <1>5, <2>2 DEF IsChanged
    <2>. QED  BY <2>1, <2>2
  <1>. QED  BY <1>6, <1>7, <1>8 DEF g

\* A node that is not hashed again has nothing changed below it.
LEMMA Unchanged ==
  ASSUME NEW k, NEW a, NEW c, NEW n \in Nat, n > 0, NEW dirty \in SUBSET Nodes(n, 0),
         \A i \in Nodes(n, 0) \ dirty : a[i] = c[i]
  PROVE  \A j \in Levels(n) : \A i \in Nodes(n, j) \ Changed(dirty, n)[j] :
           NodeOf(k, a, j, i) = NodeOf(k, c, j, i)
  <1>. DEFINE P == {j \in Levels(n) : \A i \in Nodes(n, j) \ Changed(dirty, n)[j] :
                                        NodeOf(k, a, j, i) = NodeOf(k, c, j, i)}
  <1>0. ASSUME NEW b, NEW j \in Nat, NEW i \in Nat
        PROVE  NodeOf(k, b, j + 1, i) = ParentCv(k, NodeOf(k, b, j, 2 * i), NodeOf(k, b, j, 2 * i + 1))
    BY NodeIs
  <1>1. 0 \in P
    <2>1. 0 \in Levels(n)
      BY TopLevelIs
    <2>2. ASSUME NEW i \in Nodes(n, 0) \ Changed(dirty, n)[0]
          PROVE  NodeOf(k, a, 0, i) = NodeOf(k, c, 0, i)
      <3>1. i \in Nat /\ a[i] = c[i]
        BY ChangedIs, NodesAre, 0 \in Nat
      <3>. QED  BY <3>1, NodeIs
    <2>. QED  BY <2>1, <2>2
  <1>2. ASSUME NEW j \in Nat, j \in P, j + 1 \in Levels(n) PROVE j + 1 \in P
    <2>. SUFFICES ASSUME NEW i \in Nodes(n, j + 1), i \notin Changed(dirty, n)[j + 1]
                  PROVE  NodeOf(k, a, j + 1, i) = NodeOf(k, c, j + 1, i)
      BY <1>2
    <2>1. i \in Nat /\ 2 * i \in Nodes(n, j) /\ 2 * i + 1 \in Nodes(n, j)
      BY NodesAre, j + 1 \in Nat
    <2>2. i \notin Above(Changed(dirty, n)[j])
      BY <1>2, ChangedIs
    <2>3. (2 * i) \div 2 = i /\ (2 * i + 1) \div 2 = i
      BY <2>1
    <2>4. 2 * i \notin Changed(dirty, n)[j] /\ 2 * i + 1 \notin Changed(dirty, n)[j]
      BY <2>2, <2>3 DEF Above
    <2>5. /\ NodeOf(k, a, j, 2 * i) = NodeOf(k, c, j, 2 * i)
          /\ NodeOf(k, a, j, 2 * i + 1) = NodeOf(k, c, j, 2 * i + 1)
      BY <1>2, <2>1, <2>4
    <2>. QED  BY <1>0, <2>1, <2>5
  <1>3. Levels(n) \subseteq P
    <2>. HIDE DEF P
    <2>. QED  BY <1>1, <1>2, LevelInduction
  <1>. QED  BY <1>3

\* The tree that is updated is right, if the chunks given are all that changed.
LEMMA UpdatedRight ==
  ASSUME NEW k, NEW a, NEW c, NEW n \in Nat, n > 0, NEW dirty \in SUBSET Nodes(n, 0),
         \A i \in Nodes(n, 0) \ dirty : a[i] = c[i]
  PROVE  Update(k, TreeOf(k, a, n), c, dirty, n) = TreeOf(k, c, n)
  <1>. DEFINE old == TreeOf(k, a, n)  T == TreeOf(k, c, n)  U == Update(k, old, c, dirty, n)
  <1>0. ASSUME NEW j \in Nat, NEW over \in SUBSET Nodes(n, j + 1)
        PROVE  Parents(k, LevelOf(k, c, n, j), over) = SomeOf(k, c, j + 1, over)
    BY ParentsAre
  <1>1. ASSUME NEW j \in Levels(n), NEW over, over = Changed(dirty, n)[j]
        PROVE  Rehashed(SomeOf(k, c, j, over), old[j]) = LevelOf(k, c, n, j)
    <2>1. over \in SUBSET Nodes(n, j)
      BY <1>1, ChangedIs
    <2>2. old[j] = SomeOf(k, a, j, Nodes(n, j))
      BY DEF TreeOf, LevelOf
    <2>3. over \cup Nodes(n, j) = Nodes(n, j)
      BY <2>1
    <2>4. \A i \in Nodes(n, j) \ over : NodeOf(k, a, j, i) = NodeOf(k, c, j, i)
      BY <1>1, Unchanged
    <2>. QED  BY <2>2, <2>3, <2>4 DEF Rehashed, LevelOf, SomeOf
  <1>2. NewLevel(T, k, old, c, dirty, n, 0) = T[0] /\ 0 \in Levels(n)
    <2>1. 0 \in Levels(n) /\ T[0] = LevelOf(k, c, n, 0) /\ Changed(dirty, n)[0] = dirty
      BY TopLevelIs, ChangedIs DEF TreeOf
    <2>2. ChunkCvs(k, c, dirty) = SomeOf(k, c, 0, dirty)
      BY ChunksAre
    <2>. HIDE DEF T, old
    <2>. QED  BY <1>1, <2>1, <2>2 DEF NewLevel
  <1>3. ASSUME NEW j \in Nat, j + 1 \in Levels(n), NEW g, g[j] = T[j]
        PROVE  NewLevel(g, k, old, c, dirty, n, j + 1) = T[j + 1]
    <2>. DEFINE over == Changed(dirty, n)[j + 1]
    <2>1. over \in SUBSET Nodes(n, j + 1)
      BY <1>3, ChangedIs
    <2>2. T[j + 1] = LevelOf(k, c, n, j + 1) /\ T[j] = LevelOf(k, c, n, j) /\ (j + 1) - 1 = j /\ j + 1 # 0
      BY <1>3, TopLevelIs DEF TreeOf
    <2>3. Parents(k, g[j], over) = SomeOf(k, c, j + 1, over)
      <3>1. Parents(k, LevelOf(k, c, n, j), over) = SomeOf(k, c, j + 1, over)
        BY <1>0, <2>1
      <3>. QED  BY ONLY <1>3, <2>2, <3>1
    <2>. HIDE DEF T, old
    <2>. QED  BY <1>1, <1>3, <2>2, <2>3 DEF NewLevel
  <1>4. DOMAIN T = Levels(n)
    BY DEF TreeOf
  <1>. HIDE DEF T, old
  <1>5. IsUpdated(T, k, old, c, dirty, n)
    <2>1. ASSUME NEW j \in Levels(n) PROVE T[j] = NewLevel(T, k, old, c, dirty, n, j)
      <3>1. CASE j = 0
        BY <1>2, <3>1
      <3>2. CASE j # 0
        <4>1. j - 1 \in Nat /\ (j - 1) + 1 = j
          BY <3>2, TopLevelIs
        <4>. QED  BY <1>3, <4>1
      <3>. QED  BY <3>1, <3>2
    <2>2. T = [j \in Levels(n) |-> T[j]]
      BY <1>4 DEF T, TreeOf
    <2>. QED  BY <2>1, <2>2 DEF IsUpdated
  <1>6. IsUpdated(U, k, old, c, dirty, n)
    <2>1. U = CHOOSE g : IsUpdated(g, k, old, c, dirty, n)
      BY DEF Update, IsUpdated, NewLevel
    <2>. HIDE DEF U
    <2>. QED  BY <1>5, <2>1
  <1>. HIDE DEF U
  <1>. DEFINE P == {j \in Levels(n) : U[j] = T[j]}
  <1>7. \A j \in Levels(n) : U[j] = NewLevel(U, k, old, c, dirty, n, j)
    BY <1>6 DEF IsUpdated
  <1>8. 0 \in P
    <2>1. NewLevel(U, k, old, c, dirty, n, 0) = NewLevel(T, k, old, c, dirty, n, 0)
      BY DEF NewLevel
    <2>. QED  BY <1>2, <1>7, <2>1
  <1>9. ASSUME NEW j \in Nat, j \in P, j + 1 \in Levels(n) PROVE j + 1 \in P
    BY <1>3, <1>7, <1>9
  <1>10. Levels(n) \subseteq P
    <2>. HIDE DEF P
    <2>. QED  BY <1>8, <1>9, LevelInduction
  <1>11. U = [j \in Levels(n) |-> U[j]] /\ T = [j \in Levels(n) |-> T[j]]
    BY <1>5, <1>6 DEF IsUpdated
  <1>12. \A j \in Levels(n) : U[j] = T[j]
    BY <1>10
  <1>13. U = T
    BY <1>11, <1>12
  <1>. QED  BY <1>13 DEF U, T, old

-----------------------------------------------------------------------------
\* Subtrees side by side: the b-th from the left is of the chunks from s[b - 1] on up
\* to s[b]; each but the last is perfect and no smaller than all that follow.
IsCut(T, s, k, c, n) ==
  /\ Len(T) \in Nat /\ Len(T) > 1 /\ n \in Nat
  /\ s \in [0..Len(T) -> Nat] /\ s[0] = 0 /\ s[Len(T)] = n
  /\ \A b \in 1..Len(T) : T[b] = KeyedCvs(k, c)[s[b] - s[b - 1]][s[b - 1]]
  /\ \A b \in 1..(Len(T) - 1) :
       s[b] < n /\ \E j \in Nat : s[b] = s[b - 1] + Two[j] /\ n - s[b] <= Two[j]

\* The equation of what is merged from the right.
IsBelow(g, k, T) ==
  g = [b \in 2..Len(T) |-> IF b = Len(T) THEN T[b] ELSE ParentCv(k, T[b], g[b + 1])]

\* Merged from the right, they are the whole tree.
LEMMA MergedRight ==
  ASSUME NEW k, NEW c, NEW n, NEW T, NEW s, IsCut(T, s, k, c, n)
  PROVE  MergedFromRight(k, T) = Blake3Root(k, c, n)
  <1>. DEFINE L == Len(T)  C == KeyedCvs(k, c)
              W == [b \in 2..L |-> C[n - s[b - 1]][s[b - 1]]]
              B == CHOOSE g : IsBelow(g, k, T)
  <1>1. /\ L \in Nat /\ L > 1 /\ n \in Nat /\ s[0] = 0 /\ s[L] = n
        /\ \A b \in 0..L : s[b] \in Nat
        /\ \A b \in 1..L : T[b] = C[s[b] - s[b - 1]][s[b - 1]]
        /\ \A b \in 1..(L - 1) :
             s[b] < n /\ \E j \in Nat : s[b] = s[b - 1] + Two[j] /\ n - s[b] <= Two[j]
    BY DEF IsCut
  <1>0. \A f, j \in Nat : \A r \in 1..Two[j] : C[Two[j] + r][f] = ParentCv(k, C[Two[j]][f], C[r][f + Two[j]])
    BY CvsAre
  <1>. HIDE DEF L, C
  <1>2. ASSUME NEW b \in 1..(L - 1)
        PROVE  /\ C[n - s[b - 1]][s[b - 1]] = ParentCv(k, T[b], C[n - s[b]][s[b]])
               /\ \E j \in Nat : s[b] = s[b - 1] + Two[j] /\ n - s[b] \in 1..Two[j]
    <2>1. b \in 1..L /\ b \in 0..L /\ b - 1 \in 0..L
      BY <1>1
    <2>2. s[b] \in Nat /\ s[b - 1] \in Nat /\ s[b] < n
      BY <1>1, <2>1
    <2>3. PICK j \in Nat : s[b] = s[b - 1] + Two[j] /\ n - s[b] <= Two[j]
      BY <1>1
    <2>4. Two[j] \in Nat
      BY TwoIs
    <2>. DEFINE r == n - s[b]  f == s[b - 1]
    <2>5. r \in 1..Two[j] /\ f \in Nat /\ n - f = Two[j] + r /\ s[b] - f = Two[j] /\ f + Two[j] = s[b]
      BY <1>1, <2>2, <2>3, <2>4
    <2>. HIDE DEF r, f
    <2>6. C[Two[j] + r][f] = ParentCv(k, C[Two[j]][f], C[r][f + Two[j]])
      BY <1>0, <2>5
    <2>7. T[b] = C[Two[j]][f]
      BY <1>1, <2>1, <2>5 DEF f
    <2>8. n - s[b] = r /\ n - s[b - 1] = Two[j] + r /\ s[b - 1] = f
      BY <2>5 DEF r, f
    <2>9. C[n - s[b - 1]][s[b - 1]] = ParentCv(k, T[b], C[n - s[b]][s[b]])
      BY <2>5, <2>6, <2>7, <2>8
    <2>10. s[b] = s[b - 1] + Two[j] /\ n - s[b] \in 1..Two[j]
      BY <2>3, <2>5, <2>8
    <2>. QED  BY <2>9, <2>10
  <1>3. W[L] = T[L] /\ \A b \in 2..L : b # L => W[b] = ParentCv(k, T[b], W[b + 1])
    <2>1. W[L] = T[L]
      <3>1. L \in 2..L /\ L \in 1..L
        BY <1>1
      <3>. QED  BY <1>1, <3>1
    <2>2. ASSUME NEW b \in 2..L, b # L PROVE W[b] = ParentCv(k, T[b], W[b + 1])
      <3>1. b \in 1..(L - 1) /\ b + 1 \in 2..L /\ (b + 1) - 1 = b
        BY <1>1, <2>2
      <3>2. W[b] = C[n - s[b - 1]][s[b - 1]] /\ W[b + 1] = C[n - s[b]][s[b]]
        BY <3>1
      <3>. QED  BY <1>2, <3>1, <3>2
    <2>. QED  BY <2>1, <2>2
  <1>4. W = [b \in 2..L |-> W[b]]
    OBVIOUS
  <1>5. C[n - s[1]][s[1]] = W[2]
    <2>1. 2 \in 2..L /\ 2 - 1 = 1
      BY <1>1
    <2>. QED  BY <2>1
  <1>. HIDE DEF W
  <1>6. IsBelow(W, k, T)
    BY <1>3, <1>4 DEF IsBelow, L
  <1>. HIDE DEF B
  <1>7. IsBelow(B, k, T)
    <2>. HIDE DEF IsBelow
    <2>. QED  BY <1>6 DEF B
  <1>8. \A b \in 2..L : B[b] = IF b = L THEN T[b] ELSE ParentCv(k, T[b], B[b + 1])
    BY <1>7 DEF IsBelow, L
  <1>9. B[2] = W[2]
    <2>. DEFINE P == {d \in Nat : d <= L - 2 => B[L - d] = W[L - d]}
    <2>1. 0 \in P
      <3>1. L - 0 = L /\ L \in 2..L
        BY <1>1
      <3>. QED  BY <1>3, <1>8, <3>1
    <2>2. ASSUME NEW d \in Nat, d \in P PROVE d + 1 \in P
      <3>. SUFFICES ASSUME d + 1 <= L - 2 PROVE B[L - (d + 1)] = W[L - (d + 1)]
        OBVIOUS
      <3>. DEFINE b == L - (d + 1)
      <3>1. b \in 2..L /\ b # L /\ b + 1 = L - d
        BY <1>1
      <3>2. B[b + 1] = W[b + 1]
        BY <1>1, <2>2, <3>1
      <3>. HIDE DEF b
      <3>3. B[b] = W[b]
        BY <1>3, <1>8, <3>1, <3>2
      <3>. QED  BY <3>3 DEF b
    <2>3. L - 2 \in P
      <3>1. L - 2 \in Nat
        BY <1>1
      <3>. HIDE DEF P
      <3>. QED  BY <2>1, <2>2, <3>1, SetInduction
    <2>4. L - (L - 2) = 2 /\ L - 2 <= L - 2
      BY <1>1
    <2>. QED  BY <2>3, <2>4
  <1>10. MergedFromRight(k, T) = RootOf(k, T[1], B[2])
    BY DEF MergedFromRight, IsBelow, B
  <1>11. 1 \in 1..(L - 1) /\ 1 - 1 = 0
    BY <1>1
  <1>12. PICK j \in Nat : s[1] = s[0] + Two[j] /\ n - s[1] \in 1..Two[j]
    BY <1>2, <1>11
  <1>13. s[1] = Two[j] /\ Two[j] \in Nat /\ n = Two[j] + (n - Two[j]) /\ n - Two[j] \in 1..Two[j]
    BY <1>1, <1>12, TwoIs
  <1>14. Left(Two[j] + (n - Two[j])) = Two[j]
    BY <1>13, LeftIs
  <1>15. T[1] = C[Left(n)][0] /\ W[2] = C[n - Left(n)][Left(n)]
    <2>1. Left(n) = Two[j]
      BY ONLY <1>13, <1>14
    <2>2. T[1] = C[s[1] - s[0]][s[0]]
      <3>1. 1 \in 1..L
        BY <1>1
      <3>. QED  BY <1>1, <1>11, <3>1
    <2>3. s[1] - s[0] = Two[j]
      BY <1>1, <1>13
    <2>. QED  BY <1>1, <1>5, <1>13, <2>1, <2>2, <2>3
  <1>. QED  BY <1>9, <1>10, <1>15 DEF Blake3Root, C

-----------------------------------------------------------------------------
\* The set bits of a number.
BitsOf(x) == {j \in 0..x : LenAt(x, j) % 2 = 1}

\* A node that is of a level has a level that is no more than the number of chunks.
LEMMA LevelBound ==
  ASSUME NEW x \in Nat, NEW j \in Nat, LenAt(x, j) # 0
  PROVE  j < x /\ Two[j] <= x
  <1>. DEFINE t == Two[j]  l == LenAt(x, j)  r == x % Two[j]
  <1>1. t \in Nat /\ t > j /\ l \in Nat /\ l # 0 /\ r \in Nat /\ x = t * l + r
    BY TwoIs, LenAtIs
  <1>. HIDE DEF t, l, r
  <1>2. t * l = t + t * (l - 1) /\ t * (l - 1) \in Nat
    <2>1. PICK m \in Nat : l = m + 1
      <3>1. l - 1 \in Nat /\ l = (l - 1) + 1
        BY <1>1
      <3>. QED  BY <3>1
    <2>2. t * (m + 1) = t + t * m /\ t * m \in Nat /\ l - 1 = m
      BY <1>1, <2>1
    <2>. QED  BY <2>1, <2>2
  <1>3. j < x /\ t <= x
    BY <1>1, <1>2
  <1>. QED  BY <1>3 DEF t

\* Half a number has the levels but the first.
LEMMA LenAtHalf ==
  ASSUME NEW x \in Nat
  PROVE  \A j \in Nat : LenAt(x, j + 1) = LenAt(x \div 2, j)
  <1>. DEFINE h == x \div 2  P == {j \in Nat : LenAt(x, j + 1) = LenAt(h, j)}
  <1>1. h \in Nat
    OBVIOUS
  <1>2. 0 \in P
    <2>1. LenAt(x, 0 + 1) = LenAt(x, 0) \div 2 /\ LenAt(x, 0) = x
      BY LenAtIs, 0 \in Nat
    <2>2. LenAt(h, 0) = h
      BY <1>1, LenAtIs, 0 \in Nat
    <2>. QED  BY <2>1, <2>2
  <1>. HIDE DEF h
  <1>3. ASSUME NEW j \in Nat, j \in P PROVE j + 1 \in P
    <2>1. LenAt(x, (j + 1) + 1) = LenAt(x, j + 1) \div 2 /\ LenAt(h, j + 1) = LenAt(h, j) \div 2
      BY <1>1, LenAtIs, j + 1 \in Nat
    <2>. QED  BY <1>3, <2>1
  <1>4. Nat \subseteq P
    <2>. HIDE DEF P
    <2>. QED  BY <1>2, <1>3, SetInduction
  <1>. QED  BY <1>4 DEF h

\* The number of set bits: that of half the number and one more if it is odd.
LEMMA PopCountIs ==
  /\ PopCount(0) = 0
  /\ \A x \in Nat : PopCount(x) \in Nat /\ PopCount(x) = PopCount(x \div 2) + (x % 2)
  <1>0. \A x \in Nat : PopCount(x) = Cardinality(BitsOf(x)) /\ IsFiniteSet(BitsOf(x))
    <2>. SUFFICES ASSUME NEW x \in Nat
                  PROVE  PopCount(x) = Cardinality(BitsOf(x)) /\ IsFiniteSet(BitsOf(x))
      OBVIOUS
    <2>1. IsFiniteSet(0..x)
      BY FS_Interval
    <2>2. BitsOf(x) \in SUBSET (0..x)
      BY DEF BitsOf
    <2>. QED  BY <2>1, <2>2, FS_Subset DEF PopCount, BitsOf, LenAt
  <1>1. PopCount(0) = 0
    <2>1. BitsOf(0) = {}
      <3>1. LenAt(0, 0) = 0 /\ \A j \in 0..0 : j = 0
        BY LenAtIs, 0 \in Nat
      <3>. QED  BY <3>1 DEF BitsOf
    <2>. QED  BY <1>0, <2>1, FS_EmptySet, 0 \in Nat
  <1>2. ASSUME NEW x \in Nat
        PROVE  PopCount(x) \in Nat /\ PopCount(x) = PopCount(x \div 2) + (x % 2)
    <2>. DEFINE h == x \div 2  S == BitsOf(h)  T == BitsOf(x) \ {0}  f == [j \in S |-> j + 1]
    <2>1. h \in Nat
      OBVIOUS
    <2>2. \A j : j \in S <=> j \in Nat /\ LenAt(h, j) % 2 = 1
      <3>1. ASSUME NEW j \in Nat, LenAt(h, j) % 2 = 1 PROVE j \in S
        <4>1. LenAt(h, j) # 0
          BY <3>1
        <4>2. j < h
          BY <2>1, <4>1, LevelBound
        <4>. QED  BY <2>1, <3>1, <4>2 DEF BitsOf
      <3>. QED  BY <2>1, <3>1 DEF BitsOf
    <2>3. \A j : j \in T <=> j \in Nat /\ j # 0 /\ LenAt(x, j) % 2 = 1
      <3>1. ASSUME NEW j \in Nat, LenAt(x, j) % 2 = 1 PROVE j \in 0..x
        <4>1. LenAt(x, j) # 0
          BY <3>1
        <4>2. j < x
          BY <4>1, LevelBound
        <4>. QED  BY <3>1, <4>2
      <3>. QED  BY <3>1 DEF BitsOf
    <2>4. \A j \in Nat : LenAt(x, j + 1) = LenAt(h, j)
      BY LenAtHalf
    <2>5. IsFiniteSet(S) /\ IsFiniteSet(T) /\ IsFiniteSet(BitsOf(x))
      BY <1>0, <2>1, FS_RemoveElement
    <2>6. LenAt(x, 0) = x
      BY LenAtIs, 0 \in Nat
    <2>7. 0 \in BitsOf(x) <=> x % 2 = 1
      BY <2>6 DEF BitsOf
    <2>. HIDE DEF S, T, h
    <2>8. f \in [S -> T] /\ (\A i, j \in S : f[i] = f[j] => i = j) /\ (\A j \in T : \E i \in S : f[i] = j)
      <3>1. \A i \in S : i + 1 \in T
        BY <2>2, <2>3, <2>4
      <3>2. \A i, j \in S : i + 1 = j + 1 => i = j
        BY <2>2
      <3>3. ASSUME NEW j \in T PROVE \E i \in S : i + 1 = j
        <4>1. j - 1 \in Nat /\ (j - 1) + 1 = j /\ LenAt(x, j) % 2 = 1
          BY <2>3
        <4>2. j - 1 \in S
          BY <2>2, <2>4, <4>1
        <4>. QED  BY <4>1, <4>2
      <3>. QED  BY <3>1, <3>2, <3>3
    <2>9. ExistsBijection(S, T)
      <3>. HIDE DEF f
      <3>1. f \in Bijection(S, T)
        BY <2>8 DEF Bijection, Injection, Surjection, IsInjective
      <3>. QED  BY <3>1 DEF ExistsBijection
    <2>10. Cardinality(T) = Cardinality(S) /\ Cardinality(S) \in Nat
      BY <2>5, <2>9, FS_Bijection, FS_CardinalityType
    <2>11. /\ Cardinality(T) = IF 0 \in BitsOf(x) THEN Cardinality(BitsOf(x)) - 1 ELSE Cardinality(BitsOf(x))
           /\ Cardinality(BitsOf(x)) \in Nat
      BY <2>5, FS_RemoveElement, FS_CardinalityType DEF T
    <2>12. PopCount(x) = Cardinality(BitsOf(x)) /\ PopCount(h) = Cardinality(S)
      BY <1>0, <2>1 DEF S
    <2>13. x % 2 = 1 \/ x % 2 = 0
      OBVIOUS
    <2>14. PopCount(x) \in Nat /\ PopCount(x) = PopCount(h) + (x % 2)
      <3>1. CASE x % 2 = 1
        <4>1. Cardinality(T) = Cardinality(BitsOf(x)) - 1
          BY <2>7, <2>11, <3>1
        <4>2. PopCount(x) \in Nat /\ PopCount(h) \in Nat
          BY ONLY <2>10, <2>11, <2>12
        <4>3. PopCount(h) = PopCount(x) - 1
          BY ONLY <2>10, <2>12, <4>1
        <4>4. PopCount(x) = PopCount(h) + 1
          BY ONLY <4>2, <4>3
        <4>. QED  BY ONLY <3>1, <4>2, <4>4
      <3>2. CASE x % 2 = 0
        <4>1. Cardinality(T) = Cardinality(BitsOf(x))
          BY <2>7, <2>11, <3>2
        <4>2. PopCount(x) \in Nat /\ PopCount(h) \in Nat
          BY ONLY <2>10, <2>11, <2>12
        <4>3. PopCount(x) = PopCount(h) + 0
          BY ONLY <2>10, <2>12, <4>1, <4>2
        <4>. QED  BY ONLY <3>2, <4>2, <4>3
      <3>. QED  BY <2>13, <3>1, <3>2
    <2>. QED  BY <2>14 DEF h
  <1>. QED  BY <1>1, <1>2

\* The set bits of n from level j on, and the chunks that their subtrees have.
Ones(n, j) == PopCount(LenAt(n, j))
Start(n, j) == Two[j] * LenAt(n, j)

\* From level to level, and at both ends.
LEMMA StartIs ==
  ASSUME NEW n \in Nat, NEW j \in Nat
  PROVE  /\ Ones(n, j) \in Nat /\ Start(n, j) \in Nat
         /\ Start(n, j) = n - (n % Two[j]) /\ n % Two[j] \in Nat /\ n % Two[j] < Two[j]
         /\ LenAt(n, j) % 2 = 1 =>
              Ones(n, j) = Ones(n, j + 1) + 1 /\ Start(n, j) = Start(n, j + 1) + Two[j]
         /\ LenAt(n, j) % 2 # 1 => Ones(n, j) = Ones(n, j + 1) /\ Start(n, j) = Start(n, j + 1)
         /\ Ones(n, 0) = PopCount(n) /\ Start(n, 0) = n
         /\ j > TopLevel(n) /\ n > 0 => Ones(n, j) = 0 /\ Start(n, j) = 0
  <1>1. /\ LenAt(n, j) \in Nat /\ n = Two[j] * LenAt(n, j) + (n % Two[j])
        /\ n % Two[j] \in Nat /\ n % Two[j] < Two[j]
        /\ LenAt(n, 0) = n /\ LenAt(n, j + 1) = LenAt(n, j) \div 2
        /\ n % Two[j + 1] = (n % Two[j]) + (IF LenAt(n, j) % 2 = 1 THEN Two[j] ELSE 0)
    BY LenAtIs
  <1>2. /\ LenAt(n, j + 1) \in Nat /\ n = Two[j + 1] * LenAt(n, j + 1) + (n % Two[j + 1])
        /\ n % Two[j + 1] \in Nat
    BY LenAtIs, j + 1 \in Nat
  <1>3. Two[j] \in Nat /\ Two[j + 1] \in Nat /\ Two[0] = 1
    BY TwoIs, j + 1 \in Nat
  <1>4. Start(n, j) \in Nat /\ Start(n, j + 1) \in Nat
    BY <1>1, <1>2, <1>3 DEF Start
  <1>5. Start(n, j) = n - (n % Two[j]) /\ Start(n, j + 1) = n - (n % Two[j + 1])
    <2>1. n = Start(n, j) + (n % Two[j]) /\ n = Start(n, j + 1) + (n % Two[j + 1])
      BY <1>1, <1>2 DEF Start
    <2>. QED  BY <1>1, <1>2, <1>4, <2>1
  <1>6. /\ Ones(n, j) \in Nat
        /\ Ones(n, j) = Ones(n, j + 1) + (LenAt(n, j) % 2) /\ Ones(n, j + 1) \in Nat
    BY <1>1, <1>2, PopCountIs DEF Ones
  <1>7. LenAt(n, j) % 2 \in {0, 1}
    BY <1>1
  <1>8. Start(n, 0) = n /\ Ones(n, 0) = PopCount(n)
    BY <1>1, <1>3 DEF Start, Ones
  <1>9. ASSUME j > TopLevel(n), n > 0 PROVE Ones(n, j) = 0 /\ Start(n, j) = 0
    <2>1. LenAt(n, j) = 0
      BY <1>9, TopLevelIs
    <2>. QED  BY <1>3, <2>1, PopCountIs DEF Ones, Start
  <1>10. LenAt(n, j) % 2 = 1 =>
           Ones(n, j) = Ones(n, j + 1) + 1 /\ Start(n, j) = Start(n, j + 1) + Two[j]
    <2>. SUFFICES ASSUME LenAt(n, j) % 2 = 1
                  PROVE  Ones(n, j) = Ones(n, j + 1) + 1 /\ Start(n, j) = Start(n, j + 1) + Two[j]
      OBVIOUS
    <2>1. n % Two[j + 1] = (n % Two[j]) + Two[j]
      BY <1>1
    <2>. QED  BY <1>1, <1>2, <1>3, <1>4, <1>5, <1>6, <2>1
  <1>11. LenAt(n, j) % 2 # 1 => Ones(n, j) = Ones(n, j + 1) /\ Start(n, j) = Start(n, j + 1)
    BY <1>1, <1>5, <1>6, <1>7
  <1>. QED  BY <1>1, <1>4, <1>5, <1>6, <1>8, <1>9, <1>10, <1>11

\* Fewer set bits are fewer chunks.
LEMMA OnesFewer ==
  ASSUME NEW n \in Nat, NEW i \in Nat, NEW j \in Nat, i <= j
  PROVE  /\ Ones(n, j) <= Ones(n, i) /\ Start(n, j) <= Start(n, i)
         /\ Ones(n, j) = Ones(n, i) <=> Start(n, j) = Start(n, i)
  <1>. DEFINE Q(d) == /\ Ones(n, i + d) <= Ones(n, i) /\ Start(n, i + d) <= Start(n, i)
                      /\ Ones(n, i + d) = Ones(n, i) <=> Start(n, i + d) = Start(n, i)
              P == {d \in Nat : Q(d)}
  <1>1. 0 \in P
    <2>1. i + 0 = i /\ Ones(n, i) \in Nat /\ Start(n, i) \in Nat
      BY StartIs
    <2>. QED  BY <2>1
  <1>2. ASSUME NEW d \in Nat, d \in P PROVE d + 1 \in P
    <2>. DEFINE m == i + d
    <2>1. m \in Nat /\ i + (d + 1) = m + 1 /\ m + 1 \in Nat
      OBVIOUS
    <2>2. /\ Ones(n, m) <= Ones(n, i) /\ Start(n, m) <= Start(n, i)
          /\ Ones(n, m) = Ones(n, i) <=> Start(n, m) = Start(n, i)
      BY <1>2
    <2>. HIDE DEF m
    <2>3. /\ Ones(n, m) \in Nat /\ Start(n, m) \in Nat /\ Ones(n, m + 1) \in Nat /\ Start(n, m + 1) \in Nat
          /\ Ones(n, i) \in Nat /\ Start(n, i) \in Nat /\ Two[m] \in Nat /\ Two[m] > 0
      <3>1. Ones(n, m) \in Nat /\ Start(n, m) \in Nat
        BY <2>1, StartIs
      <3>2. Ones(n, m + 1) \in Nat /\ Start(n, m + 1) \in Nat
        BY <2>1, StartIs
      <3>3. Ones(n, i) \in Nat /\ Start(n, i) \in Nat
        BY StartIs
      <3>4. Two[m] \in Nat /\ Two[m] > 0
        BY <2>1, TwoIs
      <3>. QED  BY <3>1, <3>2, <3>3, <3>4
    <2>4. \/ Ones(n, m) = Ones(n, m + 1) + 1 /\ Start(n, m) = Start(n, m + 1) + Two[m]
          \/ Ones(n, m) = Ones(n, m + 1) /\ Start(n, m) = Start(n, m + 1)
      BY <2>1, StartIs
    <2>5. /\ Ones(n, m + 1) <= Ones(n, i) /\ Start(n, m + 1) <= Start(n, i)
          /\ Ones(n, m + 1) = Ones(n, i) <=> Start(n, m + 1) = Start(n, i)
      BY <2>2, <2>3, <2>4
    <2>. QED  BY <2>1, <2>5
  <1>3. Nat \subseteq P
    <2>. HIDE DEF P
    <2>. QED  BY <1>1, <1>2, SetInduction
  <1>4. j - i \in Nat /\ i + (j - i) = j
    OBVIOUS
  <1>5. Q(j - i)
    BY <1>3, <1>4
  <1>. QED  BY <1>4, <1>5

\* The chunks that the first b perfect subtrees of n have.
Place(n, b) == Start(n, CHOOSE j \in Nat : Ones(n, j) = b)

\* They are counted as they begin and end.
LEMMA PlaceIs ==
  ASSUME NEW n \in Nat, n > 0
  PROVE  /\ \A j \in Nat : Place(n, Ones(n, j)) = Start(n, j)
         /\ Place(n, 0) = 0 /\ Place(n, PopCount(n)) = n
         /\ PopCount(n) \in Nat /\ PopCount(n) > 0
         /\ \A b \in 1..PopCount(n) : \E j \in Nat : LenAt(n, j) % 2 = 1 /\ Ones(n, j) = b
  <1>1. ASSUME NEW j \in Nat PROVE Place(n, Ones(n, j)) = Start(n, j)
    <2>. DEFINE i == CHOOSE i \in Nat : Ones(n, i) = Ones(n, j)
    <2>1. i \in Nat /\ Ones(n, i) = Ones(n, j)
      OBVIOUS
    <2>2. Place(n, Ones(n, j)) = Start(n, i)
      BY DEF Place
    <2>. HIDE DEF i
    <2>3. CASE i <= j
      <3>1. Start(n, i) = Start(n, j)
        BY <2>1, <2>3, OnesFewer
      <3>. QED  BY <2>2, <3>1
    <2>4. CASE j <= i
      <3>1. Start(n, i) = Start(n, j)
        BY <2>1, <2>4, OnesFewer
      <3>. QED  BY <2>2, <3>1
    <2>. QED  BY <2>1, <2>3, <2>4
  <1>. DEFINE a == TopLevel(n) + 1
  <1>2. a \in Nat /\ Ones(n, a) = 0 /\ Start(n, a) = 0
    <2>1. a \in Nat /\ a > TopLevel(n)
      BY TopLevelIs
    <2>. HIDE DEF a
    <2>. QED  BY <2>1, StartIs
  <1>3. Ones(n, 0) = PopCount(n) /\ Start(n, 0) = n /\ Ones(n, 0) \in Nat
    BY StartIs, 0 \in Nat
  <1>4. Place(n, 0) = 0 /\ Place(n, PopCount(n)) = n
    BY <1>1, <1>2, <1>3, 0 \in Nat
  <1>5. PopCount(n) # 0
    BY <1>4
  <1>6. ASSUME NEW b \in 1..PopCount(n)
        PROVE  \E j \in Nat : LenAt(n, j) % 2 = 1 /\ Ones(n, j) = b
    <2>. DEFINE P == {j \in Nat : Ones(n, j) >= b}
    <2>1. b \in Nat /\ b > 0 /\ b <= PopCount(n)
      BY <1>3
    <2>2. 0 \in P /\ a \notin P
      BY <1>2, <1>3, <2>1
    <2>3. PICK j \in Nat : j \in P /\ j + 1 \notin P
      <3>. HIDE DEF P, a
      <3>. QED  BY <1>2, <2>2, SetInduction
    <2>4. Ones(n, j) >= b /\ ~(Ones(n, j + 1) >= b)
      BY <2>3
    <2>5. Ones(n, j) \in Nat
      BY StartIs
    <2>6. Ones(n, j + 1) \in Nat
      BY StartIs, j + 1 \in Nat
    <2>7. LenAt(n, j) % 2 = 1 => Ones(n, j) = Ones(n, j + 1) + 1
      BY StartIs
    <2>8. LenAt(n, j) % 2 # 1 => Ones(n, j) = Ones(n, j + 1)
      BY StartIs
    <2>9. LenAt(n, j) % 2 = 1 /\ Ones(n, j) = b
      BY <2>1, <2>4, <2>5, <2>6, <2>7, <2>8
    <2>. QED  BY <2>9
  <1>. QED  BY <1>1, <1>3, <1>4, <1>5, <1>6

\* The perfect subtrees of x are in T, from the left.
IsTops(T, k, c, x) ==
  \A j \in Nat : LenAt(x, j) % 2 = 1 => T[Ones(x, j)] = NodeOf(k, c, j, LenAt(x, j) - 1)

\* One of them is of the chunks between two places.
IsTop(T, k, c, x, b, j) ==
  /\ Place(x, b) = Place(x, b - 1) + Two[j]
  /\ Place(x, b) \in Nat /\ Place(x, b - 1) \in Nat
  /\ x - Place(x, b) \in Nat /\ x - Place(x, b) < Two[j]
  /\ T[b] = KeyedCvs(k, c)[Two[j]][Place(x, b - 1)]

LEMMA TopIs ==
  ASSUME NEW k, NEW c, NEW x \in Nat, x > 0, NEW b \in 1..PopCount(x), NEW T, IsTops(T, k, c, x)
  PROVE  \E j \in Nat : IsTop(T, k, c, x, b, j)
  <1>1. PICK j \in Nat : LenAt(x, j) % 2 = 1 /\ Ones(x, j) = b
    BY PlaceIs
  <1>2. Place(x, b) = Start(x, j)
    BY <1>1, PlaceIs
  <1>3. /\ Ones(x, j) = Ones(x, j + 1) + 1 /\ Start(x, j) = Start(x, j + 1) + Two[j]
        /\ Start(x, j) \in Nat /\ Start(x, j) = x - (x % Two[j])
        /\ x % Two[j] \in Nat /\ x % Two[j] < Two[j]
    BY <1>1, StartIs
  <1>4. Ones(x, j + 1) \in Nat /\ Start(x, j + 1) \in Nat /\ Two[j] \in Nat
    BY StartIs, TwoIs, j + 1 \in Nat
  <1>5. Place(x, b - 1) = Start(x, j + 1)
    <2>1. Place(x, Ones(x, j + 1)) = Start(x, j + 1)
      BY PlaceIs, j + 1 \in Nat
    <2>2. Ones(x, j + 1) = b - 1
      BY <1>1, <1>3, <1>4
    <2>. QED  BY <2>1, <2>2
  <1>6. T[b] = NodeOf(k, c, j, LenAt(x, j) - 1)
    BY <1>1 DEF IsTops
  <1>7. Two[j] * (LenAt(x, j) - 1) = Start(x, j + 1)
    <2>1. LenAt(x, j) \in Nat
      BY LenAtIs
    <2>2. PICK m \in Nat : LenAt(x, j) = m + 1
      <3>1. LenAt(x, j) - 1 \in Nat /\ LenAt(x, j) = (LenAt(x, j) - 1) + 1
        BY <1>1, <2>1
      <3>. QED  BY <3>1
    <2>. DEFINE t == Two[j]
    <2>. HIDE DEF t
    <2>3. t * (m + 1) = t * m + t /\ t * m \in Nat
      <3>1. t \in Nat
        BY <1>4 DEF t
      <3>. QED  BY <3>1
    <2>4. Start(x, j) = t * (m + 1)
      BY <2>2 DEF Start, t
    <2>5. LenAt(x, j) - 1 = m
      BY <2>2
    <2>6. Start(x, j + 1) = t * m
      <3>1. Start(x, j) = Start(x, j + 1) + t /\ t \in Nat
        BY <1>3, <1>4 DEF t
      <3>. QED  BY <1>4, <2>3, <2>4, <3>1
    <2>. QED  BY <2>5, <2>6 DEF t
  <1>8. T[b] = KeyedCvs(k, c)[Two[j]][Place(x, b - 1)]
    BY <1>5, <1>6, <1>7 DEF NodeOf
  <1>9. x - Place(x, b) \in Nat /\ x - Place(x, b) < Two[j]
    BY <1>2, <1>3
  <1>. QED  BY <1>2, <1>3, <1>4, <1>5, <1>8, <1>9 DEF IsTop

\* The perfect subtrees of x, or of x and a chunk more, are a cut of the chunks.
LEMMA TopsCut ==
  ASSUME NEW k, NEW c, NEW x \in Nat, x > 0, NEW e \in {0, 1}, NEW T, IsTops(T, k, c, x),
         NEW p \in Nat, p = PopCount(x), NEW L \in Nat, L = Len(T), L = p + e, L > 1,
         NEW n \in Nat, n = x + e, e = 1 => T[L] = KeyedCvs(k, c)[1][x]
  PROVE  \E s : IsCut(T, s, k, c, n)
  <1>. DEFINE s == [b \in 0..L |-> IF b <= p THEN Place(x, b) ELSE n]
  <1>1. p > 0 /\ Place(x, 0) = 0 /\ Place(x, p) = x
    BY PlaceIs
  <1>2. ASSUME NEW b \in 1..p
        PROVE  \E j \in Nat :
                 /\ Place(x, b) = Place(x, b - 1) + Two[j] /\ Two[j] \in Nat /\ Two[j] > 0
                 /\ Place(x, b) \in Nat /\ Place(x, b - 1) \in Nat
                 /\ x - Place(x, b) \in Nat /\ x - Place(x, b) < Two[j]
                 /\ T[b] = KeyedCvs(k, c)[Two[j]][Place(x, b - 1)]
    <2>1. b \in 1..PopCount(x)
      OBVIOUS
    <2>2. PICK j \in Nat : IsTop(T, k, c, x, b, j)
      BY <2>1, TopIs
    <2>3. Two[j] \in Nat /\ Two[j] > 0
      BY TwoIs
    <2>. QED  BY <2>2, <2>3 DEF IsTop
  <1>3. \A b \in 0..p : Place(x, b) \in Nat
    <2>1. \A b \in 0..p : b = 0 \/ b \in 1..p
      OBVIOUS
    <2>. QED  BY <1>1, <1>2, <2>1
  <1>4. s \in [0..L -> Nat]
    <2>1. ASSUME NEW b \in 0..L PROVE (IF b <= p THEN Place(x, b) ELSE n) \in Nat
      <3>1. b <= p => b \in 0..p
        OBVIOUS
      <3>. QED  BY <1>3, <3>1
    <2>. QED  BY <2>1
  <1>5. \A b \in 0..p : s[b] = Place(x, b)
    <2>1. \A b \in 0..p : b \in 0..L /\ b <= p
      OBVIOUS
    <2>. QED  BY <2>1
  <1>6. s[0] = 0
    <2>1. 0 \in 0..p
      OBVIOUS
    <2>. HIDE DEF s
    <2>. QED  BY <1>1, <1>5, <2>1
  <1>7. s[L] = n
    <2>1. CASE e = 0
      <3>1. L = p /\ n = x /\ L \in 0..p
        BY <2>1
      <3>. HIDE DEF s
      <3>. QED  BY <1>1, <1>5, <3>1
    <2>2. CASE e = 1
      <3>1. ~(L <= p) /\ L \in 0..L
        BY <2>2
      <3>. QED  BY <3>1
    <2>. QED  BY <2>1, <2>2
  <1>. HIDE DEF s
  <1>8. ASSUME NEW b \in 1..L PROVE T[b] = KeyedCvs(k, c)[s[b] - s[b - 1]][s[b - 1]]
    <2>1. CASE b \in 1..p
      <3>1. PICK j \in Nat :
              /\ Place(x, b) = Place(x, b - 1) + Two[j] /\ Two[j] \in Nat
              /\ Place(x, b - 1) \in Nat
              /\ T[b] = KeyedCvs(k, c)[Two[j]][Place(x, b - 1)]
        BY <1>2, <2>1
      <3>2. b \in 0..p /\ b - 1 \in 0..p
        BY <2>1
      <3>3. s[b] = Place(x, b) /\ s[b - 1] = Place(x, b - 1)
        BY <1>5, <3>2
      <3>4. s[b] - s[b - 1] = Two[j]
        BY <3>1, <3>3
      <3>. QED  BY <3>1, <3>3, <3>4
    <2>2. CASE b \notin 1..p
      <3>1. e = 1 /\ b = L /\ b - 1 = p /\ p \in 0..p
        BY <2>2
      <3>2. s[b - 1] = x /\ s[b] = x + 1 /\ (x + 1) - x = 1
        BY <1>1, <1>5, <1>7, <3>1
      <3>. QED  BY <3>1, <3>2
    <2>. QED  BY <2>1, <2>2
  <1>9. ASSUME NEW b \in 1..(L - 1)
        PROVE  s[b] < n /\ \E j \in Nat : s[b] = s[b - 1] + Two[j] /\ n - s[b] <= Two[j]
    <2>1. b \in 1..p /\ b \in 0..p /\ b - 1 \in 0..p
      OBVIOUS
    <2>2. PICK j \in Nat :
            /\ Place(x, b) = Place(x, b - 1) + Two[j] /\ Two[j] \in Nat
            /\ Place(x, b) \in Nat
            /\ x - Place(x, b) \in Nat /\ x - Place(x, b) < Two[j]
      BY <1>2, <2>1
    <2>3. s[b] = Place(x, b) /\ s[b - 1] = Place(x, b - 1)
      BY <1>5, <2>1
    <2>. DEFINE q == Place(x, b)  t == Two[j]
    <2>4. t \in Nat /\ q \in Nat /\ x - q \in Nat /\ x - q < t /\ n = x + e /\ (e = 0 \/ e = 1)
      BY <2>2
    <2>5. n - q <= t
      <3>. HIDE DEF q, t
      <3>. QED  BY ONLY <2>4, x \in Nat
    <2>6. q < n
      <3>1. CASE e = 1
        <4>. HIDE DEF q, t
        <4>. QED  BY ONLY <2>4, <3>1, x \in Nat
      <3>2. CASE e = 0
        <4>1. b + 1 \in 1..p /\ (b + 1) - 1 = b
          BY <3>2
        <4>2. PICK i \in Nat :
                /\ Place(x, b + 1) = Place(x, (b + 1) - 1) + Two[i] /\ Two[i] \in Nat /\ Two[i] > 0
                /\ Place(x, b + 1) \in Nat
                /\ x - Place(x, b + 1) \in Nat
          BY <1>2, <4>1
        <4>. DEFINE r == Place(x, b + 1)  u == Two[i]
        <4>3. r = q + u /\ u \in Nat /\ u > 0 /\ r \in Nat /\ x - r \in Nat
          BY <4>1, <4>2
        <4>4. q < x
          <5>. HIDE DEF q, t, r, u
          <5>. QED  BY ONLY <2>4, <4>3, x \in Nat
        <4>. QED  BY <3>2, <4>4
      <3>. QED  BY <2>4, <3>1, <3>2
    <2>. QED  BY <2>2, <2>3, <2>5, <2>6
  <1>10. IsCut(T, s, k, c, n)
    BY <1>4, <1>6, <1>7, <1>8, <1>9 DEF IsCut
  <1>. QED  BY <1>10

\* Merged they are the whole tree.
LEMMA TopsMerged ==
  ASSUME NEW k, NEW c, NEW x \in Nat, x > 0, NEW e \in {0, 1}, NEW T, IsTops(T, k, c, x),
         Len(T) = PopCount(x) + e, Len(T) > 1,
         e = 1 => T[Len(T)] = KeyedCvs(k, c)[1][x]
  PROVE  MergedFromRight(k, T) = Blake3Root(k, c, x + e)
  <1>1. PopCount(x) \in Nat /\ PopCount(x) + e \in Nat /\ x + e \in Nat
    BY PlaceIs
  <1>2. \E s : IsCut(T, s, k, c, x + e)
    BY <1>1, TopsCut
  <1>. QED  BY <1>1, <1>2, MergedRight

-----------------------------------------------------------------------------
\* A sequence with one more element.
Longer(s, v, m) == [b \in 1..(m + 1) |-> IF b <= m THEN s[b] ELSE v]
LEMMA AppendIs ==
  ASSUME NEW m \in Nat, NEW s, s = [b \in 1..m |-> s[b]], NEW v
  PROVE  Append(s, v) = Longer(s, v, m) /\ Len(s) = m
  <1>. DEFINE S == {s[b] : b \in 1..m} \cup {v}
  <1>1. s \in [1..m -> S] /\ v \in S
    OBVIOUS
  <1>. HIDE DEF S
  <1>2. s \in Seq(S) /\ Len(s) = m
    BY <1>1
  <1>3. /\ Append(s, v) \in Seq(S) /\ Len(Append(s, v)) = m + 1
        /\ \A b \in 1..m : Append(s, v)[b] = s[b]
        /\ Append(s, v)[m + 1] = v
    BY <1>1, <1>2
  <1>4. Append(s, v) = [b \in 1..(m + 1) |-> Append(s, v)[b]]
    BY <1>3
  <1>5. \A b \in 1..(m + 1) : Append(s, v)[b] = IF b <= m THEN s[b] ELSE v
    BY <1>3
  <1>. QED  BY <1>2, <1>4, <1>5 DEF Longer

\* The equation of the perfect subtrees from a level on up.
IsFrom(g, levels, n) ==
  g = [j \in 0..(TopLevel(n) + 1) |->
         IF j = TopLevel(n) + 1 THEN [tops |-> <<>>, start |-> 0]
         ELSE TakeTop(levels, n, j, g[j + 1])]

\* The perfect subtrees of n from the left, and the first of them.
TopAt(n, b) == CHOOSE j \in Nat : LenAt(n, j) % 2 = 1 /\ Ones(n, j) = b
FirstTops(k, c, n, m) ==
  [b \in 1..m |-> NodeOf(k, c, TopAt(n, b), LenAt(n, TopAt(n, b)) - 1)]

LEMMA TopAtIs ==
  ASSUME NEW n \in Nat, NEW j \in Nat, LenAt(n, j) % 2 = 1
  PROVE  TopAt(n, Ones(n, j)) = j
  <1>. DEFINE i == TopAt(n, Ones(n, j))
  <1>1. i \in Nat /\ LenAt(n, i) % 2 = 1 /\ Ones(n, i) = Ones(n, j)
    BY DEF TopAt
  <1>. HIDE DEF i
  <1>2. ASSUME NEW x \in Nat, NEW y \in Nat, x < y, LenAt(n, x) % 2 = 1 PROVE Ones(n, y) # Ones(n, x)
    <2>1. Ones(n, y) <= Ones(n, x + 1)
      BY <1>2, OnesFewer, x + 1 \in Nat, x + 1 <= y
    <2>2. Ones(n, x) = Ones(n, x + 1) + 1
      BY <1>2, StartIs
    <2>3. Ones(n, y) \in Nat
      BY StartIs
    <2>4. Ones(n, x + 1) \in Nat
      BY StartIs, x + 1 \in Nat
    <2>. QED  BY <2>1, <2>2, <2>3, <2>4
  <1>3. ~(i < j) /\ ~(j < i)
    BY <1>1, <1>2
  <1>4. i = j
    BY <1>1, <1>3
  <1>. QED  BY <1>4 DEF i

\* The first of them, with one more.
LEMMA FirstTopsIs ==
  ASSUME NEW k, NEW c, NEW n \in Nat, NEW j \in Nat
  PROVE  /\ Len(FirstTops(k, c, n, Ones(n, j))) = Ones(n, j)
         /\ LenAt(n, j) % 2 = 1 =>
              FirstTops(k, c, n, Ones(n, j)) =
                Append(FirstTops(k, c, n, Ones(n, j + 1)), NodeOf(k, c, j, LenAt(n, j) - 1))
         /\ LenAt(n, j) % 2 # 1 =>
              FirstTops(k, c, n, Ones(n, j)) = FirstTops(k, c, n, Ones(n, j + 1))
         /\ \A m \in Nat : m >= PopCount(n) => IsTops(FirstTops(k, c, n, m), k, c, n)
  <1>. DEFINE s(m) == FirstTops(k, c, n, m)
  <1>1. ASSUME NEW m \in Nat PROVE s(m) = [b \in 1..m |-> s(m)[b]] /\ Len(s(m)) = m
    <2>1. s(m) = [b \in 1..m |-> s(m)[b]]
      BY DEF FirstTops
    <2>. HIDE DEF s
    <2>2. Len(s(m)) = m
      BY <2>1, AppendIs
    <2>. QED  BY <2>1, <2>2
  <1>2. Ones(n, j) \in Nat /\ Ones(n, j + 1) \in Nat
    BY StartIs, j + 1 \in Nat
  <1>3. LenAt(n, j) % 2 # 1 => Ones(n, j) = Ones(n, j + 1)
    BY StartIs
  <1>4. ASSUME LenAt(n, j) % 2 = 1
        PROVE  s(Ones(n, j)) = Append(s(Ones(n, j + 1)), NodeOf(k, c, j, LenAt(n, j) - 1))
    <2>. DEFINE m == Ones(n, j + 1)  v == NodeOf(k, c, j, LenAt(n, j) - 1)
    <2>1. m \in Nat /\ Ones(n, j) = m + 1
      BY <1>2, <1>4, StartIs
    <2>2. Append(s(m), v) = Longer(s(m), v, m)
      <3>1. s(m) = [b \in 1..m |-> s(m)[b]]
        BY <1>1, <2>1
      <3>. HIDE DEF s, m, v
      <3>. QED  BY <2>1, <3>1, AppendIs
    <2>3. TopAt(n, m + 1) = j
      BY <1>4, <2>1, TopAtIs
    <2>4. \A b \in 1..(m + 1) : b <= m => s(m)[b] = s(m + 1)[b]
      BY <2>1 DEF FirstTops
    <2>5. s(m + 1)[m + 1] = v
      <3>1. m + 1 \in 1..(m + 1)
        BY <2>1
      <3>. QED  BY <2>3, <3>1 DEF FirstTops
    <2>6. s(m + 1) = [b \in 1..(m + 1) |-> s(m + 1)[b]]
      BY DEF FirstTops
    <2>7. \A b \in 1..(m + 1) : ~(b <= m) => b = m + 1
      BY <2>1
    <2>. HIDE DEF s, v, m
    <2>8. s(m + 1) = Longer(s(m), v, m)
      BY <2>4, <2>5, <2>6, <2>7 DEF Longer
    <2>. QED  BY <2>1, <2>2, <2>8 DEF m, v
  <1>5. ASSUME NEW m \in Nat, m >= PopCount(n) PROVE IsTops(s(m), k, c, n)
    <2>. SUFFICES ASSUME NEW i \in Nat, LenAt(n, i) % 2 = 1
                  PROVE  s(m)[Ones(n, i)] = NodeOf(k, c, i, LenAt(n, i) - 1)
      BY DEF IsTops
    <2>1. TopAt(n, Ones(n, i)) = i
      BY TopAtIs
    <2>2. Ones(n, i) \in Nat /\ Ones(n, i) # 0
      <3>1. Ones(n, i) = Ones(n, i + 1) + 1 /\ Ones(n, i) \in Nat
        BY StartIs
      <3>2. Ones(n, i + 1) \in Nat
        BY StartIs, i + 1 \in Nat
      <3>. QED  BY <3>1, <3>2
    <2>3. Ones(n, i) <= m
      <3>1. Ones(n, i) <= Ones(n, 0) /\ Ones(n, 0) = PopCount(n) /\ Ones(n, 0) \in Nat
        BY OnesFewer, StartIs, 0 \in Nat
      <3>. QED  BY <1>5, <2>2, <3>1
    <2>4. Ones(n, i) \in 1..m
      BY <2>2, <2>3
    <2>. QED  BY <2>1, <2>4 DEF FirstTops
  <1>. QED  BY <1>1, <1>2, <1>3, <1>4, <1>5

\* One more for a bit that is set.
LEMMA FirstTopsMore ==
  ASSUME NEW k, NEW c, NEW n \in Nat, NEW j \in Nat, LenAt(n, j) % 2 = 1
  PROVE  FirstTops(k, c, n, Ones(n, j)) =
           Append(FirstTops(k, c, n, Ones(n, j + 1)), NodeOf(k, c, j, LenAt(n, j) - 1))
  BY FirstTopsIs

\* What pearl_mh_root has taken from the levels down to j.
Taken(k, c, n, j) == [tops |-> FirstTops(k, c, n, Ones(n, j)), start |-> Start(n, j)]

LEMMA NothingTaken ==
  ASSUME NEW k, NEW c, NEW n \in Nat, n > 0
  PROVE  Taken(k, c, n, TopLevel(n) + 1) = [tops |-> <<>>, start |-> 0]
  <1>. DEFINE a == TopLevel(n) + 1
  <1>1. a \in Nat /\ a > TopLevel(n)
    BY TopLevelIs
  <1>. HIDE DEF a
  <1>2. Ones(n, a) = 0 /\ Start(n, a) = 0
    BY <1>1, StartIs
  <1>3. FirstTops(k, c, n, 0) = <<>>
    BY DEF FirstTops
  <1>4. Taken(k, c, n, a) = [tops |-> <<>>, start |-> 0]
    BY <1>2, <1>3 DEF Taken
  <1>. QED  BY <1>4 DEF a

\* A bit that is set adds the last node of its level.
LEMMA TakenNext ==
  ASSUME NEW k, NEW c, NEW n \in Nat, n > 0, NEW j \in Nat, j <= TopLevel(n)
  PROVE  TakeTop(TreeOf(k, c, n), n, j, Taken(k, c, n, j + 1)) = Taken(k, c, n, j)
  <1>. DEFINE t == TreeOf(k, c, n)  len == LenAt(n, j)  s == Start(n, j + 1)
              up == FirstTops(k, c, n, Ones(n, j + 1))
  <1>1. /\ TakeTop(t, n, j, Taken(k, c, n, j + 1)) =
             IF len % 2 = 1 THEN [tops |-> Append(up, t[j][s \div Two[j]]), start |-> s + Two[j]]
             ELSE Taken(k, c, n, j + 1)
        /\ Taken(k, c, n, j + 1) = [tops |-> up, start |-> s]
    BY DEF TakeTop, Taken, LenAt
  <1>2. CASE len % 2 = 1
    <2>1. /\ Ones(n, j) = Ones(n, j + 1) + 1 /\ Start(n, j) = s + Two[j]
          /\ s \in Nat /\ Start(n, j) = Two[j] * len
      BY <1>2, StartIs, j + 1 \in Nat DEF Start
    <2>2. len \in Nat /\ len # 0 /\ Two[j] \in Nat /\ Two[j] > 0
      <3>1. len \in Nat
        BY LenAtIs
      <3>. HIDE DEF len
      <3>2. Two[j] \in Nat /\ Two[j] > 0
        BY TwoIs
      <3>3. len # 0
        BY <1>2, <3>1
      <3>. QED  BY <3>1, <3>2, <3>3
    <2>3. s \div Two[j] = len - 1
      <3>. DEFINE w == Two[j]
      <3>. HIDE DEF len, s, w
      <3>1. len - 1 \in Nat /\ w \in Nat /\ w > 0 /\ s \in Nat /\ w * len = s + w
        BY <2>1, <2>2 DEF w
      <3>2. PICK m \in Nat : m = len - 1 /\ len = m + 1
        BY <2>2, <3>1
      <3>3. w * (m + 1) = w * m + w * 1 /\ w * m \in Int /\ w * 1 = w
        BY <3>1, TimesSum
      <3>4. s = w * m + 0
        BY <3>1, <3>2, <3>3
      <3>5. s \div w = m
        BY <3>1, <3>4, OneQuotient, 0 \in Nat
      <3>. QED  BY <3>2, <3>5 DEF w
    <2>4. t[j][len - 1] = NodeOf(k, c, j, len - 1)
      <3>1. len - 1 \in Nat /\ len - 1 < len
        BY <2>2
      <3>2. len - 1 \in Nodes(n, j)
        BY <3>1, NodesAre
      <3>3. j \in Levels(n)
        BY TopLevelIs
      <3>. QED  BY <3>2, <3>3 DEF TreeOf, LevelOf, SomeOf
    <2>5. FirstTops(k, c, n, Ones(n, j)) = Append(up, NodeOf(k, c, j, len - 1))
      BY <1>2, FirstTopsMore
    <2>6. Taken(k, c, n, j) = [tops |-> Append(up, t[j][len - 1]), start |-> s + Two[j]]
      BY <2>1, <2>4, <2>5 DEF Taken
    <2>. HIDE DEF len, s, up
    <2>. QED  BY ONLY <1>1, <1>2, <2>3, <2>6
  <1>3. CASE len % 2 # 1
    <2>1. Ones(n, j) = Ones(n, j + 1) /\ Start(n, j) = s
      BY <1>3, StartIs
    <2>2. FirstTops(k, c, n, Ones(n, j)) = up
      BY <2>1
    <2>3. Taken(k, c, n, j) = [tops |-> up, start |-> s]
      BY <2>1, <2>2 DEF Taken
    <2>. HIDE DEF len, s, up
    <2>. QED  BY ONLY <1>1, <1>3, <2>3
  <1>. QED  BY <1>2, <1>3

\* What pearl_mh_root takes from the levels.
LEMMA FromIs ==
  ASSUME NEW k, NEW c, NEW n \in Nat, n > 0, NEW g, IsFrom(g, TreeOf(k, c, n), n)
  PROVE  \A j \in 0..(TopLevel(n) + 1) : g[j] = Taken(k, c, n, j)
  <1>. DEFINE a == TopLevel(n) + 1  t == TreeOf(k, c, n)
              P == {d \in Nat : d <= a => g[a - d] = Taken(k, c, n, a - d)}
  <1>0. a \in Nat /\ a > TopLevel(n)
    BY TopLevelIs
  <1>1. g[a] = Taken(k, c, n, a)
    <2>1. g[a] = [tops |-> <<>>, start |-> 0]
      BY <1>0 DEF IsFrom
    <2>. QED  BY <2>1, NothingTaken
  <1>2. ASSUME NEW j \in Nat, j < a, g[j + 1] = Taken(k, c, n, j + 1)
        PROVE  g[j] = Taken(k, c, n, j)
    <2>1. g[j] = TakeTop(t, n, j, g[j + 1])
      <3>1. j \in 0..a /\ j # a
        BY <1>0, <1>2
      <3>. QED  BY <3>1 DEF IsFrom
    <2>2. j <= TopLevel(n)
      BY <1>2, TopLevelIs
    <2>. QED  BY <1>2, <2>1, <2>2, TakenNext
  <1>. HIDE DEF a
  <1>3. 0 \in P
    <2>1. a - 0 = a
      BY <1>0
    <2>. QED  BY <1>1, <2>1
  <1>4. ASSUME NEW d \in Nat, d \in P PROVE d + 1 \in P
    <2>. SUFFICES ASSUME d + 1 <= a PROVE g[a - (d + 1)] = Taken(k, c, n, a - (d + 1))
      OBVIOUS
    <2>1. a - (d + 1) \in Nat /\ a - (d + 1) < a /\ (a - (d + 1)) + 1 = a - d /\ d <= a
      BY <1>0
    <2>2. g[a - d] = Taken(k, c, n, a - d)
      BY <1>4, <2>1
    <2>. QED  BY <1>2, <2>1, <2>2
  <1>5. Nat \subseteq P
    <2>. HIDE DEF P
    <2>. QED  BY <1>3, <1>4, SetInduction
  <1>6. ASSUME NEW j \in 0..a PROVE g[j] = Taken(k, c, n, j)
    <2>1. a - j \in Nat /\ a - j <= a /\ a - (a - j) = j
      BY <1>0
    <2>2. g[a - (a - j)] = Taken(k, c, n, a - (a - j))
      BY <1>5, <2>1
    <2>. QED  BY <2>1, <2>2
  <1>. QED  BY <1>6 DEF a

LEMMA FromExists ==
  ASSUME NEW k, NEW c, NEW n \in Nat, n > 0
  PROVE  \E g : IsFrom(g, TreeOf(k, c, n), n)
  <1>. DEFINE a == TopLevel(n) + 1  t == TreeOf(k, c, n)
              g == [j \in 0..a |-> Taken(k, c, n, j)]
  <1>0. TopLevel(n) \in Nat /\ a \in Nat /\ a = TopLevel(n) + 1
    BY TopLevelIs
  <1>1. ASSUME NEW j \in 0..a
        PROVE  g[j] = IF j = a THEN [tops |-> <<>>, start |-> 0] ELSE TakeTop(t, n, j, g[j + 1])
    <2>1. CASE j = a
      BY <2>1, NothingTaken
    <2>2. CASE j # a
      <3>1. j \in Nat /\ j <= TopLevel(n) /\ j + 1 \in 0..a
        <4>. HIDE DEF a
        <4>. QED  BY <1>0, <2>2
      <3>2. TakeTop(t, n, j, Taken(k, c, n, j + 1)) = Taken(k, c, n, j)
        BY <3>1, TakenNext
      <3>3. g[j] = Taken(k, c, n, j) /\ g[j + 1] = Taken(k, c, n, j + 1)
        BY <3>1
      <3>. HIDE DEF g, t, a
      <3>. QED  BY <2>2, <3>2, <3>3
    <2>. QED  BY <2>1, <2>2
  <1>2. g = [j \in 0..a |-> g[j]]
    OBVIOUS
  <1>. HIDE DEF g, t
  <1>3. IsFrom(g, t, n)
    BY <1>1, <1>2 DEF IsFrom
  <1>. QED  BY <1>3 DEF t

\* The root made from the levels is that of the whole tree.
LEMMA RootRight ==
  ASSUME NEW k, NEW c, NEW n \in Nat, n > 1
  PROVE  Root(k, TreeOf(k, c, n), n) = Blake3Root(k, c, n)
  <1>. DEFINE t == TreeOf(k, c, n)  top == TopLevel(n)
              F == CHOOSE g : IsFrom(g, t, n)  f == FirstTops(k, c, n, PopCount(n))
  <1>0. F[0].tops = f
    <2>. HIDE DEF t
    <2>1. IsFrom(F, t, n)
      BY FromExists DEF t
    <2>2. 0 \in 0..(TopLevel(n) + 1) /\ Ones(n, 0) = PopCount(n)
      BY TopLevelIs, StartIs, 0 \in Nat
    <2>. HIDE DEF F
    <2>3. F[0] = Taken(k, c, n, 0)
      BY <2>1, <2>2, FromIs DEF t
    <2>. QED  BY <2>2, <2>3 DEF Taken
  <1>1. Root(k, t, n) =
          MergedFromRight(k, IF Len(F[0].tops) = 1 THEN <<t[top - 1][0], t[top - 1][1]>> ELSE F[0].tops)
    BY DEF Root, Tops, IsFrom
  <1>2. Len(f) = PopCount(n) /\ IsTops(f, k, c, n) /\ PopCount(n) \in Nat /\ PopCount(n) > 0
    <2>1. Ones(n, 0) = PopCount(n) /\ Ones(n, 0) \in Nat
      BY StartIs, 0 \in Nat
    <2>. HIDE DEF f
    <2>2. Len(f) = PopCount(n)
      <3>1. Len(FirstTops(k, c, n, Ones(n, 0))) = Ones(n, 0)
        BY FirstTopsIs, 0 \in Nat
      <3>. QED  BY <2>1, <3>1 DEF f
    <2>3. PopCount(n) \in Nat /\ PopCount(n) > 0 /\ PopCount(n) >= PopCount(n)
      BY <2>1, PlaceIs
    <2>4. IsTops(f, k, c, n)
      <3>1. \A m \in Nat : m >= PopCount(n) => IsTops(FirstTops(k, c, n, m), k, c, n)
        BY FirstTopsIs, 0 \in Nat
      <3>. QED  BY <2>3, <3>1 DEF f
    <2>. QED  BY <2>2, <2>3, <2>4
  <1>. HIDE DEF f, F
  <1>3. CASE Len(f) # 1
    <2>1. MergedFromRight(k, f) = Blake3Root(k, c, n + 0)
      <3>1. Len(f) = PopCount(n) + 0 /\ Len(f) > 1 /\ 0 \in {0, 1} /\ ~(0 = 1)
        BY <1>2, <1>3
      <3>. QED  BY <1>2, <3>1, TopsMerged
    <2>2. n + 0 = n
      OBVIOUS
    <2>. QED  BY <1>0, <1>1, <1>3, <2>1, <2>2
  <1>4. CASE Len(f) = 1
    <2>. DEFINE u == Two[top - 1]  T == <<t[top - 1][0], t[top - 1][1]>>
                s == [b \in 0..2 |-> IF b = 0 THEN 0 ELSE IF b = 1 THEN u ELSE n]
    <2>1. top \in Nat /\ LenAt(n, top) = 1 /\ Two[top] <= n /\ n < Two[top + 1]
      BY TopLevelIs
    <2>2. n = Two[top]
      <3>1. Ones(n, top) = 1
        <4>1. Ones(n, top) = Ones(n, top + 1) + 1
          BY <2>1, StartIs
        <4>2. Ones(n, top + 1) = 0
          <5>1. \A j \in Nat : j > TopLevel(n) => Ones(n, j) = 0
            BY StartIs
          <5>. QED  BY <2>1, <5>1
        <4>. QED  BY <4>1, <4>2
      <3>2. Ones(n, 0) = 1 /\ Start(n, 0) = n
        BY <1>2, <1>4, StartIs, 0 \in Nat
      <3>3. Start(n, top) = Start(n, 0)
        BY <2>1, <3>1, <3>2, OnesFewer, 0 \in Nat
      <3>4. Two[top] * 1 = Two[top]
        BY <2>1, TwoIs
      <3>. QED  BY <2>1, <3>2, <3>3, <3>4 DEF Start
    <2>3. top - 1 \in Nat /\ (top - 1) + 1 = top /\ n = 2 * u /\ u \in Nat /\ u > 0
      <3>1. top # 0
        BY <2>2, TwoIs
      <3>2. top - 1 \in Nat /\ (top - 1) + 1 = top
        BY <2>1, <3>1
      <3>3. u \in Nat /\ u > top - 1 /\ Two[(top - 1) + 1] = 2 * u
        BY <3>2, TwoIs
      <3>. QED  BY <2>2, <3>2, <3>3
    <2>4. T[1] = NodeOf(k, c, top - 1, 0) /\ T[2] = NodeOf(k, c, top - 1, 1)
      <3>1. 0 \in Nodes(n, (top - 1) + 1)
        BY <2>1, <2>3, NodesAre
      <3>2. 2 * 0 \in Nodes(n, top - 1) /\ 2 * 0 + 1 \in Nodes(n, top - 1)
        BY <2>3, <3>1, NodesAre
      <3>3. top - 1 \in Levels(n)
        BY <2>1, <2>3, TopLevelIs
      <3>4. t[top - 1] = LevelOf(k, c, n, top - 1)
        BY <3>3 DEF TreeOf
      <3>5. 0 \in Nodes(n, top - 1) /\ 1 \in Nodes(n, top - 1)
        BY <3>2
      <3>. HIDE DEF t, top
      <3>. QED  BY <3>4, <3>5 DEF LevelOf, SomeOf
    <2>5. T[1] = KeyedCvs(k, c)[u][0] /\ T[2] = KeyedCvs(k, c)[u][u]
      <3>1. u * 0 = 0 /\ u * 1 = u
        BY <2>3
      <3>. HIDE DEF T
      <3>. QED  BY <2>4, <3>1 DEF NodeOf
    <2>6. Len(T) = 2
      OBVIOUS
    <2>. HIDE DEF T, u
    <2>7. s \in [0..2 -> Nat] /\ s[0] = 0 /\ s[1] = u /\ s[2] = n
      BY <2>3
    <2>. HIDE DEF s
    <2>8. IsCut(T, s, k, c, n)
      <3>1. \A b \in 1..2 : T[b] = KeyedCvs(k, c)[s[b] - s[b - 1]][s[b - 1]]
        <4>1. u - 0 = u /\ n - u = u /\ 1 - 1 = 0 /\ 2 - 1 = 1 /\ \A b \in 1..2 : b = 1 \/ b = 2
          BY <2>3
        <4>. QED  BY <2>5, <2>7, <4>1
      <3>2. \A b \in 1..(2 - 1) : s[b] < n /\ \E j \in Nat : s[b] = s[b - 1] + Two[j] /\ n - s[b] <= Two[j]
        <4>1. u < n /\ u = 0 + u /\ n - u <= u /\ 1 - 1 = 0 /\ \A b \in 1..(2 - 1) : b = 1
          BY <2>3
        <4>2. u = 0 + Two[top - 1] /\ n - u <= Two[top - 1]
          BY <4>1 DEF u
        <4>. QED  BY <2>3, <2>7, <4>1, <4>2
      <3>. QED  BY <2>6, <2>7, <3>1, <3>2 DEF IsCut
    <2>9. MergedFromRight(k, T) = Blake3Root(k, c, n)
      BY <2>8, MergedRight
    <2>. QED  BY <1>0, <1>1, <1>4, <2>9 DEF T
  <1>. QED  BY <1>3, <1>4

-----------------------------------------------------------------------------
\* The perfect subtrees above a level are those of what they cover.
LEMMA SameAbove ==
  ASSUME NEW k, NEW c, NEW x \in Nat, NEW y \in Nat, NEW j \in Nat, LenAt(x, j) = LenAt(y, j)
  PROVE  FirstTops(k, c, x, Ones(x, j)) = FirstTops(k, c, y, Ones(y, j))
  <1>. DEFINE P == {d \in Nat : LenAt(x, j + d) = LenAt(y, j + d)}
  <1>1. 0 \in P
    OBVIOUS
  <1>2. ASSUME NEW d \in Nat, d \in P PROVE d + 1 \in P
    <2>1. j + d \in Nat /\ j + (d + 1) = (j + d) + 1
      OBVIOUS
    <2>2. LenAt(x, (j + d) + 1) = LenAt(x, j + d) \div 2
      BY <2>1, LenAtIs
    <2>3. LenAt(y, (j + d) + 1) = LenAt(y, j + d) \div 2
      BY <2>1, LenAtIs
    <2>. QED  BY <1>2, <2>1, <2>2, <2>3
  <1>3. Nat \subseteq P
    <2>. HIDE DEF P
    <2>. QED  BY <1>1, <1>2, SetInduction
  <1>4. ASSUME NEW i \in Nat, i >= j PROVE LenAt(x, i) = LenAt(y, i) /\ Ones(x, i) = Ones(y, i)
    <2>1. i - j \in Nat /\ j + (i - j) = i
      BY <1>4
    <2>2. LenAt(x, i) = LenAt(y, i)
      BY <1>3, <2>1
    <2>. QED  BY <2>2 DEF Ones
  <1>5. Ones(x, j) = Ones(y, j) /\ Ones(x, j) \in Nat /\ Ones(x, j) <= PopCount(x)
    <2>1. Ones(x, j) = Ones(y, j)
      BY <1>4
    <2>2. Ones(x, j) \in Nat /\ Ones(x, 0) = PopCount(x)
      BY StartIs, 0 \in Nat
    <2>3. Ones(x, j) <= Ones(x, 0)
      BY OnesFewer, 0 \in Nat
    <2>. QED  BY <2>1, <2>2, <2>3
  <1>6. ASSUME NEW b \in 1..Ones(x, j)
        PROVE  \E i \in Nat : TopAt(x, b) = i /\ TopAt(y, b) = i /\ LenAt(x, i) = LenAt(y, i)
    <2>1. PopCount(x) \in Nat /\ b \in 1..PopCount(x) /\ x > 0
      <3>1. PopCount(x) \in Nat
        BY PopCountIs
      <3>2. b \in 1..PopCount(x)
        BY <1>5, <3>1
      <3>3. x # 0
        BY <3>2, PopCountIs
      <3>. QED  BY <3>1, <3>2, <3>3
    <2>2. PICK i \in Nat : LenAt(x, i) % 2 = 1 /\ Ones(x, i) = b
      BY <2>1, PlaceIs
    <2>3. ~(i < j)
      <3>. SUFFICES ASSUME i < j PROVE FALSE
        OBVIOUS
      <3>1. Ones(x, i) = Ones(x, i + 1) + 1
        BY <2>2, StartIs
      <3>2. Ones(x, j) <= Ones(x, i + 1)
        BY OnesFewer, i + 1 \in Nat, i + 1 <= j
      <3>3. Ones(x, i + 1) \in Nat
        BY StartIs, i + 1 \in Nat
      <3>. QED  BY <1>5, <2>2, <3>1, <3>2, <3>3
    <2>4. LenAt(x, i) = LenAt(y, i) /\ Ones(x, i) = Ones(y, i)
      BY <1>4, <2>3
    <2>5. TopAt(x, b) = i
      BY <2>2, TopAtIs
    <2>6. TopAt(y, b) = i
      BY <2>2, <2>4, TopAtIs
    <2>. QED  BY <2>4, <2>5, <2>6
  <1>7. \A b \in 1..Ones(x, j) :
          NodeOf(k, c, TopAt(x, b), LenAt(x, TopAt(x, b)) - 1)
            = NodeOf(k, c, TopAt(y, b), LenAt(y, TopAt(y, b)) - 1)
    BY <1>6
  <1>. QED  BY <1>5, <1>7 DEF FirstTops

\* A sequence by its elements.
IsList(s, m) == s = [b \in 1..m |-> s[b]]

\* The last two of a stack become one.
MergeTwo(k, st) ==
  Append(SubSeq(st, 1, Len(st) - 2), ParentCv(k, st[Len(st) - 1], st[Len(st)]))
IsMerged(g, k, stack, post) ==
  g = [m \in 0..(Len(stack) - post) |-> IF m = 0 THEN stack ELSE MergeTwo(k, g[m - 1])]

MergesTo(k, s, u, v) == MergeTwo(k, Append(Append(s, u), v)) = Append(s, ParentCv(k, u, v))
LEMMA MergeTwoIs ==
  ASSUME NEW k, NEW m \in Nat, NEW s, IsList(s, m), NEW u, NEW v
  PROVE  MergesTo(k, s, u, v)
  <1>. DEFINE S == {s[b] : b \in 1..m} \cup {u, v}  st == Append(Append(s, u), v)
  <1>1. s \in [1..m -> S] /\ u \in S /\ v \in S
    BY DEF IsList
  <1>. HIDE DEF S
  <1>2. s \in Seq(S) /\ Len(s) = m
    BY <1>1
  <1>3. st \in Seq(S) /\ Len(st) = m + 2 /\ st[m + 1] = u /\ st[m + 2] = v
        /\ \A b \in 1..m : st[b] = s[b]
    BY <1>1, <1>2
  <1>. HIDE DEF st
  <1>4. SubSeq(st, 1, m) = s
    <2>1. SubSeq(st, 1, m) \in Seq(S) /\ Len(SubSeq(st, 1, m)) = m
          /\ \A b \in 1..m : SubSeq(st, 1, m)[b] = s[b]
      BY <1>3
    <2>2. SubSeq(st, 1, m) = [b \in 1..m |-> SubSeq(st, 1, m)[b]]
      BY <2>1
    <2>. QED  BY <2>1, <2>2 DEF IsList
  <1>5. (m + 2) - 2 = m /\ (m + 2) - 1 = m + 1
    OBVIOUS
  <1>6. MergeTwo(k, st) = Append(s, ParentCv(k, u, v))
    BY <1>3, <1>4, <1>5 DEF MergeTwo
  <1>. QED  BY <1>6 DEF st, MergesTo

\* The stack of x and a chunk more, after m merges.
StackOf(k, c, x, m) == Append(FirstTops(k, c, x, Ones(x, m)), NodeOf(k, c, m, LenAt(x, m)))

\* A merge.
LEMMA OneMerge ==
  ASSUME NEW k, NEW c, NEW x \in Nat, NEW m \in Nat, LenAt(x, m) % 2 = 1
  PROVE  MergeTwo(k, StackOf(k, c, x, m)) = StackOf(k, c, x, m + 1)
  <1>. DEFINE h == LenAt(x, m + 1)  s == FirstTops(k, c, x, Ones(x, m + 1))
              u == NodeOf(k, c, m, LenAt(x, m) - 1)  v == NodeOf(k, c, m, LenAt(x, m))
  <1>1. LenAt(x, m) \in Nat /\ h = LenAt(x, m) \div 2
    BY LenAtIs
  <1>2. h \in Nat /\ LenAt(x, m) = 2 * h + 1 /\ LenAt(x, m) - 1 = 2 * h
    <2>. HIDE DEF h
    <2>. QED  BY <1>1
  <1>3. FirstTops(k, c, x, Ones(x, m)) = Append(s, u)
    BY FirstTopsIs
  <1>4. ParentCv(k, u, v) = NodeOf(k, c, m + 1, h)
    <2>. HIDE DEF h
    <2>1. NodeOf(k, c, m + 1, h) = ParentCv(k, NodeOf(k, c, m, 2 * h), NodeOf(k, c, m, 2 * h + 1))
      BY <1>2, NodeIs
    <2>. QED  BY <1>2, <2>1
  <1>5. Ones(x, m + 1) \in Nat
    BY StartIs, m + 1 \in Nat
  <1>6. s = [b \in 1..Ones(x, m + 1) |-> s[b]]
    BY DEF FirstTops
  <1>7. MergeTwo(k, Append(Append(s, u), v)) = Append(s, ParentCv(k, u, v))
    <2>. DEFINE q == Ones(x, m + 1)
    <2>1. q \in Nat /\ IsList(s, q)
      BY <1>5, <1>6 DEF IsList
    <2>. HIDE DEF s, u, v, q
    <2>2. MergesTo(k, s, u, v)
      BY <2>1, MergeTwoIs
    <2>. QED  BY <2>2 DEF MergesTo
  <1>. HIDE DEF s, u, v, h
  <1>. QED  BY <1>3, <1>4, <1>7 DEF StackOf, s, u, v, h

\* The lowest m bits of x are set: the chunk after those of x completes m subtrees.
LEMMA TrailingOnes ==
  ASSUME NEW x \in Nat
  PROVE  \E m \in Nat :
           /\ \A i \in 0..(m - 1) : LenAt(x, i) % 2 = 1
           /\ LenAt(x, m) % 2 # 1
           /\ PopCount(x) = Ones(x, m) + m
           /\ LenAt(x + 1, m) = LenAt(x, m) + 1
           /\ PopCount(x + 1) = Ones(x + 1, m)
  <1>. DEFINE P == {m \in Nat : \A i \in 0..(m - 1) : LenAt(x, i) % 2 = 1}
              Q == {m \in Nat : m \in P => /\ Two[m] * (LenAt(x, m) + 1) = x + 1
                                           /\ PopCount(x) = Ones(x, m) + m}
  <1>1. 0 \in P
    OBVIOUS
  <1>2. 0 \in Q
    <2>1. Two[0] * (LenAt(x, 0) + 1) = x + 1
      <3>1. Two[0] = 1 /\ LenAt(x, 0) = x
        BY TwoIs, LenAtIs, 0 \in Nat
      <3>. QED  BY <3>1
    <2>2. PopCount(x) = Ones(x, 0) + 0
      BY StartIs, 0 \in Nat
    <2>. QED  BY <2>1, <2>2
  <1>3. ASSUME NEW m \in Nat, m \in Q PROVE m + 1 \in Q
    <2>. SUFFICES ASSUME m + 1 \in P
                  PROVE  Two[m + 1] * (LenAt(x, m + 1) + 1) = x + 1 /\ PopCount(x) = Ones(x, m + 1) + (m + 1)
      OBVIOUS
    <2>1. m \in P /\ LenAt(x, m) % 2 = 1
      <3>1. m \in 0..((m + 1) - 1) /\ \A i \in 0..(m - 1) : i \in 0..((m + 1) - 1)
        OBVIOUS
      <3>. QED  BY <3>1
    <2>2. Two[m] * (LenAt(x, m) + 1) = x + 1 /\ PopCount(x) = Ones(x, m) + m
      BY <1>3, <2>1
    <2>3. PopCount(x) = Ones(x, m + 1) + (m + 1)
      <3>1. Ones(x, m) = Ones(x, m + 1) + 1
        BY <2>1, StartIs
      <3>2. Ones(x, m + 1) \in Nat
        BY StartIs, m + 1 \in Nat
      <3>. QED  BY <2>2, <3>1, <3>2
    <2>. DEFINE t == Two[m]  l == LenAt(x, m)  h == LenAt(x, m + 1)
    <2>4. t \in Nat /\ Two[m + 1] = 2 * t
      BY TwoIs
    <2>5. l \in Nat /\ h = l \div 2
      BY LenAtIs
    <2>6. h \in Nat /\ l = 2 * h + 1
      <3>1. l % 2 = 1
        BY <2>1
      <3>. HIDE DEF l, h
      <3>. QED  BY <2>5, <3>1
    <2>7. (2 * t) * (h + 1) = t * (l + 1)
      <3>1. l + 1 = (h + 1) + (h + 1)
        BY <2>6
      <3>. HIDE DEF l, h, t
      <3>2. t * ((h + 1) + (h + 1)) = t * (h + 1) + t * (h + 1) /\ t * (h + 1) \in Int
        BY <2>4, <2>6, TimesSum
      <3>3. (2 * t) * (h + 1) = 2 * (t * (h + 1))
        BY <2>4, <2>6
      <3>. QED  BY <3>1, <3>2, <3>3
    <2>. QED  BY <2>2, <2>3, <2>4, <2>7
  <1>4. Nat \subseteq Q
    <2>. HIDE DEF P, Q
    <2>1. 0 \in Q /\ \A m \in Nat : m \in Q => m + 1 \in Q
      BY <1>2, <1>3
    <2>. QED  BY <2>1, SetInduction
  <1>5. x + 1 \notin P
    <2>. SUFFICES ASSUME x + 1 \in P PROVE FALSE
      OBVIOUS
    <2>. DEFINE t == Two[x + 1]  l == LenAt(x, x + 1)
    <2>1. t * (l + 1) = x + 1
      BY <1>4
    <2>2. t \in Nat /\ t > x + 1
      BY TwoIs, x + 1 \in Nat
    <2>3. l \in Nat
      BY LenAtIs, x + 1 \in Nat
    <2>. HIDE DEF t, l
    <2>4. t * (l + 1) = t * l + t /\ t * l \in Nat
      BY <2>2, <2>3
    <2>. QED  BY <2>1, <2>2, <2>3, <2>4
  <1>6. PICK m \in Nat : m \in P /\ m + 1 \notin P
    <2>. HIDE DEF P
    <2>. QED  BY <1>1, <1>5, SetInduction, x + 1 \in Nat
  <1>7. LenAt(x, m) % 2 # 1
    <2>1. \A i \in 0..((m + 1) - 1) : i = m \/ i \in 0..(m - 1)
      OBVIOUS
    <2>. QED  BY <1>6, <2>1
  <1>8. Two[m] * (LenAt(x, m) + 1) = x + 1 /\ PopCount(x) = Ones(x, m) + m
    BY <1>4, <1>6
  <1>9. LenAt(x + 1, m) = LenAt(x, m) + 1
    <2>1. LenAt(x, m) + 1 \in Nat /\ Two[m] \in Nat /\ Two[m] > 0
      <3>1. LenAt(x, m) \in Nat
        BY LenAtIs
      <3>2. Two[m] \in Nat /\ Two[m] > m
        BY TwoIs
      <3>. QED  BY <3>1, <3>2
    <2>. DEFINE t == Two[m]  l == LenAt(x, m) + 1
    <2>2. x + 1 = t * l + 0
      BY <1>8, <2>1
    <2>3. (x + 1) \div t = l
      <3>. HIDE DEF t, l
      <3>1. t \in Nat /\ t > 0 /\ l \in Nat
        BY <2>1 DEF t, l
      <3>. QED  BY <2>2, <3>1, OneQuotient, x + 1 \in Nat, 0 \in Nat
    <2>. QED  BY <2>3 DEF LenAt
  <1>10. PopCount(x + 1) = Ones(x + 1, m)
    <2>1. Start(x + 1, m) = x + 1
      BY <1>8, <1>9 DEF Start
    <2>2. Start(x + 1, 0) = x + 1 /\ Ones(x + 1, 0) = PopCount(x + 1)
      BY StartIs, x + 1 \in Nat, 0 \in Nat
    <2>3. Ones(x + 1, m) = Ones(x + 1, 0)
      BY <2>1, <2>2, OnesFewer, x + 1 \in Nat, 0 \in Nat, 0 <= m
    <2>. QED  BY <2>2, <2>3
  <1>11. \A i \in 0..(m - 1) : LenAt(x, i) % 2 = 1
    BY <1>6
  <1>. QED  BY <1>7, <1>8, <1>9, <1>10, <1>11

\* The subtrees of one size are merged until there is one of each.
LEMMA StackMerged ==
  ASSUME NEW k, NEW c, NEW x \in Nat
  PROVE  MergeStack(k, StackOf(k, c, x, 0), PopCount(x + 1)) =
           FirstTops(k, c, x + 1, PopCount(x + 1))
  <1>. DEFINE st == StackOf(k, c, x, 0)  post == PopCount(x + 1)
              M == CHOOSE g : IsMerged(g, k, st, post)
  <1>1. PICK m \in Nat :
          /\ \A i \in 0..(m - 1) : LenAt(x, i) % 2 = 1
          /\ LenAt(x, m) % 2 # 1
          /\ PopCount(x) = Ones(x, m) + m
          /\ LenAt(x + 1, m) = LenAt(x, m) + 1
          /\ PopCount(x + 1) = Ones(x + 1, m)
    BY TrailingOnes
  <1>2. Ones(x, m) = Ones(x, m + 1) /\ LenAt(x, m) \in Nat /\ LenAt(x, m + 1) = LenAt(x, m) \div 2
    BY <1>1, StartIs, LenAtIs
  <1>3. LenAt(x + 1, m) % 2 = 1 /\ LenAt(x + 1, m + 1) = LenAt(x, m + 1) /\ LenAt(x + 1, m) - 1 = LenAt(x, m)
    <2>1. LenAt(x + 1, m + 1) = LenAt(x + 1, m) \div 2
      BY LenAtIs, x + 1 \in Nat
    <2>. DEFINE l == LenAt(x, m)  r == LenAt(x + 1, m)
    <2>2. l \in Nat /\ r = l + 1 /\ l % 2 # 1
      BY <1>1, <1>2
    <2>3. r % 2 = 1 /\ r \div 2 = l \div 2 /\ r - 1 = l
      <3>. HIDE DEF l, r
      <3>. QED  BY <2>2
    <2>. QED  BY <1>2, <2>1, <2>3
  <1>4. Ones(x + 1, m) = Ones(x + 1, m + 1) + 1 /\ Ones(x + 1, m + 1) = Ones(x, m + 1)
    <2>1. Ones(x + 1, m) = Ones(x + 1, m + 1) + 1
      BY <1>3, StartIs, x + 1 \in Nat
    <2>. QED  BY <1>3, <2>1 DEF Ones
  <1>5. StackOf(k, c, x, m) = FirstTops(k, c, x + 1, post)
    <2>1. FirstTops(k, c, x + 1, Ones(x + 1, m)) =
            Append(FirstTops(k, c, x + 1, Ones(x + 1, m + 1)), NodeOf(k, c, m, LenAt(x + 1, m) - 1))
      <3>. DEFINE y == x + 1
      <3>1. y \in Nat /\ LenAt(y, m) % 2 = 1
        BY <1>3
      <3>. HIDE DEF y
      <3>2. LenAt(y, m) % 2 = 1 =>
              FirstTops(k, c, y, Ones(y, m)) =
                Append(FirstTops(k, c, y, Ones(y, m + 1)), NodeOf(k, c, m, LenAt(y, m) - 1))
        BY ONLY <3>1, FirstTopsMore, m \in Nat
      <3>. QED  BY <3>1, <3>2 DEF y
    <2>2. FirstTops(k, c, x, Ones(x, m + 1)) = FirstTops(k, c, x + 1, Ones(x + 1, m + 1))
      BY <1>3, SameAbove, x + 1 \in Nat, m + 1 \in Nat
    <2>. QED  BY <1>1, <1>2, <1>3, <2>1, <2>2 DEF StackOf
  <1>6. Len(st) - post = m
    <2>. DEFINE q == Ones(x, 0)  s == FirstTops(k, c, x, q)  v == NodeOf(k, c, 0, LenAt(x, 0))
    <2>1. q = PopCount(x) /\ q \in Nat /\ Ones(x, m + 1) \in Nat
      BY StartIs, 0 \in Nat, m + 1 \in Nat
    <2>2. s = [b \in 1..q |-> s[b]]
      BY DEF FirstTops
    <2>3. st = Append(s, v)
      BY DEF StackOf
    <2>4. Len(st) = q + 1
      <3>. HIDE DEF s, v, q, st
      <3>1. Append(s, v) = Longer(s, v, q)
        BY <2>1, <2>2, AppendIs
      <3>2. Longer(s, v, q) = [b \in 1..(q + 1) |-> Longer(s, v, q)[b]] /\ q + 1 \in Nat
        BY <2>1 DEF Longer
      <3>3. Len(Longer(s, v, q)) = q + 1
        BY <3>2, AppendIs
      <3>. QED  BY <2>3, <3>1, <3>3
    <2>. DEFINE r == Ones(x, m + 1)
    <2>5. r \in Nat /\ post = r + 1 /\ q = r + m
      BY <1>1, <1>2, <1>4, <2>1
    <2>. HIDE DEF q, st, post, r
    <2>. QED  BY <2>4, <2>5
  <1>. HIDE DEF st
  <1>. DEFINE W == [i \in 0..m |-> StackOf(k, c, x, i)]
  <1>7. ASSUME NEW i \in 0..m, i # 0
        PROVE  MergeTwo(k, StackOf(k, c, x, i - 1)) = StackOf(k, c, x, i) /\ i - 1 \in 0..m
    <2>1. i - 1 \in Nat /\ i - 1 \in 0..(m - 1) /\ i - 1 \in 0..m /\ (i - 1) + 1 = i
      BY <1>7
    <2>2. LenAt(x, i - 1) % 2 = 1
      BY <1>1, <2>1
    <2>3. MergeTwo(k, StackOf(k, c, x, i - 1)) = StackOf(k, c, x, (i - 1) + 1)
      BY <2>1, <2>2, OneMerge
    <2>. QED  BY <2>1, <2>3
  <1>8. IsMerged(W, k, st, post)
    <2>1. \A i \in 0..m : W[i] = StackOf(k, c, x, i)
      OBVIOUS
    <2>2. W = [i \in 0..m |-> W[i]]
      OBVIOUS
    <2>. HIDE DEF W
    <2>3. \A i \in 0..m : W[i] = IF i = 0 THEN st ELSE MergeTwo(k, W[i - 1])
      BY <1>7, <2>1 DEF st
    <2>. QED  BY <1>6, <2>2, <2>3 DEF IsMerged
  <1>. HIDE DEF W
  <1>9. IsMerged(M, k, st, post)
    BY <1>8
  <1>10. MergeStack(k, st, post) = M[m]
    BY <1>6 DEF MergeStack, IsMerged, MergeTwo
  <1>. HIDE DEF M
  <1>. DEFINE P == {i \in Nat : i \in 0..m => M[i] = StackOf(k, c, x, i)}
  <1>11. M[0] = st /\ \A i \in 0..m : i # 0 => M[i] = MergeTwo(k, M[i - 1])
    BY <1>6, <1>9, 0 \in 0..m DEF IsMerged
  <1>12. 0 \in P
    BY <1>11 DEF st
  <1>13. ASSUME NEW i \in Nat, i \in P PROVE i + 1 \in P
    <2>. SUFFICES ASSUME i + 1 \in 0..m PROVE M[i + 1] = StackOf(k, c, x, i + 1)
      OBVIOUS
    <2>1. i \in 0..m /\ i + 1 # 0 /\ (i + 1) - 1 = i
      OBVIOUS
    <2>2. M[i + 1] = MergeTwo(k, M[i]) /\ M[i] = StackOf(k, c, x, i)
      BY <1>11, <1>13, <2>1
    <2>. QED  BY <1>7, <2>1, <2>2
  <1>14. Nat \subseteq P
    <2>. HIDE DEF P
    <2>. QED  BY <1>12, <1>13, SetInduction
  <1>15. M[m] = StackOf(k, c, x, m)
    BY <1>14, m \in 0..m
  <1>. QED  BY <1>5, <1>10, <1>15 DEF st

\* The equation of the stack before each chunk.
IsStack(g, k, c, n) ==
  g = [i \in 0..n |-> IF i = 0 THEN <<>>
                      ELSE Append(MergeStack(k, g[i - 1], PopCount(i - 1)), ChunkCv(k, i - 1, c[i - 1]))]

\* Without a tree the root is that of the whole tree as well.
LEMMA StackRight ==
  ASSUME NEW k, NEW c, NEW n \in Nat, n > 1
  PROVE  StackRoot(k, c, n) = Blake3Root(k, c, n)
  <1>. DEFINE W == [i \in 0..n |-> IF i = 0 THEN <<>> ELSE StackOf(k, c, i - 1, 0)]
              F == CHOOSE g : IsStack(g, k, c, n)
  <1>1. ASSUME NEW x \in Nat
        PROVE  StackOf(k, c, x, 0) = Append(FirstTops(k, c, x, PopCount(x)), ChunkCv(k, x, c[x]))
    <2>1. Ones(x, 0) = PopCount(x) /\ LenAt(x, 0) = x
      BY StartIs, LenAtIs, 0 \in Nat
    <2>2. NodeOf(k, c, 0, x) = ChunkCv(k, x, c[x])
      BY NodeIs
    <2>. QED  BY <2>1, <2>2 DEF StackOf
  <1>2. MergeStack(k, <<>>, PopCount(0)) = FirstTops(k, c, 0, PopCount(0))
    <2>1. PopCount(0) = 0 /\ Len(<<>>) - 0 = 0
      BY PopCountIs
    <2>. DEFINE v == [m \in 0..0 |-> <<>>]  M == CHOOSE g : IsMerged(g, k, <<>>, 0)
    <2>2. IsMerged(v, k, <<>>, 0)
      <3>1. \A m \in 0..0 : m = 0
        OBVIOUS
      <3>. QED  BY <2>1, <3>1 DEF IsMerged
    <2>. HIDE DEF v
    <2>3. IsMerged(M, k, <<>>, 0)
      BY <2>2
    <2>4. MergeStack(k, <<>>, 0) = M[0]
      BY <2>1 DEF MergeStack, IsMerged, MergeTwo
    <2>. HIDE DEF M
    <2>5. M[0] = <<>>
      BY <2>1, <2>3, 0 \in 0..0 DEF IsMerged
    <2>6. FirstTops(k, c, 0, 0) = <<>>
      BY DEF FirstTops
    <2>. QED  BY <2>1, <2>4, <2>5, <2>6
  <1>3. ASSUME NEW i \in 0..n, i # 0, NEW g,
               i - 1 = 0 => g = <<>>, i - 1 # 0 => g = StackOf(k, c, (i - 1) - 1, 0)
        PROVE  Append(MergeStack(k, g, PopCount(i - 1)), ChunkCv(k, i - 1, c[i - 1])) =
                 StackOf(k, c, i - 1, 0)
    <2>1. i - 1 \in Nat
      BY <1>3
    <2>2. MergeStack(k, g, PopCount(i - 1)) = FirstTops(k, c, i - 1, PopCount(i - 1))
      <3>1. CASE i - 1 = 0
        BY <1>2, <1>3, <3>1
      <3>2. CASE i - 1 # 0
        <4>1. (i - 1) - 1 \in Nat /\ ((i - 1) - 1) + 1 = i - 1
          BY <2>1, <3>2
        <4>2. ASSUME NEW y \in Nat
              PROVE  MergeStack(k, StackOf(k, c, y, 0), PopCount(y + 1)) =
                       FirstTops(k, c, y + 1, PopCount(y + 1))
          BY StackMerged
        <4>. DEFINE y == (i - 1) - 1
        <4>3. y \in Nat /\ y + 1 = i - 1 /\ g = StackOf(k, c, y, 0)
          BY <1>3, <3>2, <4>1
        <4>4. MergeStack(k, g, PopCount(y + 1)) = FirstTops(k, c, y + 1, PopCount(y + 1))
          <5>. HIDE DEF y
          <5>. QED  BY <4>2, <4>3
        <4>. QED  BY <4>3, <4>4
      <3>. QED  BY <3>1, <3>2
    <2>. QED  BY <1>1, <2>1, <2>2
  <1>4. IsStack(W, k, c, n)
    <2>1. W = [i \in 0..n |-> W[i]] /\ \A i \in 0..n : W[i] = IF i = 0 THEN <<>> ELSE StackOf(k, c, i - 1, 0)
      OBVIOUS
    <2>. HIDE DEF W
    <2>2. ASSUME NEW i \in 0..n, i # 0
          PROVE  W[i] = Append(MergeStack(k, W[i - 1], PopCount(i - 1)), ChunkCv(k, i - 1, c[i - 1]))
      <3>1. i - 1 \in 0..n
        BY <2>2
      <3>. QED  BY <1>3, <2>1, <2>2, <3>1
    <2>3. \A i \in 0..n : i = 0 => W[i] = <<>>
      BY <2>1
    <2>. QED  BY <2>1, <2>2, <2>3 DEF IsStack
  <1>. HIDE DEF W
  <1>5. IsStack(F, k, c, n)
    BY <1>4
  <1>6. StackRoot(k, c, n) = MergedFromRight(k, F[n])
    BY DEF StackRoot, IsStack
  <1>. HIDE DEF F
  <1>. DEFINE P == {i \in Nat : i \in 0..n => F[i] = IF i = 0 THEN <<>> ELSE StackOf(k, c, i - 1, 0)}
  <1>7. F[0] = <<>> /\ \A i \in 0..n : i # 0 =>
          F[i] = Append(MergeStack(k, F[i - 1], PopCount(i - 1)), ChunkCv(k, i - 1, c[i - 1]))
    BY <1>5, 0 \in 0..n DEF IsStack
  <1>8. 0 \in P
    BY <1>7
  <1>9. ASSUME NEW i \in Nat, i \in P PROVE i + 1 \in P
    <2>. SUFFICES ASSUME i + 1 \in 0..n PROVE F[i + 1] = StackOf(k, c, (i + 1) - 1, 0)
      OBVIOUS
    <2>1. i \in 0..n /\ i + 1 # 0 /\ (i + 1) - 1 = i
      OBVIOUS
    <2>2. F[i] = IF i = 0 THEN <<>> ELSE StackOf(k, c, i - 1, 0)
      BY <1>9, <2>1
    <2>3. F[i + 1] = Append(MergeStack(k, F[(i + 1) - 1], PopCount((i + 1) - 1)),
                            ChunkCv(k, (i + 1) - 1, c[(i + 1) - 1]))
      BY <1>7, <2>1
    <2>4. Append(MergeStack(k, F[(i + 1) - 1], PopCount((i + 1) - 1)), ChunkCv(k, (i + 1) - 1, c[(i + 1) - 1]))
            = StackOf(k, c, (i + 1) - 1, 0)
      BY <1>3, <2>1, <2>2
    <2>. QED  BY <2>3, <2>4
  <1>10. Nat \subseteq P
    <2>. HIDE DEF P
    <2>. QED  BY <1>8, <1>9, SetInduction
  <1>. DEFINE x == n - 1  p == PopCount(x)  s == FirstTops(k, c, x, p)  v == ChunkCv(k, x, c[x])
              T == Append(s, v)
  <1>11. x \in Nat /\ x > 0 /\ x + 1 = n
    OBVIOUS
  <1>12. F[n] = T
    <2>1. F[n] = StackOf(k, c, x, 0)
      BY <1>10, n \in 0..n
    <2>. QED  BY <1>1, <1>11, <2>1
  <1>. HIDE DEF x
  <1>13. p \in Nat /\ p > 0
    BY <1>11, PlaceIs
  <1>14. T = Longer(s, v, p) /\ Len(T) = p + 1
    <2>1. s = [b \in 1..p |-> s[b]]
      BY DEF FirstTops
    <2>. HIDE DEF s, v, p
    <2>2. Append(s, v) = Longer(s, v, p)
      BY <1>13, <2>1, AppendIs
    <2>3. Longer(s, v, p) = [b \in 1..(p + 1) |-> Longer(s, v, p)[b]] /\ p + 1 \in Nat
      BY <1>13 DEF Longer
    <2>4. Len(Longer(s, v, p)) = p + 1
      BY <2>3, AppendIs
    <2>. QED  BY <2>2, <2>4
  <1>15. IsTops(T, k, c, x)
    <2>. SUFFICES ASSUME NEW j \in Nat, LenAt(x, j) % 2 = 1
                  PROVE  T[Ones(x, j)] = NodeOf(k, c, j, LenAt(x, j) - 1)
      BY DEF IsTops
    <2>1. Ones(x, j) \in 1..p
      <3>1. Ones(x, j) = Ones(x, j + 1) + 1 /\ Ones(x, j) \in Nat
        BY <1>11, StartIs
      <3>2. Ones(x, j + 1) \in Nat
        BY <1>11, StartIs, j + 1 \in Nat
      <3>3. Ones(x, 0) = PopCount(x)
        BY <1>11, StartIs, 0 \in Nat
      <3>4. Ones(x, j) <= Ones(x, 0)
        BY <1>11, OnesFewer, 0 \in Nat
      <3>. QED  BY <1>13, <3>1, <3>2, <3>3, <3>4
    <2>2. IsTops(s, k, c, x)
      <3>1. \A m \in Nat : m >= PopCount(x) => IsTops(FirstTops(k, c, x, m), k, c, x)
        BY <1>11, FirstTopsIs
      <3>. QED  BY <1>13, <3>1
    <2>3. s[Ones(x, j)] = NodeOf(k, c, j, LenAt(x, j) - 1)
      BY <2>2 DEF IsTops
    <2>4. T[Ones(x, j)] = s[Ones(x, j)]
      <3>. DEFINE b == Ones(x, j)
      <3>. HIDE DEF s, v, p, T, b
      <3>1. b \in 1..p
        BY <2>1 DEF b
      <3>2. b \in 1..(p + 1) /\ b <= p
        BY <1>13, <3>1
      <3>. QED  BY <1>14, <3>2 DEF Longer, b
    <2>. QED  BY <2>3, <2>4
  <1>16. T[Len(T)] = KeyedCvs(k, c)[1][x]
    <2>1. KeyedCvs(k, c)[1][x] = v
      BY <1>11, CvsAre
    <2>2. T[p + 1] = v
      <3>. HIDE DEF s, v, p, T
      <3>1. p + 1 \in 1..(p + 1) /\ ~(p + 1 <= p)
        BY <1>13
      <3>. QED  BY <1>14, <3>1 DEF Longer
    <2>. HIDE DEF T
    <2>. QED  BY <1>14, <2>1, <2>2
  <1>17. MergedFromRight(k, T) = Blake3Root(k, c, x + 1)
    <2>1. Len(T) = PopCount(x) + 1 /\ Len(T) > 1 /\ 1 \in {0, 1}
      BY <1>13, <1>14
    <2>. HIDE DEF T
    <2>. QED  BY <1>11, <1>15, <1>16, <2>1, TopsMerged
  <1>. QED  BY <1>6, <1>11, <1>12, <1>17

-----------------------------------------------------------------------------
\* A quotient of no more than so many times the divisor.
LEMMA QuotientAtMost ==
  ASSUME NEW a \in Nat, NEW n \in Nat, n > 0, NEW q \in Nat, a <= n * q
  PROVE  a \div n \in Nat /\ a \div n <= q
  <1>. DEFINE d == a \div n  r == a % n
  <1>1. d \in Nat /\ r \in Nat /\ a = n * d + r
    BY Division
  <1>. HIDE DEF d, r
  <1>2. n * d <= n * q
    <2>1. n * d \in Nat /\ n * q \in Nat
      BY <1>1
    <2>. QED  BY <1>1, <2>1
  <1>3. d <= q
    <2>. SUFFICES ASSUME q + 1 <= d PROVE FALSE
      BY <1>1
    <2>1. n * (q + 1) <= n * d /\ n * (q + 1) \in Int /\ n * d \in Int
      BY <1>1, TimesMonotone, q + 1 \in Int
    <2>2. n * (q + 1) = n * q + n /\ n * q \in Nat
      OBVIOUS
    <2>. QED  BY <1>2, <2>1, <2>2
  <1>. QED  BY <1>1, <1>3 DEF d

\* The jobs of a level have all its groups.
AllGroups(nc, groups) == UNION {JobGroups(t, nc, groups) : t \in 0..(nc - 1)}
LEMMA GroupsAre ==
  ASSUME NEW nc \in Nat, nc > 0, NEW groups \in Nat
  PROVE  AllGroups(nc, groups) = 0..(groups - 1)
  <1>. DEFINE Q(t) == (groups * t) \div nc
  <1>1. ASSUME NEW t \in Nat PROVE Q(t) \in Nat
    BY Products, Division
  <1>2. Q(0) = 0 /\ Q(nc) = groups
    <2>1. groups * 0 = nc * 0 + 0 /\ groups * nc = nc * groups + 0 /\ groups * 0 \in Nat /\ groups * nc \in Nat
      OBVIOUS
    <2>. QED  BY <2>1, OneQuotient, 0 \in Nat
  <1>3. ASSUME NEW t \in Nat, t <= nc PROVE Q(t) <= groups
    <2>1. groups * t <= groups * nc /\ groups * nc = nc * groups /\ groups * t \in Nat
      BY <1>3, TimesMonotone, Products
    <2>. QED  BY <2>1, QuotientAtMost
  <1>. HIDE DEF Q
  <1>4. ASSUME NEW t \in 0..(nc - 1), NEW g \in Q(t)..(Q(t + 1) - 1) PROVE g \in 0..(groups - 1)
    <2>1. Q(t) \in Nat /\ Q(t + 1) \in Nat /\ Q(t + 1) <= groups
      BY <1>1, <1>3, t \in Nat, t + 1 \in Nat, t + 1 <= nc
    <2>. QED  BY <2>1
  <1>5. ASSUME NEW g \in 0..(groups - 1) PROVE \E t \in 0..(nc - 1) : g \in Q(t)..(Q(t + 1) - 1)
    <2>. DEFINE P == {t \in Nat : t < nc /\ Q(t) <= g}
    <2>1. 0 \in P /\ nc \notin P
      BY <1>2
    <2>2. PICK t \in Nat : t \in P /\ t + 1 \notin P
      <3>. HIDE DEF P
      <3>. QED  BY <2>1, SetInduction
    <2>3. t < nc /\ Q(t) <= g /\ ~(t + 1 < nc /\ Q(t + 1) <= g)
      BY <2>2
    <2>4. Q(t) \in Nat /\ Q(t + 1) \in Nat
      BY <1>1, t + 1 \in Nat
    <2>5. g < Q(t + 1)
      <3>1. CASE t + 1 < nc
        BY <2>3, <2>4, <3>1
      <3>2. CASE ~(t + 1 < nc)
        <4>1. t + 1 = nc
          BY <2>3, <3>2
        <4>. QED  BY <1>2, <4>1
      <3>. QED  BY <3>1, <3>2
    <2>. QED  BY <2>3, <2>4, <2>5
  <1>6. \A t : JobGroups(t, nc, groups) = Q(t)..(Q(t + 1) - 1)
    BY DEF JobGroups, Q
  <1>. QED  BY <1>4, <1>5, <1>6 DEF AllGroups

\* The jobs of a level write all its nodes.
LEMMA AllWritten ==
  ASSUME NEW len \in Nat, NEW per \in Nat, per > 0
  PROVE  Written(len, per) = 0..(len - 1)
  <1>. DEFINE groups == len \div per  rest == len % per
              nc == IF groups = 0 THEN 1 ELSE IF Threads < groups THEN Threads ELSE groups
  <1>1. groups \in Nat /\ rest \in Nat /\ rest < per /\ len = per * groups + rest
    BY Division
  <1>2. nc \in Nat /\ nc > 0
    BY <1>1, DeviceAssumption
  <1>3. AllGroups(nc, groups) = 0..(groups - 1)
    BY <1>1, <1>2, GroupsAre
  <1>4. Written(len, per) = {g * per + i : g \in AllGroups(nc, groups), i \in 0..(per - 1)}
                              \cup {groups * per + i : i \in 0..(rest - 1)}
    BY DEF Written, AllGroups
  <1>. HIDE DEF groups, rest, nc
  <1>5. per * groups \in Nat /\ groups * per = per * groups
    BY <1>1
  <1>6. ASSUME NEW g \in 0..(groups - 1), NEW i \in 0..(per - 1) PROVE g * per + i \in 0..(len - 1)
    <2>1. per * (g + 1) <= per * groups /\ per * (g + 1) = g * per + per /\ g * per \in Nat
      <3>1. g + 1 \in Int /\ groups \in Int /\ g + 1 <= groups
        BY <1>1
      <3>2. per * (g + 1) <= per * groups
        BY <3>1, TimesMonotone
      <3>. QED  BY <3>2
    <2>. QED  BY <1>1, <1>5, <2>1
  <1>7. ASSUME NEW i \in 0..(rest - 1) PROVE groups * per + i \in 0..(len - 1)
    BY <1>1, <1>5
  <1>8. ASSUME NEW v \in 0..(len - 1)
        PROVE  \/ \E g \in 0..(groups - 1) : \E i \in 0..(per - 1) : v = g * per + i
               \/ \E i \in 0..(rest - 1) : v = groups * per + i
    <2>. DEFINE g == v \div per  i == v % per
    <2>1. g \in Nat /\ i \in Nat /\ i < per /\ v = per * g + i
      BY Division, v \in Nat
    <2>. HIDE DEF g, i
    <2>2. per * g \in Nat /\ per * g = g * per
      BY <2>1
    <2>3. CASE g < groups
      BY <1>1, <2>1, <2>2, <2>3
    <2>4. CASE ~(g < groups)
      <3>1. per * groups <= per * g
        BY <1>1, <2>1, <2>4, TimesMonotone
      <3>2. v - per * groups \in 0..(rest - 1) /\ v = groups * per + (v - per * groups)
        BY <1>1, <1>5, <2>1, <2>2, <3>1
      <3>. QED  BY <3>2
    <2>. QED  BY <2>3, <2>4
  <1>9. \A v : v \in Written(len, per) <=>
          \/ \E g \in 0..(groups - 1) : \E i \in 0..(per - 1) : v = g * per + i
          \/ \E i \in 0..(rest - 1) : v = groups * per + i
    <2>1. \A v : v \in {g * per + i : g \in 0..(groups - 1), i \in 0..(per - 1)} <=>
                  \E g \in 0..(groups - 1) : \E i \in 0..(per - 1) : v = g * per + i
      OBVIOUS
    <2>2. \A v : v \in {groups * per + i : i \in 0..(rest - 1)} <=>
                  \E i \in 0..(rest - 1) : v = groups * per + i
      OBVIOUS
    <2>. DEFINE X == {g * per + i : g \in 0..(groups - 1), i \in 0..(per - 1)}
                Y == {groups * per + i : i \in 0..(rest - 1)}
    <2>3. Written(len, per) = X \cup Y
      BY <1>3, <1>4
    <2>. HIDE DEF X, Y
    <2>4. \A v : v \in Written(len, per) <=> v \in X \/ v \in Y
      BY <2>3
    <2>. QED  BY <2>1, <2>2, <2>4 DEF X, Y
  <1>10. \A v : v \in Written(len, per) <=> v \in 0..(len - 1)
    <2>1. ASSUME NEW v \in 0..(len - 1) PROVE v \in Written(len, per)
      BY <1>8, <1>9
    <2>2. ASSUME NEW v \in Written(len, per) PROVE v \in 0..(len - 1)
      <3>1. CASE \E g \in 0..(groups - 1) : \E i \in 0..(per - 1) : v = g * per + i
        BY <1>6, <3>1
      <3>2. CASE \E i \in 0..(rest - 1) : v = groups * per + i
        BY <1>7, <3>2
      <3>. QED  BY <1>9, <3>1, <3>2
    <2>. QED  BY <2>1, <2>2
  <1>. QED  BY <1>10

-----------------------------------------------------------------------------
\* The equation of the offsets.
IsOffset(f, n) ==
  f = [j \in Nat |-> IF j = 0 THEN 0 ELSE f[j - 1] + (((n \div Two[j - 1]) + 3) \div 4) * 4]

\* A level lies before the next one.
LEMMA OffsetsAre ==
  ASSUME NEW n \in Nat
  PROVE  \A j \in Nat :
           /\ LevelOffset(n)[j] \in Nat
           /\ LevelOffset(n)[j] + LenAt(n, j) <= LevelOffset(n)[j + 1]
  <1>. DEFINE Pad(j) == ((LenAt(n, j) + 3) \div 4) * 4
              op == [x \in Nat \X Nat |-> x[2] + Pad(x[1])]
  <1>1. ASSUME NEW j \in Nat PROVE Pad(j) \in Nat /\ LenAt(n, j) <= Pad(j) /\ LenAt(n, j) \in Nat
    <2>1. LenAt(n, j) \in Nat
      BY LenAtIs
    <2>. DEFINE l == LenAt(n, j)
    <2>. HIDE DEF l
    <2>2. ((l + 3) \div 4) * 4 \in Nat /\ l <= ((l + 3) \div 4) * 4
      <3>1. l \in Nat
        BY <2>1 DEF l
      <3>. QED  BY <3>1
    <2>. QED  BY <2>1, <2>2 DEF l
  <1>. HIDE DEF Pad
  <1>2. op \in [Nat \X Nat -> Nat] /\ \A j, a \in Nat : op[<<j, a>>] = a + Pad(j)
    BY <1>1
  <1>. HIDE DEF op
  <1>3. PICK f \in [Nat -> Nat] : f[0] = 0 /\ \A j \in Nat : f[j + 1] = op[<<j, f[j]>>]
    <2>1. Recursive(Nat, 0, op)
      BY <1>2 DEF Recursive
    <2>2. HasFunction(Nat, 0, op)
      BY <2>1, NatRecursion
    <2>. QED  BY <2>2 DEF HasFunction
  <1>4. \A j \in Nat : f[j + 1] = f[j] + Pad(j)
    BY <1>2, <1>3
  <1>5. IsOffset(f, n)
    <2>1. ASSUME NEW j \in Nat, j # 0 PROVE f[j] = f[j - 1] + Pad(j - 1)
      <3>1. j - 1 \in Nat /\ (j - 1) + 1 = j
        BY <2>1
      <3>. QED  BY <1>4, <3>1
    <2>2. f = [j \in Nat |-> f[j]]
      OBVIOUS
    <2>3. \A j \in Nat : f[j] = IF j = 0 THEN 0 ELSE f[j - 1] + Pad(j - 1)
      BY <1>3, <2>1
    <2>. QED  BY <2>2, <2>3 DEF IsOffset, Pad, LenAt
  <1>. DEFINE g == LevelOffset(n)
  <1>6. IsOffset(g, n)
    <2>1. g = CHOOSE x : IsOffset(x, n)
      BY DEF LevelOffset, IsOffset
    <2>. HIDE DEF g
    <2>. QED  BY <1>5, <2>1
  <1>. HIDE DEF g
  <1>7. g[0] = 0 /\ \A j \in Nat : g[j + 1] = g[j] + Pad(j)
    <2>1. \A j \in Nat : j + 1 \in Nat /\ j + 1 # 0 /\ (j + 1) - 1 = j
      OBVIOUS
    <2>2. \A j \in Nat : g[j] = IF j = 0 THEN 0 ELSE g[j - 1] + Pad(j - 1)
      BY <1>6 DEF IsOffset, Pad, LenAt
    <2>. HIDE DEF Pad
    <2>3. g[0] = 0
      BY <2>2
    <2>4. ASSUME NEW j \in Nat PROVE g[j + 1] = g[j] + Pad(j)
      <3>1. g[j + 1] = IF j + 1 = 0 THEN 0 ELSE g[(j + 1) - 1] + Pad((j + 1) - 1)
        BY <2>2
      <3>. QED  BY <2>1, <3>1
    <2>. QED  BY <2>3, <2>4
  <1>. DEFINE P == {j \in Nat : g[j] \in Nat}
  <1>8. Nat \subseteq P
    <2>1. 0 \in P
      BY <1>7
    <2>2. ASSUME NEW j \in Nat, j \in P PROVE j + 1 \in P
      <3>1. g[j] \in Nat /\ Pad(j) \in Nat /\ g[j + 1] = g[j] + Pad(j)
        BY <1>1, <1>7, <2>2
      <3>. QED  BY <3>1
    <2>. HIDE DEF P
    <2>. QED  BY <2>1, <2>2, SetInduction
  <1>9. \A j \in Nat : g[j] \in Nat /\ g[j] + LenAt(n, j) <= g[j + 1]
    BY <1>1, <1>7, <1>8
  <1>. QED  BY <1>9 DEF g

\* Where the nodes of a level are in the memory of the tree, and the node that is at an
\* address of the level that has it.
NodePlaces(n, j) == {LevelOffset(n)[j] + i : i \in Nodes(n, j)}
LevelAt(n, a) == CHOOSE j \in Nat : a \in NodePlaces(n, j)
NodeAt(k, c, n, a) == NodeOf(k, c, LevelAt(n, a), a - LevelOffset(n)[LevelAt(n, a)])

\* No two levels have the same address.
LEMMA PlacesAre ==
  ASSUME NEW n \in Nat, NEW j \in Nat, NEW i \in Nodes(n, j)
  PROVE  /\ i \in Nat /\ LevelOffset(n)[j] + i \in NodePlaces(n, j)
         /\ (LevelOffset(n)[j] + i) - LevelOffset(n)[j] = i
         /\ LevelAt(n, LevelOffset(n)[j] + i) = j
  <1>. DEFINE off == LevelOffset(n)
  <1>1. \A m \in Nat : off[m] \in Nat /\ off[m] + LenAt(n, m) <= off[m + 1]
    BY OffsetsAre
  <1>2. \A m \in Nat : LenAt(n, m) \in Nat /\ \A v : v \in Nodes(n, m) <=> v \in Nat /\ v < LenAt(n, m)
    BY LenAtIs, NodesAre
  <1>3. \A m : NodePlaces(n, m) = {off[m] + v : v \in Nodes(n, m)}
    BY DEF NodePlaces
  <1>. HIDE DEF off
  <1>4. ASSUME NEW x \in Nat, NEW y \in Nat, x < y PROVE off[x] + LenAt(n, x) <= off[y]
    <2>. DEFINE P == {d \in Nat : off[x] + LenAt(n, x) <= off[(x + 1) + d]}
    <2>1. 0 \in P
      BY <1>1, (x + 1) + 0 = x + 1
    <2>2. ASSUME NEW d \in Nat, d \in P PROVE d + 1 \in P
      <3>. DEFINE z == (x + 1) + d
      <3>1. z \in Nat /\ (x + 1) + (d + 1) = z + 1 /\ z + 1 \in Nat
        OBVIOUS
      <3>2. off[x] + LenAt(n, x) <= off[z]
        BY <2>2
      <3>. HIDE DEF z
      <3>3. off[z] \in Nat /\ off[z + 1] \in Nat /\ off[x] \in Nat /\ LenAt(n, z) \in Nat /\ LenAt(n, x) \in Nat
            /\ off[z] + LenAt(n, z) <= off[z + 1]
        BY <1>1, <1>2, <3>1
      <3>4. off[x] + LenAt(n, x) <= off[z + 1]
        BY <3>2, <3>3
      <3>. QED  BY <3>1, <3>4
    <2>3. Nat \subseteq P
      <3>. HIDE DEF P
      <3>. QED  BY <2>1, <2>2, SetInduction
    <2>4. y - (x + 1) \in Nat /\ (x + 1) + (y - (x + 1)) = y
      BY <1>4
    <2>5. y - (x + 1) \in P
      BY <2>3, <2>4
    <2>. QED  BY <2>4, <2>5
  <1>. DEFINE a == off[j] + i
  <1>5. i \in Nat /\ i < LenAt(n, j) /\ a \in NodePlaces(n, j) /\ a - off[j] = i /\ a \in Nat
    <2>1. i \in Nat /\ i < LenAt(n, j) /\ off[j] \in Nat
      BY <1>1, <1>2
    <2>2. a \in NodePlaces(n, j)
      BY <1>3
    <2>. QED  BY <2>1, <2>2
  <1>6. ASSUME NEW m \in Nat, a \in NodePlaces(n, m) PROVE m = j
    <2>1. PICK v \in Nodes(n, m) : a = off[m] + v
      BY <1>3, <1>6
    <2>2. v \in Nat /\ v < LenAt(n, m) /\ off[m] \in Nat /\ off[j] \in Nat
          /\ LenAt(n, m) \in Nat /\ LenAt(n, j) \in Nat
      BY <1>1, <1>2
    <2>3. ~(m < j)
      <3>. SUFFICES ASSUME m < j PROVE FALSE
        OBVIOUS
      <3>1. off[m] + LenAt(n, m) <= off[j]
        BY <1>4
      <3>. QED  BY <1>5, <2>1, <2>2, <3>1
    <2>4. ~(j < m)
      <3>. SUFFICES ASSUME j < m PROVE FALSE
        OBVIOUS
      <3>1. off[j] + LenAt(n, j) <= off[m]
        BY <1>4
      <3>. QED  BY <1>5, <2>1, <2>2, <3>1
    <2>. QED  BY <2>3, <2>4
  <1>7. LevelAt(n, a) = j
    <2>. HIDE DEF a
    <2>. QED  BY <1>5, <1>6 DEF LevelAt
  <1>. QED  BY <1>5, <1>7 DEF off

\* The memory with the levels up to j.
MemoryOf(k, c, n, j) == [a \in UNION {NodePlaces(n, i) : i \in 0..j} |-> NodeAt(k, c, n, a)]

LEMMA MemoryIs ==
  ASSUME NEW k, NEW c, NEW n \in Nat, NEW j \in Nat
  PROVE  /\ \A m \in Nat : j <= m => Read(MemoryOf(k, c, n, m), n, j) = LevelOf(k, c, n, j)
         /\ Stored(n, 0, LevelOf(k, c, n, 0)) = MemoryOf(k, c, n, 0)
         /\ Rehashed(Stored(n, j + 1, LevelOf(k, c, n, j + 1)), MemoryOf(k, c, n, j))
              = MemoryOf(k, c, n, j + 1)
  <1>. DEFINE off == LevelOffset(n)
  <1>1. ASSUME NEW m \in Nat, NEW i \in Nodes(n, m)
        PROVE  off[m] + i \in NodePlaces(n, m) /\ NodeAt(k, c, n, off[m] + i) = NodeOf(k, c, m, i)
    BY PlacesAre DEF NodeAt
  <1>2. ASSUME NEW m \in Nat, j <= m PROVE Read(MemoryOf(k, c, n, m), n, j) = LevelOf(k, c, n, j)
    <2>1. ASSUME NEW i \in Nodes(n, j)
          PROVE  /\ off[j] + i \in DOMAIN MemoryOf(k, c, n, m)
                 /\ MemoryOf(k, c, n, m)[off[j] + i] = NodeOf(k, c, j, i)
      <3>1. off[j] + i \in UNION {NodePlaces(n, x) : x \in 0..m}
        BY <1>1, <1>2
      <3>. HIDE DEF off
      <3>. QED  BY <1>1, <3>1 DEF MemoryOf
    <2>2. \A i \in Nodes(n, j) :
            NodeOf(k, c, j, i) = IF off[j] + i \in DOMAIN MemoryOf(k, c, n, m)
                                 THEN MemoryOf(k, c, n, m)[off[j] + i] ELSE None
      BY <2>1
    <2>. QED  BY <2>2 DEF Read, LevelOf, SomeOf
  <1>3. ASSUME NEW m \in Nat
        PROVE  Stored(n, m, LevelOf(k, c, n, m)) = [a \in NodePlaces(n, m) |-> NodeAt(k, c, n, a)]
    <2>1. DOMAIN LevelOf(k, c, n, m) = Nodes(n, m)
      BY DEF LevelOf, SomeOf
    <2>2. ASSUME NEW a \in NodePlaces(n, m) PROVE LevelOf(k, c, n, m)[a - off[m]] = NodeAt(k, c, n, a)
      <3>1. PICK i \in Nodes(n, m) : a = off[m] + i
        BY DEF NodePlaces
      <3>2. a - off[m] = i
        BY <3>1, PlacesAre
      <3>3. NodeAt(k, c, n, a) = NodeOf(k, c, m, i)
        BY <1>1, <3>1
      <3>. QED  BY <3>2, <3>3 DEF LevelOf, SomeOf
    <2>3. {off[m] + i : i \in DOMAIN LevelOf(k, c, n, m)} = NodePlaces(n, m)
      BY <2>1 DEF NodePlaces
    <2>. QED  BY <2>2, <2>3 DEF Stored
  <1>4. Stored(n, 0, LevelOf(k, c, n, 0)) = MemoryOf(k, c, n, 0)
    <2>1. UNION {NodePlaces(n, i) : i \in 0..0} = NodePlaces(n, 0)
      <3>1. \A i : i \in 0..0 <=> i = 0
        OBVIOUS
      <3>. QED  BY <3>1
    <2>. QED  BY <1>3, <2>1, 0 \in Nat DEF MemoryOf
  <1>5. Rehashed(Stored(n, j + 1, LevelOf(k, c, n, j + 1)), MemoryOf(k, c, n, j)) = MemoryOf(k, c, n, j + 1)
    <2>. DEFINE New == [a \in NodePlaces(n, j + 1) |-> NodeAt(k, c, n, a)]
    <2>1. UNION {NodePlaces(n, i) : i \in 0..(j + 1)} = NodePlaces(n, j + 1) \cup UNION {NodePlaces(n, i) : i \in 0..j}
      <3>1. \A i : i \in 0..(j + 1) <=> i = j + 1 \/ i \in 0..j
        OBVIOUS
      <3>. QED  BY <3>1
    <2>2. Rehashed(New, MemoryOf(k, c, n, j)) = MemoryOf(k, c, n, j + 1)
      BY <2>1 DEF Rehashed, MemoryOf
    <2>3. Stored(n, j + 1, LevelOf(k, c, n, j + 1)) = New
      BY <1>3, j + 1 \in Nat
    <2>. QED  BY <2>2, <2>3
  <1>. QED  BY <1>2, <1>4, <1>5

\* The equation of the memory.
NextMemory(g, k, n, j) ==
  Rehashed(Stored(n, j, Parents(k, Read(g[j - 1], n, j - 1), Written(n \div Two[j], PtGroup))), g[j - 1])
IsMemory(g, k, c, n) ==
  g = [j \in Levels(n) |-> IF j = 0 THEN Stored(n, 0, ChunkCvs(k, c, Written(n, CvGroup)))
                           ELSE NextMemory(g, k, n, j)]

\* The chunk hashes from the device, and its tree, are right.
LEMMA DeviceRight ==
  ASSUME NEW k, NEW c, NEW n \in Nat, n > 0
  PROVE  /\ Written(n, CvGroup) = Nodes(n, 0)
         /\ FromTree(DeviceTree(k, c, n), n) = TreeOf(k, c, n)
  <1>. DEFINE W == [j \in Levels(n) |-> MemoryOf(k, c, n, j)]  F == CHOOSE g : IsMemory(g, k, c, n)
              top == TopLevel(n)
  <1>1. Written(n, CvGroup) = Nodes(n, 0)
    <2>1. CvGroup \in Nat /\ CvGroup > 0
      BY DeviceAssumption
    <2>2. Written(n, CvGroup) = 0..(n - 1)
      BY <2>1, AllWritten
    <2>3. LenAt(n, 0) = n
      BY LenAtIs, 0 \in Nat
    <2>. QED  BY <2>2, <2>3 DEF Nodes, LenAt
  <1>2. ASSUME NEW j \in Nat PROVE Written(n \div Two[j], PtGroup) = Nodes(n, j)
    <2>1. PtGroup \in Nat /\ PtGroup > 0 /\ LenAt(n, j) \in Nat
      <3>1. LenAt(n, j) \in Nat
        BY LenAtIs
      <3>. QED  BY <3>1, DeviceAssumption
    <2>2. Written(LenAt(n, j), PtGroup) = 0..(LenAt(n, j) - 1)
      BY <2>1, AllWritten
    <2>. QED  BY <2>2 DEF Nodes, LenAt
  <1>3. Stored(n, 0, ChunkCvs(k, c, Written(n, CvGroup))) = MemoryOf(k, c, n, 0)
    <2>1. ChunkCvs(k, c, Nodes(n, 0)) = LevelOf(k, c, n, 0)
      BY ChunksAre DEF LevelOf
    <2>. QED  BY <1>1, <2>1, MemoryIs, 0 \in Nat
  <1>4. ASSUME NEW g, NEW j \in Nat, g[j] = MemoryOf(k, c, n, j)
        PROVE  NextMemory(g, k, n, j + 1) = MemoryOf(k, c, n, j + 1)
    <2>1. (j + 1) - 1 = j /\ j + 1 \in Nat
      OBVIOUS
    <2>2. Read(MemoryOf(k, c, n, j), n, j) = LevelOf(k, c, n, j)
      <3>1. \A m \in Nat : j <= m => Read(MemoryOf(k, c, n, m), n, j) = LevelOf(k, c, n, j)
        BY MemoryIs
      <3>2. j <= j
        OBVIOUS
      <3>. QED  BY ONLY <3>1, <3>2, j \in Nat
    <2>3. Parents(k, LevelOf(k, c, n, j), Nodes(n, j + 1)) = LevelOf(k, c, n, j + 1)
      <3>1. Nodes(n, j + 1) \in SUBSET Nodes(n, j + 1)
        OBVIOUS
      <3>2. Parents(k, LevelOf(k, c, n, j), Nodes(n, j + 1)) = SomeOf(k, c, j + 1, Nodes(n, j + 1))
        BY <3>1, ParentsAre
      <3>. QED  BY <3>2 DEF LevelOf
    <2>4. Written(n \div Two[j + 1], PtGroup) = Nodes(n, j + 1)
      BY <1>2, <2>1
    <2>5. Rehashed(Stored(n, j + 1, LevelOf(k, c, n, j + 1)), MemoryOf(k, c, n, j)) = MemoryOf(k, c, n, j + 1)
      BY MemoryIs
    <2>. QED  BY <1>4, <2>1, <2>2, <2>3, <2>4, <2>5 DEF NextMemory
  <1>5. IsMemory(W, k, c, n)
    <2>1. W = [j \in Levels(n) |-> W[j]] /\ \A j \in Levels(n) : W[j] = MemoryOf(k, c, n, j)
      OBVIOUS
    <2>. HIDE DEF W
    <2>2. ASSUME NEW j \in Levels(n), j # 0 PROVE W[j] = NextMemory(W, k, n, j)
      <3>1. j - 1 \in Nat /\ (j - 1) + 1 = j /\ j - 1 \in Levels(n)
        BY <2>2, TopLevelIs
      <3>2. NextMemory(W, k, n, (j - 1) + 1) = MemoryOf(k, c, n, (j - 1) + 1)
        BY <1>4, <2>1, <3>1
      <3>. QED  BY <2>1, <3>1, <3>2
    <2>3. \A j \in Levels(n) :
            W[j] = IF j = 0 THEN Stored(n, 0, ChunkCvs(k, c, Written(n, CvGroup)))
                   ELSE NextMemory(W, k, n, j)
      BY <1>3, <2>1, <2>2
    <2>. QED  BY <2>1, <2>3 DEF IsMemory
  <1>. HIDE DEF W
  <1>6. IsMemory(F, k, c, n)
    BY <1>5
  <1>7. DeviceTree(k, c, n) = F[top]
    BY DEF DeviceTree, IsMemory, NextMemory
  <1>. HIDE DEF F
  <1>. DEFINE P == {j \in Levels(n) : F[j] = MemoryOf(k, c, n, j)}
  <1>8. 0 \in Levels(n) /\ top \in Levels(n) /\ top \in Nat /\ \A j \in Levels(n) : j \in Nat /\ j <= top
    BY TopLevelIs
  <1>9. 0 \in P
    BY <1>3, <1>6, <1>8 DEF IsMemory
  <1>10. ASSUME NEW j \in Nat, j \in P, j + 1 \in Levels(n) PROVE j + 1 \in P
    <2>1. j + 1 # 0
      OBVIOUS
    <2>2. F[j + 1] = NextMemory(F, k, n, j + 1)
      BY <1>6, <1>10, <2>1 DEF IsMemory
    <2>. QED  BY <1>4, <1>10, <2>2
  <1>11. Levels(n) \subseteq P
    <2>. HIDE DEF P
    <2>. QED  BY <1>9, <1>10, LevelInduction
  <1>12. F[top] = MemoryOf(k, c, n, top)
    BY <1>8, <1>11
  <1>13. \A j \in Levels(n) : Read(MemoryOf(k, c, n, top), n, j) = LevelOf(k, c, n, j)
    <2>. SUFFICES ASSUME NEW j \in Levels(n) PROVE Read(MemoryOf(k, c, n, top), n, j) = LevelOf(k, c, n, j)
      OBVIOUS
    <2>. HIDE DEF top
    <2>. QED  BY <1>8, MemoryIs
  <1>14. FromTree(DeviceTree(k, c, n), n) = TreeOf(k, c, n)
    BY <1>7, <1>12, <1>13 DEF FromTree, TreeOf
  <1>. QED  BY <1>1, <1>14

-----------------------------------------------------------------------------
(***************************************************************************)
(* What the tree keeps.  TreeInv is inductive: a tree that is valid and of  *)
(* the key of the job is the whole tree of the chunks as they are; a tree   *)
(* of an older key has still its levels; and the commitment is the root of  *)
(* the chunks as they are.                                                  *)
(***************************************************************************)
TreeData ==
  /\ chunks \in ChunkCounts /\ chunk \in [Indices -> 0..writes]
  /\ key \in 1..MaxJobs /\ treeKey \in 0..key /\ valid \in BOOLEAN
  /\ writes \in 0..MaxWrites
TreeLevels ==
  valid => /\ DOMAIN level = Levels(chunks)
           /\ \A j \in Levels(chunks) : DOMAIN level[j] = Nodes(chunks, j)
TreeIsRight == TreeIsOurs => level = TreeOf(key, chunk, chunks)
TreeInv == TreeData /\ TreeLevels /\ TreeIsRight /\ CommitsToThisA

\* A whole tree has its levels.
LEMMA LevelsAre ==
  ASSUME NEW k, NEW c, NEW n
  PROVE  /\ DOMAIN TreeOf(k, c, n) = Levels(n)
         /\ \A j \in Levels(n) : DOMAIN TreeOf(k, c, n)[j] = Nodes(n, j)
  BY DEF TreeOf, LevelOf, SomeOf

\* It holds initially,
LEMMA TreeInitInv == TreeInit => TreeInv
  <1>. SUFFICES ASSUME TreeInit PROVE TreeInv
    OBVIOUS
  <1>1. TreeData
    <2>1. 0 \in 0..0 /\ 1 \in 1..MaxJobs /\ 0 \in 0..1 /\ 0 \in 0..MaxWrites
      BY TreeBoundsAssumption
    <2>. QED  BY <2>1 DEF TreeInit, TreeData
  <1>. QED  BY <1>1 DEF TreeInit, TreeInv, TreeLevels, TreeIsRight, TreeIsOurs, CommitsToThisA

\* What an attempt writes: the chunks, each once more.
LEMMA WriteFacts ==
  ASSUME TreeData, NEW dirty \in SUBSET Indices, Write(dirty)
  PROVE  /\ chunks \in Nat /\ chunks > 1 /\ Indices = Nodes(chunks, 0)
         /\ chunks' = chunks /\ key' = key
         /\ writes' \in 0..MaxWrites /\ chunk' \in [Indices -> 0..writes']
         /\ \A i \in Indices \ dirty : chunk[i] = chunk'[i]
  <1>1. chunks \in Nat /\ chunks > 1 /\ chunks' = chunks /\ key' = key
    BY ChunksAssumption DEF TreeData, Write
  <1>2. Indices = Nodes(chunks, 0)
    <2>1. LenAt(chunks, 0) = chunks
      BY <1>1, LenAtIs, 0 \in Nat
    <2>. QED  BY <2>1 DEF Indices, Nodes, LenAt
  <1>3. writes \in 0..MaxWrites /\ writes < MaxWrites /\ writes' = writes + 1 /\ MaxWrites \in Nat
    BY TreeBoundsAssumption DEF TreeData, Write
  <1>4. writes' \in 0..MaxWrites
    BY <1>3
  <1>5. \A i \in Indices : chunk[i] \in 0..writes
    BY DEF TreeData
  <1>6. chunk' = [i \in Indices |-> chunk[i] + (IF i \in dirty THEN 1 ELSE 0)]
    BY DEF Write
  <1>7. chunk' \in [Indices -> 0..writes']
    <2>1. ASSUME NEW i \in Indices PROVE chunk[i] + (IF i \in dirty THEN 1 ELSE 0) \in 0..writes'
      <3>1. chunk[i] \in 0..writes
        BY <1>5
      <3>. QED  BY <1>3, <3>1
    <2>. QED  BY <1>6, <2>1
  <1>8. \A i \in Indices \ dirty : chunk[i] = chunk'[i]
    <2>. SUFFICES ASSUME NEW i \in Indices \ dirty PROVE chunk[i] = chunk'[i]
      OBVIOUS
    <2>1. chunk[i] \in Nat /\ chunk'[i] = chunk[i] + 0
      BY <1>3, <1>5, <1>6
    <2>. QED  BY <2>1
  <1>. QED  BY <1>1, <1>2, <1>4, <1>7, <1>8

\* What is kept of an attempt's step, once its tree and its commitment are right.
LEMMA AfterWrite ==
  ASSUME TreeData, NEW dirty \in SUBSET Indices, Write(dirty),
         valid' \in BOOLEAN, treeKey' \in {treeKey, key},
         valid' => treeKey' = key /\ level' = TreeOf(key, chunk', chunks),
         commitment' = Blake3Root(key, chunk', chunks)
  PROVE  TreeInv'
  <1>1. /\ chunks' = chunks /\ key' = key /\ writes' \in 0..MaxWrites
        /\ chunk' \in [Indices -> 0..writes']
    BY WriteFacts
  <1>2. Indices' = Indices
    BY <1>1 DEF Indices
  <1>3. TreeData'
    <2>1. key \in 1..MaxJobs /\ treeKey \in 0..key /\ chunks \in ChunkCounts
      BY DEF TreeData
    <2>2. treeKey' \in 0..key
      <3>1. key \in 0..key
        BY <2>1
      <3>. QED  BY <2>1, <3>1
    <2>. QED  BY <1>1, <1>2, <2>1, <2>2 DEF TreeData
  <1>4. TreeLevels' /\ TreeIsRight'
    BY <1>1, LevelsAre DEF TreeLevels, TreeIsRight, TreeIsOurs
  <1>5. CommitsToThisA'
    BY <1>1 DEF CommitsToThisA
  <1>. QED  BY <1>3, <1>4, <1>5 DEF TreeInv

\* An attempt that makes its tree anew, or fails to and commits without one.
LEMMA AllAnew ==
  ASSUME TreeInv, NEW dirty \in SUBSET Indices, Write(dirty),
         DigestAll(chunk') \/ BuildFails(chunk')
  PROVE  TreeInv'
  <1>1. TreeData /\ key' = key /\ chunks \in Nat /\ chunks > 1 /\ chunks > 0 /\ Indices = Nodes(chunks, 0)
    BY WriteFacts DEF TreeInv
  <1>2. CASE DigestAll(chunk')
    <2>1. BuildParents(key, ChunkCvs(key, chunk', Indices), chunks) = TreeOf(key, chunk', chunks)
      BY <1>1, BuiltRight
    <2>2. Root(key, TreeOf(key, chunk', chunks), chunks) = Blake3Root(key, chunk', chunks)
      BY <1>1, RootRight
    <2>3. valid' = TRUE /\ treeKey' = key /\ level' = TreeOf(key, chunk', chunks)
          /\ commitment' = Blake3Root(key, chunk', chunks)
      BY <1>2, <2>1, <2>2 DEF DigestAll
    <2>. QED  BY <1>1, <2>3, AfterWrite
  <1>3. CASE BuildFails(chunk')
    <2>1. StackRoot(key, chunk', chunks) = Blake3Root(key, chunk', chunks)
      BY <1>1, StackRight
    <2>2. valid' = FALSE /\ treeKey' = key /\ commitment' = Blake3Root(key, chunk', chunks)
      BY <1>3, <2>1 DEF BuildFails, DigestFails
    <2>. QED  BY <1>1, <2>2, AfterWrite
  <1>. QED  BY <1>2, <1>3

\* An attempt that hashes again what it changed, or fails to.
LEMMA ChangedOnly ==
  ASSUME TreeInv, TreeIsOurs, NEW dirty \in SUBSET Indices, Write(dirty),
         DigestChanged(chunk', dirty) \/ UpdateFails(chunk')
  PROVE  TreeInv'
  <1>1. /\ TreeData /\ key' = key /\ chunks \in Nat /\ chunks > 1 /\ chunks > 0
        /\ Indices = Nodes(chunks, 0) /\ \A i \in Indices \ dirty : chunk[i] = chunk'[i]
        /\ level = TreeOf(key, chunk, chunks) /\ valid = TRUE /\ treeKey = key
    <2>1. TreeData /\ level = TreeOf(key, chunk, chunks) /\ valid = TRUE /\ treeKey = key
      BY DEF TreeInv, TreeIsRight, TreeIsOurs, TreeData
    <2>. QED  BY <2>1, WriteFacts
  <1>2. CASE DigestChanged(chunk', dirty)
    <2>1. Update(key, TreeOf(key, chunk, chunks), chunk', dirty, chunks) = TreeOf(key, chunk', chunks)
      BY <1>1, UpdatedRight
    <2>2. Root(key, TreeOf(key, chunk', chunks), chunks) = Blake3Root(key, chunk', chunks)
      BY <1>1, RootRight
    <2>3. valid' = TRUE /\ treeKey' = key /\ level' = TreeOf(key, chunk', chunks)
          /\ commitment' = Blake3Root(key, chunk', chunks)
      BY <1>1, <1>2, <2>1, <2>2 DEF DigestChanged
    <2>. QED  BY <1>1, <2>3, AfterWrite
  <1>3. CASE UpdateFails(chunk')
    <2>1. StackRoot(key, chunk', chunks) = Blake3Root(key, chunk', chunks)
      BY <1>1, StackRight
    <2>2. valid' = FALSE /\ treeKey' = key /\ commitment' = Blake3Root(key, chunk', chunks)
      BY <1>1, <1>3, <2>1 DEF UpdateFails, DigestFails
    <2>. QED  BY <1>1, <2>2, AfterWrite
  <1>. QED  BY <1>2, <1>3

\* A job with another key, its tree that of the old one, new or none.
LEMMA KeyKeeps ==
  ASSUME TreeInv, NewKey \/ NewKeyFromDevice
  PROVE  TreeInv'
  <1>1. key < MaxJobs /\ key' = key + 1 /\ commitment' = None /\ UNCHANGED <<chunks, chunk, writes>>
    BY DEF NewKey, NewKeyFromDevice
  <1>2. key \in 1..MaxJobs /\ treeKey \in 0..key /\ MaxJobs \in Nat /\ valid \in BOOLEAN
    BY TreeBoundsAssumption DEF TreeInv, TreeData
  <1>3. key' \in 1..MaxJobs /\ treeKey \in 0..key' /\ treeKey # key' /\ key' \in 0..key'
    BY <1>1, <1>2
  <1>4. Indices' = Indices
    BY <1>1 DEF Indices
  <1>5. chunks \in Nat /\ chunks > 0 /\ Indices = Nodes(chunks, 0)
    <2>1. chunks \in Nat /\ chunks > 0
      BY ChunksAssumption DEF TreeInv, TreeData
    <2>2. LenAt(chunks, 0) = chunks
      BY <2>1, LenAtIs, 0 \in Nat
    <2>. QED  BY <2>1, <2>2 DEF Indices, Nodes, LenAt
  <1>. DEFINE new == valid' = TRUE /\ treeKey' = key' /\ level' = TreeOf(key', chunk, chunks)
              none == valid' = FALSE /\ treeKey' \in {treeKey, key'}
              old == UNCHANGED cacheVars
  <1>6. new \/ none \/ old
    <2>1. CASE NewKey
      BY <2>1 DEF NewKey
    <2>2. CASE NewKeyFromDevice
      <3>. DEFINE made == /\ valid' = TRUE /\ treeKey' = key'
                          /\ level' \in {FromTree(DeviceTree(key', chunk, chunks), chunks),
                                         BuildParents(key', ChunkCvs(key', chunk, Written(chunks, CvGroup)),
                                                      chunks)}
      <3>1. CASE made
        <4>1. /\ Written(chunks, CvGroup) = Nodes(chunks, 0)
              /\ FromTree(DeviceTree(key', chunk, chunks), chunks) = TreeOf(key', chunk, chunks)
          BY <1>5, DeviceRight
        <4>2. BuildParents(key', ChunkCvs(key', chunk, Nodes(chunks, 0)), chunks) = TreeOf(key', chunk, chunks)
          BY <1>5, BuiltRight
        <4>3. level' = TreeOf(key', chunk, chunks)
          BY <3>1, <4>1, <4>2
        <4>. QED  BY <3>1, <4>3
      <3>2. made \/ none
        BY <2>2 DEF NewKeyFromDevice
      <3>. HIDE DEF made, new, none, old
      <3>. QED  BY <3>1, <3>2
    <2>. HIDE DEF new, none, old
    <2>. QED  BY <2>1, <2>2
  <1>7. TreeData'
    <2>1. chunks' \in ChunkCounts /\ chunk' \in [Indices' -> 0..writes'] /\ writes' \in 0..MaxWrites
      BY <1>1, <1>4 DEF TreeInv, TreeData
    <2>2. treeKey' \in 0..key' /\ valid' \in BOOLEAN
      BY <1>2, <1>3, <1>6 DEF cacheVars
    <2>. QED  BY <1>3, <2>1, <2>2 DEF TreeData
  <1>8. TreeLevels' /\ TreeIsRight'
    <2>1. CASE new
      BY <1>1, <2>1, LevelsAre DEF TreeLevels, TreeIsRight
    <2>2. CASE none
      BY <2>2 DEF TreeLevels, TreeIsRight, TreeIsOurs
    <2>3. CASE old
      <3>1. TreeLevels'
        BY <1>1, <2>3 DEF TreeInv, TreeLevels, cacheVars
      <3>2. ~TreeIsOurs'
        BY <1>3, <2>3 DEF TreeIsOurs, cacheVars
      <3>. QED  BY <3>1, <3>2 DEF TreeIsRight
    <2>. HIDE DEF new, none, old
    <2>. QED  BY <1>6, <2>1, <2>2, <2>3
  <1>. QED  BY <1>1, <1>7, <1>8 DEF TreeInv, CommitsToThisA

\* and every step keeps it.
LEMMA TreeStep == TreeInv /\ [TreeNext]_treeVars => TreeInv'
  <1>. SUFFICES ASSUME TreeInv, [TreeNext]_treeVars PROVE TreeInv'
    OBVIOUS
  <1>1. CASE NewKey \/ NewKeyFromDevice
    BY <1>1, KeyKeeps
  <1>2. CASE Attempt
    <2>1. PICK dirty \in SUBSET Indices :
            /\ Write(dirty)
            /\ \/ ~TreeIsOurs /\ (DigestAll(chunk') \/ BuildFails(chunk'))
               \/ TreeIsOurs /\ (DigestChanged(chunk', dirty) \/ UpdateFails(chunk'))
      BY <1>2 DEF Attempt
    <2>2. CASE DigestAll(chunk') \/ BuildFails(chunk')
      BY <2>1, <2>2, AllAnew
    <2>3. CASE TreeIsOurs /\ (DigestChanged(chunk', dirty) \/ UpdateFails(chunk'))
      BY <2>1, <2>3, ChangedOnly
    <2>. QED  BY <2>1, <2>2, <2>3
  <1>3. CASE AttemptAllNew
    <2>1. Indices \in SUBSET Indices /\ Write(Indices) /\ (DigestAll(chunk') \/ BuildFails(chunk'))
      BY <1>3 DEF AttemptAllNew
    <2>. QED  BY <2>1, AllAnew
  <1>4. CASE UNCHANGED treeVars
    <2>1. UNCHANGED <<chunks, chunk, key, valid, treeKey, level, commitment, writes>>
      BY <1>4 DEF treeVars, matrixVars, cacheVars
    <2>2. Indices' = Indices
      BY <2>1 DEF Indices
    <2>3. TreeData'
      BY <2>1, <2>2 DEF TreeInv, TreeData
    <2>4. TreeLevels'
      BY <2>1 DEF TreeInv, TreeLevels
    <2>5. TreeIsRight' /\ CommitsToThisA'
      BY <2>1 DEF TreeInv, TreeIsRight, TreeIsOurs, CommitsToThisA
    <2>. QED  BY <2>3, <2>4, <2>5 DEF TreeInv
  <1>. QED  BY <1>1, <1>2, <1>3, <1>4 DEF TreeNext

\* It gives the types.
LEMMA TreeTypes == TreeInv => TreeTypeOK
  <1>. SUFFICES ASSUME TreeInv PROVE TreeTypeOK
    OBVIOUS
  <1>1. TreeData /\ TreeLevels /\ MaxJobs \in Nat /\ MaxWrites \in Nat
    BY TreeBoundsAssumption DEF TreeInv
  <1>2. chunk \in [Indices -> 0..MaxWrites]
    <2>1. writes \in 0..MaxWrites /\ chunk \in [Indices -> 0..writes]
      BY <1>1 DEF TreeData
    <2>2. \A v \in 0..writes : v \in 0..MaxWrites
      BY <1>1, <2>1
    <2>. QED  BY <2>1, <2>2
  <1>3. treeKey \in 0..MaxJobs
    <2>1. key \in 1..MaxJobs /\ treeKey \in 0..key
      BY <1>1 DEF TreeData
    <2>. QED  BY <1>1, <2>1
  <1>. QED  BY <1>1, <1>2, <1>3 DEF TreeData, TreeLevels, TreeTypeOK

-----------------------------------------------------------------------------
\* The commands of a launch in the order in which they run: product, hash, read of the flag.
Rank(op) == IF op = "gemm" THEN 0 ELSE IF op = "read" THEN 2 ELSE 1

\* The command that looks for a hit, on the first device.
IsHash(c) == c.op \in {"kernel", "jackpot"} /\ c.dev = 1

\* Two queued commands are of the same launch.
SameLaunch(i, j) == commands[i].launch = commands[j].launch

\* The hash of launch l is still to run.
HashQueued(l) == \E k \in DOMAIN commands : IsHash(commands[k]) /\ commands[k].launch = l

\* The host has queued launch l.
Launched(l) == l < upcoming \/ (l = upcoming /\ spc = "await")

\* Each backend queues its own commands; one with overlap uses one device.
OpsInv ==
  \A k \in DOMAIN commands :
    /\ Overlapped => commands[k].dev = 1
    /\ backend = "onednn" => commands[k].op \in {"gemm", "jackpot", "read"}
    /\ backend = "opencl" => commands[k].op \in {"kernel", "read"}
    /\ ~Overlapped => commands[k].op = "kernel"

\* At most the previous launch and the present one are queued.
WindowInv ==
  \A k \in DOMAIN commands : /\ commands[k].launch \in {upcoming - 1, upcoming}
                             /\ spc = "loop" => commands[k].launch = upcoming - 1

\* Within a launch the product is before the hash and the hash before the read.
OrderInv ==
  Overlapped => \A i, j \in DOMAIN commands :
    SameLaunch(i, j) /\ Rank(commands[i].op) < Rank(commands[j].op) => i < j

\* What is queued of a launch ends with its read, and a product is followed by its hash.
CompleteInv ==
  Overlapped /\ spc \in {"loop", "await"} => \A i \in DOMAIN commands :
    /\ commands[i].op # "read" => \E j \in DOMAIN commands : commands[j].op = "read" /\ SameLaunch(i, j)
    /\ commands[i].op = "gemm" => \E j \in DOMAIN commands : commands[j].op = "jackpot" /\ SameLaunch(i, j)

\* A oneDNN hash has its product still before it, or finds that product in its slot.
XorInv ==
  backend = "onednn" => \A i \in DOMAIN commands : commands[i].op = "jackpot" =>
     \/ \E j \in DOMAIN commands : commands[j].op = "gemm" /\ SameLaunch(i, j)
     \/ xorOf[SlotFor(commands[i].launch)] = commands[i].launch

\* Nothing is queued when the queue was drained, or by a backend that waits for each launch.
EmptyInv ==
  spc \in {"idle", "report", "return", "team"} \/ (~Overlapped /\ spc # "await") => commands = <<>>

\* What the flags say: a device that set its flag recorded a marked launch, and the host
\* read no flag that is not set.
LatchInv ==
  spc # "idle" /\ backend # "cpu" =>
     /\ \A d \in Devices : flag[d] => winner[d] \in marked
     /\ \A s \in {0, 1} : hostFlag[s] => flag[1]
     /\ found /\ Overlapped => flag[1]

\* No marked launch that ended was missed: the flag is set, and its read has told the host.
SeenInv ==
  spc \notin {"idle", "return"} /\ backend # "cpu" => \A l \in marked : Launched(l) =>
     /\ ~HashQueued(l) => flag[1]
     /\ Overlapped /\ l >= upcoming - 1 /\ ~Queued("read", l) => hostFlag[SlotFor(l)]

\* The launches the host has looked at without a hit are not marked.
CleanInv ==
  spc \notin {"idle", "return"} /\ backend # "cpu" /\ ~found =>
     \A l \in 0..(counted - 1) : l \notin marked

\* How far the host has looked is one launch behind what it queued with overlap, and level
\* without.
CountedInv ==
  /\ spc \in {"loop", "await"} =>
       counted = IF Overlapped /\ upcoming > 0 THEN upcoming - 1 ELSE upcoming
  /\ spc \in {"drain", "report"} /\ ok /\ ~found =>
       IF backend = "onednn" THEN upcoming = ScanLaunches /\ counted = ScanLaunches - 1
       ELSE counted = ScanLaunches

\* The threads of the CPU that are at a tile they have not reported on.
Checking == {t \in Devices : task[t] # Nowhere /\ t \notin won}
\* The parts of what a running team keeps.
TakenInv == /\ \A t \in Devices : task[t] < upcoming
            /\ \A t \in won : task[t] \in marked /\ flag[1] /\ won = {t}

\* The first hit of the team is stored by the thread that won the flag.
StoredInv == /\ flag[1] /\ won = {} => winner[1] \in marked
             /\ stopScan => flag[1] \/ cancelled

\* Every tile taken is counted or being looked at.
SumInv == /\ counted + Cardinality(Checking) <= upcoming
          /\ ~flag[1] /\ ~cancelled => counted + Cardinality(Checking) = upcoming

\* Until a hit or a stop, a marked tile that was taken still has its thread.
OpenInv == ~flag[1] /\ ~cancelled =>
             \A l \in marked : l < upcoming => \E t \in Devices : task[t] = l

\* No thread is at a tile outside the scan of the team.
TeamInv == /\ spc # "team" => won = {} /\ \A t \in Devices : task[t] = Nowhere
           /\ spc = "team" => TakenInv /\ StoredInv /\ SumInv /\ OpenInv

\* What an attempt is about to report, and what it reported.
ReturnInv ==
  /\ spc = "return" /\ ok => /\ found => hitAt \in marked
                             /\ ~found => counted = ScanLaunches /\ marked = {}
  /\ ScanReportIsRight

\* What the assumption on the constants gives.
LEMMA ScanConstants ==
  /\ ScanLaunches \in Nat /\ ScanLaunches > 0 /\ ScanDevices \in Nat /\ ScanDevices > 0
  /\ MaxScanAttempts \in Nat /\ 1 \in Devices
  BY ScanAssumption DEF Devices

\* A command as the host queues it.
ScanCommand == [op: {"gemm", "jackpot", "kernel", "read"}, launch: ScanLaunch, dev: Devices]

\* Removing a command keeps the others in their order.
OldPlace(j, k) == IF j < k THEN j ELSE j + 1

\* The place of what was at i once the command at k is gone.
NewPlace(i, k) == IF i < k THEN i ELSE i - 1

\* What RemoveAt does to a sequence.
LEMMA RemoveFacts ==
  ASSUME NEW S, NEW s \in Seq(S), NEW k \in DOMAIN s
  PROVE  /\ RemoveAt(s, k) \in Seq(S)
         /\ k \in 1..Len(s) /\ Len(s) \in Nat
         /\ DOMAIN s = 1..Len(s) /\ DOMAIN RemoveAt(s, k) = 1..(Len(s) - 1)
         /\ \A j \in DOMAIN RemoveAt(s, k) : RemoveAt(s, k)[j] = s[OldPlace(j, k)]
  <1>1. Len(s) \in Nat /\ DOMAIN s = 1..Len(s) /\ k \in 1..Len(s)
    BY LenProperties
  <1>. DEFINE a == SubSeq(s, 1, k - 1)  b == SubSeq(s, k + 1, Len(s))
  <1>2. \A i \in 1..Len(s) : s[i] \in S
    BY ElementOfSeq
  <1>3. /\ a \in Seq(S) /\ Len(a) = k - 1
        /\ \A i \in 1..(k - 1) : a[i] = s[i]
    <2>1. k - 1 \in Int /\ \A i \in 1..(k - 1) : s[i] \in S
      BY <1>1, <1>2
    <2>. QED  BY <1>1, <2>1, SubSeqProperties
  <1>4. /\ b \in Seq(S) /\ Len(b) = Len(s) - k
        /\ \A i \in 1..(Len(s) - k) : b[i] = s[k + i]
    <2>1. k + 1 \in Int /\ Len(s) \in Int /\ \A i \in (k + 1)..Len(s) : s[i] \in S
      BY <1>1, <1>2
    <2>. HIDE DEF b
    <2>2. /\ b \in Seq(S) /\ Len(b) = IF k + 1 <= Len(s) THEN Len(s) - (k + 1) + 1 ELSE 0
          /\ \A i \in 1..(Len(s) - (k + 1) + 1) : b[i] = s[(k + 1) + i - 1]
      BY <2>1, SubSeqProperties DEF b
    <2>3. Len(b) = Len(s) - k
      BY <1>1, <2>2
    <2>4. ASSUME NEW i \in 1..(Len(s) - k) PROVE b[i] = s[k + i]
      <3>1. i \in 1..(Len(s) - (k + 1) + 1) /\ (k + 1) + i - 1 = k + i
        BY <1>1
      <3>. QED  BY <2>2, <3>1
    <2>. QED  BY <2>2, <2>3, <2>4
  <1>. HIDE DEF a, b
  <1>5. /\ a \o b \in Seq(S) /\ Len(a \o b) = Len(a) + Len(b)
        /\ \A i \in 1..(Len(a) + Len(b)) :
             (a \o b)[i] = IF i <= Len(a) THEN a[i] ELSE b[i - Len(a)]
    BY <1>3, <1>4, ConcatProperties
  <1>6. RemoveAt(s, k) = a \o b
    BY DEF RemoveAt, a, b
  <1>7. DOMAIN RemoveAt(s, k) = 1..(Len(s) - 1)
    <2>1. DOMAIN (a \o b) = 1..(Len(a) + Len(b)) /\ Len(a) + Len(b) = Len(s) - 1
      BY <1>1, <1>3, <1>4, <1>5, LenProperties
    <2>. QED  BY <1>6, <2>1
  <1>8. ASSUME NEW j \in DOMAIN RemoveAt(s, k)
        PROVE  RemoveAt(s, k)[j] = s[OldPlace(j, k)]
    <2>1. j \in 1..(Len(a) + Len(b)) /\ j \in Int
      BY <1>1, <1>3, <1>4, <1>7
    <2>2. CASE j < k
      BY <1>1, <1>3, <1>5, <1>6, <2>1, <2>2 DEF OldPlace
    <2>3. CASE j >= k
      <3>0. Len(a) \in Nat /\ Len(a) = k - 1 /\ Len(b) = Len(s) - k /\ Len(s) \in Nat
        BY <1>1, <1>3, <1>4
      <3>1. (a \o b)[j] = b[j - (k - 1)] /\ j - (k - 1) \in 1..(Len(s) - k)
        <4>1. (a \o b)[j] = IF j <= Len(a) THEN a[j] ELSE b[j - Len(a)]
          BY <1>5, <2>1
        <4>2. ~(j <= Len(a)) /\ j - (k - 1) \in 1..(Len(s) - k)
          BY <1>1, <2>1, <2>3, <3>0
        <4>. QED  BY <3>0, <4>1, <4>2
      <3>2. b[j - (k - 1)] = s[k + (j - (k - 1))] /\ k + (j - (k - 1)) = j + 1
        BY <1>1, <1>4, <2>1, <3>1
      <3>. QED  BY <1>1, <1>6, <2>1, <2>3, <3>1, <3>2 DEF OldPlace
    <2>. QED  BY <1>1, <2>1, <2>2, <2>3
  <1>. QED  BY <1>1, <1>5, <1>6, <1>7, <1>8

\* One of the devices with its flag set is the first.
LEMMA FirstDevice ==
  ASSUME \E d \in Devices : flag[d]
  PROVE  \E d \in Devices : flag[d] /\ \A e \in 1..(d - 1) : ~flag[e]
  <1>. DEFINE T == {d \in Devices : flag[d]}
  <1>1. T \subseteq Nat /\ T # {}
    BY ScanConstants DEF Devices
  <1>2. PICK d \in T : \A e \in T : ~(<<e, d>> \in OpToRel(<, Nat))
    BY <1>1, NatLessThanWellFounded, WFMin
  <1>3. \A e \in T : ~(e < d)
    BY <1>1, <1>2 DEF OpToRel
  <1>4. \A e \in 1..(d - 1) : e \in Devices /\ e < d
    BY ScanConstants DEF Devices
  <1>. QED  BY <1>3, <1>4

-----------------------------------------------------------------------------
\* What is known of commands queued together for launch l.
OneLaunch(s, l) ==
  \A k \in DOMAIN s :
    /\ s[k].launch = l
    /\ Overlapped => s[k].dev = 1
    /\ backend = "onednn" => s[k].op \in {"gemm", "jackpot", "read"}
    /\ backend = "opencl" => s[k].op \in {"kernel", "read"}
    /\ ~Overlapped => s[k].op = "kernel"
    /\ backend = "onednn" /\ s[k].op = "jackpot" => \E j \in DOMAIN s : j < k /\ s[j].op = "gemm"

\* They are in the order in which they run.
Ranked(s) ==
  Overlapped => \A i, j \in DOMAIN s : Rank(s[i].op) < Rank(s[j].op) => i < j

\* They are all of a launch: its hash, and with overlap its read.
WholeLaunch(s) ==
  /\ \E k \in DOMAIN s : IsHash(s[k])
  /\ Overlapped => /\ \E k \in DOMAIN s : s[k].op = "read"
                   /\ (\E k \in DOMAIN s : s[k].op = "gemm") => \E k \in DOMAIN s : s[k].op = "jackpot"

\* The commands of a launch are all of it and in order, on every backend.
LEMMA CommandsFacts ==
  ASSUME backend \in {"opencl", "onednn", "onebyone", "cuda"}, NEW l \in ScanLaunch
  PROVE  /\ CommandsOf(l) \in Seq(ScanCommand) /\ OneLaunch(CommandsOf(l), l)
         /\ Ranked(CommandsOf(l)) /\ WholeLaunch(CommandsOf(l))
         /\ backend = "onebyone" => Len(CommandsOf(l)) = 1
  <1>. DEFINE s == CommandsOf(l)
  <1>1. \A d \in Devices, op \in {"gemm", "jackpot", "kernel", "read"} :
           /\ Command(op, l, d) \in ScanCommand
           /\ Command(op, l, d).op = op /\ Command(op, l, d).launch = l
           /\ Command(op, l, d).dev = d
    BY DEF Command, ScanCommand
  <1>2. CASE backend = "opencl"
    <2>1. s = <<Command("kernel", l, 1), Command("read", l, 1)>>
      BY <1>2 DEF CommandsOf
    <2>2. /\ s \in [1..2 -> ScanCommand] /\ DOMAIN s = 1..2
          /\ s[1] = Command("kernel", l, 1) /\ s[2] = Command("read", l, 1)
      BY <1>1, <2>1, ScanConstants
    <2>3. s \in Seq(ScanCommand)
      BY <2>2, SeqDef
    <2>. HIDE DEF s
    <2>4. OneLaunch(s, l) /\ Ranked(s)
      BY <1>1, <1>2, <2>2, ScanConstants DEF OneLaunch, Ranked, Rank, Overlapped
    <2>5. WholeLaunch(s)
      BY <1>1, <1>2, <2>2, ScanConstants DEF WholeLaunch, IsHash
    <2>. QED  BY <1>2, <2>3, <2>4, <2>5 DEF s
  <1>3. CASE backend = "onednn"
    <2>1. s = <<Command("gemm", l, 1), Command("jackpot", l, 1), Command("read", l, 1)>>
      BY <1>3 DEF CommandsOf
    <2>2. /\ s \in [1..3 -> ScanCommand] /\ DOMAIN s = 1..3
          /\ s[1] = Command("gemm", l, 1) /\ s[2] = Command("jackpot", l, 1)
          /\ s[3] = Command("read", l, 1)
      BY <1>1, <2>1, ScanConstants
    <2>3. s \in Seq(ScanCommand)
      BY <2>2, SeqDef
    <2>. HIDE DEF s
    <2>4. OneLaunch(s, l)
      BY <1>1, <1>3, <2>2, ScanConstants DEF OneLaunch, Overlapped
    <2>5. Ranked(s)
      BY <1>1, <1>3, <2>2, ScanConstants DEF Ranked, Rank
    <2>6. WholeLaunch(s)
      BY <1>1, <1>3, <2>2, ScanConstants DEF WholeLaunch, IsHash
    <2>. QED  BY <1>3, <2>3, <2>4, <2>5, <2>6 DEF s
  <1>4. CASE backend = "onebyone"
    <2>1. s = <<Command("kernel", l, 1)>>
      BY <1>4 DEF CommandsOf
    <2>2. s \in [1..1 -> ScanCommand] /\ DOMAIN s = 1..1 /\ s[1] = Command("kernel", l, 1)
      BY <1>1, <2>1, ScanConstants
    <2>3. s \in Seq(ScanCommand)
      BY <2>2, SeqDef
    <2>. HIDE DEF s
    <2>4. Len(s) = 1
      BY <2>2, <2>3, LenProperties
    <2>5. OneLaunch(s, l) /\ Ranked(s)
      BY <1>1, <1>4, <2>2, ScanConstants DEF OneLaunch, Ranked, Overlapped
    <2>6. WholeLaunch(s)
      BY <1>1, <1>4, <2>2, ScanConstants DEF WholeLaunch, IsHash, Overlapped
    <2>. QED  BY <1>4, <2>3, <2>4, <2>5, <2>6 DEF s
  <1>5. CASE backend = "cuda"
    <2>1. s = [d \in Devices |-> Command("kernel", l, d)]
      BY <1>5 DEF CommandsOf
    <2>2. /\ s \in [1..ScanDevices -> ScanCommand] /\ DOMAIN s = Devices
          /\ \A d \in Devices : s[d] = Command("kernel", l, d)
      BY <1>1, <2>1, ScanConstants DEF Devices
    <2>3. s \in Seq(ScanCommand)
      BY <2>2, ScanConstants, SeqDef
    <2>. HIDE DEF s
    <2>4. OneLaunch(s, l) /\ Ranked(s)
      BY <1>1, <1>5, <2>2, ScanConstants DEF OneLaunch, Ranked, Overlapped
    <2>5. WholeLaunch(s)
      BY <1>1, <1>5, <2>2, ScanConstants DEF WholeLaunch, IsHash, Overlapped
    <2>. QED  BY <1>5, <2>3, <2>4, <2>5 DEF s
  <1>. QED  BY <1>2, <1>3, <1>4, <1>5

\* Some of them, from the first on.
LEMMA PrefixFacts ==
  ASSUME NEW s \in Seq(ScanCommand), NEW n \in 0..(Len(s) - 1), NEW l,
         OneLaunch(s, l), Ranked(s)
  PROVE  /\ SubSeq(s, 1, n) \in Seq(ScanCommand) /\ OneLaunch(SubSeq(s, 1, n), l)
         /\ Ranked(SubSeq(s, 1, n)) /\ Len(SubSeq(s, 1, n)) = n
  <1>. DEFINE p == SubSeq(s, 1, n)
  <1>1. Len(s) \in Nat /\ DOMAIN s = 1..Len(s) /\ n \in Nat
    BY LenProperties
  <1>2. \A i \in 1..n : s[i] \in ScanCommand
    BY <1>1, ElementOfSeq
  <1>3. p \in Seq(ScanCommand) /\ Len(p) = n /\ \A i \in 1..n : p[i] = s[i]
    BY <1>1, <1>2, SubSeqProperties
  <1>4. DOMAIN p = 1..n /\ \A i \in 1..n : i \in DOMAIN s
    BY <1>1, <1>3, LenProperties
  <1>. HIDE DEF p
  <1>5. Ranked(p)
    BY <1>3, <1>4 DEF Ranked
  <1>6. OneLaunch(p, l)
    <2>. SUFFICES ASSUME NEW k \in DOMAIN p
                  PROVE  /\ p[k].launch = l
                         /\ Overlapped => p[k].dev = 1
                         /\ backend = "onednn" => p[k].op \in {"gemm", "jackpot", "read"}
                         /\ backend = "opencl" => p[k].op \in {"kernel", "read"}
                         /\ ~Overlapped => p[k].op = "kernel"
                         /\ backend = "onednn" /\ p[k].op = "jackpot" =>
                              \E j \in DOMAIN p : j < k /\ p[j].op = "gemm"
      BY DEF OneLaunch
    <2>1. k \in DOMAIN s /\ p[k] = s[k] /\ k \in 1..n
      BY <1>3, <1>4
    <2>2. ASSUME backend = "onednn", p[k].op = "jackpot"
          PROVE  \E j \in DOMAIN p : j < k /\ p[j].op = "gemm"
      <3>1. PICK j \in DOMAIN s : j < k /\ s[j].op = "gemm"
        BY <2>1, <2>2 DEF OneLaunch
      <3>2. j \in DOMAIN p /\ p[j] = s[j]
        BY <1>1, <1>3, <1>4, <2>1, <3>1
      <3>. QED  BY <3>1, <3>2
    <2>. QED  BY <2>1, <2>2 DEF OneLaunch
  <1>. QED  BY <1>3, <1>5, <1>6 DEF p

\* What is queued stays in its place when commands are appended.
LEMMA AppendedFacts ==
  ASSUME NEW s \in Seq(ScanCommand), NEW a \in Seq(ScanCommand)
  PROVE  /\ s \o a \in Seq(ScanCommand)
         /\ \A i \in DOMAIN s : i \in DOMAIN (s \o a) /\ (s \o a)[i] = s[i]
         /\ \A i \in DOMAIN a : Len(s) + i \in DOMAIN (s \o a) /\ (s \o a)[Len(s) + i] = a[i]
         /\ \A k \in DOMAIN (s \o a) : k \in DOMAIN s \/ \E i \in DOMAIN a : k = Len(s) + i
         /\ Len(s) \in Nat /\ DOMAIN s = 1..Len(s) /\ \A i \in DOMAIN a : i \in Nat /\ i > 0
  <1>1. /\ Len(s) \in Nat /\ Len(a) \in Nat /\ DOMAIN s = 1..Len(s) /\ DOMAIN a = 1..Len(a)
    BY LenProperties
  <1>2. /\ s \o a \in Seq(ScanCommand) /\ Len(s \o a) = Len(s) + Len(a)
        /\ \A i \in 1..(Len(s) + Len(a)) : (s \o a)[i] = IF i <= Len(s) THEN s[i] ELSE a[i - Len(s)]
    BY ConcatProperties
  <1>3. DOMAIN (s \o a) = 1..(Len(s) + Len(a))
    BY <1>2, LenProperties
  <1>. DEFINE t == s \o a
  <1>. HIDE DEF t
  <1>4. \A i \in DOMAIN s : i \in DOMAIN t /\ t[i] = s[i]
    BY <1>1, <1>2, <1>3 DEF t
  <1>5. ASSUME NEW i \in DOMAIN a PROVE Len(s) + i \in DOMAIN t /\ t[Len(s) + i] = a[i]
    <2>1. Len(s) + i \in 1..(Len(s) + Len(a)) /\ ~(Len(s) + i <= Len(s)) /\ Len(s) + i - Len(s) = i
      BY <1>1
    <2>. QED  BY <1>2, <1>3, <2>1 DEF t
  <1>6. ASSUME NEW k \in DOMAIN t, k \notin DOMAIN s
        PROVE  \E i \in DOMAIN a : k = Len(s) + i
    <2>1. k \in Int /\ k - Len(s) \in 1..Len(a) /\ k = Len(s) + (k - Len(s))
      BY <1>1, <1>3, <1>6 DEF t
    <2>. QED  BY <1>1, <2>1
  <1>. QED  BY <1>1, <1>2, <1>4, <1>5, <1>6 DEF t

\* What is known of the queue whatever the host is at.
CommandsInv == OpsInv /\ OrderInv /\ XorInv

\* Queueing commands of a launch that is not queued yet keeps it.
LEMMA CommandsAppended ==
  ASSUME commands \in Seq(ScanCommand), CommandsInv, NEW a \in Seq(ScanCommand),
         OneLaunch(a, upcoming), Ranked(a), \A k \in DOMAIN commands : commands[k].launch # upcoming,
         commands' = commands \o a, UNCHANGED <<backend, xorOf>>
  PROVE  CommandsInv'
  <1>. DEFINE n == Len(commands)
  <1>1. /\ \A i \in DOMAIN commands : i \in DOMAIN commands' /\ commands'[i] = commands[i]
        /\ \A i \in DOMAIN a : n + i \in DOMAIN commands' /\ commands'[n + i] = a[i]
        /\ \A k \in DOMAIN commands' : k \in DOMAIN commands \/ \E i \in DOMAIN a : k = n + i
        /\ n \in Nat /\ DOMAIN commands = 1..n /\ \A i \in DOMAIN a : i \in Nat /\ i > 0
    BY AppendedFacts
  <1>. HIDE DEF n
  <1>2. Overlapped' = Overlapped
    BY DEF Overlapped
  <1>3. OpsInv'
    BY <1>1, <1>2 DEF CommandsInv, OpsInv, OneLaunch
  <1>4. OrderInv'
    <2>. SUFFICES ASSUME Overlapped, NEW i \in DOMAIN commands', NEW j \in DOMAIN commands',
                         commands'[i].launch = commands'[j].launch,
                         Rank(commands'[i].op) < Rank(commands'[j].op)
                  PROVE  i < j
      BY <1>2 DEF OrderInv, SameLaunch
    <2>1. CASE i \in DOMAIN commands /\ j \in DOMAIN commands
      BY <1>1, <2>1 DEF CommandsInv, OrderInv, SameLaunch
    <2>2. CASE i \in DOMAIN commands /\ j \notin DOMAIN commands
      BY <1>1, <2>2
    <2>3. CASE i \notin DOMAIN commands /\ j \in DOMAIN commands
      BY <1>1, <2>3 DEF OneLaunch
    <2>4. CASE i \notin DOMAIN commands /\ j \notin DOMAIN commands
      <3>1. PICK p \in DOMAIN a, q \in DOMAIN a : i = n + p /\ j = n + q
        BY <1>1, <2>4
      <3>2. p < q
        BY <1>1, <3>1 DEF Ranked
      <3>. QED  BY <1>1, <3>1, <3>2
    <2>. QED  BY <2>1, <2>2, <2>3, <2>4
  <1>5. XorInv'
    <2>. SUFFICES ASSUME backend = "onednn", NEW i \in DOMAIN commands', commands'[i].op = "jackpot"
                  PROVE  \/ \E j \in DOMAIN commands' : /\ commands'[j].op = "gemm"
                                                        /\ commands'[i].launch = commands'[j].launch
                         \/ xorOf[SlotFor(commands'[i].launch)] = commands'[i].launch
      BY DEF XorInv, SameLaunch
    <2>1. CASE i \in DOMAIN commands
      BY <1>1, <2>1 DEF CommandsInv, XorInv, SameLaunch
    <2>2. CASE i \notin DOMAIN commands
      <3>1. PICK p \in DOMAIN a : i = n + p
        BY <1>1, <2>2
      <3>2. PICK q \in DOMAIN a : a[q].op = "gemm"
        BY <1>1, <3>1 DEF OneLaunch
      <3>3. /\ n + q \in DOMAIN commands' /\ commands'[n + q] = a[q] /\ commands'[i] = a[p]
        BY <1>1, <3>1, <3>2
      <3>5. a[p].launch = a[q].launch
        BY <3>1, <3>2 DEF OneLaunch
      <3>4. \E j \in DOMAIN commands' : commands'[j] = a[q]
        BY <3>3
      <3>. QED  BY <3>2, <3>3, <3>4, <3>5
    <2>. QED  BY <2>1, <2>2
  <1>. QED  BY <1>3, <1>4, <1>5 DEF CommandsInv

\* A command that runs: those before it that it waits for have ended.
RunsAt(k) == k \in DOMAIN commands /\ MayRun(k) /\ commands' = RemoveAt(commands, k)

\* A command that runs leaves the queue and nothing else does.
LEMMA RunFacts ==
  ASSUME commands \in Seq(ScanCommand), NEW k, RunsAt(k)
  PROVE  /\ commands' \in Seq(ScanCommand) /\ commands[k] \in ScanCommand
         /\ \A j \in DOMAIN commands' : /\ OldPlace(j, k) \in DOMAIN commands /\ OldPlace(j, k) # k
                                        /\ commands'[j] = commands[OldPlace(j, k)]
         /\ \A i \in DOMAIN commands : i # k =>
              \E j \in DOMAIN commands' : commands'[j] = commands[i]
         /\ \A i, j \in DOMAIN commands' : OldPlace(i, k) < OldPlace(j, k) => i < j
  <1>1. /\ commands' \in Seq(ScanCommand)
        /\ k \in 1..Len(commands) /\ Len(commands) \in Nat
        /\ DOMAIN commands = 1..Len(commands) /\ DOMAIN commands' = 1..(Len(commands) - 1)
        /\ \A j \in DOMAIN commands' : commands'[j] = commands[OldPlace(j, k)]
    BY RemoveFacts DEF RunsAt
  <1>2. commands[k] \in ScanCommand
    BY <1>1, ElementOfSeq
  <1>3. \A j \in DOMAIN commands' : OldPlace(j, k) \in DOMAIN commands /\ OldPlace(j, k) # k
    BY <1>1 DEF OldPlace
  <1>4. ASSUME NEW i \in DOMAIN commands, i # k
        PROVE  \E j \in DOMAIN commands' : commands'[j] = commands[i]
    <2>1. NewPlace(i, k) \in DOMAIN commands' /\ OldPlace(NewPlace(i, k), k) = i
      BY <1>1, <1>4 DEF NewPlace, OldPlace
    <2>. QED  BY <1>1, <2>1
  <1>5. \A i, j \in DOMAIN commands' : OldPlace(i, k) < OldPlace(j, k) => i < j
    BY <1>1 DEF OldPlace
  <1>. QED  BY <1>1, <1>2, <1>3, <1>4, <1>5

\* What runs of an overlapped backend is not waiting for what comes before it in its launch.
LEMMA NothingBefore ==
  ASSUME commands \in Seq(ScanCommand), OpsInv, OrderInv, Overlapped, NEW k, RunsAt(k)
  PROVE  \A i \in DOMAIN commands : SameLaunch(i, k) => Rank(commands[i].op) # Rank(commands[k].op) - 1
  <1>. SUFFICES ASSUME NEW i \in DOMAIN commands, SameLaunch(i, k),
                       Rank(commands[i].op) = Rank(commands[k].op) - 1
                PROVE  FALSE
    OBVIOUS
  <1>1. /\ k \in DOMAIN commands /\ MayRun(k) /\ DOMAIN commands = 1..Len(commands)
        /\ Len(commands) \in Nat
    BY LenProperties DEF RunsAt
  <1>2. i < k /\ i \in 1..(k - 1)
    BY <1>1 DEF OrderInv, Rank
  <1>3. CASE backend = "opencl"
    <2>1. commands[i].dev # commands[k].dev
      BY <1>1, <1>2, <1>3 DEF MayRun
    <2>. QED  BY <1>1, <2>1 DEF OpsInv
  <1>4. CASE backend = "onednn"
    <2>1. ~WaitsFor(commands[k], commands[i])
      BY <1>1, <1>2, <1>4 DEF MayRun
    <2>2. /\ commands[i].op \in {"gemm", "jackpot", "read"}
          /\ commands[k].op \in {"gemm", "jackpot", "read"}
      BY <1>1, <1>4 DEF OpsInv
    <2>. QED  BY <2>1, <2>2 DEF WaitsFor, SameLaunch, Rank
  <1>. QED  BY <1>3, <1>4 DEF Overlapped

\* Two launches in a row use the two slots.
LEMMA SlotsDiffer ==
  ASSUME NEW a \in Int, NEW b \in Int, a \in {b - 1, b + 1}
  PROVE  SlotFor(a) # SlotFor(b) /\ SlotFor(a) \in {0, 1}
  BY DEF SlotFor

\* Running a command keeps what is known of the queue.
LEMMA CommandRuns ==
  ASSUME commands \in Seq(ScanCommand), CommandsInv, WindowInv, CompleteInv, upcoming \in Nat,
         xorOf \in [{0, 1} -> ScanLaunch \cup {Nowhere}],
         NEW k, RunsAt(k), UNCHANGED <<backend, upcoming, spc>>,
         xorOf' = IF commands[k].op = "gemm"
                  THEN [xorOf EXCEPT ![SlotFor(commands[k].launch)] = commands[k].launch]
                  ELSE xorOf
  PROVE  CommandsInv' /\ WindowInv' /\ CompleteInv'
  <1>1. /\ commands' \in Seq(ScanCommand) /\ commands[k] \in ScanCommand /\ k \in DOMAIN commands
        /\ \A j \in DOMAIN commands' : /\ OldPlace(j, k) \in DOMAIN commands /\ OldPlace(j, k) # k
                                       /\ commands'[j] = commands[OldPlace(j, k)]
        /\ \A i \in DOMAIN commands : i # k =>
             \E j \in DOMAIN commands' : commands'[j] = commands[i]
    BY RunFacts DEF RunsAt
  <1>2. \A i, j \in DOMAIN commands' : OldPlace(i, k) < OldPlace(j, k) => i < j
    BY RunFacts
  <1>3. Overlapped' = Overlapped
    BY DEF Overlapped
  <1>4. Overlapped => \A i \in DOMAIN commands :
           SameLaunch(i, k) => Rank(commands[i].op) # Rank(commands[k].op) - 1
    BY NothingBefore DEF CommandsInv
  <1>5. OpsInv'
    BY <1>1, <1>3 DEF CommandsInv, OpsInv
  <1>6. OrderInv'
    BY <1>1, <1>2, <1>3 DEF CommandsInv, OrderInv, SameLaunch
  <1>7. WindowInv'
    BY <1>1 DEF WindowInv
  <1>8. XorInv'
    <2>. SUFFICES ASSUME backend = "onednn", NEW i \in DOMAIN commands', commands'[i].op = "jackpot"
                  PROVE  \/ \E j \in DOMAIN commands' : /\ commands'[j].op = "gemm"
                                                        /\ commands'[i].launch = commands'[j].launch
                         \/ xorOf'[SlotFor(commands'[i].launch)] = commands'[i].launch
      BY DEF XorInv, SameLaunch
    <2>. DEFINE o == OldPlace(i, k)  l == commands[o].launch  c == commands[k]
    <2>1. o \in DOMAIN commands /\ o # k /\ commands'[i] = commands[o]
      BY <1>1
    <2>. HIDE DEF o
    <2>2. \A j \in DOMAIN commands : commands[j].launch \in Int
      <3>1. \A j \in DOMAIN commands : commands[j] \in ScanCommand
        BY LenProperties, ElementOfSeq
      <3>. QED  BY <3>1, ScanConstants DEF ScanCommand, ScanLaunch
    <2>3. CASE c.op = "gemm" /\ c.launch = l
      <3>1. SlotFor(l) \in {0, 1}
        BY <2>1, <2>2 DEF SlotFor
      <3>. QED  BY <2>1, <2>3, <3>1
    <2>4. CASE ~(c.op = "gemm" /\ c.launch = l)
      <3>1. (\E j \in DOMAIN commands : commands[j].op = "gemm" /\ SameLaunch(o, j))
              \/ xorOf[SlotFor(l)] = l
        BY <2>1 DEF CommandsInv, XorInv
      <3>2. CASE \E j \in DOMAIN commands : commands[j].op = "gemm" /\ SameLaunch(o, j)
        <4>1. PICK j \in DOMAIN commands : commands[j].op = "gemm" /\ SameLaunch(o, j)
          BY <3>2
        <4>2. j # k
          BY <2>4, <4>1 DEF SameLaunch
        <4>3. \E p \in DOMAIN commands' : commands'[p] = commands[j]
          BY <1>1, <4>1, <4>2
        <4>4. commands[o].launch = commands[j].launch
          BY <4>1 DEF SameLaunch
        <4>. QED  BY <2>1, <4>1, <4>3, <4>4
      <3>3. CASE xorOf[SlotFor(l)] = l
        <4>1. CASE c.op # "gemm"
          BY <2>1, <3>3, <4>1
        <4>2. CASE c.op = "gemm" /\ c.launch # l
          <5>1. l \in {c.launch - 1, c.launch + 1}
            <6>1. l \in {upcoming - 1, upcoming} /\ c.launch \in {upcoming - 1, upcoming}
              BY <1>1, <2>1 DEF WindowInv
            <6>. QED  BY <4>2, <6>1
          <5>2. SlotFor(l) # SlotFor(c.launch) /\ SlotFor(l) \in {0, 1}
            BY <1>1, <2>1, <2>2, <5>1, SlotsDiffer
          <5>. QED  BY <2>1, <3>3, <4>2, <5>2
        <4>. QED  BY <2>4, <4>1, <4>2
      <3>. QED  BY <3>1, <3>2, <3>3
    <2>. QED  BY <2>3, <2>4
  <1>9. CompleteInv'
    <2>. SUFFICES ASSUME Overlapped, spc \in {"loop", "await"}, NEW i \in DOMAIN commands'
                  PROVE  /\ commands'[i].op # "read" => \E j \in DOMAIN commands' :
                              commands'[j].op = "read" /\ commands'[i].launch = commands'[j].launch
                         /\ commands'[i].op = "gemm" => \E j \in DOMAIN commands' :
                              commands'[j].op = "jackpot" /\ commands'[i].launch = commands'[j].launch
      BY <1>3 DEF CompleteInv, SameLaunch
    <2>. DEFINE o == OldPlace(i, k)
    <2>1. o \in DOMAIN commands /\ o # k /\ commands'[i] = commands[o]
      BY <1>1
    <2>. HIDE DEF o
    <2>2. ASSUME commands[o].op = "gemm"
          PROVE  \E j \in DOMAIN commands : commands[j].op = "jackpot" /\ SameLaunch(o, j) /\ j # k
      <3>1. PICK j \in DOMAIN commands : commands[j].op = "jackpot" /\ SameLaunch(o, j)
        BY <2>1, <2>2 DEF CompleteInv
      <3>2. j # k
        BY <1>4, <2>1, <2>2, <3>1 DEF Rank, SameLaunch
      <3>. QED  BY <3>1, <3>2
    <2>3. ASSUME commands[o].op # "read"
          PROVE  \E j \in DOMAIN commands : commands[j].op = "read" /\ SameLaunch(o, j) /\ j # k
      <3>1. PICK j \in DOMAIN commands : commands[j].op = "read" /\ SameLaunch(o, j)
        BY <2>1, <2>3 DEF CompleteInv
      <3>2. ASSUME j = k PROVE FALSE
        <4>1. \A p \in DOMAIN commands : SameLaunch(p, k) => Rank(commands[p].op) # 1
          BY <1>4, <3>1, <3>2 DEF Rank
        <4>2. commands[o].op = "gemm"
          BY <2>1, <2>3, <3>1, <3>2, <4>1 DEF Rank
        <4>3. PICK p \in DOMAIN commands : commands[p].op = "jackpot" /\ SameLaunch(o, p)
          BY <2>2, <4>2
        <4>. QED  BY <3>1, <3>2, <4>1, <4>3 DEF Rank, SameLaunch
      <3>. QED  BY <3>1, <3>2
    <2>4. ASSUME NEW j \in DOMAIN commands, SameLaunch(o, j), j # k
          PROVE  \E p \in DOMAIN commands' : /\ commands'[p].op = commands[j].op
                                             /\ commands'[i].launch = commands'[p].launch
      <3>1. \E p \in DOMAIN commands' : commands'[p] = commands[j]
        BY <1>1, <2>4
      <3>2. commands[o].launch = commands[j].launch
        BY <2>4 DEF SameLaunch
      <3>. QED  BY <2>1, <3>1, <3>2
    <2>5. commands'[i].op = commands[o].op
      BY <2>1
    <2>. QED  BY <2>2, <2>3, <2>4, <2>5
  <1>. QED  BY <1>5, <1>6, <1>7, <1>8, <1>9 DEF CommandsInv

-----------------------------------------------------------------------------
\* The types of the data of a scan that the safety proof rests on.
ScanDataTypeOK ==
  /\ backend \in ScanBackends /\ marked \subseteq ScanLaunch
  /\ spc \in {"idle", "loop", "await", "drain", "report", "return", "team"}
  /\ upcoming \in 0..ScanLaunches /\ counted \in 0..ScanLaunches
  /\ commands \in Seq(ScanCommand)
  /\ winner \in [Devices -> ScanLaunch \cup {Nowhere}]
  /\ xorOf \in [{0, 1} -> ScanLaunch \cup {Nowhere}]

\* Where the host can be on which backend.
PlaceInv ==
  /\ spc \in {"loop", "await"} => backend # "cpu"
  /\ spc = "team" => backend = "cpu"
  /\ spc \in {"drain", "report"} => Overlapped
  /\ spc = "await" => upcoming < ScanLaunches
  /\ spc = "loop" /\ ~Overlapped => upcoming < ScanLaunches

\* Every step keeps the host in such a place.
LEMMA PlaceInvStep ==
  ASSUME ScanDataTypeOK, PlaceInv, ScanNext
  PROVE  PlaceInv'
  <1>. USE DEF PlaceInv
  <1>. /\ upcoming \in Nat /\ upcoming <= ScanLaunches
    BY ScanConstants DEF ScanDataTypeOK
  <1>1. backend' = backend /\ Overlapped' = Overlapped
    BY DEF ScanNext, BeginScan, SeesCancel, Launch, AwaitPrevious, AwaitLast, Drain, Report, AwaitThis,
       Return, Execute, TeamEnds, CancelScan, TakeTile, OnTile, StoreHit, TeamStep, HostAt,
       attemptVars, Overlapped
  <1>2. CASE BeginScan
    BY <1>1, <1>2, ScanConstants DEF BeginScan, Overlapped
  <1>3. CASE SeesCancel
    BY <1>1, <1>3 DEF SeesCancel, GiveUp, HostAt
  <1>4. CASE Launch
    BY <1>1, <1>4 DEF Launch, GiveUp, HostAt
  <1>5. CASE AwaitPrevious
    BY <1>1, <1>5 DEF AwaitPrevious, HostAt, Overlapped
  <1>6. CASE AwaitLast
    BY <1>1, <1>6 DEF AwaitLast, HostAt
  <1>7. CASE Drain \/ Report \/ Return \/ TeamEnds
    BY <1>1, <1>7 DEF Drain, Report, Return, TeamEnds, HostAt
  <1>8. CASE AwaitThis
    <2>1. PICK u \in Int : /\ spc' \in {"return", "loop"} /\ upcoming' = u /\ backend # "cpu"
                           /\ spc' = "loop" => u < ScanLaunches
      <3>1. /\ spc = "await" /\ spc' \in {"return", "loop"}
            /\ upcoming' \in {upcoming, upcoming + 1}
            /\ spc' = "loop" => upcoming' = upcoming + 1 /\ upcoming + 1 # ScanLaunches
        BY <1>8 DEF AwaitThis, HostAt
      <3>. QED  BY <3>1, ScanConstants
    <2>. QED  BY <1>1, <2>1, ScanConstants
  <1>9. CASE spc' = spc /\ (spc # "team" => upcoming' = upcoming)
    BY <1>1, <1>9
  <1>10. CASE Execute \/ CancelScan \/ \E t \in Devices : TakeTile(t) \/ OnTile(t) \/ StoreHit(t)
    BY <1>9, <1>10 DEF Execute, CancelScan, TakeTile, OnTile, StoreHit, TeamStep, hostScanVars
  <1>. QED  BY <1>2, <1>3, <1>4, <1>5, <1>6, <1>7, <1>8, <1>10 DEF ScanNext

\* Everything that is known of the queue holds of the empty one.
LEMMA EmptyQueue ==
  ASSUME commands = <<>>
  PROVE  CommandsInv /\ WindowInv /\ CompleteInv /\ EmptyInv
  BY DEF CommandsInv, OpsInv, OrderInv, XorInv, WindowInv, CompleteInv, EmptyInv

\* The whole of what is known of the queue.
ScanQueueInv == CommandsInv /\ WindowInv /\ CompleteInv /\ EmptyInv

\* With the read of a launch ended, nothing of it is left.
LEMMA ReadIsLast ==
  ASSUME CompleteInv, Overlapped, spc = "await", NEW l, ~Queued("read", l)
  PROVE  \A k \in DOMAIN commands : commands[k].launch # l
  BY DEF CompleteInv, SameLaunch, Queued

\* Launch keeps it, also when a command of the launch fails to be queued.
LEMMA ScanQueueLaunch ==
  ASSUME ScanDataTypeOK, PlaceInv, ScanQueueInv, Launch
  PROVE  ScanQueueInv'
  <1>. DEFINE l == upcoming  s == CommandsOf(upcoming)
  <1>1. /\ spc = "loop" /\ l < ScanLaunches /\ l \in ScanLaunch /\ commands \in Seq(ScanCommand)
        /\ UNCHANGED <<backend, xorOf, upcoming>> /\ Overlapped' = Overlapped
        /\ backend \in {"opencl", "onednn", "onebyone", "cuda"}
    BY ScanConstants, ScanAssumption DEF Launch, HostAt, GiveUp, ScanDataTypeOK, PlaceInv,
       ScanLaunch, attemptVars, Overlapped
  <1>2. \A k \in DOMAIN commands : commands[k].launch = l - 1 /\ commands[k].launch # l
    BY <1>1, ScanConstants DEF ScanQueueInv, WindowInv, ScanDataTypeOK
  <1>3. /\ s \in Seq(ScanCommand) /\ OneLaunch(s, l) /\ Ranked(s) /\ WholeLaunch(s)
        /\ backend = "onebyone" => Len(s) = 1
    BY <1>1, CommandsFacts
  <1>. HIDE DEF s
  <1>4. ASSUME NEW a \in Seq(ScanCommand), OneLaunch(a, l), Ranked(a), commands' = commands \o a
        PROVE  /\ CommandsInv'
               /\ \A i \in DOMAIN commands : \E j \in DOMAIN commands' : commands'[j] = commands[i]
               /\ \A i \in DOMAIN a : \E j \in DOMAIN commands' : commands'[j] = a[i]
               /\ \A k \in DOMAIN commands' : \/ \E i \in DOMAIN commands : commands'[k] = commands[i]
                                              \/ \E i \in DOMAIN a : commands'[k] = a[i]
    <2>1. CommandsInv'
      BY <1>1, <1>2, <1>4, CommandsAppended DEF ScanQueueInv
    <2>2. /\ \A i \in DOMAIN commands : i \in DOMAIN commands' /\ commands'[i] = commands[i]
          /\ \A i \in DOMAIN a : Len(commands) + i \in DOMAIN commands'
                                 /\ commands'[Len(commands) + i] = a[i]
          /\ \A k \in DOMAIN commands' : k \in DOMAIN commands \/ \E i \in DOMAIN a : k = Len(commands) + i
      BY <1>1, <1>4, AppendedFacts
    <2>. QED  BY <2>1, <2>2
  <1>5. ASSUME NEW a \in Seq(ScanCommand), OneLaunch(a, l), Ranked(a), commands' = commands \o a,
               spc' # "loop"
        PROVE  WindowInv'
    <2>1. \A k \in DOMAIN commands' : commands'[k].launch \in {l - 1, l}
      BY <1>2, <1>4, <1>5 DEF OneLaunch
    <2>. QED  BY <1>1, <1>5, <2>1 DEF WindowInv
  <1>6. CASE commands' = commands \o s /\ spc' = "await"
    <2>0. /\ \A i \in DOMAIN commands : \E j \in DOMAIN commands' : commands'[j] = commands[i]
          /\ \A i \in DOMAIN s : \E j \in DOMAIN commands' : commands'[j] = s[i]
          /\ \A k \in DOMAIN commands' : \/ \E i \in DOMAIN commands : commands'[k] = commands[i]
                                         \/ \E i \in DOMAIN s : commands'[k] = s[i]
      BY <1>3, <1>4, <1>6
    <2>1. ASSUME Overlapped, NEW i \in DOMAIN commands'
          PROVE  /\ commands'[i].op # "read" => \E j \in DOMAIN commands' :
                      commands'[j].op = "read" /\ commands'[i].launch = commands'[j].launch
                 /\ commands'[i].op = "gemm" => \E j \in DOMAIN commands' :
                      commands'[j].op = "jackpot" /\ commands'[i].launch = commands'[j].launch
      <3>1. CASE \E o \in DOMAIN commands : commands'[i] = commands[o]
        <4>1. PICK o \in DOMAIN commands : commands'[i] = commands[o]
          BY <3>1
        <4>2. /\ commands[o].op # "read" => \E j \in DOMAIN commands :
                    commands[j].op = "read" /\ commands[o].launch = commands[j].launch
              /\ commands[o].op = "gemm" => \E j \in DOMAIN commands :
                    commands[j].op = "jackpot" /\ commands[o].launch = commands[j].launch
          BY <1>1, <2>1, <4>1 DEF ScanQueueInv, CompleteInv, SameLaunch
        <4>. QED  BY <2>0, <4>1, <4>2
      <3>2. CASE \E o \in DOMAIN s : commands'[i] = s[o]
        <4>1. PICK o \in DOMAIN s : commands'[i] = s[o]
          BY <3>2
        <4>2. /\ \E j \in DOMAIN s : s[j].op = "read" /\ s[o].launch = s[j].launch
              /\ s[o].op = "gemm" => \E j \in DOMAIN s : s[j].op = "jackpot" /\ s[o].launch = s[j].launch
          BY <1>3, <2>1, <4>1 DEF WholeLaunch, OneLaunch
        <4>. QED  BY <2>0, <4>1, <4>2
      <3>. QED  BY <2>0, <3>1, <3>2
    <2>2. CompleteInv'
      BY <1>1, <2>1 DEF CompleteInv, SameLaunch
    <2>3. EmptyInv'
      BY <1>6 DEF EmptyInv
    <2>. QED  BY <1>3, <1>4, <1>5, <1>6, <2>2, <2>3 DEF ScanQueueInv
  <1>7. CASE /\ spc' = (IF Overlapped THEN "drain" ELSE "return") /\ backend # "cuda"
             /\ \E n \in 0..(Len(s) - 1) : commands' = commands \o SubSeq(s, 1, n)
    <2>1. PICK n \in 0..(Len(s) - 1) : commands' = commands \o SubSeq(s, 1, n)
      BY <1>7
    <2>. DEFINE a == SubSeq(s, 1, n)
    <2>2. a \in Seq(ScanCommand) /\ OneLaunch(a, l) /\ Ranked(a) /\ Len(a) = n
      BY <1>3, PrefixFacts
    <2>. HIDE DEF a
    <2>3. CommandsInv' /\ WindowInv'
      BY <1>4, <1>5, <1>7, <2>1, <2>2 DEF a
    <2>4. CompleteInv'
      BY <1>7 DEF CompleteInv
    <2>5. CASE Overlapped
      BY <1>1, <1>7, <2>3, <2>4, <2>5 DEF ScanQueueInv, EmptyInv
    <2>6. CASE ~Overlapped
      <3>1. backend = "onebyone" /\ Len(a) = 0 /\ commands = <<>>
        BY <1>1, <1>3, <1>7, <2>2, <2>6 DEF Overlapped, ScanQueueInv, EmptyInv
      <3>2. a = <<>>
        BY <2>2, <3>1, EmptySeq
      <3>3. commands' = <<>>
        BY <1>1, <2>1, <3>1, <3>2, ConcatEmptySeq DEF a
      <3>. QED  BY <2>3, <2>4, <3>3 DEF ScanQueueInv, EmptyInv
    <2>. QED  BY <2>5, <2>6
  <1>. QED  BY <1>6, <1>7 DEF Launch, GiveUp, s

\* What a command does that runs.
LEMMA ExecuteFacts ==
  ASSUME Execute, ScanDataTypeOK
  PROVE  /\ UNCHANGED <<attemptVars, hostScanVars, cpuVars>>
         /\ \E k \in DOMAIN commands :
              LET c == commands[k]  l == c.launch IN
              /\ RunsAt(k) /\ c \in ScanCommand
              /\ xorOf' = IF c.op = "gemm" THEN [xorOf EXCEPT ![SlotFor(l)] = l] ELSE xorOf
              /\ hostFlag' = IF c.op = "read" THEN [hostFlag EXCEPT ![SlotFor(l)] = flag[1]]
                             ELSE hostFlag
              /\ c.op = "jackpot" => Latch(l, xorOf[SlotFor(l)] \in marked, 1)
              /\ c.op = "kernel" => Latch(l, l \in marked, c.dev)
              /\ c.op \in {"gemm", "read"} => UNCHANGED latchVars
  <1>1. UNCHANGED <<attemptVars, hostScanVars, cpuVars>>
    BY DEF Execute
  <1>2. PICK k \in DOMAIN commands :
          LET c == commands[k]  l == c.launch IN
          /\ MayRun(k) /\ commands' = RemoveAt(commands, k)
          /\ CASE c.op = "gemm" -> /\ xorOf' = [xorOf EXCEPT ![SlotFor(l)] = l]
                                   /\ UNCHANGED <<latchVars, hostFlag>>
               [] c.op = "jackpot" -> /\ Latch(l, xorOf[SlotFor(l)] \in marked, 1)
                                      /\ UNCHANGED <<xorOf, hostFlag>>
               [] c.op = "kernel" -> Latch(l, l \in marked, c.dev) /\ UNCHANGED <<xorOf, hostFlag>>
               [] c.op = "read" -> /\ hostFlag' = [hostFlag EXCEPT ![SlotFor(l)] = flag[1]]
                                   /\ UNCHANGED <<latchVars, xorOf>>
    BY DEF Execute
  <1>3. RunsAt(k)
    BY <1>2 DEF RunsAt
  <1>4. commands[k] \in ScanCommand
    BY <1>3, RunFacts DEF ScanDataTypeOK
  <1>5. commands[k].op \in {"gemm", "jackpot", "kernel", "read"}
    BY <1>4 DEF ScanCommand
  <1>6. CASE commands[k].op = "gemm"
    BY <1>1, <1>2, <1>3, <1>4, <1>6
  <1>7. CASE commands[k].op = "jackpot"
    BY <1>1, <1>2, <1>3, <1>4, <1>7
  <1>8. CASE commands[k].op = "kernel"
    BY <1>1, <1>2, <1>3, <1>4, <1>8
  <1>9. CASE commands[k].op = "read"
    BY <1>1, <1>2, <1>3, <1>4, <1>9
  <1>. QED  BY <1>5, <1>6, <1>7, <1>8, <1>9

\* Every step keeps what is known of the queue.
LEMMA ScanQueueStep ==
  ASSUME ScanDataTypeOK, PlaceInv, ScanQueueInv, ScanNext
  PROVE  ScanQueueInv'
  <1>. /\ upcoming \in Nat /\ upcoming <= ScanLaunches
    BY ScanConstants DEF ScanDataTypeOK
  <1>0. /\ backend' = backend /\ Overlapped' = Overlapped
        /\ commands = <<>> /\ UNCHANGED commands => ScanQueueInv'
        /\ Launch \/ Execute \/ UNCHANGED <<commands, xorOf>>
    <2>1. backend' = backend /\ Overlapped' = Overlapped
      BY DEF ScanNext, BeginScan, SeesCancel, Launch, AwaitPrevious, AwaitLast, Drain, Report, AwaitThis,
         Return, Execute, TeamEnds, CancelScan, TakeTile, OnTile, StoreHit, TeamStep, HostAt,
         attemptVars, Overlapped
    <2>2. commands = <<>> /\ UNCHANGED commands => ScanQueueInv'
      BY DEF ScanQueueInv, CommandsInv, OpsInv, OrderInv, XorInv, WindowInv, CompleteInv, EmptyInv
    <2>3. Launch \/ Execute \/ UNCHANGED <<commands, xorOf>>
      BY DEF ScanNext, BeginScan, SeesCancel, AwaitPrevious, AwaitLast, Drain, Report, AwaitThis,
         Return, TeamEnds, CancelScan, TakeTile, OnTile, StoreHit, TeamStep, HostAt, gpuVars
    <2>. QED  BY <2>1, <2>2, <2>3
  <1>1. CASE Launch
    BY <1>1, ScanQueueLaunch
  <1>2. CASE Execute
    <2>1. UNCHANGED <<backend, upcoming, spc>> /\ commands \in Seq(ScanCommand)
      BY <1>2 DEF Execute, attemptVars, hostScanVars, ScanDataTypeOK
    <2>2. PICK k \in DOMAIN commands :
            /\ RunsAt(k)
            /\ xorOf' = IF commands[k].op = "gemm"
                        THEN [xorOf EXCEPT ![SlotFor(commands[k].launch)] = commands[k].launch]
                        ELSE xorOf
      BY <1>2, ExecuteFacts
    <2>3. CommandsInv' /\ WindowInv' /\ CompleteInv'
      BY <2>1, <2>2, CommandRuns DEF ScanQueueInv, ScanDataTypeOK
    <2>4. EmptyInv'
      <3>1. commands # <<>>
        BY <2>2
      <3>. QED  BY <1>0, <2>1, <3>1 DEF ScanQueueInv, EmptyInv
    <2>. QED  BY <2>3, <2>4 DEF ScanQueueInv
  <1>3. CASE commands = <<>> /\ UNCHANGED commands
    BY <1>0, <1>3
  <1>4. CommandsInv /\ UNCHANGED <<commands, xorOf>> => CommandsInv'
    BY <1>0 DEF CommandsInv, OpsInv, OrderInv, XorInv, SameLaunch
  <1>5. CASE UNCHANGED <<commands, upcoming>> /\ ~(Launch \/ Execute)
             /\ (spc' = spc \/ (Overlapped /\ spc' = "drain"))
    <2>1. WindowInv' /\ CompleteInv' /\ EmptyInv'
      BY <1>0, <1>5 DEF ScanQueueInv, WindowInv, CompleteInv, EmptyInv, SameLaunch
    <2>. QED  BY <1>0, <1>4, <1>5, <2>1 DEF ScanQueueInv
  <1>6. CASE BeginScan
    BY <1>3, <1>6 DEF BeginScan, ScanQueueInv, EmptyInv
  <1>7. CASE SeesCancel
    <2>1. CASE Overlapped
      BY <1>1, <1>2, <1>5, <1>7, <2>1 DEF SeesCancel, GiveUp
    <2>2. CASE ~Overlapped
      BY <1>3, <1>7, <2>2 DEF SeesCancel, GiveUp, HostAt, ScanQueueInv, EmptyInv
    <2>. QED  BY <2>1, <2>2
  <1>8. CASE AwaitPrevious
    <2>1. Overlapped /\ UNCHANGED commands /\ spc = "await"
      BY <1>8 DEF AwaitPrevious, HostAt
    <2>2. CASE spc' = "drain" /\ UNCHANGED upcoming
      BY <1>1, <1>2, <1>5, <2>1, <2>2
    <2>3. CASE /\ spc' = "loop" /\ upcoming' = upcoming + 1
               /\ upcoming = 0 \/ ~Queued("read", upcoming - 1)
      <3>1. \A k \in DOMAIN commands : commands[k] \in ScanCommand /\ commands[k].launch \in Nat
        <4>1. \A k \in DOMAIN commands : commands[k] \in ScanCommand
          BY LenProperties, ElementOfSeq DEF ScanDataTypeOK
        <4>. QED  BY <4>1, ScanConstants DEF ScanCommand, ScanLaunch
      <3>2. \A k \in DOMAIN commands : commands[k].launch # upcoming - 1
        BY <2>1, <2>3, <3>1, ReadIsLast DEF ScanQueueInv
      <3>3. \A k \in DOMAIN commands : commands[k].launch = upcoming
        BY <3>2 DEF ScanQueueInv, WindowInv
      <3>4. WindowInv'
        BY <2>1, <2>3, <3>3 DEF WindowInv
      <3>5. CompleteInv' /\ EmptyInv'
        BY <1>0, <2>1, <2>3 DEF ScanQueueInv, CompleteInv, EmptyInv, SameLaunch
      <3>6. CommandsInv'
        BY <1>0, <1>4, <2>1, <2>3, <1>8 DEF ScanQueueInv, AwaitPrevious, HostAt
      <3>. QED  BY <3>4, <3>5, <3>6 DEF ScanQueueInv
    <2>. QED  BY <1>8, <2>2, <2>3 DEF AwaitPrevious
  <1>9. CASE AwaitLast
    BY <1>1, <1>2, <1>5, <1>9 DEF AwaitLast
  <1>10. CASE Drain \/ AwaitThis
    BY <1>3, <1>10 DEF Drain, AwaitThis
  <1>11. CASE Report \/ Return \/ TeamEnds
    BY <1>3, <1>11 DEF Report, Return, TeamEnds, HostAt, ScanQueueInv, EmptyInv
  <1>12. CASE CancelScan
    BY <1>1, <1>2, <1>5, <1>12 DEF CancelScan, gpuVars, hostScanVars
  <1>13. CASE \E t \in Devices : TakeTile(t) \/ OnTile(t) \/ StoreHit(t)
    BY <1>3, <1>13 DEF TakeTile, OnTile, StoreHit, TeamStep, gpuVars, ScanQueueInv, EmptyInv
  <1>. QED  BY <1>1, <1>2, <1>6, <1>7, <1>8, <1>9, <1>10, <1>11, <1>12, <1>13 DEF ScanNext

-----------------------------------------------------------------------------
\* The types of the flags.
ScanFlagTypeOK ==
  /\ hostFlag \in [{0, 1} -> BOOLEAN] /\ flag \in [Devices -> BOOLEAN]

\* Launch removes no command, and a launch queued whole has its hash and its read queued.
LEMMA LaunchFacts ==
  ASSUME ScanDataTypeOK, PlaceInv, Launch
  PROVE  /\ \A i \in DOMAIN commands : \E j \in DOMAIN commands' : commands'[j] = commands[i]
         /\ spc' = "await" => /\ HashQueued(upcoming)'
                              /\ Overlapped => Queued("read", upcoming)'
         /\ commands' \in Seq(ScanCommand)
  <1>. DEFINE l == upcoming  s == CommandsOf(upcoming)
  <1>1. /\ l \in ScanLaunch /\ commands \in Seq(ScanCommand) /\ upcoming' = upcoming
        /\ backend \in {"opencl", "onednn", "onebyone", "cuda"}
    BY ScanConstants, ScanAssumption DEF Launch, HostAt, GiveUp, ScanDataTypeOK, PlaceInv, ScanLaunch
  <1>2. /\ s \in Seq(ScanCommand) /\ OneLaunch(s, l) /\ Ranked(s) /\ WholeLaunch(s)
    BY <1>1, CommandsFacts
  <1>. HIDE DEF s
  <1>3. CASE spc' = "await" /\ commands' = commands \o s
    <2>1. /\ \A i \in DOMAIN commands : i \in DOMAIN commands' /\ commands'[i] = commands[i]
          /\ \A i \in DOMAIN s : Len(commands) + i \in DOMAIN commands'
                                 /\ commands'[Len(commands) + i] = s[i]
          /\ commands' \in Seq(ScanCommand)
      BY <1>1, <1>2, <1>3, AppendedFacts
    <2>2. \A i \in DOMAIN s : \E j \in DOMAIN commands' : commands'[j] = s[i] /\ s[i].launch = l
      BY <1>2, <2>1 DEF OneLaunch
    <2>3. HashQueued(upcoming)'
      <3>1. PICK i \in DOMAIN s : IsHash(s[i])
        BY <1>2 DEF WholeLaunch
      <3>2. PICK j \in DOMAIN commands' : commands'[j] = s[i] /\ s[i].launch = l
        BY <2>2
      <3>. QED  BY <1>1, <3>1, <3>2 DEF HashQueued
    <2>4. Overlapped => Queued("read", upcoming)'
      <3>. SUFFICES ASSUME Overlapped PROVE Queued("read", upcoming)'
        OBVIOUS
      <3>1. PICK i \in DOMAIN s : s[i].op = "read"
        BY <1>2 DEF WholeLaunch
      <3>2. PICK j \in DOMAIN commands' : commands'[j] = s[i] /\ s[i].launch = l
        BY <2>2
      <3>. QED  BY <1>1, <3>1, <3>2 DEF Queued
    <2>. QED  BY <2>1, <2>3, <2>4
  <1>4. CASE spc' # "await" /\ \E n \in 0..(Len(s) - 1) : commands' = commands \o SubSeq(s, 1, n)
    <2>1. PICK n \in 0..(Len(s) - 1) : commands' = commands \o SubSeq(s, 1, n)
      BY <1>4
    <2>. DEFINE a == SubSeq(s, 1, n)
    <2>2. a \in Seq(ScanCommand)
      BY <1>2, PrefixFacts
    <2>. HIDE DEF a
    <2>3. commands' = commands \o a
      BY <2>1 DEF a
    <2>4. /\ \A i \in DOMAIN commands : i \in DOMAIN commands' /\ commands'[i] = commands[i]
          /\ commands' \in Seq(ScanCommand)
      BY <1>1, <2>2, <2>3, AppendedFacts
    <2>. QED  BY <1>4, <2>4
  <1>. QED  BY <1>3, <1>4 DEF Launch, GiveUp, s

\* What runs sets the flag if its launch is marked; flags are not reset.
LEMMA RunSets ==
  ASSUME ScanDataTypeOK, ScanFlagTypeOK, ScanQueueInv, NEW k \in DOMAIN commands, RunsAt(k),
         NEW c, c = commands[k], NEW l, l = c.launch, backend # "cpu",
         c.op = "jackpot" => Latch(l, xorOf[SlotFor(l)] \in marked, 1),
         c.op = "kernel" => Latch(l, l \in marked, c.dev),
         c.op \in {"gemm", "read"} => UNCHANGED latchVars
  PROVE  /\ \A d \in Devices : flag[d] => flag'[d]
         /\ IsHash(c) /\ l \in marked => flag'[1]
         /\ \A d \in Devices : flag'[d] => \/ flag[d] /\ winner'[d] = winner[d]
                                           \/ winner'[d] = l /\ l \in marked
  <1>1. c \in ScanCommand /\ OpsInv /\ OrderInv /\ XorInv
    BY RunFacts DEF ScanDataTypeOK, ScanQueueInv, CommandsInv
  <1>2. c.op \in {"gemm", "jackpot", "kernel", "read"} /\ c.dev \in Devices
    BY <1>1 DEF ScanCommand
  <1>3. CASE c.op \in {"gemm", "read"}
    BY <1>3 DEF latchVars, IsHash
  <1>4. ASSUME NEW d0 \in Devices, Latch(l, l \in marked, d0)
        PROVE  /\ \A d \in Devices : flag[d] => flag'[d]
               /\ l \in marked => flag'[d0]
               /\ \A d \in Devices : flag'[d] => \/ flag[d] /\ winner'[d] = winner[d]
                                                 \/ winner'[d] = l /\ l \in marked
    <2>1. CASE l \in marked /\ ~flag[d0]
      <3>1. flag' = [flag EXCEPT ![d0] = TRUE] /\ winner' = [winner EXCEPT ![d0] = l]
        BY <1>4, <2>1 DEF Latch
      <3>. QED  BY <2>1, <3>1 DEF ScanFlagTypeOK, ScanDataTypeOK
    <2>2. CASE ~(l \in marked /\ ~flag[d0])
      <3>1. flag' = flag /\ winner' = winner
        BY <1>4, <2>2 DEF Latch, latchVars
      <3>. QED  BY <2>2, <3>1
    <2>. QED  BY <2>1, <2>2
  <1>5. CASE c.op = "kernel"
    <2>1. /\ \A d \in Devices : flag[d] => flag'[d]
          /\ l \in marked => flag'[c.dev]
          /\ \A d \in Devices : flag'[d] => \/ flag[d] /\ winner'[d] = winner[d]
                                            \/ winner'[d] = l /\ l \in marked
      BY <1>2, <1>4, <1>5
    <2>. QED  BY <2>1 DEF IsHash
  <1>6. CASE c.op = "jackpot"
    <2>1. backend = "onednn" /\ Overlapped /\ c.dev = 1
      BY <1>1, <1>2, <1>6, ScanAssumption DEF OpsInv, Overlapped, ScanDataTypeOK
    <2>2. \A i \in DOMAIN commands : SameLaunch(i, k) => commands[i].op # "gemm"
      <3>1. \A i \in DOMAIN commands : SameLaunch(i, k) => Rank(commands[i].op) # Rank(commands[k].op) - 1
        BY <1>1, <2>1, NothingBefore DEF ScanDataTypeOK
      <3>. QED  BY <1>6, <3>1 DEF Rank
    <2>3. xorOf[SlotFor(l)] = l
      BY <1>1, <1>6, <2>1, <2>2 DEF XorInv, SameLaunch
    <2>4. Latch(l, l \in marked, 1)
      BY <1>6, <2>3
    <2>. QED  BY <1>4, <2>1, <2>4, ScanConstants DEF IsHash
  <1>. QED  BY <1>2, <1>3, <1>5, <1>6

\* While launches are still queued nothing was found and nothing failed.
FoundInv == spc \in {"loop", "await", "team"} => ok /\ ~found

\* Every step keeps it: what finds a hit or fails leaves the loop.
LEMMA FoundInvStep ==
  ASSUME FoundInv, ScanNext
  PROVE  FoundInv'
  <1>. USE DEF FoundInv
  <1>1. CASE BeginScan
    BY <1>1 DEF BeginScan
  <1>2. CASE SeesCancel
    BY <1>2 DEF SeesCancel, GiveUp
  <1>0. CASE spc \in {"loop", "await", "team"} /\ UNCHANGED <<ok, found>>
    BY <1>0
  <1>3. CASE Launch
    <2>1. spc = "loop" /\ (spc' \in {"await", "team", "loop"} => UNCHANGED <<ok, found>>)
      BY <1>3 DEF Launch, GiveUp, HostAt
    <2>. QED  BY <1>0, <2>1
  <1>4. CASE AwaitPrevious
    <2>1. spc = "await" /\ (spc' = "loop" \/ spc' = "drain")
      BY <1>4 DEF AwaitPrevious, HostAt
    <2>2. spc' = "loop" => (found' = found \/ ~found') /\ UNCHANGED ok
      BY <1>4 DEF AwaitPrevious, HostAt, Account
    <2>. QED  BY <1>0, <2>1, <2>2
  <1>5. CASE AwaitLast \/ Drain \/ Report \/ Return \/ TeamEnds
    BY <1>5 DEF AwaitLast, Drain, Report, Return, TeamEnds
  <1>6. CASE AwaitThis
    <2>1. spc = "await" /\ (spc' = "loop" \/ spc' = "return")
      BY <1>6 DEF AwaitThis, HostAt
    <2>2. spc' = "loop" => ~found' /\ UNCHANGED ok
      BY <1>6 DEF AwaitThis, HostAt
    <2>. QED  BY <2>1, <2>2
  <1>7. CASE Execute \/ CancelScan \/ \E t \in Devices : TakeTile(t) \/ OnTile(t) \/ StoreHit(t)
    BY <1>7 DEF Execute, CancelScan, TakeTile, OnTile, StoreHit, TeamStep, hostScanVars
  <1>. QED  BY <1>1, <1>2, <1>3, <1>4, <1>5, <1>6, <1>7 DEF ScanNext

\* The steps of a scan off the CPU, and those that neither begin nor end it.
LEMMA ScanSteps ==
  ASSUME PlaceInv, ScanNext, spc' # "idle", backend' # "cpu"
  PROVE  /\ backend # "cpu" /\ backend' = backend /\ Overlapped' = Overlapped
         /\ BeginScan \/ SeesCancel \/ Launch \/ AwaitPrevious \/ AwaitLast \/ Drain
            \/ Report \/ AwaitThis \/ Execute \/ CancelScan
         /\ spc # "idle" \/ BeginScan \/ Execute
         /\ marked' = marked \/ BeginScan
         /\ UNCHANGED latchVars \/ BeginScan \/ Execute
  <1>1. backend' = backend /\ Overlapped' = Overlapped
    BY DEF ScanNext, BeginScan, SeesCancel, Launch, AwaitPrevious, AwaitLast, Drain, Report, AwaitThis,
       Return, Execute, TeamEnds, CancelScan, TakeTile, OnTile, StoreHit, TeamStep, HostAt,
       attemptVars, Overlapped
  <1>2. ~Return /\ ~TeamEnds /\ ~\E t \in Devices : TakeTile(t) \/ OnTile(t) \/ StoreHit(t)
    BY <1>1 DEF PlaceInv, Return, TeamEnds, TakeTile, OnTile, StoreHit, TeamStep, HostAt
  <1>3. /\ spc # "idle" \/ BeginScan \/ Execute
        /\ marked' = marked \/ BeginScan
        /\ UNCHANGED latchVars \/ BeginScan \/ Execute
    BY <1>2 DEF ScanNext, SeesCancel, Launch, AwaitPrevious, AwaitLast, Drain, Report, AwaitThis,
       Execute, CancelScan, HostAt, attemptVars
  <1>. QED  BY <1>1, <1>2, <1>3 DEF ScanNext

\* Every step keeps what the flags say.
LEMMA LatchInvStep ==
  ASSUME ScanDataTypeOK, ScanFlagTypeOK, PlaceInv, FoundInv, ScanQueueInv, LatchInv, ScanNext
  PROVE  LatchInv'
  <1>. SUFFICES ASSUME spc' # "idle", backend' # "cpu"
                PROVE  /\ \A d \in Devices : flag'[d] => winner'[d] \in marked'
                       /\ \A s \in {0, 1} : hostFlag'[s] => flag'[1]
                       /\ found' /\ Overlapped' => flag'[1]
    BY DEF LatchInv
  <1>0. /\ backend # "cpu" /\ backend' = backend /\ Overlapped' = Overlapped
        /\ BeginScan \/ SeesCancel \/ Launch \/ AwaitPrevious \/ AwaitLast \/ Drain
           \/ Report \/ AwaitThis \/ Execute \/ CancelScan
        /\ spc # "idle" \/ BeginScan \/ Execute
        /\ marked' = marked \/ BeginScan
        /\ UNCHANGED latchVars \/ BeginScan \/ Execute
    BY ScanSteps
  <1>1. CASE BeginScan
    BY <1>1, ScanConstants DEF BeginScan
  <1>2. CASE Execute
    <2>1. UNCHANGED <<attemptVars, hostScanVars>>
      BY <1>2, ExecuteFacts
    <2>2. spc # "idle"
      BY <2>1 DEF hostScanVars
    <2>3. PICK k \in DOMAIN commands :
            LET c == commands[k]  l == c.launch IN
            /\ RunsAt(k) /\ c \in ScanCommand
            /\ hostFlag' = IF c.op = "read" THEN [hostFlag EXCEPT ![SlotFor(l)] = flag[1]]
                           ELSE hostFlag
            /\ c.op = "jackpot" => Latch(l, xorOf[SlotFor(l)] \in marked, 1)
            /\ c.op = "kernel" => Latch(l, l \in marked, c.dev)
            /\ c.op \in {"gemm", "read"} => UNCHANGED latchVars
      BY <1>2, ExecuteFacts
    <2>. DEFINE c == commands[k]  l == c.launch
    <2>4. /\ \A d \in Devices : flag[d] => flag'[d]
          /\ \A d \in Devices : flag'[d] => \/ flag[d] /\ winner'[d] = winner[d]
                                            \/ winner'[d] = l /\ l \in marked
      BY <1>0, <2>3, RunSets
    <2>5. \A s \in {0, 1} : hostFlag'[s] => flag[1]
      BY <1>0, <2>2, <2>3 DEF LatchInv, ScanFlagTypeOK
    <2>. QED  BY <1>0, <2>1, <2>2, <2>4, <2>5, ScanConstants DEF LatchInv, attemptVars, hostScanVars
  <1>3. CASE ~BeginScan /\ ~Execute
    <2>1. UNCHANGED <<flag, winner, marked>> /\ spc # "idle"
      BY <1>0, <1>3 DEF latchVars
    <2>2. \A s \in {0, 1} : hostFlag'[s] => hostFlag[s]
      <3>1. hostFlag' = hostFlag \/ \E s \in Int : hostFlag' = [hostFlag EXCEPT ![SlotFor(s)] = FALSE]
        <4>1. CASE Launch
          <5>1. upcoming \in Int
            BY ScanConstants DEF ScanDataTypeOK
          <5>. QED  BY <4>1, <5>1 DEF Launch, GiveUp
        <4>. QED  BY <1>0, <1>3, <4>1 DEF SeesCancel, AwaitPrevious, AwaitLast, Drain, Report,
                 AwaitThis, CancelScan, GiveUp, gpuVars
      <3>. QED  BY <3>1 DEF ScanFlagTypeOK, SlotFor
    <2>3. Overlapped /\ found' => found \/ \E s \in {0, 1} : hostFlag[s]
      <3>1. \A l \in Int : SlotFor(l) \in {0, 1}
        BY DEF SlotFor
      <3>2. upcoming - 1 \in Int /\ ScanLaunches - 1 \in Int
        BY ScanConstants DEF ScanDataTypeOK
      <3>3. SlotFor(upcoming - 1) \in {0, 1} /\ SlotFor(ScanLaunches - 1) \in {0, 1}
        BY <3>1, <3>2
      <3>4. CASE AwaitPrevious
        BY <3>3, <3>4 DEF AwaitPrevious, Account
      <3>5. CASE AwaitLast
        BY <3>3, <3>5 DEF AwaitLast, Account
      <3>6. CASE Report
        BY <3>3, <3>6 DEF Report, Account
      <3>7. CASE SeesCancel \/ Launch \/ Drain \/ CancelScan
        BY <3>7 DEF SeesCancel, Launch, Drain, CancelScan, GiveUp, hostScanVars
      <3>. QED  BY <1>0, <1>3, <3>4, <3>5, <3>6, <3>7 DEF AwaitThis
    <2>. QED  BY <1>0, <2>1, <2>2, <2>3 DEF LatchInv
  <1>. QED  BY <1>1, <1>2, <1>3

\* A marked launch is seen if its hash has ended, and the host sees it if its read has.
Seen(l) == /\ ~HashQueued(l) => flag[1]
           /\ Overlapped /\ l >= upcoming - 1 /\ ~Queued("read", l) => hostFlag[SlotFor(l)]

\* Every step keeps that no marked launch is missed, across the reset of the flag of a new
\* attempt, the run of a command and the host's step to the next launch.
LEMMA SeenInvStep ==
  ASSUME ScanDataTypeOK, ScanFlagTypeOK, PlaceInv, ScanQueueInv, SeenInv, ScanNext
  PROVE  SeenInv'
  <1>. SUFFICES ASSUME spc' \notin {"idle", "return"}, backend' # "cpu",
                       NEW l \in marked', Launched(l)'
                PROVE  Seen(l)'
    BY DEF SeenInv, Seen
  <1>0. /\ backend # "cpu" /\ backend' = backend /\ Overlapped' = Overlapped
        /\ BeginScan \/ SeesCancel \/ Launch \/ AwaitPrevious \/ AwaitLast \/ Drain
           \/ AwaitThis \/ Execute \/ CancelScan
        /\ spc # "idle" \/ BeginScan \/ Execute
        /\ marked' = marked \/ BeginScan
        /\ UNCHANGED latchVars \/ BeginScan \/ Execute
    BY ScanSteps DEF Report
  <1>00. upcoming \in Nat /\ (l \in marked => l \in Nat)
    <2>1. marked \subseteq ScanLaunch /\ upcoming \in 0..ScanLaunches
      BY DEF ScanDataTypeOK
    <2>2. ScanLaunch \subseteq Nat
      BY ScanConstants DEF ScanLaunch
    <2>3. upcoming \in Nat
      BY <2>1, ScanConstants
    <2>. QED  BY <2>1, <2>2, <2>3
  <1>1. CASE BeginScan
    <2>1. l \in ScanLaunch /\ upcoming' = 0 /\ spc' # "await"
      BY <1>1 DEF BeginScan
    <2>2. l \in Nat
      BY <2>1, ScanConstants DEF ScanLaunch
    <2>. QED  BY <2>1, <2>2 DEF Launched
  <1>2. CASE Launch
    <2>1. /\ UNCHANGED <<flag, upcoming, marked>> /\ spc = "loop" /\ spc' \in {"await", "drain"}
      BY <1>2 DEF Launch, HostAt, GiveUp, attemptVars, latchVars
    <2>2. /\ \A i \in DOMAIN commands : \E j \in DOMAIN commands' : commands'[j] = commands[i]
          /\ spc' = "await" => /\ HashQueued(upcoming)'
                               /\ Overlapped => Queued("read", upcoming)'
      BY <1>2, LaunchFacts
    <2>3. CASE l = upcoming
      BY <1>0, <1>00, <2>1, <2>2, <2>3 DEF Seen, Launched, HashQueued, Queued
    <2>4. CASE l < upcoming
      <3>1. Seen(l)
        BY <1>0, <2>1, <2>4 DEF SeenInv, Seen, Launched
      <3>2. HashQueued(l) => HashQueued(l)'
        BY <2>2 DEF HashQueued
      <3>3. Queued("read", l) => Queued("read", l)'
        BY <2>2 DEF Queued
      <3>4. ASSUME l >= upcoming - 1, hostFlag[SlotFor(l)] PROVE hostFlag'[SlotFor(l)]
        <4>1. l = upcoming - 1 /\ l \in Int
          BY <1>00, <2>1, <2>4, <3>4
        <4>2. SlotFor(l) # SlotFor(upcoming) /\ SlotFor(l) \in {0, 1}
          BY <1>00, <4>1, SlotsDiffer
        <4>3. hostFlag' = hostFlag \/ hostFlag' = [hostFlag EXCEPT ![SlotFor(upcoming)] = FALSE]
          BY <1>2 DEF Launch, GiveUp
        <4>. QED  BY <3>4, <4>2, <4>3 DEF ScanFlagTypeOK
      <3>. QED  BY <1>0, <2>1, <3>1, <3>2, <3>3, <3>4 DEF Seen
    <2>. QED  BY <1>00, <2>1, <2>3, <2>4 DEF Launched
  <1>3. CASE Execute
    <2>1. UNCHANGED <<backend, marked, upcoming, spc>> /\ commands \in Seq(ScanCommand)
      BY <1>3 DEF Execute, attemptVars, hostScanVars, ScanDataTypeOK
    <2>2. PICK k \in DOMAIN commands :
            LET c == commands[k]  n == c.launch IN
            /\ RunsAt(k) /\ c \in ScanCommand
            /\ hostFlag' = IF c.op = "read" THEN [hostFlag EXCEPT ![SlotFor(n)] = flag[1]]
                           ELSE hostFlag
            /\ c.op = "jackpot" => Latch(n, xorOf[SlotFor(n)] \in marked, 1)
            /\ c.op = "kernel" => Latch(n, n \in marked, c.dev)
            /\ c.op \in {"gemm", "read"} => UNCHANGED latchVars
      BY <1>3, ExecuteFacts
    <2>. DEFINE c == commands[k]  n == c.launch
    <2>3. /\ flag[1] => flag'[1]
          /\ IsHash(c) /\ n \in marked => flag'[1]
      BY <1>0, <2>2, RunSets, ScanConstants
    <2>4. Seen(l)
      BY <1>0, <2>1 DEF SeenInv, Seen, Launched
    <2>5. \A i \in DOMAIN commands : i # k => \E j \in DOMAIN commands' : commands'[j] = commands[i]
      BY <2>1, <2>2, RunFacts
    <2>6. ~HashQueued(l)' => flag'[1]
      <3>1. CASE ~HashQueued(l)
        BY <2>3, <2>4, <3>1 DEF Seen
      <3>2. CASE HashQueued(l) /\ ~HashQueued(l)'
        <4>1. PICK i \in DOMAIN commands : IsHash(commands[i]) /\ commands[i].launch = l
          BY <3>2 DEF HashQueued
        <4>2. i = k
          BY <2>5, <3>2, <4>1 DEF HashQueued
        <4>. QED  BY <2>1, <2>3, <4>1, <4>2
      <3>. QED  BY <3>1, <3>2
    <2>7. ASSUME Overlapped, l >= upcoming - 1, ~Queued("read", l)'
          PROVE  hostFlag'[SlotFor(l)]
      <3>1. l \in Int /\ l \in {upcoming - 1, upcoming}
        BY <1>00, <2>1, <2>7 DEF Launched
      <3>2. SlotFor(l) \in {0, 1}
        BY <3>1 DEF SlotFor
      <3>3. CASE ~Queued("read", l)
        <4>1. hostFlag[SlotFor(l)]
          BY <2>4, <2>7, <3>3 DEF Seen
        <4>2. ASSUME c.op = "read" PROVE SlotFor(n) # SlotFor(l)
          <5>1. n # l
            BY <2>2, <3>3, <4>2 DEF Queued
          <5>2. n \in {upcoming - 1, upcoming} /\ n \in Int
            <6>1. n \in {upcoming - 1, upcoming}
              BY <2>2 DEF ScanQueueInv, WindowInv
            <6>. QED  BY <1>00, <6>1
          <5>3. l \in {n - 1, n + 1}
            BY <1>00, <3>1, <5>1, <5>2
          <5>. HIDE DEF n
          <5>. QED  BY <3>1, <5>2, <5>3, SlotsDiffer
        <4>. QED  BY <2>2, <3>2, <4>1, <4>2 DEF ScanFlagTypeOK
      <3>4. CASE Queued("read", l)
        <4>1. PICK i \in DOMAIN commands : commands[i].op = "read" /\ commands[i].launch = l
          BY <3>4 DEF Queued
        <4>2. i = k
          BY <2>5, <2>7, <4>1 DEF Queued
        <4>3. \A j \in DOMAIN commands : SameLaunch(j, k) => Rank(commands[j].op) # Rank(commands[k].op) - 1
          BY <2>1, <2>2, <2>7, NothingBefore DEF ScanQueueInv, CommandsInv
        <4>4. ~HashQueued(l)
          BY <4>1, <4>2, <4>3 DEF HashQueued, IsHash, SameLaunch, Rank
        <4>5. flag[1]
          BY <2>4, <4>4 DEF Seen
        <4>. QED  BY <2>2, <3>2, <4>1, <4>2, <4>5 DEF ScanFlagTypeOK
      <3>. QED  BY <3>3, <3>4
    <2>. QED  BY <1>0, <2>1, <2>6, <2>7 DEF Seen
  <1>4. CASE SeesCancel \/ AwaitPrevious \/ AwaitLast \/ Drain \/ AwaitThis \/ CancelScan
    <2>1. /\ UNCHANGED <<commands, hostFlag, flag, marked, xorOf>> /\ spc \notin {"idle", "return"}
      BY <1>0, <1>4 DEF SeesCancel, AwaitPrevious, AwaitLast, Drain, AwaitThis, CancelScan, GiveUp,
         HostAt, attemptVars, latchVars, gpuVars, hostScanVars
    <2>2. \/ spc' = spc /\ upcoming' = upcoming
          \/ spc' = "drain" /\ upcoming' = upcoming
          \/ spc' = "report" /\ upcoming' = upcoming
          \/ spc = "await" /\ spc' = "loop" /\ (upcoming' = upcoming + 1)
      <3>1. CASE SeesCancel
        BY <1>0, <3>1 DEF SeesCancel, GiveUp, HostAt
      <3>2. CASE AwaitPrevious
        BY <3>2 DEF AwaitPrevious, HostAt
      <3>3. CASE AwaitThis
        <4>1. spc = "await" /\ (spc' = "loop" \/ spc' = "return")
              /\ (upcoming' = upcoming + 1 \/ spc' = "return")
          BY <3>3 DEF AwaitThis, HostAt
        <4>. QED  BY <4>1
      <3>4. CASE AwaitLast \/ Drain \/ CancelScan
        BY <3>4 DEF AwaitLast, Drain, CancelScan, HostAt, hostScanVars
      <3>. QED  BY <1>4, <3>1, <3>2, <3>3, <3>4
    <2>3. PICK u \in Nat : /\ upcoming' = u /\ u >= upcoming
                           /\ Launched(l)
      <3>1. CASE upcoming' = upcoming /\ spc' \notin {"await"}
        BY <1>00, <3>1 DEF Launched
      <3>2. CASE spc' = spc /\ upcoming' = upcoming
        BY <1>00, <3>2 DEF Launched
      <3>3. CASE spc = "await" /\ spc' = "loop" /\ upcoming' = upcoming + 1
        <4>1. l < upcoming + 1
          BY <3>3 DEF Launched
        <4>2. l < upcoming \/ l = upcoming
          BY <1>00, <2>1, <4>1
        <4>. QED  BY <1>00, <3>3, <4>2 DEF Launched
      <3>. QED  BY <2>2, <3>1, <3>2, <3>3
    <2>4. Seen(l)
      BY <1>0, <2>1, <2>3 DEF SeenInv, Seen
    <2>5. HashQueued(l)' = HashQueued(l) /\ Queued("read", l)' = Queued("read", l)
      BY <2>1 DEF HashQueued, Queued
    <2>6. l >= u - 1 => l >= upcoming - 1
      BY <1>00, <2>1, <2>3
    <2>. QED  BY <1>0, <2>1, <2>3, <2>4, <2>5, <2>6 DEF Seen
  <1>. QED  BY <1>0, <1>1, <1>2, <1>3, <1>4

\* What the host has looked at when it is about to queue a launch or to wait for it.
LEMMA CountedInvStep ==
  ASSUME ScanDataTypeOK, PlaceInv, FoundInv, CountedInv, ScanNext
  PROVE  CountedInv'
  <1>0. /\ upcoming \in Nat /\ counted \in Nat /\ ScanLaunches \in Nat /\ ScanLaunches > 0
        /\ backend' = backend /\ Overlapped' = Overlapped
    <2>1. upcoming \in Nat /\ counted \in Nat /\ ScanLaunches \in Nat /\ ScanLaunches > 0
      BY ScanConstants DEF ScanDataTypeOK
    <2>2. backend' = backend /\ Overlapped' = Overlapped
      BY DEF ScanNext, BeginScan, SeesCancel, Launch, AwaitPrevious, AwaitLast, Drain, Report, AwaitThis,
         Return, Execute, TeamEnds, CancelScan, TakeTile, OnTile, StoreHit, TeamStep, HostAt,
         attemptVars, Overlapped
    <2>. QED  BY <2>1, <2>2
  <1>1. CASE spc' \notin {"loop", "await", "drain", "report"}
    BY <1>1 DEF CountedInv
  <1>2. CASE spc' = "drain" /\ (~ok' \/ found')
    BY <1>2 DEF CountedInv
  <1>3. CASE /\ UNCHANGED <<upcoming, counted, ok, found>>
             /\ \/ spc \in {"loop", "await"} /\ spc' \in {"loop", "await"}
                \/ spc \in {"drain", "report"} /\ spc' \in {"drain", "report"}
    BY <1>0, <1>3 DEF CountedInv
  <1>4. ASSUME NEW u \in Nat, NEW n \in Nat, upcoming' = u, counted' = n, spc' = "loop",
               n = IF Overlapped /\ u > 0 THEN u - 1 ELSE u
        PROVE  CountedInv'
    BY <1>0, <1>4 DEF CountedInv
  <1>5. CASE BeginScan
    <2>1. upcoming' = 0 /\ counted' = 0 /\ spc' \in {"team", "loop"}
      BY <1>5 DEF BeginScan
    <2>. QED  BY <1>1, <1>4, <2>1
  <1>6. CASE SeesCancel
    <2>1. spc' \in {"drain", "return"} /\ ~ok'
      BY <1>6 DEF SeesCancel, GiveUp
    <2>. QED  BY <1>1, <1>2, <2>1
  <1>7. CASE Launch
    <2>1. \/ spc' \in {"drain", "return"} /\ ~ok'
          \/ spc = "loop" /\ spc' = "await" /\ UNCHANGED <<upcoming, counted, ok, found>>
      BY <1>7 DEF Launch, GiveUp, HostAt
    <2>. QED  BY <1>1, <1>2, <1>3, <2>1
  <1>8. CASE AwaitPrevious
    <2>1. spc = "await" /\ Overlapped
      BY <1>8 DEF AwaitPrevious, HostAt
    <2>2. counted = IF upcoming > 0 THEN upcoming - 1 ELSE upcoming
      BY <2>1 DEF CountedInv
    <2>3. CASE upcoming = 0 /\ spc' = "loop" /\ upcoming' = 1 /\ counted' = counted
      BY <1>0, <1>4, <2>1, <2>2, <2>3
    <2>4. CASE /\ upcoming > 0 /\ counted' = counted + 1
               /\ spc' = "loop" /\ upcoming' = upcoming + 1
      <3>1. upcoming + 1 \in Nat /\ counted + 1 \in Nat /\ counted + 1 = (upcoming + 1) - 1
            /\ upcoming + 1 > 0
        BY <1>0, <2>2, <2>4
      <3>. QED  BY <1>4, <2>1, <2>4, <3>1
    <2>5. CASE spc' = "drain" /\ (~ok' \/ found')
      BY <1>2, <2>5
    <2>. QED  BY <1>8, <2>3, <2>4, <2>5 DEF AwaitPrevious, Account
  <1>9. CASE AwaitLast
    <2>1. spc = "loop" /\ Overlapped /\ spc' = "drain" /\ upcoming = ScanLaunches /\ upcoming' = upcoming
      BY <1>9 DEF AwaitLast, HostAt
    <2>2. counted = ScanLaunches - 1
      BY <1>0, <2>1 DEF CountedInv
    <2>3. CASE backend = "onednn" /\ counted' = counted
      BY <1>0, <2>1, <2>2, <2>3 DEF CountedInv
    <2>4. CASE backend = "opencl" /\ counted' = counted + 1
      <3>1. counted' = ScanLaunches
        BY <1>0, <2>2, <2>4
      <3>. QED  BY <1>0, <2>1, <2>4, <3>1 DEF CountedInv
    <2>5. CASE ~ok'
      BY <1>2, <2>1, <2>5
    <2>. QED  BY <1>9, <2>3, <2>4, <2>5 DEF AwaitLast, Account
  <1>10. CASE Drain
    BY <1>3, <1>10 DEF Drain, HostAt
  <1>11. CASE Report \/ Return \/ TeamEnds
    BY <1>1, <1>11 DEF Report, Return, TeamEnds
  <1>12. CASE AwaitThis
    <2>1. /\ spc = "await" /\ ~Overlapped
          /\ spc' = "return" \/ (spc' = "loop" /\ upcoming' = upcoming + 1 /\ counted' = counted + 1)
      BY <1>12 DEF AwaitThis, HostAt
    <2>2. counted = upcoming
      BY <2>1 DEF CountedInv
    <2>3. upcoming + 1 \in Nat
      BY <1>0
    <2>. QED  BY <1>1, <1>4, <2>1, <2>2, <2>3
  <1>13. CASE Execute \/ CancelScan
    <2>1. UNCHANGED <<spc, upcoming, counted, ok, found>>
      BY <1>13 DEF Execute, CancelScan, hostScanVars
    <2>. QED  BY <1>1, <1>3, <2>1
  <1>14. CASE \E t \in Devices : TakeTile(t) \/ OnTile(t) \/ StoreHit(t)
    BY <1>1, <1>14 DEF TakeTile, OnTile, StoreHit, TeamStep
  <1>. QED  BY <1>5, <1>6, <1>7, <1>8, <1>9, <1>10, <1>11, <1>12, <1>13, <1>14 DEF ScanNext

\* What the host looks at next is not marked, or it sees the hit.
LEMMA HostSees ==
  ASSUME ScanDataTypeOK, SeenInv, spc \notin {"idle", "return"}, backend # "cpu", Overlapped,
         NEW l, l = upcoming - 1, ~Queued("read", l), l \in marked
  PROVE  hostFlag[SlotFor(l)]
  <1>1. upcoming \in Nat /\ l < upcoming /\ l >= upcoming - 1
    BY ScanConstants DEF ScanDataTypeOK
  <1>. QED  BY <1>1 DEF SeenInv, Launched

\* With its commands ended, a marked launch has set the flag.
LEMMA FlagSet ==
  ASSUME SeenInv, spc = "await", backend # "cpu", commands = <<>>, upcoming \in marked
  PROVE  flag[1]
  BY DEF SeenInv, Launched, HashQueued

\* Every step keeps that what was looked at is not marked.
LEMMA CleanInvStep ==
  ASSUME ScanDataTypeOK, ScanFlagTypeOK, PlaceInv, FoundInv, CountedInv, SeenInv, CleanInv, ScanNext
  PROVE  CleanInv'
  <1>. SUFFICES ASSUME spc' \notin {"idle", "return"}, backend' # "cpu", ~found'
                PROVE  \A l \in 0..(counted' - 1) : l \notin marked'
    BY DEF CleanInv
  <1>0. /\ backend # "cpu" /\ backend' = backend /\ Overlapped' = Overlapped
        /\ BeginScan \/ SeesCancel \/ Launch \/ AwaitPrevious \/ AwaitLast \/ Drain
           \/ AwaitThis \/ Execute \/ CancelScan
        /\ spc # "idle" \/ BeginScan \/ Execute
        /\ marked' = marked \/ BeginScan
    BY ScanSteps DEF Report
  <1>00. upcoming \in Nat /\ counted \in Nat
    BY ScanConstants DEF ScanDataTypeOK
  <1>1. CASE BeginScan
    <2>1. counted' = 0
      BY <1>1 DEF BeginScan
    <2>2. \A l \in 0..(0 - 1) : FALSE
      OBVIOUS
    <2>. QED  BY <2>1, <2>2
  <1>2. CASE /\ counted' = counted /\ (found' = found \/ spc \in {"loop", "await"})
             /\ spc \notin {"idle", "return"} /\ ~BeginScan
    BY <1>0, <1>2 DEF CleanInv, FoundInv
  <1>3. CASE /\ counted' = counted + 1 /\ counted \notin marked /\ spc \in {"loop", "await"}
             /\ ~BeginScan
    <2>1. \A l \in 0..(counted - 1) : l \notin marked
      BY <1>0, <1>3 DEF CleanInv, FoundInv
    <2>2. PICK n \in Nat : counted' = n /\ n = counted + 1
      BY <1>00, <1>3
    <2>3. \A l \in 0..(n - 1) : l = counted \/ l \in 0..(counted - 1)
      BY <1>00, <2>2
    <2>. QED  BY <1>0, <1>3, <2>1, <2>2, <2>3
  <1>4. CASE SeesCancel \/ Launch \/ Drain \/ CancelScan \/ Execute
    <2>1. counted' = counted /\ found' = found /\ spc \notin {"idle", "return"} /\ ~BeginScan
      <3>1. counted' = counted /\ found' = found
        BY <1>4 DEF SeesCancel, Launch, Drain, CancelScan, Execute, GiveUp, hostScanVars
      <3>2. spc \notin {"idle", "return"}
        BY <1>4 DEF SeesCancel, Launch, Drain, CancelScan, Execute, HostAt, hostScanVars
      <3>. QED  BY <3>1, <3>2 DEF BeginScan
    <2>. QED  BY <1>2, <2>1
  <1>5. CASE AwaitPrevious
    <2>1. spc = "await" /\ Overlapped /\ ~BeginScan
      BY <1>5 DEF AwaitPrevious, HostAt, BeginScan
    <2>2. CASE counted' = counted
      BY <1>2, <2>1, <2>2
    <2>3. CASE /\ upcoming > 0 /\ ~Queued("read", upcoming - 1) /\ counted' = counted + 1
               /\ found' = hostFlag[SlotFor(upcoming - 1)]
      <3>1. counted = upcoming - 1
        BY <2>1, <2>3 DEF CountedInv
      <3>2. counted \notin marked
        BY <1>0, <2>1, <2>3, <3>1, HostSees
      <3>. QED  BY <1>3, <2>1, <2>3, <3>2
    <2>. QED  BY <1>5, <2>2, <2>3 DEF AwaitPrevious, Account
  <1>6. CASE AwaitLast
    <2>1. spc = "loop" /\ Overlapped /\ upcoming = ScanLaunches /\ ~BeginScan
      BY <1>6 DEF AwaitLast, HostAt, BeginScan
    <2>2. CASE counted' = counted
      BY <1>2, <2>1, <2>2
    <2>3. CASE /\ ~Queued("read", upcoming - 1) /\ counted' = counted + 1
               /\ found' = hostFlag[SlotFor(upcoming - 1)]
      <3>1. counted = upcoming - 1
        BY <2>1, ScanConstants DEF CountedInv
      <3>2. counted \notin marked
        BY <1>0, <2>1, <2>3, <3>1, HostSees
      <3>. QED  BY <1>3, <2>1, <2>3, <3>2
    <2>. QED  BY <1>6, <2>2, <2>3 DEF AwaitLast, Account
  <1>7. CASE AwaitThis
    <2>1. /\ spc = "await" /\ ~Overlapped /\ ~BeginScan /\ commands = <<>> /\ counted' = counted + 1
          /\ found' = \E d \in Devices : flag[d]
      BY <1>7 DEF AwaitThis, HostAt, BeginScan
    <2>2. counted = upcoming
      BY <2>1 DEF CountedInv
    <2>3. ~flag[1]
      BY <2>1, ScanConstants
    <2>4. counted \notin marked
      BY <1>0, <2>1, <2>2, <2>3, FlagSet
    <2>. QED  BY <1>3, <2>1, <2>4
  <1>. QED  BY <1>0, <1>1, <1>4, <1>5, <1>6, <1>7

\* The report of a scan with nothing marked unlooked at.
LEMMA NoneMarked ==
  ASSUME ScanDataTypeOK, NEW n \in Nat, n = ScanLaunches - 1,
         \A l \in 0..(n - 1) : l \notin marked, n \notin marked
  PROVE  marked = {}
  <1>1. \A l \in ScanLaunch : l = n \/ l \in 0..(n - 1)
    BY ScanConstants DEF ScanLaunch
  <1>. QED  BY <1>1 DEF ScanDataTypeOK

\* What the host hands to the caller.
ReturnedRight == ok => /\ found => hitAt \in marked
                       /\ ~found => counted = ScanLaunches /\ marked = {}

\* It is right for a backend that waits for each launch.
LEMMA AwaitThisReturns ==
  ASSUME ScanDataTypeOK, ScanFlagTypeOK, PlaceInv, FoundInv, LatchInv, SeenInv, CleanInv, CountedInv,
         AwaitThis, spc' = "return"
  PROVE  ReturnedRight'
  <1>0. /\ upcoming \in Nat /\ counted \in Nat /\ spc = "await" /\ ~Overlapped /\ marked' = marked
        /\ backend # "cpu" /\ ok /\ ~found /\ commands = <<>>
    <2>1. upcoming \in Nat /\ counted \in Nat
      BY ScanConstants DEF ScanDataTypeOK
    <2>2. spc = "await" /\ ~Overlapped /\ marked' = marked /\ commands = <<>>
      BY DEF AwaitThis, HostAt, attemptVars
    <2>. QED  BY <2>1, <2>2 DEF PlaceInv, FoundInv
  <1>1. CASE ~ok'
    BY <1>1 DEF ReturnedRight
  <1>2. CASE /\ found' = \E d \in Devices : flag[d]
             /\ \E d \in Devices : flag[d]
             /\ hitAt' = (IF found'
                          THEN winner[CHOOSE d \in Devices : flag[d] /\ \A e \in 1..(d - 1) : ~flag[e]]
                          ELSE hitAt)
    <2>. DEFINE First(d) == flag[d] /\ \A e \in 1..(d - 1) : ~flag[e]
                c == CHOOSE d \in Devices : First(d)
    <2>1. \E d \in Devices : First(d)
      BY <1>2, FirstDevice
    <2>2. c \in Devices /\ flag[c]
      BY <2>1
    <2>3. found' /\ hitAt' = winner[c]
      BY <1>2
    <2>. HIDE DEF c
    <2>4. winner[c] \in marked
      BY <1>0, <2>2 DEF LatchInv
    <2>. QED  BY <1>0, <2>3, <2>4 DEF ReturnedRight
  <1>3. CASE /\ ~\E d \in Devices : flag[d]
             /\ found' = \E d \in Devices : flag[d]
             /\ counted' = counted + 1 /\ upcoming' = upcoming + 1 /\ upcoming' = ScanLaunches
    <2>1. counted = upcoming /\ counted = ScanLaunches - 1 /\ counted' = ScanLaunches
      <3>1. counted = upcoming /\ counted + 1 = ScanLaunches
        BY <1>0, <1>3 DEF CountedInv
      <3>. QED  BY <1>0, <1>3, <3>1
    <2>2. \A l \in 0..(counted - 1) : l \notin marked
      BY <1>0 DEF CleanInv
    <2>3. counted \notin marked
      BY <1>0, <1>3, <2>1, FlagSet, ScanConstants
    <2>4. marked = {}
      BY <1>0, <2>1, <2>2, <2>3, NoneMarked
    <2>. QED  BY <1>0, <1>3, <2>1, <2>4 DEF ReturnedRight
  <1>4. \/ ~ok'
        \/ /\ found' = \E d \in Devices : flag[d]
           /\ counted' = counted + 1 /\ upcoming' = upcoming + 1
           /\ found' \/ upcoming' = ScanLaunches
           /\ hitAt' = (IF found'
                        THEN winner[CHOOSE d \in Devices : flag[d] /\ \A e \in 1..(d - 1) : ~flag[e]]
                        ELSE hitAt)
    BY DEF AwaitThis
  <1>. QED  BY <1>1, <1>2, <1>3, <1>4

\* It is right for a backend with overlap, whose last launch is looked at after the loop.
LEMMA ReportReturns ==
  ASSUME ScanDataTypeOK, ScanFlagTypeOK, PlaceInv, ScanQueueInv, LatchInv, SeenInv, CleanInv, CountedInv,
         Report
  PROVE  ReturnedRight'
  <1>0. /\ upcoming \in Nat /\ counted \in Nat /\ ScanLaunches - 1 \in Nat
        /\ spc = "report" /\ marked' = marked
        /\ Overlapped /\ backend # "cpu" /\ commands = <<>>
    <2>1. upcoming \in Nat /\ counted \in Nat /\ ScanLaunches - 1 \in Nat
      BY ScanConstants DEF ScanDataTypeOK
    <2>2. spc = "report" /\ marked' = marked
      BY DEF Report, HostAt, attemptVars
    <2>. QED  BY <2>1, <2>2 DEF PlaceInv, Overlapped, ScanQueueInv, EmptyInv
  <1>1. CASE ~ok'
    BY <1>1 DEF ReturnedRight
  <1>2. CASE ok' /\ ok
    <2>1. hitAt' = IF ok /\ found' THEN winner[1] ELSE hitAt
      BY <1>2 DEF Report
    <2>2. CASE backend = "onednn" /\ ~found
      <3>1. found' = hostFlag[SlotFor(ScanLaunches - 1)] /\ counted' = counted + 1
        BY <1>2, <2>2 DEF Report, Account
      <3>2. upcoming = ScanLaunches /\ counted = ScanLaunches - 1 /\ counted' = ScanLaunches
        <4>1. upcoming = ScanLaunches /\ counted = ScanLaunches - 1
          BY <1>0, <1>2, <2>2 DEF CountedInv
        <4>. QED  BY <1>0, <3>1, <4>1, ScanConstants
      <3>3. CASE found'
        <4>1. SlotFor(ScanLaunches - 1) \in {0, 1}
          BY <1>0 DEF SlotFor
        <4>2. flag[1]
          BY <1>0, <3>1, <3>3, <4>1 DEF LatchInv
        <4>3. winner[1] \in marked
          BY <1>0, <4>2, ScanConstants DEF LatchInv
        <4>. QED  BY <1>0, <1>2, <2>1, <3>3, <4>3 DEF ReturnedRight
      <3>4. CASE ~found'
        <4>1. ~Queued("read", ScanLaunches - 1)
          BY <1>0 DEF Queued
        <4>2. ScanLaunches - 1 \notin marked
          BY <1>0, <3>1, <3>2, <3>4, <4>1, HostSees
        <4>3. \A l \in 0..(counted - 1) : l \notin marked
          BY <1>0, <2>2 DEF CleanInv
        <4>4. marked = {}
          BY <1>0, <3>2, <4>2, <4>3, NoneMarked
        <4>. QED  BY <1>0, <3>2, <3>4, <4>4 DEF ReturnedRight
      <3>. QED  BY <3>3, <3>4
    <2>3. CASE found
      <3>1. found' = found
        BY <2>3 DEF Report
      <3>2. winner[1] \in marked
        BY <1>0, <2>3, ScanConstants DEF LatchInv
      <3>. QED  BY <1>0, <1>2, <2>1, <2>3, <3>1, <3>2 DEF ReturnedRight
    <2>4. CASE ~found /\ backend # "onednn"
      <3>1. found' = found /\ counted' = counted
        BY <2>4 DEF Report
      <3>2. counted = ScanLaunches
        BY <1>0, <1>2, <2>4 DEF CountedInv
      <3>3. \A l \in 0..(ScanLaunches - 1) : l \notin marked
        BY <1>0, <2>4, <3>2 DEF CleanInv
      <3>4. marked = {}
        BY <3>3 DEF ScanDataTypeOK, ScanLaunch
      <3>. QED  BY <1>0, <2>4, <3>1, <3>2, <3>4 DEF ReturnedRight
    <2>. QED  BY <2>2, <2>3, <2>4
  <1>3. CASE ~ok
    <2>1. ~ok'
      BY <1>3 DEF Report
    <2>. QED  BY <2>1 DEF ReturnedRight
  <1>. QED  BY <1>1, <1>2, <1>3

\* The types of the team of the CPU.
CpuTypeOK == task \in [Devices -> ScanLaunch \cup {Nowhere}] /\ won \subseteq Devices

\* Devices are few: a set of them gains and loses one at a time.
LEMMA DeviceSets ==
  ASSUME NEW S, S \subseteq Devices, NEW t \in Devices
  PROVE  /\ Cardinality(S) \in Nat
         /\ t \notin S => Cardinality(S \cup {t}) = Cardinality(S) + 1
         /\ t \in S => Cardinality(S \ {t}) = Cardinality(S) - 1
         /\ S = {} => Cardinality(S) = 0
  <1>1. IsFiniteSet(Devices)
    BY ScanConstants, FS_Interval DEF Devices
  <1>2. IsFiniteSet(S)
    BY <1>1, FS_Subset
  <1>. QED  BY <1>2, FS_CardinalityType, FS_AddElement, FS_RemoveElement, FS_EmptySet

\* The types of what the team's steps compute with.
LEMMA TeamFacts ==
  ASSUME ScanDataTypeOK, ScanFlagTypeOK, CpuTypeOK
  PROVE  /\ upcoming \in Nat /\ counted \in Nat /\ Nowhere \notin ScanLaunch /\ Nowhere \notin marked
         /\ \A t \in Devices : task[t] \in Int /\ (task[t] # Nowhere => task[t] \in Nat)
         /\ \A l \in marked : l \in Nat
         /\ Checking \subseteq Devices /\ Cardinality(Checking) \in Nat
  <1>1. upcoming \in Nat /\ counted \in Nat /\ Nowhere \notin ScanLaunch /\ ScanLaunch \subseteq Nat
    BY ScanConstants DEF ScanDataTypeOK, ScanLaunch, Nowhere
  <1>2. \A t \in Devices : task[t] \in Int /\ (task[t] # Nowhere => task[t] \in Nat)
    <2>1. \A t \in Devices : task[t] \in ScanLaunch \cup {Nowhere}
      BY DEF CpuTypeOK
    <2>2. Nowhere \in Int
      BY DEF Nowhere
    <2>3. \A t \in Devices : task[t] = Nowhere \/ task[t] \in Nat
      BY <1>1, <2>1
    <2>. QED  BY <2>2, <2>3
  <1>3. Checking \subseteq Devices
    BY DEF Checking
  <1>4. Cardinality(Checking) \in Nat
    BY <1>3, DeviceSets, ScanConstants
  <1>. QED  BY <1>1, <1>2, <1>3, <1>4 DEF ScanDataTypeOK

\* Taking a tile keeps the team's invariant.
LEMMA TakeStep ==
  ASSUME ScanDataTypeOK, ScanFlagTypeOK, CpuTypeOK, TeamInv, NEW t \in Devices, TakeTile(t)
  PROVE  TeamInv'
  <1>0. /\ spc = "team" /\ spc' = "team" /\ task[t] = Nowhere /\ upcoming' = upcoming + 1
        /\ UNCHANGED <<marked, cancelled, counted, flag, winner, won>>
        /\ stopScan' = (stopScan \/ cancelled)
        /\ TakenInv /\ StoredInv /\ SumInv /\ OpenInv
    BY DEF TeamInv, TakeTile, TeamStep, attemptVars, latchVars
  <1>1. /\ upcoming \in Nat /\ counted \in Nat /\ Nowhere \notin marked
        /\ \A d \in Devices : task[d] \in Int
        /\ Checking \subseteq Devices /\ Cardinality(Checking) \in Nat
        /\ \A l \in marked : l \in Nat
    BY TeamFacts
  <1>2. t \notin won
    BY <1>0, <1>1 DEF TakenInv
  <1>3. StoredInv'
    BY <1>0 DEF StoredInv
  <1>4. CASE stopScan \/ cancelled
    <2>1. task' = task /\ Checking' = Checking /\ (flag[1] \/ cancelled)
      BY <1>0, <1>4 DEF TakeTile, StoredInv, Checking
    <2>2. SumInv' /\ OpenInv'
      BY <1>0, <1>1, <2>1 DEF SumInv, OpenInv
    <2>3. TakenInv'
      BY <1>0, <1>1, <2>1 DEF TakenInv
    <2>. QED  BY <1>0, <1>3, <2>2, <2>3 DEF TeamInv
  <1>5. CASE ~(stopScan \/ cancelled)
    <2>1. task' = [task EXCEPT ![t] = upcoming]
      BY <1>5 DEF TakeTile
    <2>2. /\ task'[t] = upcoming
          /\ \A d \in Devices : d # t => task'[d] = task[d]
      BY <2>1 DEF CpuTypeOK
    <2>3. Checking' = Checking \cup {t} /\ t \notin Checking
      BY <1>0, <1>1, <1>2, <2>2 DEF Checking, Nowhere
    <2>4. Cardinality(Checking') = Cardinality(Checking) + 1
      BY <1>1, <2>3, DeviceSets
    <2>5. SumInv'
      <3>1. counted + (Cardinality(Checking) + 1) <= upcoming + 1
            /\ (~flag[1] /\ ~cancelled => counted + (Cardinality(Checking) + 1) = upcoming + 1)
        BY <1>0, <1>1 DEF SumInv
      <3>. QED  BY <1>0, <2>4, <3>1 DEF SumInv
    <2>6. OpenInv'
      <3>. SUFFICES ASSUME ~flag[1], ~cancelled, NEW l \in marked, l < upcoming + 1
                    PROVE  \E d \in Devices : task'[d] = l
        BY <1>0 DEF OpenInv
      <3>1. l = upcoming \/ l < upcoming
        BY <1>1
      <3>2. CASE l < upcoming
        <4>1. PICK d \in Devices : task[d] = l
          BY <1>0, <3>2 DEF OpenInv
        <4>2. d # t
          BY <1>0, <1>1, <4>1
        <4>. QED  BY <2>2, <4>1, <4>2
      <3>. QED  BY <2>2, <3>1, <3>2
    <2>7. TakenInv'
      BY <1>0, <1>1, <1>2, <2>2 DEF TakenInv, CpuTypeOK
    <2>. QED  BY <1>0, <1>3, <2>5, <2>6, <2>7 DEF TeamInv
  <1>. QED  BY <1>4, <1>5

\* Looking at a tile keeps the team's invariant.
LEMMA OnTileStep ==
  ASSUME ScanDataTypeOK, ScanFlagTypeOK, CpuTypeOK, TeamInv, NEW t \in Devices, OnTile(t)
  PROVE  TeamInv'
  <1>0. /\ spc = "team" /\ spc' = "team" /\ task[t] # Nowhere /\ t \notin won
        /\ UNCHANGED <<marked, cancelled, upcoming, winner>> /\ counted' = counted + 1
        /\ TakenInv /\ StoredInv /\ SumInv /\ OpenInv
    BY DEF TeamInv, OnTile, TeamStep, attemptVars
  <1>1. /\ upcoming \in Nat /\ counted \in Nat
        /\ \A d \in Devices : task[d] \in Int /\ (task[d] # Nowhere => task[d] \in Nat)
        /\ Checking \subseteq Devices /\ Cardinality(Checking) \in Nat
    BY TeamFacts
  <1>2. t \in Checking
    BY <1>0 DEF Checking
  <1>3. ASSUME Checking' = Checking \ {t}, flag'[1] \/ flag'[1] = flag[1]
        PROVE  SumInv'
    <2>1. Cardinality(Checking') = Cardinality(Checking) - 1
      BY <1>1, <1>2, <1>3, DeviceSets
    <2>2. (counted + 1) + (Cardinality(Checking) - 1) = counted + Cardinality(Checking)
      BY <1>1
    <2>. QED  BY <1>0, <1>3, <2>1, <2>2 DEF SumInv
  <1>4. CASE task[t] \in marked /\ ~flag[1]
    <2>1. flag' = [flag EXCEPT ![1] = TRUE] /\ won' = {t} /\ UNCHANGED <<task, stopScan>>
      BY <1>4 DEF OnTile
    <2>2. flag'[1]
      BY <2>1, ScanConstants DEF ScanFlagTypeOK
    <2>3. won = {}
      BY <1>0, <1>4 DEF TakenInv
    <2>4. Checking' = Checking \ {t}
      BY <2>1, <2>3 DEF Checking
    <2>5. TakenInv' /\ StoredInv' /\ OpenInv'
      BY <1>0, <1>4, <2>1, <2>2 DEF TakenInv, StoredInv, OpenInv
    <2>. QED  BY <1>0, <1>3, <2>2, <2>4, <2>5 DEF TeamInv
  <1>5. CASE ~(task[t] \in marked /\ ~flag[1])
    <2>1. /\ task' = [task EXCEPT ![t] = Nowhere] /\ stopScan' = (stopScan \/ flag[1])
          /\ UNCHANGED <<flag, won>>
      BY <1>5 DEF OnTile
    <2>2. /\ task'[t] = Nowhere
          /\ \A d \in Devices : d # t => task'[d] = task[d]
      BY <2>1 DEF CpuTypeOK
    <2>3. Checking' = Checking \ {t}
      BY <2>1, <2>2 DEF Checking
    <2>4. StoredInv'
      BY <1>0, <2>1 DEF StoredInv
    <2>5. TakenInv'
      <3>1. Nowhere < upcoming
        BY <1>1 DEF Nowhere
      <3>2. \A d \in won : d # t /\ d \in Devices
        BY <1>0 DEF CpuTypeOK
      <3>. QED  BY <1>0, <2>1, <2>2, <3>1, <3>2 DEF TakenInv
    <2>6. OpenInv'
      <3>. SUFFICES ASSUME ~flag[1], ~cancelled, NEW l \in marked, l < upcoming
                    PROVE  \E d \in Devices : task'[d] = l
        BY <1>0, <2>1 DEF OpenInv
      <3>1. PICK d \in Devices : task[d] = l
        BY <1>0 DEF OpenInv
      <3>2. d # t
        BY <1>5, <3>1
      <3>. QED  BY <2>2, <3>1, <3>2
    <2>. QED  BY <1>0, <1>3, <2>1, <2>3, <2>4, <2>5, <2>6 DEF TeamInv
  <1>. QED  BY <1>4, <1>5

\* Storing the hit keeps the team's invariant.
LEMMA StoreStep ==
  ASSUME ScanDataTypeOK, ScanFlagTypeOK, CpuTypeOK, TeamInv, NEW t \in Devices, StoreHit(t)
  PROVE  TeamInv'
  <1>0. /\ spc = "team" /\ spc' = "team" /\ t \in won /\ won' = {}
        /\ winner' = [winner EXCEPT ![1] = task[t]] /\ task' = [task EXCEPT ![t] = Nowhere]
        /\ stopScan' = TRUE
        /\ UNCHANGED <<marked, cancelled, upcoming, counted, flag>>
        /\ TakenInv /\ StoredInv /\ SumInv /\ OpenInv
    BY DEF TeamInv, StoreHit, TeamStep, attemptVars
  <1>1. /\ upcoming \in Nat /\ Nowhere < upcoming
        /\ \A d \in Devices : task[d] \in Int
    BY TeamFacts DEF Nowhere
  <1>2. flag[1] /\ won = {t} /\ task[t] \in marked
    BY <1>0 DEF TakenInv
  <1>3. /\ task'[t] = Nowhere
        /\ \A d \in Devices : d # t => task'[d] = task[d]
    BY <1>0 DEF CpuTypeOK
  <1>4. Checking' = Checking
    BY <1>0, <1>2, <1>3 DEF Checking
  <1>5. TakenInv'
    BY <1>0, <1>1, <1>3 DEF TakenInv
  <1>6. winner'[1] = task[t]
    BY <1>0, ScanConstants DEF ScanDataTypeOK
  <1>7. StoredInv'
    BY <1>0, <1>2, <1>6 DEF StoredInv
  <1>8. SumInv' /\ OpenInv'
    BY <1>0, <1>2, <1>4 DEF SumInv, OpenInv
  <1>. QED  BY <1>0, <1>5, <1>7, <1>8 DEF TeamInv

\* Every step keeps the team's invariant.
LEMMA TeamInvStep ==
  ASSUME ScanDataTypeOK, ScanFlagTypeOK, CpuTypeOK, PlaceInv, ScanQueueInv, TeamInv, ScanNext
  PROVE  TeamInv'
  <1>1. CASE \E t \in Devices : TakeTile(t) \/ OnTile(t) \/ StoreHit(t)
    BY <1>1, TakeStep, OnTileStep, StoreStep
  <1>2. CASE BeginScan
    <2>1. /\ spc = "idle" /\ upcoming' = 0 /\ counted' = 0 /\ ~flag'[1] /\ ~stopScan'
          /\ UNCHANGED <<task, won>> /\ won = {} /\ \A t \in Devices : task[t] = Nowhere
          /\ marked' \subseteq ScanLaunch
      BY <1>2, ScanConstants DEF TeamInv, BeginScan
    <2>2. Checking' = {} /\ Cardinality(Checking') = 0
      BY <2>1, FS_EmptySet DEF Checking
    <2>3. TakenInv'
      BY <2>1 DEF TakenInv, Nowhere
    <2>4. StoredInv'
      BY <2>1 DEF StoredInv
    <2>5. SumInv'
      <3>1. 0 + 0 <= 0 /\ 0 + 0 = 0
        OBVIOUS
      <3>. QED  BY <2>1, <2>2, <3>1 DEF SumInv
    <2>6. OpenInv'
      <3>1. \A l \in ScanLaunch : ~(l < 0)
        BY ScanConstants DEF ScanLaunch
      <3>. QED  BY <2>1, <3>1 DEF OpenInv
    <2>. QED  BY <2>1, <2>3, <2>4, <2>5, <2>6 DEF TeamInv
  <1>3. CASE CancelScan
    <2>1. UNCHANGED <<task, won, upcoming, marked, flag, stopScan, winner, counted, spc>> /\ cancelled'
          /\ Checking' = Checking
      BY <1>3 DEF CancelScan, hostScanVars, latchVars, cpuVars, Checking
    <2>. QED  BY <2>1 DEF TeamInv, TakenInv, StoredInv, SumInv, OpenInv
  <1>4. CASE TeamEnds
    <2>1. /\ spc = "team" /\ spc' = "return" /\ UNCHANGED <<task, won>>
          /\ \A t \in Devices : task[t] = Nowhere
      BY <1>4 DEF TeamEnds, HostAt, cpuVars
    <2>2. won = {}
      BY <2>1, TeamFacts DEF TeamInv, TakenInv, CpuTypeOK
    <2>. QED  BY <2>1, <2>2 DEF TeamInv
  <1>5. CASE spc # "team" /\ spc' # "team" /\ UNCHANGED <<task, won>>
    BY <1>5 DEF TeamInv
  <1>6. CASE Execute
    <2>1. spc' = spc /\ UNCHANGED <<task, won>> /\ commands # <<>>
      <3>1. commands # <<>>
        BY <1>6 DEF Execute
      <3>. QED  BY <1>6, <3>1, ExecuteFacts DEF hostScanVars, cpuVars
    <2>2. spc # "team"
      BY <2>1 DEF ScanQueueInv, EmptyInv
    <2>. QED  BY <1>5, <2>1, <2>2
  <1>7. CASE SeesCancel \/ Launch \/ AwaitPrevious \/ AwaitLast \/ Drain \/ Report \/ AwaitThis \/ Return
    <2>1. spc # "team" /\ UNCHANGED <<task, won>>
      BY <1>7 DEF SeesCancel, Launch, AwaitPrevious, AwaitLast, Drain, Report, AwaitThis, Return, HostAt, cpuVars
    <2>2. spc' # "team"
      BY <1>7 DEF SeesCancel, Launch, AwaitPrevious, AwaitLast, Drain, Report, AwaitThis, Return, GiveUp
    <2>. QED  BY <1>5, <2>1, <2>2
  <1>. QED  BY <1>1, <1>2, <1>3, <1>4, <1>6, <1>7 DEF ScanNext

\* What the team's attempt hands to the caller is right.
LEMMA TeamAttemptReturns ==
  ASSUME ScanDataTypeOK, ScanFlagTypeOK, CpuTypeOK, TeamInv, TeamEnds
  PROVE  ReturnedRight'
  <1>0. /\ spc = "team" /\ upcoming = ScanLaunches /\ \A t \in Devices : task[t] = Nowhere
        /\ found' = flag[1] /\ ok' = (flag[1] \/ ~cancelled)
        /\ hitAt' = (IF flag[1] THEN winner[1] ELSE hitAt)
        /\ UNCHANGED <<marked, counted>>
        /\ TakenInv /\ StoredInv /\ SumInv /\ OpenInv
    <2>1. spc = "team"
      BY DEF TeamEnds, HostAt
    <2>. QED  BY <2>1 DEF TeamInv, TeamEnds, HostAt, attemptVars
  <1>1. /\ upcoming \in Nat /\ counted \in Nat /\ Nowhere \notin marked
    BY TeamFacts
  <1>2. CASE flag[1]
    <2>1. won = {}
      BY <1>0, <1>1 DEF TakenInv, CpuTypeOK
    <2>2. winner[1] \in marked
      BY <1>2, <2>1, <1>0 DEF StoredInv
    <2>. QED  BY <1>0, <1>2, <2>2 DEF ReturnedRight
  <1>3. CASE ~flag[1] /\ ~cancelled
    <2>1. Checking = {} /\ Cardinality(Checking) = 0
      BY <1>0, FS_EmptySet DEF Checking
    <2>2. counted = ScanLaunches
      BY <1>0, <1>1, <1>3, <2>1 DEF SumInv
    <2>3. \A l \in ScanLaunch : l < ScanLaunches
      BY ScanConstants DEF ScanLaunch
    <2>4. marked = {}
      BY <1>0, <1>1, <1>3, <2>3 DEF OpenInv, ScanDataTypeOK
    <2>. QED  BY <1>0, <1>3, <2>2, <2>4 DEF ReturnedRight
  <1>4. CASE ~flag[1] /\ cancelled
    BY <1>0, <1>4 DEF ReturnedRight
  <1>. QED  BY <1>2, <1>3, <1>4

\* Every step keeps that what is reported is right.
LEMMA ReturnInvStep ==
  ASSUME ScanDataTypeOK, ScanFlagTypeOK, CpuTypeOK, PlaceInv, FoundInv, ScanQueueInv, LatchInv, SeenInv,
         CleanInv, CountedInv, TeamInv, ReturnInv, ScanNext
  PROVE  ReturnInv'
  <1>0. ReturnInv <=> (spc = "return" => ReturnedRight) /\ ScanReportIsRight
    BY DEF ReturnInv, ReturnedRight
  <1>1. CASE Return
    <2>1. /\ spc = "return" /\ spc' = "idle" /\ UNCHANGED <<commands, task, hitAt, marked, counted>>
          /\ ReturnedRight
          /\ outcome' = "hit" => ok /\ found
          /\ outcome' = "none" => ok /\ ~found
      BY <1>0, <1>1 DEF Return, HostAt, cpuVars, attemptVars
    <2>2. commands = <<>> /\ \A t \in Devices : task[t] = Nowhere
      BY <2>1 DEF TeamInv, ScanQueueInv, EmptyInv
    <2>. QED  BY <2>1, <2>2 DEF ReturnInv, ReturnedRight, ScanReportIsRight
  <1>2. CASE AwaitThis /\ spc' = "return"
    BY <1>2, AwaitThisReturns DEF ReturnInv, ReturnedRight, ScanReportIsRight
  <1>3. CASE Report
    <2>1. spc' = "return"
      BY <1>3 DEF Report
    <2>. QED  BY <1>3, <2>1, ReportReturns DEF ReturnInv, ReturnedRight, ScanReportIsRight
  <1>4. CASE TeamEnds
    <2>1. spc' = "return"
      BY <1>4 DEF TeamEnds
    <2>. QED  BY <1>4, <2>1, TeamAttemptReturns DEF ReturnInv, ReturnedRight, ScanReportIsRight
  <1>5. CASE spc' \notin {"idle", "return"}
    BY <1>5 DEF ReturnInv, ScanReportIsRight
  <1>6. CASE (SeesCancel \/ Launch) /\ spc' \in {"idle", "return"}
    <2>1. spc' = "return" /\ ~ok'
      BY <1>6 DEF SeesCancel, Launch, GiveUp
    <2>. QED  BY <2>1 DEF ReturnInv, ScanReportIsRight
  <1>7. CASE CancelScan
    <2>1. UNCHANGED <<spc, ok, found, hitAt, counted, marked>> /\ spc # "idle"
      BY <1>7 DEF CancelScan, hostScanVars
    <2>. QED  BY <2>1 DEF ReturnInv, ScanReportIsRight
  <1>8. CASE Execute
    <2>1. spc' = spc /\ commands # <<>>
      <3>1. commands # <<>>
        BY <1>8 DEF Execute
      <3>. QED  BY <1>8, <3>1, ExecuteFacts DEF hostScanVars
    <2>. QED  BY <1>5, <2>1 DEF ScanQueueInv, EmptyInv, ScanDataTypeOK
  <1>9. CASE BeginScan \/ AwaitPrevious \/ AwaitLast \/ Drain
    <2>1. spc' \notin {"idle", "return"}
      BY <1>9 DEF BeginScan, AwaitPrevious, AwaitLast, Drain
    <2>. QED  BY <1>5, <2>1
  <1>10. CASE \E t \in Devices : TakeTile(t) \/ OnTile(t) \/ StoreHit(t)
    <2>1. spc' = "team"
      BY <1>10 DEF TakeTile, OnTile, StoreHit, TeamStep
    <2>. QED  BY <1>5, <2>1
  <1>11. CASE AwaitThis /\ spc' # "return"
    <2>1. spc' = "loop"
      BY <1>11 DEF AwaitThis
    <2>. QED  BY <1>5, <2>1
  <1>. QED  BY <1>1, <1>2, <1>3, <1>4, <1>6, <1>7, <1>8, <1>9, <1>10, <1>11, <1>5 DEF ScanNext

\* The types of the host's flags.
ScanRestTypeOK ==
  /\ cancelled \in BOOLEAN /\ found \in BOOLEAN /\ ok \in BOOLEAN /\ stopScan \in BOOLEAN

\* The types of what is left.
ScanOtherTypeOK ==
  /\ scans \in 0..MaxScanAttempts /\ hitAt \in ScanLaunch \cup {Nowhere}
  /\ outcome \in {"idle", "running", "stopped", "hit", "none"}

\* The parts make up the type invariant.
LEMMA ScanTypeParts ==
  ScanDataTypeOK /\ ScanFlagTypeOK /\ CpuTypeOK /\ ScanRestTypeOK /\ ScanOtherTypeOK => ScanTypeOK
  BY DEF ScanTypeOK, ScanDataTypeOK, ScanFlagTypeOK, CpuTypeOK, ScanRestTypeOK, ScanOtherTypeOK, ScanCommand

\* Every step keeps the types of the data.
LEMMA ScanDataStep ==
  ASSUME ScanDataTypeOK, ScanFlagTypeOK, CpuTypeOK, PlaceInv, ScanQueueInv, CountedInv, TeamInv, ScanNext
  PROVE  ScanDataTypeOK'
  <1>0. /\ upcoming \in Nat /\ counted \in Nat /\ upcoming <= ScanLaunches /\ counted <= ScanLaunches
        /\ ScanLaunches \in Nat /\ ScanLaunches > 0
    BY ScanConstants DEF ScanDataTypeOK
  <1>00. /\ \A u \in Nat : u <= ScanLaunches <=> u \in 0..ScanLaunches
         /\ \A u \in Nat : u < ScanLaunches <=> u \in ScanLaunch
    BY <1>0 DEF ScanLaunch
  <1>1. backend' \in ScanBackends /\ marked' \subseteq ScanLaunch
    <2>1. backend' = backend /\ (marked' = marked \/ marked' \in SUBSET ScanLaunch)
      BY DEF ScanNext, BeginScan, SeesCancel, Launch, AwaitPrevious, AwaitLast, Drain, Report, AwaitThis,
         Return, Execute, TeamEnds, CancelScan, TakeTile, OnTile, StoreHit, TeamStep, HostAt, attemptVars
    <2>. QED  BY <2>1 DEF ScanDataTypeOK
  <1>2. spc' \in {"idle", "loop", "await", "drain", "report", "return", "team"}
    <2>1. CASE AwaitPrevious
      <3>1. spc' = "loop" \/ spc' = "drain"
        BY <2>1 DEF AwaitPrevious
      <3>. QED  BY <3>1
    <2>2. CASE AwaitThis
      <3>1. spc' = "loop" \/ spc' = "return"
        BY <2>2 DEF AwaitThis
      <3>. QED  BY <3>1
    <2>3. CASE SeesCancel \/ Launch
      BY <2>3 DEF SeesCancel, Launch, GiveUp
    <2>4. CASE BeginScan \/ AwaitLast \/ Drain \/ Report \/ Return \/ TeamEnds
      BY <2>4 DEF BeginScan, AwaitLast, Drain, Report, Return, TeamEnds
    <2>5. CASE Execute \/ CancelScan \/ \E t \in Devices : TakeTile(t) \/ OnTile(t) \/ StoreHit(t)
      <3>1. spc' = spc
        BY <2>5 DEF Execute, CancelScan, TakeTile, OnTile, StoreHit, TeamStep, hostScanVars
      <3>. QED  BY <3>1 DEF ScanDataTypeOK
    <2>. QED  BY <2>1, <2>2, <2>3, <2>4, <2>5 DEF ScanNext
  <1>3. upcoming' \in 0..ScanLaunches
    <2>1. ASSUME upcoming' = upcoming + 1, upcoming < ScanLaunches
          PROVE  upcoming' \in 0..ScanLaunches
      <3>1. upcoming + 1 \in 0..ScanLaunches
        BY <1>0, <2>1
      <3>. QED  BY <2>1, <3>1
    <2>2. CASE AwaitPrevious
      <3>1. upcoming < ScanLaunches /\ 1 \in 0..ScanLaunches
        BY <1>0, <2>2 DEF AwaitPrevious, HostAt, PlaceInv
      <3>2. upcoming' = upcoming \/ upcoming' = 1 \/ upcoming' = upcoming + 1
        BY <2>2 DEF AwaitPrevious
      <3>. QED  BY <2>1, <3>1, <3>2 DEF ScanDataTypeOK
    <2>3. CASE AwaitThis
      <3>1. upcoming < ScanLaunches
        BY <2>3 DEF AwaitThis, HostAt, PlaceInv
      <3>2. upcoming' = upcoming \/ upcoming' = upcoming + 1
        BY <2>3 DEF AwaitThis
      <3>. QED  BY <2>1, <3>1, <3>2 DEF ScanDataTypeOK
    <2>4. CASE BeginScan
      <3>1. upcoming' = 0 /\ 0 \in 0..ScanLaunches
        BY <1>0, <2>4 DEF BeginScan
      <3>. QED  BY <3>1
    <2>5. CASE \E t \in Devices : TakeTile(t)
      BY <2>1, <2>5 DEF TakeTile
    <2>6. CASE SeesCancel \/ Launch \/ AwaitLast \/ Drain \/ Report \/ Return \/ TeamEnds
               \/ Execute \/ CancelScan \/ \E t \in Devices : OnTile(t) \/ StoreHit(t)
      <3>1. upcoming' = upcoming
        BY <2>6 DEF SeesCancel, Launch, AwaitLast, Drain, Report, Return, TeamEnds, Execute, CancelScan,
           OnTile, StoreHit, GiveUp, hostScanVars
      <3>. QED  BY <3>1 DEF ScanDataTypeOK
    <2>. QED  BY <2>2, <2>3, <2>4, <2>5, <2>6 DEF ScanNext
  <1>4. counted' \in 0..ScanLaunches
    <2>1. ASSUME counted' = counted + 1, counted < ScanLaunches
          PROVE  counted' \in 0..ScanLaunches
      <3>1. counted + 1 \in 0..ScanLaunches
        BY <1>0, <2>1
      <3>. QED  BY <2>1, <3>1
    <2>2. CASE AwaitPrevious
      <3>1. counted < ScanLaunches
        BY <1>0, <2>2 DEF AwaitPrevious, HostAt, CountedInv, PlaceInv
      <3>. QED  BY <2>1, <2>2, <3>1 DEF AwaitPrevious, Account, ScanDataTypeOK
    <2>3. CASE AwaitThis
      <3>1. counted < ScanLaunches
        BY <1>0, <2>3 DEF AwaitThis, HostAt, CountedInv, PlaceInv
      <3>. QED  BY <2>1, <2>3, <3>1 DEF AwaitThis, ScanDataTypeOK
    <2>4. CASE BeginScan
      <3>1. counted' = 0 /\ 0 \in 0..ScanLaunches
        BY <1>0, <2>4 DEF BeginScan
      <3>. QED  BY <3>1
    <2>5. CASE AwaitLast
      <3>1. counted < ScanLaunches
        BY <1>0, <2>5 DEF AwaitLast, HostAt, CountedInv
      <3>. QED  BY <2>1, <2>5, <3>1 DEF AwaitLast, Account, ScanDataTypeOK
    <2>6. CASE Report
      <3>1. backend = "onednn" /\ ok /\ ~found => counted < ScanLaunches
        BY <1>0, <2>6 DEF Report, HostAt, CountedInv
      <3>. QED  BY <2>1, <2>6, <3>1 DEF Report, Account, ScanDataTypeOK
    <2>7. CASE \E t \in Devices : OnTile(t)
      <3>1. PICK t \in Devices : OnTile(t)
        BY <2>7
      <3>2. /\ spc = "team" /\ t \in Checking /\ counted' = counted + 1 /\ SumInv
        BY <3>1 DEF OnTile, TeamStep, Checking, TeamInv
      <3>3. Checking \subseteq Devices /\ Cardinality(Checking) \in Nat
        BY TeamFacts
      <3>4. Cardinality(Checking) > 0
        <4>1. Checking \ {t} \subseteq Devices
          BY <3>3
        <4>2. Cardinality(Checking \ {t}) \in Nat
          BY <4>1, DeviceSets
        <4>3. Cardinality(Checking \ {t}) = Cardinality(Checking) - 1
          BY <3>2, <3>3, DeviceSets
        <4>. QED  BY <3>3, <4>2, <4>3
      <3>5. counted < ScanLaunches
        BY <1>0, <3>2, <3>3, <3>4 DEF SumInv
      <3>. QED  BY <2>1, <3>2, <3>5
    <2>8. CASE SeesCancel \/ Launch \/ Drain \/ Return \/ TeamEnds
               \/ Execute \/ CancelScan \/ \E t \in Devices : TakeTile(t) \/ StoreHit(t)
      <3>1. counted' = counted
        BY <2>8 DEF SeesCancel, Launch, Drain, Return, TeamEnds, Execute, CancelScan,
           TakeTile, StoreHit, GiveUp, hostScanVars
      <3>. QED  BY <3>1 DEF ScanDataTypeOK
    <2>. QED  BY <2>2, <2>3, <2>4, <2>5, <2>6, <2>7, <2>8 DEF ScanNext
  <1>5. /\ commands' \in Seq(ScanCommand)
        /\ winner' \in [Devices -> ScanLaunch \cup {Nowhere}]
        /\ xorOf' \in [{0, 1} -> ScanLaunch \cup {Nowhere}]
    <2>1. CASE Launch
      <3>1. UNCHANGED <<winner, xorOf>>
        BY <2>1 DEF Launch, HostAt, latchVars
      <3>. QED  BY <2>1, <3>1, LaunchFacts DEF ScanDataTypeOK
    <2>2. CASE Execute
      <3>1. PICK k \in DOMAIN commands :
              LET c == commands[k]  l == c.launch IN
              /\ RunsAt(k) /\ c \in ScanCommand
              /\ xorOf' = IF c.op = "gemm" THEN [xorOf EXCEPT ![SlotFor(l)] = l] ELSE xorOf
              /\ c.op = "jackpot" => Latch(l, xorOf[SlotFor(l)] \in marked, 1)
              /\ c.op = "kernel" => Latch(l, l \in marked, c.dev)
              /\ c.op \in {"gemm", "read"} => UNCHANGED latchVars
        BY <2>2, ExecuteFacts
      <3>. DEFINE c == commands[k]  l == c.launch
      <3>2. l \in ScanLaunch /\ c.op \in {"gemm", "jackpot", "kernel", "read"}
        BY <3>1 DEF ScanCommand
      <3>3. commands' \in Seq(ScanCommand)
        BY <3>1, RunFacts DEF ScanDataTypeOK
      <3>4. winner' = winner \/ \E d : winner' = [winner EXCEPT ![d] = l]
        <4>1. c.op = "jackpot" \/ c.op = "kernel" => winner' = winner \/ \E d : winner' = [winner EXCEPT ![d] = l]
          BY <3>1 DEF Latch, latchVars
        <4>. QED  BY <3>1, <3>2, <4>1 DEF latchVars
      <3>. HIDE DEF l
      <3>5. winner' \in [Devices -> ScanLaunch \cup {Nowhere}]
        BY <3>2, <3>4 DEF ScanDataTypeOK
      <3>6. xorOf' \in [{0, 1} -> ScanLaunch \cup {Nowhere}]
        <4>1. xorOf' = xorOf \/ xorOf' = [xorOf EXCEPT ![SlotFor(l)] = l]
          BY <3>1 DEF l
        <4>. QED  BY <3>2, <4>1 DEF ScanDataTypeOK
      <3>. QED  BY <3>3, <3>5, <3>6
    <2>3. CASE \E t \in Devices : StoreHit(t)
      <3>1. PICK t \in Devices : winner' = [winner EXCEPT ![1] = task[t]] /\ UNCHANGED <<commands, xorOf>>
        BY <2>3 DEF StoreHit, TeamStep, gpuVars
      <3>2. task[t] \in ScanLaunch \cup {Nowhere}
        BY DEF CpuTypeOK
      <3>. QED  BY <3>1, <3>2 DEF ScanDataTypeOK
    <2>4. CASE /\ ScanNext /\ ~Launch /\ ~Execute /\ ~\E t \in Devices : StoreHit(t)
      <3>1. UNCHANGED <<commands, winner, xorOf>>
        BY <2>4 DEF ScanNext, BeginScan, SeesCancel, AwaitPrevious, AwaitLast, Drain, Report, AwaitThis,
           Return, TeamEnds, CancelScan, TakeTile, OnTile, TeamStep, HostAt, gpuVars, latchVars
      <3>. QED  BY <3>1 DEF ScanDataTypeOK
    <2>. QED  BY <2>1, <2>2, <2>3, <2>4
  <1>. QED  BY <1>1, <1>2, <1>3, <1>4, <1>5 DEF ScanDataTypeOK

\* Every step keeps the types of the flags.
LEMMA ScanFlagStep ==
  ASSUME ScanDataTypeOK, ScanFlagTypeOK, ScanNext
  PROVE  ScanFlagTypeOK'
  <1>1. CASE BeginScan
    BY <1>1 DEF BeginScan, ScanFlagTypeOK
  <1>2. CASE Launch
    <2>1. /\ flag' = flag
          /\ hostFlag' = hostFlag \/ hostFlag' = [hostFlag EXCEPT ![SlotFor(upcoming)] = FALSE]
      BY <1>2 DEF Launch, HostAt, GiveUp, latchVars
    <2>. QED  BY <2>1 DEF ScanFlagTypeOK
  <1>3. CASE Execute
    <2>1. PICK k \in DOMAIN commands :
            LET c == commands[k]  l == c.launch IN
            /\ c \in ScanCommand
            /\ hostFlag' = IF c.op = "read" THEN [hostFlag EXCEPT ![SlotFor(l)] = flag[1]] ELSE hostFlag
            /\ c.op = "jackpot" => Latch(l, xorOf[SlotFor(l)] \in marked, 1)
            /\ c.op = "kernel" => Latch(l, l \in marked, c.dev)
            /\ c.op \in {"gemm", "read"} => UNCHANGED latchVars
      BY <1>3, ExecuteFacts
    <2>. DEFINE c == commands[k]  l == c.launch
    <2>2. c.op \in {"gemm", "jackpot", "kernel", "read"}
      BY <2>1 DEF ScanCommand
    <2>3. flag' = flag \/ \E d : flag' = [flag EXCEPT ![d] = TRUE]
      <3>1. c.op = "jackpot" \/ c.op = "kernel" => flag' = flag \/ \E d : flag' = [flag EXCEPT ![d] = TRUE]
        BY <2>1 DEF Latch, latchVars
      <3>. QED  BY <2>1, <2>2, <3>1 DEF latchVars
    <2>4. flag' \in [Devices -> BOOLEAN]
      BY <2>3 DEF ScanFlagTypeOK
    <2>5. flag[1] \in BOOLEAN
      BY ScanConstants DEF ScanFlagTypeOK
    <2>6. hostFlag' \in [{0, 1} -> BOOLEAN]
      BY <2>1, <2>5 DEF ScanFlagTypeOK
    <2>. QED  BY <2>4, <2>6 DEF ScanFlagTypeOK
  <1>4. CASE \E t \in Devices : OnTile(t)
    <2>1. hostFlag' = hostFlag /\ (flag' = flag \/ flag' = [flag EXCEPT ![1] = TRUE])
      BY <1>4 DEF OnTile, TeamStep, gpuVars
    <2>. QED  BY <2>1 DEF ScanFlagTypeOK
  <1>5. CASE ~BeginScan /\ ~Launch /\ ~Execute /\ ~\E t \in Devices : OnTile(t)
    <2>1. UNCHANGED <<hostFlag, flag>>
      BY <1>5 DEF ScanNext, SeesCancel, AwaitPrevious, AwaitLast, Drain, Report, AwaitThis, GiveUp,
         Return, TeamEnds, CancelScan, TakeTile, StoreHit, TeamStep, HostAt, gpuVars, latchVars
    <2>. QED  BY <2>1 DEF ScanFlagTypeOK
  <1>. QED  BY <1>1, <1>2, <1>3, <1>4, <1>5

\* Every step keeps the types of the team.
LEMMA ScanCpuStep ==
  ASSUME ScanDataTypeOK, CpuTypeOK, ScanNext
  PROVE  CpuTypeOK'
  <1>1. CASE \E t \in Devices : TakeTile(t)
    <2>1. PICK t \in Devices : TakeTile(t)
      BY <1>1
    <2>2. /\ won' = won /\ upcoming < ScanLaunches
          /\ task' = task \/ task' = [task EXCEPT ![t] = upcoming]
      BY <2>1 DEF TakeTile
    <2>3. upcoming \in ScanLaunch
      BY <2>2, ScanConstants DEF ScanDataTypeOK, ScanLaunch
    <2>. QED  BY <2>2, <2>3 DEF CpuTypeOK
  <1>2. CASE \E t \in Devices : OnTile(t) \/ StoreHit(t)
    <2>1. PICK t \in Devices : /\ won' = won \/ won' = {t} \/ won' = {}
                               /\ task' = task \/ task' = [task EXCEPT ![t] = Nowhere]
      BY <1>2 DEF OnTile, StoreHit
    <2>2. won' \subseteq Devices
      BY <2>1 DEF CpuTypeOK
    <2>. QED  BY <2>1, <2>2 DEF CpuTypeOK
  <1>3. CASE ~\E t \in Devices : TakeTile(t) \/ OnTile(t) \/ StoreHit(t)
    <2>1. UNCHANGED <<task, won>>
      BY <1>3 DEF ScanNext, BeginScan, SeesCancel, Launch, AwaitPrevious, AwaitLast, Drain, Report, AwaitThis,
         Execute, Return, TeamEnds, CancelScan, HostAt, cpuVars
    <2>. QED  BY <2>1 DEF CpuTypeOK
  <1>. QED  BY <1>1, <1>2, <1>3

\* Every step keeps the types of the host's flags.
LEMMA ScanRestStep ==
  ASSUME ScanDataTypeOK, ScanFlagTypeOK, ScanRestTypeOK, ScanNext
  PROVE  ScanRestTypeOK'
  <1>1. flag[1] \in BOOLEAN /\ \A l \in Int : hostFlag[SlotFor(l)] \in BOOLEAN
    <2>1. \A l \in Int : SlotFor(l) \in {0, 1}
      BY DEF SlotFor
    <2>. QED  BY <2>1, ScanConstants DEF ScanFlagTypeOK
  <1>2. upcoming - 1 \in Int /\ ScanLaunches - 1 \in Int
    BY ScanConstants DEF ScanDataTypeOK
  <1>3. cancelled' \in BOOLEAN
    <2>1. cancelled' = cancelled \/ cancelled' = TRUE \/ cancelled' = FALSE
      BY DEF ScanNext, BeginScan, SeesCancel, Launch, AwaitPrevious, AwaitLast, Drain, Report, AwaitThis,
         Execute, Return, TeamEnds, CancelScan, TakeTile, OnTile, StoreHit, TeamStep, HostAt, attemptVars
    <2>. QED  BY <2>1 DEF ScanRestTypeOK
  <1>4. stopScan' \in BOOLEAN
    <2>1. \/ stopScan' = stopScan \/ stopScan' = TRUE \/ stopScan' = FALSE
          \/ stopScan' = (stopScan \/ cancelled) \/ stopScan' = (stopScan \/ flag[1])
      BY DEF ScanNext, BeginScan, SeesCancel, Launch, AwaitPrevious, AwaitLast, Drain, Report, AwaitThis,
         Execute, Return, TeamEnds, CancelScan, TakeTile, OnTile, StoreHit, TeamStep, HostAt, cpuVars
    <2>. QED  BY <1>1, <2>1 DEF ScanRestTypeOK
  <1>5. ok' \in BOOLEAN
    <2>1. \/ ok' = ok \/ ok' = TRUE \/ ok' = FALSE \/ ok' = (flag[1] \/ ~cancelled)
      BY DEF ScanNext, BeginScan, SeesCancel, Launch, AwaitPrevious, AwaitLast, Drain, Report, AwaitThis,
         Execute, Return, TeamEnds, CancelScan, TakeTile, OnTile, StoreHit, TeamStep, GiveUp, hostScanVars
    <2>. QED  BY <1>1, <2>1 DEF ScanRestTypeOK
  <1>6. found' \in BOOLEAN
    <2>1. \/ found' = found \/ found' = FALSE \/ found' = flag[1] \/ found' = (\E d \in Devices : flag[d])
          \/ found' = hostFlag[SlotFor(upcoming - 1)] \/ found' = hostFlag[SlotFor(ScanLaunches - 1)]
      BY DEF ScanNext, BeginScan, SeesCancel, Launch, AwaitPrevious, AwaitLast, Drain, Report, AwaitThis,
         Execute, Return, TeamEnds, CancelScan, TakeTile, OnTile, StoreHit, TeamStep, GiveUp, Account, hostScanVars
    <2>. QED  BY <1>1, <1>2, <2>1 DEF ScanRestTypeOK
  <1>. QED  BY <1>3, <1>4, <1>5, <1>6 DEF ScanRestTypeOK

\* Every step keeps the types of what is left.
LEMMA ScanOtherStep ==
  ASSUME ScanDataTypeOK, ScanOtherTypeOK, ScanNext
  PROVE  ScanOtherTypeOK'
  <1>1. scans' \in 0..MaxScanAttempts
    <2>1. CASE BeginScan
      <3>1. scans < MaxScanAttempts /\ scans' = scans + 1 /\ scans + 1 \in 0..MaxScanAttempts
        BY <2>1, ScanConstants DEF BeginScan, ScanOtherTypeOK
      <3>. QED  BY <3>1
    <2>2. CASE ~BeginScan
      <3>1. scans' = scans
        BY <2>2 DEF ScanNext, SeesCancel, Launch, AwaitPrevious, AwaitLast, Drain, Report, AwaitThis,
         Execute, Return, TeamEnds, CancelScan, TakeTile, OnTile, StoreHit, TeamStep, HostAt, attemptVars
      <3>. QED  BY <3>1 DEF ScanOtherTypeOK
    <2>. QED  BY <2>1, <2>2
  <1>2. outcome' \in {"idle", "running", "stopped", "hit", "none"}
    <2>1. outcome' = outcome \/ outcome' \in {"idle", "running", "stopped", "hit", "none"}
      BY DEF ScanNext, BeginScan, SeesCancel, Launch, AwaitPrevious, AwaitLast, Drain, Report, AwaitThis,
         Execute, Return, TeamEnds, CancelScan, TakeTile, OnTile, StoreHit, TeamStep, GiveUp, hostScanVars
    <2>. QED  BY <2>1 DEF ScanOtherTypeOK
  <1>3. hitAt' \in ScanLaunch \cup {Nowhere}
    <2>1. winner[1] \in ScanLaunch \cup {Nowhere}
      BY ScanConstants DEF ScanDataTypeOK
    <2>2. CASE AwaitThis
      <3>. DEFINE c == CHOOSE d \in Devices : flag[d] /\ \A e \in 1..(d - 1) : ~flag[e]
      <3>1. (\E d \in Devices : flag[d]) => c \in Devices
        BY FirstDevice
      <3>2. \/ hitAt' = hitAt
            \/ (\E d \in Devices : flag[d]) /\ hitAt' = winner[c]
        <4>1. \/ hitAt' = hitAt
              \/ /\ found' = (\E d \in Devices : flag[d])
                 /\ hitAt' = IF found' THEN winner[c] ELSE hitAt
          BY <2>2 DEF AwaitThis
        <4>. HIDE DEF c
        <4>. QED  BY <4>1
      <3>. HIDE DEF c
      <3>. QED  BY <3>1, <3>2 DEF ScanOtherTypeOK, ScanDataTypeOK
    <2>3. CASE ~AwaitThis
      <3>1. hitAt' = hitAt \/ hitAt' = Nowhere \/ hitAt' = winner[1]
        BY <2>3 DEF ScanNext, BeginScan, SeesCancel, Launch, AwaitPrevious, AwaitLast, Drain, Report,
         Execute, Return, TeamEnds, CancelScan, TakeTile, OnTile, StoreHit, TeamStep, GiveUp, hostScanVars
      <3>. QED  BY <2>1, <3>1 DEF ScanOtherTypeOK
    <2>. QED  BY <2>2, <2>3
  <1>. QED  BY <1>1, <1>2, <1>3 DEF ScanOtherTypeOK

\* Everything together.
ScanInv ==
  /\ ScanDataTypeOK /\ ScanFlagTypeOK /\ CpuTypeOK /\ ScanRestTypeOK /\ ScanOtherTypeOK
  /\ PlaceInv /\ FoundInv /\ ScanQueueInv /\ LatchInv /\ SeenInv /\ CleanInv /\ CountedInv
  /\ TeamInv /\ ReturnInv

\* It holds before the first attempt.
LEMMA ScanInitInv == ScanInit => ScanInv
  <1>. SUFFICES ASSUME ScanInit PROVE ScanInv
    OBVIOUS
  <1>. USE ScanConstants DEF ScanInit
  <1>1. ScanDataTypeOK
    <2>1. commands \in Seq(ScanCommand)
      BY EmptySeq
    <2>2. /\ winner \in [Devices -> ScanLaunch \cup {Nowhere}]
          /\ xorOf \in [{0, 1} -> ScanLaunch \cup {Nowhere}]
      OBVIOUS
    <2>3. upcoming \in 0..ScanLaunches /\ counted \in 0..ScanLaunches
      OBVIOUS
    <2>. QED  BY <2>1, <2>2, <2>3 DEF ScanDataTypeOK
  <1>2. ScanFlagTypeOK /\ CpuTypeOK
    BY DEF ScanFlagTypeOK, CpuTypeOK
  <1>3. ScanRestTypeOK /\ ScanOtherTypeOK
    BY DEF ScanRestTypeOK, ScanOtherTypeOK
  <1>4. PlaceInv /\ FoundInv /\ CountedInv
    BY DEF PlaceInv, FoundInv, CountedInv
  <1>5. ScanQueueInv
    BY EmptyQueue DEF ScanQueueInv
  <1>6. LatchInv /\ SeenInv /\ CleanInv
    BY DEF LatchInv, SeenInv, CleanInv
  <1>7. TeamInv
    BY DEF TeamInv
  <1>8. ReturnInv
    BY DEF ReturnInv, ScanReportIsRight
  <1>. QED  BY <1>1, <1>2, <1>3, <1>4, <1>5, <1>6, <1>7, <1>8 DEF ScanInv

\* Every step keeps it.
LEMMA ScanStep ==
  ASSUME ScanInv, [ScanNext]_scanVars
  PROVE  ScanInv'
  <1>1. CASE ScanNext
    <2>. USE <1>1 DEF ScanInv
    <2>1. ScanDataTypeOK' /\ ScanFlagTypeOK' /\ CpuTypeOK'
      BY ScanDataStep, ScanFlagStep, ScanCpuStep
    <2>2. ScanRestTypeOK' /\ ScanOtherTypeOK'
      BY ScanRestStep, ScanOtherStep
    <2>3. PlaceInv' /\ FoundInv' /\ ScanQueueInv'
      BY PlaceInvStep, FoundInvStep, ScanQueueStep
    <2>4. LatchInv' /\ SeenInv'
      BY LatchInvStep, SeenInvStep
    <2>5. CleanInv' /\ CountedInv'
      BY CleanInvStep, CountedInvStep
    <2>6. TeamInv' /\ ReturnInv'
      BY TeamInvStep, ReturnInvStep
    <2>. QED  BY <2>1, <2>2, <2>3, <2>4, <2>5, <2>6
  <1>2. CASE UNCHANGED scanVars
    <2>. USE <1>2 DEF scanVars, attemptVars, hostScanVars, gpuVars, latchVars, cpuVars
    <2>1. (ScanDataTypeOK /\ ScanFlagTypeOK /\ CpuTypeOK => ScanDataTypeOK' /\ ScanFlagTypeOK' /\ CpuTypeOK')
      BY DEF ScanDataTypeOK, ScanFlagTypeOK, CpuTypeOK
    <2>2. (ScanRestTypeOK /\ ScanOtherTypeOK => ScanRestTypeOK' /\ ScanOtherTypeOK')
      BY DEF ScanRestTypeOK, ScanOtherTypeOK
    <2>3. PlaceInv /\ FoundInv /\ CountedInv => PlaceInv' /\ FoundInv' /\ CountedInv'
      BY DEF PlaceInv, FoundInv, CountedInv, Overlapped
    <2>4. ScanQueueInv => ScanQueueInv'
      BY DEF ScanQueueInv, CommandsInv, OpsInv, OrderInv, XorInv, WindowInv, CompleteInv, EmptyInv,
         Overlapped, SameLaunch
    <2>5. LatchInv /\ SeenInv /\ CleanInv => LatchInv' /\ SeenInv' /\ CleanInv'
      BY DEF LatchInv, SeenInv, CleanInv, Overlapped, Launched, HashQueued, Queued
    <2>6. TeamInv => TeamInv'
      BY DEF TeamInv, TakenInv, StoredInv, SumInv, OpenInv, Checking
    <2>7. ReturnInv => ReturnInv'
      BY DEF ReturnInv, ScanReportIsRight
    <2>. QED  BY <2>1, <2>2, <2>3, <2>4, <2>5, <2>6, <2>7 DEF ScanInv
  <1>. QED  BY <1>1, <1>2
================================================================================
